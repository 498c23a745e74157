---------------------------- MODULE Universe_proofs ----------------------------
(***************************************************************************)
(* What the two cached lists guarantee to a scan, for any companies, any   *)
(* number of scans and any lifetime of the files.                          *)
(***************************************************************************)
EXTENDS Universe, TLAPS

(***************************************************************************)
(* Types.                                                                  *)
(***************************************************************************)
(* What a scan ends with are tickers, and the master list is made of them. *)
LEMMA MasterIsTyped == MasterUniverse \in SUBSET Tickers
BY UniverseAssumption DEF MasterUniverse, Tickers, Symbols, Ticker

LEMMA TypeInitial == UniverseInit => UniverseTypeOK
<1> SUFFICES ASSUME UniverseInit PROVE UniverseTypeOK
  OBVIOUS
<1> Known \in Nat /\ ListTTL \in Nat
  BY UniverseAssumption DEF Known
<1> QED
  BY DEF UniverseInit, UniverseTypeOK, NoNse, Nothing

LEMMA TypeStep == UniverseTypeOK /\ [UniverseNext]_uvars => UniverseTypeOK'
<1> SUFFICES ASSUME UniverseTypeOK, [UniverseNext]_uvars PROVE UniverseTypeOK'
  OBVIOUS
<1> Known \in Nat /\ ListTTL \in Nat
  BY UniverseAssumption DEF Known
<1> USE DEF UniverseTypeOK, Goto
<1>1. ASSUME NEW s \in Scans, NEW tickers \in SUBSET Tickers,
             NEW source \in {"master", "live", "partial", "static", "restricted"},
             End(s, tickers, source)
      PROVE  /\ step' \in [Scans -> {"idle", "master", "nse", "bse", "pipeline", "found"}]
             /\ found' \in [Scans -> [tickers : SUBSET Tickers,
                                      source : {"none", "master", "live", "partial",
                                                "static", "restricted"}]]
  BY <1>1 DEF End
<1>2. ASSUME NEW s \in Scans, NEW only \in SUBSET Symbols, NEW whole \in BOOLEAN,
             Combine(s, only, whole)
      PROVE  /\ step' \in [Scans -> {"idle", "master", "nse", "bse", "pipeline", "found"}]
             /\ found' \in [Scans -> [tickers : SUBSET Tickers,
                                      source : {"none", "master", "live", "partial",
                                                "static", "restricted"}]]
  <2> DEFINE t == {Ticker(c, "NS") : c \in nseSet[s].listed} \cup {Ticker(b, "BO") : b \in only}
             w == IF ~nseSet[s].live THEN "static" ELSE IF whole THEN "live" ELSE "partial"
  <2>1. t \in SUBSET Tickers
    BY DEF Tickers, Symbols, Ticker
  <2>2. w \in {"master", "live", "partial", "static", "restricted"}
    OBVIOUS
  <2>3. End(s, t, w)
    BY <1>2 DEF Combine
  <2> HIDE DEF t, w
  <2> QED BY <2>1, <2>2, <2>3, <1>1
<1>3. CASE AnHour
  BY <1>3 DEF AnHour
<1>4. CASE ListingChanges
  BY <1>4, UniverseAssumption DEF ListingChanges
<1>5. ASSUME NEW s \in Scans, Resolve(s) PROVE UniverseTypeOK'
  BY <1>5 DEF Resolve
<1>6. ASSUME NEW s \in Scans, AskMaster(s) PROVE UniverseTypeOK'
  <2>1. CASE End(s, MasterUniverse, "master")
    BY <2>1, <1>1, <1>6, MasterIsTyped DEF AskMaster
  <2>2. CASE Goto(s, "nse") /\ UNCHANGED found
    BY <2>2, <1>6 DEF AskMaster
  <2> QED BY <2>1, <2>2, <1>6 DEF AskMaster
<1>7. ASSUME NEW s \in Scans, Unreadable(s) PROVE UniverseTypeOK'
  BY <1>7 DEF Unreadable
<1>8. ASSUME NEW s \in Scans, NseFromFile(s) PROVE UniverseTypeOK'
  BY <1>8 DEF NseFromFile, TakeNse
<1>9. ASSUME NEW s \in Scans, NseDownload(s) PROVE UniverseTypeOK'
  BY <1>9 DEF NseDownload, TakeNse
<1>10. ASSUME NEW s \in Scans, NseFails(s) PROVE UniverseTypeOK'
  BY <1>10, UniverseAssumption DEF NseFails, TakeNse
<1>11. ASSUME NEW s \in Scans, BseFromFile(s) PROVE UniverseTypeOK'
  <2> DEFINE only  == bseFile.only
             whole == bseFile.whole
  <2>1. only \in SUBSET Symbols /\ whole \in BOOLEAN
    OBVIOUS
  <2>2. Combine(s, only, whole)
    BY <1>11 DEF BseFromFile
  <2> HIDE DEF only, whole
  <2>3. /\ step' \in [Scans -> {"idle", "master", "nse", "bse", "pipeline", "found"}]
        /\ found' \in [Scans -> [tickers : SUBSET Tickers,
                                 source : {"none", "master", "live", "partial",
                                           "static", "restricted"}]]
    <3> HIDE DEF UniverseTypeOK, Goto
    <3> QED BY <2>1, <2>2, <1>2, Zenon
  <2> QED BY <2>3, <1>11 DEF BseFromFile
<1>12. ASSUME NEW s \in Scans, BseDownload(s) PROVE UniverseTypeOK'
  <2> PICK arrived \in SUBSET BseListed :
        LET only  == BseOnly(arrived, nseSet[s].listed)
            whole == arrived = BseListed /\ nseSet[s].live
        IN \/ /\ bseFile' = [only |-> only, age |-> 0, whole |-> whole]
              /\ Combine(s, only, whole)
           \/ /\ UNCHANGED bseFile
              /\ Combine(s, {}, FALSE)
    BY <1>12 DEF BseDownload
  <2> DEFINE only == BseOnly(arrived, nseSet[s].listed)
             whole == arrived = BseListed /\ nseSet[s].live
  <2>1. only \in SUBSET Symbols /\ whole \in BOOLEAN
    BY DEF BseOnly, Symbols
  <2>2. CASE bseFile' = [only |-> only, age |-> 0, whole |-> whole] /\ Combine(s, only, whole)
    <3> HIDE DEF only, whole
    <3>1. /\ step' \in [Scans -> {"idle", "master", "nse", "bse", "pipeline", "found"}]
          /\ found' \in [Scans -> [tickers : SUBSET Tickers,
                                   source : {"none", "master", "live", "partial",
                                             "static", "restricted"}]]
          BY <2>1, <2>2, <1>2
    <3>2. bseFile' \in [only : SUBSET Symbols, age : 0..ListTTL, whole : BOOLEAN]
      BY <2>1, <2>2
    <3>3. UNCHANGED <<nse, since, nseFile, nseSet>>
      BY <1>12 DEF BseDownload
    <3> QED BY <3>1, <3>2, <3>3
  <2>3. CASE UNCHANGED bseFile /\ Combine(s, {}, FALSE)
    BY <2>3, <1>2, <1>12 DEF BseDownload
  <2> QED BY <2>2, <2>3
<1>13. ASSUME NEW s \in Scans, PipelineDefault(s) PROVE UniverseTypeOK'
  <2>1. {Ticker(c, "NS") : c \in Restricted} \in SUBSET Tickers
    BY UniverseAssumption DEF Tickers, Symbols, Ticker
  <2> QED BY <2>1, <1>1, <1>13 DEF PipelineDefault
<1>14. ASSUME NEW s \in Scans, Leave(s) PROVE UniverseTypeOK'
  BY <1>14 DEF Leave, NoNse, Nothing
<1>15. CASE UNCHANGED uvars
  BY <1>15 DEF uvars
<1> QED
  BY <1>3, <1>4, <1>5, <1>6, <1>7, <1>8, <1>9, <1>10, <1>11, <1>12, <1>13, <1>14,
     <1>15 DEF UniverseNext

(* Files, steps and universes have their types: in particular whatever the *)
(* downloads return, a scan is given tickers of one of the two feeds.      *)
THEOREM TypeCorrect == UniverseSpec => []UniverseTypeOK
<1>1. UniverseInit => UniverseTypeOK
  BY TypeInitial
<1>2. UniverseTypeOK /\ [UniverseNext]_uvars => UniverseTypeOK'
  BY TypeStep
<1> QED BY <1>1, <1>2, PTL DEF UniverseSpec

(***************************************************************************)
(* The files. An hour that has not passed since a listing changed may be   *)
(* the hour of the download, hence the strict comparison.                  *)
(***************************************************************************)
Agree(only, c) == c \in only <=> c \notin nse

(* The list of NSE is right about what changed before it was downloaded;   *)
(* what a scan took from it about what changed a lifetime ago; and the     *)
(* list of BSE, compared with such a set, a lifetime before its download.  *)
ListsInv ==
  /\ nseFile.age < ListTTL /\ nseFile.listed # {} =>
       \A c \in Companies : since[c] > nseFile.age => (c \in nseFile.listed <=> c \in nse)
  /\ \A s \in Scans : step[s] = "bse" /\ nseSet[s].live =>
       \A c \in Companies : since[c] >= ListTTL => (c \in nseSet[s].listed <=> c \in nse)
  /\ bseFile.age < ListTTL /\ bseFile.only # {} /\ bseFile.whole =>
       \A c \in BseListed : BseSymbol[c] = c /\ since[c] >= bseFile.age + ListTTL =>
         Agree(bseFile.only, c)

UInv == UniverseTypeOK /\ ListsInv /\ ListingsArrive /\ OneFeed

LEMMA InvInitial == UniverseInit => UInv
<1> SUFFICES ASSUME UniverseInit PROVE UInv
  OBVIOUS
<1>1. UniverseTypeOK
  BY TypeInitial
<1>2. ListsInv /\ ListingsArrive /\ OneFeed
  BY UniverseAssumption DEF UniverseInit, ListsInv, ListingsArrive, OneFeed, FromLists
<1> QED BY <1>1, <1>2 DEF UInv

(* What a scan knows when it combines its two lists is what it ends with. *)
LEMMA Combined ==
  ASSUME UniverseTypeOK, ListingsArrive, OneFeed,
         NEW s \in Scans, NEW only \in SUBSET Symbols, NEW whole \in BOOLEAN,
         Combine(s, only, whole), UNCHANGED <<nse, since>>,
         nseSet[s].live =>
           \A c \in Companies : since[c] >= ListTTL => (c \in nseSet[s].listed <=> c \in nse),
         whole =>
           \A c \in BseListed :
             BseSymbol[c] = c /\ since[c] >= Known - 1 => Agree(only, c)
  PROVE  ListingsArrive' /\ OneFeed'
<1> DEFINE listed == nseSet[s].listed
           live == nseSet[s].live
           t == {Ticker(c, "NS") : c \in listed} \cup {Ticker(b, "BO") : b \in only}
           w == IF ~live THEN "static" ELSE IF whole THEN "live" ELSE "partial"
<1>1. /\ found' = [found EXCEPT ![s] = [tickers |-> t, source |-> w]]
      /\ step' = [step EXCEPT ![s] = "found"]
  BY DEF Combine, End, Goto
<1>2. /\ found'[s].tickers = t /\ found'[s].source = w /\ step'[s] = "found"
      /\ \A q \in Scans : q # s => found'[q] = found[q] /\ step'[q] = step[q]
  BY <1>1 DEF UniverseTypeOK
<1>3. \A c : /\ Ticker(c, "NS") \in t <=> c \in listed
             /\ Ticker(c, "BO") \in t <=> c \in only
  BY DEF Ticker
<1>4. /\ since \in [Companies -> 0..Known] /\ ListTTL \in Nat \ {0}
      /\ Known = 2 * ListTTL /\ BseListed \subseteq Companies
  BY UniverseAssumption DEF UniverseTypeOK, Known
<1>5. /\ w \in {"live", "partial"} => live
      /\ w = "live" => live /\ whole
  OBVIOUS
<1> HIDE DEF t, w, listed, live
<1>6. ListingsArrive'
  <2> SUFFICES ASSUME NEW q \in Scans, FromLists(q)', NEW c \in Companies, since[c] >= ListTTL
               PROVE  Ticker(c, "NS") \in found'[q].tickers <=> c \in nse
    BY DEF ListingsArrive, Covers
  <2>1. CASE q = s
    <3>1. live
      BY <2>1, <1>2, <1>5 DEF FromLists
    <3> QED BY <2>1, <3>1, <1>2, <1>3 DEF live, listed
  <2>2. CASE q # s
    BY <2>2, <1>2 DEF ListingsArrive, FromLists, Covers
  <2> QED BY <2>1, <2>2
<1>7. OneFeed'
  <2> SUFFICES ASSUME NEW q \in Scans, step'[q] = "found", found'[q].source = "live",
                      NEW c \in BseListed, BseSymbol[c] = c, since[c] >= Known - 1
               PROVE  Ticker(c, "NS") \in found'[q].tickers
                        <=> ~(Ticker(c, "BO") \in found'[q].tickers)
    BY DEF OneFeed, Covers
  <2>1. CASE q = s
    <3>1. live /\ whole
      BY <2>1, <1>2, <1>5
    <3>2. since[c] >= ListTTL
      BY <1>4
    <3>3. c \in listed <=> c \in nse
      BY <3>1, <3>2, <1>4 DEF live, listed
    <3>4. c \in only <=> c \notin nse
      BY <3>1 DEF Agree
    <3> QED BY <2>1, <3>3, <3>4, <1>2, <1>3
  <2>2. CASE q # s
    BY <2>2, <1>2 DEF OneFeed, Covers
  <2> QED BY <2>1, <2>2
<1> QED BY <1>6, <1>7

LEMMA ListsStep == UInv /\ [UniverseNext]_uvars => ListsInv'
<1> SUFFICES ASSUME UInv, [UniverseNext]_uvars PROVE ListsInv'
  OBVIOUS
<1>1. /\ UniverseTypeOK /\ ListsInv
      /\ ListTTL \in Nat \ {0} /\ Known = 2 * ListTTL /\ BseListed \subseteq Companies
      /\ since \in [Companies -> 0..Known]
  BY UniverseAssumption DEF UInv, UniverseTypeOK, Known
<1>2. CASE AnHour
  <2>1. /\ \A c \in Companies : since'[c] = IF since[c] = Known THEN Known ELSE since[c] + 1
        /\ nseFile'.age = IF nseFile.age = ListTTL THEN ListTTL ELSE nseFile.age + 1
        /\ nseFile'.listed = nseFile.listed
        /\ bseFile'.age = IF bseFile.age = ListTTL THEN ListTTL ELSE bseFile.age + 1
        /\ bseFile'.only = bseFile.only /\ bseFile'.whole = bseFile.whole
        /\ nseFile.age \in 0..ListTTL /\ bseFile.age \in 0..ListTTL
        /\ UNCHANGED <<nse, step, nseSet>> /\ \A s \in Scans : step[s] = "idle"
    BY <1>1, <1>2 DEF AnHour, UniverseTypeOK
  <2>2. nseFile'.age < ListTTL => nseFile'.age = nseFile.age + 1 /\ nseFile.age < ListTTL
    BY <2>1, <1>1
  <2>3. bseFile'.age < ListTTL => bseFile'.age = bseFile.age + 1 /\ bseFile.age < ListTTL
    BY <2>1, <1>1
  <2>4. ASSUME NEW c \in Companies, nseFile'.age < ListTTL, since'[c] > nseFile'.age
        PROVE  since[c] > nseFile.age
    BY <2>4, <2>1, <2>2, <1>1
  <2>5. ASSUME NEW c \in BseListed, bseFile'.age < ListTTL, since'[c] >= bseFile'.age + ListTTL
        PROVE  since[c] >= bseFile.age + ListTTL
    BY <2>5, <2>1, <2>3, <1>1
  <2> QED BY <2>1, <2>2, <2>3, <2>4, <2>5, <1>1 DEF ListsInv, Agree
<1>3. CASE ListingChanges
  <2> PICK c \in Movers : /\ nse' = IF c \in nse THEN nse \ {c} ELSE nse \cup {c}
                          /\ since' = [since EXCEPT ![c] = 0]
    BY <1>3 DEF ListingChanges
  <2>1. /\ c \in Companies /\ since'[c] = 0
        /\ \A d \in Companies : d # c => since'[d] = since[d] /\ (d \in nse' <=> d \in nse)
        /\ nseFile.age >= 0 /\ bseFile.age + ListTTL > 0
        /\ nseFile.age \in Nat /\ bseFile.age \in Nat
    BY <1>1, UniverseAssumption DEF UniverseTypeOK
  <2>2. UNCHANGED <<nseFile, bseFile, step, nseSet>>
    BY <1>3 DEF ListingChanges
  <2>3. ASSUME NEW d \in Companies, since'[d] > 0
        PROVE  d # c /\ since'[d] = since[d] /\ (d \in nse' <=> d \in nse)
    BY <2>3, <2>1
  <2>4. ASSUME NEW d \in Companies, since'[d] > nseFile.age PROVE since'[d] > 0
    BY <2>4, <2>1, <1>1
  <2>5. ASSUME NEW d \in Companies, since'[d] >= ListTTL PROVE since'[d] > 0
    BY <2>5, <2>1, <1>1
  <2>6. ASSUME NEW d \in Companies, since'[d] >= bseFile.age + ListTTL PROVE since'[d] > 0
    BY <2>6, <2>1, <1>1
  <2> QED BY <2>2, <2>3, <2>4, <2>5, <2>6, <1>1 DEF ListsInv, Agree
<1>4. ASSUME NEW s \in Scans, step' = [step EXCEPT ![s] = step'[s]], step'[s] # "bse",
             UNCHANGED <<nse, since, nseFile, bseFile, nseSet>>
      PROVE  ListsInv'
  BY <1>4, <1>1 DEF ListsInv, Agree, UniverseTypeOK
<1>5. ASSUME NEW s \in Scans,
             Resolve(s) \/ AskMaster(s) \/ Unreadable(s) \/ PipelineDefault(s) \/ BseFromFile(s)
      PROVE  ListsInv'
  BY <1>5, <1>4, <1>1
  DEF Resolve, AskMaster, Unreadable, PipelineDefault, BseFromFile, Combine, End, Goto,
      UniverseTypeOK
<1>6. ASSUME NEW s \in Scans, NEW listed \in SUBSET Companies, NEW live \in BOOLEAN,
             TakeNse(s, listed, live),
             live => \A c \in Companies : since[c] >= ListTTL => (c \in listed <=> c \in nse),
             \/ UNCHANGED nseFile
             \/ nseFile' = [listed |-> nse, age |-> 0]
      PROVE  ListsInv'
  <2>1. /\ nseSet'[s] = [listed |-> listed, live |-> live]
        /\ \A q \in Scans : q # s => nseSet'[q] = nseSet[q] /\ step'[q] = step[q]
        /\ UNCHANGED <<nse, since, bseFile>>
    BY <1>6, <1>1 DEF TakeNse, Goto, UniverseTypeOK
  <2>2. \A q \in Scans : step'[q] = "bse" /\ nseSet'[q].live =>
          \A c \in Companies : since[c] >= ListTTL => (c \in nseSet'[q].listed <=> c \in nse)
    BY <2>1, <1>6, <1>1 DEF ListsInv
  <2>3. nseFile'.age < ListTTL /\ nseFile'.listed # {} =>
          \A c \in Companies : since[c] > nseFile'.age => (c \in nseFile'.listed <=> c \in nse)
    BY <1>6, <1>1 DEF ListsInv
  <2> QED BY <2>1, <2>2, <2>3, <1>1 DEF ListsInv, Agree
<1>7. ASSUME NEW s \in Scans, NseFromFile(s) PROVE ListsInv'
  <2>0. nseFile.listed \in SUBSET Companies /\ nseFile.age \in 0..ListTTL
    BY <1>1 DEF UniverseTypeOK
  <2>1. /\ TakeNse(s, nseFile.listed, TRUE) /\ UNCHANGED nseFile
        /\ nseFile.listed # {} /\ nseFile.age < ListTTL
    BY <1>7 DEF NseFromFile, NseCached, Fresh
  <2>2. \A c \in Companies : since[c] >= ListTTL => (c \in nseFile.listed <=> c \in nse)
    BY <2>0, <2>1, <1>1 DEF ListsInv
  <2> DEFINE listed == nseFile.listed
  <2>3. listed \in SUBSET Companies /\ TakeNse(s, listed, TRUE)
    BY <2>0, <2>1
  <2>4. \A c \in Companies : since[c] >= ListTTL => (c \in listed <=> c \in nse)
    BY <2>2
  <2> HIDE DEF listed
  <2> QED BY <2>1, <2>3, <2>4, <1>6
<1>8. ASSUME NEW s \in Scans, NseDownload(s) PROVE ListsInv'
  <2>1. TakeNse(s, nse, TRUE) /\ nseFile' = [listed |-> nse, age |-> 0] /\ nse \in SUBSET Companies
    BY <1>8, <1>1 DEF NseDownload, UniverseTypeOK
  <2> QED BY <2>1, <1>6
<1>9. ASSUME NEW s \in Scans, NseFails(s) PROVE ListsInv'
  <2>1. TakeNse(s, Static, FALSE) /\ UNCHANGED nseFile /\ Static \in SUBSET Companies
    BY <1>9, UniverseAssumption DEF NseFails
  <2> QED BY <2>1, <1>6
<1>10. ASSUME NEW s \in Scans, BseDownload(s) PROVE ListsInv'
  <2>1. /\ UNCHANGED <<nse, since, nseFile, nseSet>>
        /\ step' = [step EXCEPT ![s] = "found"] /\ step[s] = "bse"
    BY <1>10 DEF BseDownload, Combine, End, Goto
  <2>2. CASE UNCHANGED bseFile
    BY <2>1, <2>2, <1>1 DEF ListsInv, Agree, UniverseTypeOK
  <2>3. CASE \E arrived \in SUBSET BseListed :
               bseFile' = [only |-> BseOnly(arrived, nseSet[s].listed), age |-> 0,
                           whole |-> arrived = BseListed /\ nseSet[s].live]
    <3> PICK arrived \in SUBSET BseListed :
               bseFile' = [only |-> BseOnly(arrived, nseSet[s].listed), age |-> 0,
                           whole |-> arrived = BseListed /\ nseSet[s].live]
      BY <2>3
    <3>1. ASSUME bseFile'.whole, NEW c \in BseListed, BseSymbol[c] = c,
                 since[c] >= bseFile'.age + ListTTL
          PROVE  c \in bseFile'.only <=> c \notin nse
      <4>0. bseFile'.age = 0 /\ bseFile'.whole = (arrived = BseListed /\ nseSet[s].live)
        OBVIOUS
      <4>1. arrived = BseListed /\ nseSet[s].live
        BY <4>0, <3>1, Zenon
      <4>2. since[c] >= ListTTL
        BY <4>0, <3>1, <1>1
      <4>3. c \in nseSet[s].listed <=> c \in nse
        BY <4>1, <4>2, <2>1, <1>1 DEF ListsInv
      <4>4. c \in bseFile'.only <=> c \notin nseSet[s].listed
        BY <4>1, <3>1 DEF BseOnly
      <4> QED BY <4>3, <4>4
    <3> QED BY <3>1, <2>1, <1>1 DEF ListsInv, Agree, UniverseTypeOK
  <2> QED BY <2>2, <2>3, <1>10 DEF BseDownload
<1>11. ASSUME NEW s \in Scans, Leave(s) PROVE ListsInv'
  BY <1>11, <1>1 DEF Leave, NoNse, Goto, ListsInv, Agree, UniverseTypeOK
<1>12. CASE UNCHANGED uvars
  BY <1>12, <1>1 DEF uvars, ListsInv, Agree
<1> QED
  BY <1>2, <1>3, <1>5, <1>7, <1>8, <1>9, <1>10, <1>11, <1>12 DEF UniverseNext

(***************************************************************************)
(* The two properties of the universes.                                    *)
(***************************************************************************)
(* What the file of BSE says about a stock of two lifetimes is right.      *)
LEMMA FileOfBse ==
  ASSUME UInv, bseFile.only # {}, bseFile.age < ListTTL, bseFile.whole,
         NEW c \in BseListed, BseSymbol[c] = c, since[c] >= Known - 1
  PROVE  Agree(bseFile.only, c)
<1>1. /\ since[c] \in Int /\ bseFile.age \in 0..ListTTL
      /\ ListTTL \in Nat \ {0} /\ Known = 2 * ListTTL
  BY UniverseAssumption DEF UInv, UniverseTypeOK, Known
<1>2. since[c] >= bseFile.age + ListTTL
  BY <1>1
<1> QED BY <1>2 DEF UInv, ListsInv

(* No step lets a scan find a universe that is too old.                    *)
LEMMA FoundStep ==
  ASSUME UInv, [UniverseNext]_uvars
  PROVE  ListingsArrive' /\ OneFeed'
<1>1. /\ UniverseTypeOK /\ ListsInv /\ ListingsArrive /\ OneFeed
      /\ ListTTL \in Nat \ {0} /\ Known = 2 * ListTTL /\ BseListed \subseteq Companies
      /\ since \in [Companies -> 0..Known]
  BY UniverseAssumption DEF UInv, UniverseTypeOK, Known
<1>2. CASE AnHour
  BY <1>2 DEF AnHour, ListingsArrive, OneFeed, FromLists
<1>3. CASE ListingChanges
  <2> PICK c \in Movers : /\ nse' = IF c \in nse THEN nse \ {c} ELSE nse \cup {c}
                          /\ since' = [since EXCEPT ![c] = 0]
    BY <1>3 DEF ListingChanges
  <2>1. /\ c \in Companies /\ since'[c] = 0
        /\ \A d \in Companies : d # c => since'[d] = since[d] /\ (d \in nse' <=> d \in nse)
    BY <1>1, UniverseAssumption
  <2>2. UNCHANGED <<step, found>> /\ ~(0 >= ListTTL) /\ ~(0 >= Known - 1)
    BY <1>3, <1>1 DEF ListingChanges
  <2>3. ListingsArrive'
    BY <2>1, <2>2, <1>1 DEF ListingsArrive, FromLists, Covers
  <2>4. OneFeed'
    BY <2>1, <2>2, <1>1 DEF OneFeed, Covers
  <2> QED BY <2>3, <2>4
<1>4. ASSUME NEW s \in Scans, NEW there, there # "found", Goto(s, there),
             UNCHANGED <<nse, since, found>>
      PROVE  ListingsArrive' /\ OneFeed'
  <2>1. /\ step'[s] # "found" /\ UNCHANGED <<nse, since, found>>
        /\ \A q \in Scans : q # s => step'[q] = step[q]
    BY <1>4, <1>1 DEF Goto, UniverseTypeOK
  <2> QED BY <2>1, <1>1 DEF ListingsArrive, OneFeed, FromLists, Covers
<1>5. ASSUME NEW s \in Scans, NEW tickers, NEW source, source \in {"master", "restricted"},
             End(s, tickers, source), UNCHANGED <<nse, since>>
      PROVE  ListingsArrive' /\ OneFeed'
  <2>1. /\ found'[s].source = source
        /\ \A q \in Scans : q # s => step'[q] = step[q] /\ found'[q] = found[q]
    BY <1>5, <1>1 DEF End, Goto, UniverseTypeOK
  <2>2. found'[s].source \notin {"live", "partial"}
    BY <2>1, <1>5
  <2> QED BY <2>1, <2>2, <1>5, <1>1 DEF ListingsArrive, OneFeed, FromLists, Covers
<1>6. ASSUME NEW s \in Scans, Resolve(s) \/ Unreadable(s) PROVE ListingsArrive' /\ OneFeed'
  BY <1>6, <1>4 DEF Resolve, Unreadable
<1>7. ASSUME NEW s \in Scans, AskMaster(s) PROVE ListingsArrive' /\ OneFeed'
  BY <1>7, <1>4, <1>5 DEF AskMaster
<1>8. ASSUME NEW s \in Scans, NseFromFile(s) \/ NseDownload(s) \/ NseFails(s)
      PROVE  ListingsArrive' /\ OneFeed'
  BY <1>8, <1>4 DEF NseFromFile, NseDownload, NseFails, TakeNse
<1>9. ASSUME NEW s \in Scans, PipelineDefault(s) PROVE ListingsArrive' /\ OneFeed'
  BY <1>9, <1>5 DEF PipelineDefault
<1>10. ASSUME NEW s \in Scans, step[s] = "bse", nseSet[s].live
       PROVE  \A c \in Companies : since[c] >= ListTTL => (c \in nseSet[s].listed <=> c \in nse)
  BY <1>10, <1>1 DEF ListsInv
<1>11. ASSUME NEW s \in Scans, BseFromFile(s) PROVE ListingsArrive' /\ OneFeed'
  <2> DEFINE only == bseFile.only
             whole == bseFile.whole
  <2>1. only \in SUBSET Symbols /\ whole \in BOOLEAN
    BY <1>1 DEF UniverseTypeOK
  <2>2. whole => \A c \in BseListed :
                   BseSymbol[c] = c /\ since[c] >= Known - 1 => Agree(only, c)
    BY <1>11, FileOfBse DEF BseFromFile, BseCached, Fresh
  <2>3. Combine(s, only, whole) /\ step[s] = "bse" /\ UNCHANGED <<nse, since>>
    BY <1>11 DEF BseFromFile
  <2> HIDE DEF only, whole
  <2> QED BY <2>1, <2>2, <2>3, <1>1, <1>10, Combined
<1>12. ASSUME NEW s \in Scans, BseDownload(s) PROVE ListingsArrive' /\ OneFeed'
  <2>1. step[s] = "bse" /\ UNCHANGED <<nse, since>>
    BY <1>12 DEF BseDownload
  <2> PICK arrived \in SUBSET BseListed :
        \/ Combine(s, BseOnly(arrived, nseSet[s].listed),
                   arrived = BseListed /\ nseSet[s].live)
        \/ Combine(s, {}, FALSE)
    BY <1>12 DEF BseDownload
  <2>2. CASE Combine(s, {}, FALSE)
    BY <2>1, <2>2, <1>1, <1>10, Combined
  <2>3. CASE Combine(s, BseOnly(arrived, nseSet[s].listed),
                     arrived = BseListed /\ nseSet[s].live)
    <3> DEFINE only  == BseOnly(arrived, nseSet[s].listed)
               whole == arrived = BseListed /\ nseSet[s].live
    <3>1. only \in SUBSET Symbols /\ whole \in BOOLEAN
      BY DEF BseOnly, Symbols
    <3>2. ASSUME whole, NEW c \in BseListed, BseSymbol[c] = c, since[c] >= Known - 1
          PROVE  Agree(only, c)
      <4>1. since[c] >= ListTTL
        BY <3>2, <1>1
      <4>2. c \in nseSet[s].listed <=> c \in nse
        BY <3>2, <4>1, <2>1, <1>1, <1>10
      <4>3. c \in only <=> c \notin nseSet[s].listed
        BY <3>2 DEF BseOnly
      <4> QED BY <4>2, <4>3 DEF Agree
    <3>3. Combine(s, only, whole)
      BY <2>3
    <3> HIDE DEF only, whole
    <3> QED BY <3>1, <3>2, <3>3, <2>1, <1>1, <1>10, Combined
  <2> QED BY <2>2, <2>3
<1>13. ASSUME NEW s \in Scans, Leave(s) PROVE ListingsArrive' /\ OneFeed'
  <2>1. /\ step'[s] = "idle" /\ UNCHANGED <<nse, since>>
        /\ \A q \in Scans : q # s => step'[q] = step[q] /\ found'[q] = found[q]
    BY <1>13, <1>1 DEF Leave, Goto, UniverseTypeOK
  <2> QED BY <2>1, <1>1 DEF ListingsArrive, OneFeed, FromLists, Covers
<1>14. CASE UNCHANGED uvars
  BY <1>14, <1>1 DEF uvars, ListingsArrive, OneFeed, FromLists, Covers
<1> QED
  BY <1>2, <1>3, <1>6, <1>7, <1>8, <1>9, <1>11, <1>12, <1>13, <1>14 DEF UniverseNext

LEMMA UInvAlways == UniverseSpec => []UInv
<1>1. UInv /\ [UniverseNext]_uvars => UInv'
  BY TypeStep, ListsStep, FoundStep DEF UInv
<1> QED BY <1>1, InvInitial, PTL DEF UniverseSpec

(* A listing or delisting of a full lifetime of the file ago has reached   *)
(* every scan that has a list of NSE, whatever failed and whoever else     *)
(* resolves (nse_universe.py:390-395).                                     *)
THEOREM ListingsArriveInTime == UniverseSpec => []ListingsArrive
<1>1. UInv => ListingsArrive
  BY DEF UInv
<1> QED BY <1>1, UInvAlways, PTL

(* Two lifetimes after its last listing change a company is scanned on     *)
(* exactly one feed, although the two files are downloaded hours apart     *)
(* (nse_universe.py:533-546).                                              *)
THEOREM FeedsSettle == UniverseSpec => []OneFeed
<1>1. UInv => OneFeed
  BY DEF UInv
<1> QED BY <1>1, UInvAlways, PTL
=============================================================================
