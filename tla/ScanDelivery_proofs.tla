------------------------- MODULE ScanDelivery_proofs -------------------------
(***************************************************************************)
(* What the hub and the cached answers guarantee for any run of a scan,    *)
(* any number of connections and of requests, and any mixture of faults.   *)
(***************************************************************************)
EXTENDS ScanStream_proofs

(***************************************************************************)
(* The hub.                                                                *)
(***************************************************************************)
(* What the hub took from the k-th message on, in the order it was taken.  *)
Window(lo, n) == [i \in 1..n |-> lo + i]

(* Who is registered, who is being sent to, and who has failed.            *)
Registered ==
  /\ sock \in [Clients -> {"new", "open", "gone", "closed"}]
  /\ conns \subseteq setup.clients /\ IsFiniteSet(conns)
  /\ fan \in [busy : BOOLEAN, todo : SUBSET setup.clients, dead : SUBSET setup.clients]
  /\ IsFiniteSet(fan.dead)
  /\ ~fan.busy => fan = Quiet
  /\ \A c \in Clients :
       /\ c \in conns \cup fan.todo \cup fan.dead => sock[c] # "new"
       /\ c \in fan.dead => sock[c] # "open"
       /\ sock[c] = "open" => c \in conns
  /\ gauge \in Int /\ gauge <= Cardinality(conns)
  /\ listener \in {"on", "off"}

(* What each client that is connected has got.                             *)
Got ==
  /\ heard \in Nat /\ heard <= Len(wire)
  /\ since \in [Clients -> Nat]
  /\ DOMAIN inbox = Clients
  /\ \A c \in Clients :
       /\ since[c] <= heard
       /\ sock[c] # "open" => inbox[c] = <<>>
       /\ sock[c] = "open" =>
            /\ c \in fan.todo => since[c] < heard
            /\ inbox[c] = Window(since[c], heard - since[c] - IF c \in fan.todo THEN 1 ELSE 0)

(* A further message extends the stretch a client has seen.                *)
LEMMA WindowGrows ==
  ASSUME NEW lo \in Nat, NEW n \in Nat
  PROVE  Append(Window(lo, n), lo + n + 1) = Window(lo, n + 1)
<1>1. Window(lo, n) \in Seq(Nat) /\ Len(Window(lo, n)) = n
  BY SeqDef DEF Window
<1>2. Window(lo, n + 1) \in Seq(Nat) /\ Len(Window(lo, n + 1)) = n + 1
  BY SeqDef DEF Window
<1>3. Append(Window(lo, n), lo + n + 1) \in Seq(Nat)
  BY <1>1
<1>4. \A i \in 1..n + 1 : Append(Window(lo, n), lo + n + 1)[i] = Window(lo, n + 1)[i]
  BY <1>1 DEF Window
<1> QED
  BY <1>1, <1>2, <1>3, <1>4, SeqEqual

(* A stretch of the log has numbers of messages of the log.                *)
LEMMA WindowIsTyped ==
  ASSUME NEW lo \in Nat, NEW n \in Nat, NEW top \in Nat, lo + n <= top
  PROVE  Window(lo, n) \in Seq(1..top)
<1>1. Window(lo, n) \in [1..n -> 1..top]
  BY DEF Window
<1> QED
  BY <1>1, SeqDef

(* Events are only ever added. *)
LEMMA WireGrows ==
  ASSUME RunInv, StreamNext
  PROVE  Len(wire) \in Nat /\ Len(wire') \in Nat /\ Len(wire) <= Len(wire')
<1>1. wire \in Seq(Event)
  BY DEF RunInv, Types
<1>2. \A type, n : Publish(type, n) => Len(wire') \in Nat /\ Len(wire) <= Len(wire')
  BY <1>1 DEF Publish
<1>3. UNCHANGED wire \/ \E type, n : Publish(type, n)
  BY DEF StreamNext, FetchDone, Thread, Arrives, Take, RankFails, Exhausted, Close,
         Report, GiveUp, CallStep, CallPhase, CallAcquire, CallInsert, CallProgress,
         CallBatch, CallCheck, Task, Start, Resolve, Decide, Mark, Raised, BustLists,
         BustCounts, Tell, BustStats, Fail, Cleanup, ClosePool, FlagExpires, Stop,
         StopRead, StopMark, StopFlag, StopTell, StopBust, results
<1> QED
  BY <1>1, <1>2, <1>3

LEMMA HubInitial == Init => Registered /\ Got
BY FS_EmptySet, EmptySeq DEF Init, ResultsInit, HubInit, Registered, Got, Quiet

(* A registered client has its queue.                                      *)
LEMMA RegisteredStep ==
  ASSUME setup \in Setups, setup' = setup, Registered, HubNext
  PROVE  Registered'
<1>1. setup.clients \subseteq Clients /\ Cardinality(conns) \in Nat
  BY SetupAssumption, FS_CardinalityType DEF Registered
<1> USE <1>1 DEF Registered
<1>2. CASE Listen
  BY <1>2, FS_EmptySet DEF Listen, Quiet
<1>3. CASE FanEnd
  <2>1. /\ IsFiniteSet(conns \ fan.dead) /\ IsFiniteSet(conns \cap fan.dead)
        /\ Cardinality(conns \ fan.dead) = Cardinality(conns) - Cardinality(conns \cap fan.dead)
    BY FS_Difference, FS_Subset
  <2>2. Cardinality(conns \cap fan.dead) <= Cardinality(fan.dead)
    BY FS_Subset
  <2>3. Cardinality(fan.dead) \in Nat /\ Cardinality(conns \cap fan.dead) \in Nat
    BY <2>1, FS_CardinalityType
  <2>4. gauge' <= Cardinality(conns') /\ gauge' \in Int
    BY <1>3, <2>1, <2>2, <2>3 DEF FanEnd
  <2> QED
    BY <1>3, <2>1, <2>4, FS_EmptySet DEF FanEnd, Quiet
<1>4. ASSUME NEW c \in Clients, Send(c) PROVE Registered'
  <2>1. c \in fan.todo /\ fan.busy
    BY <1>4 DEF Send, Quiet
  <2>2. IsFiniteSet(fan.dead \cup {c})
    BY FS_AddElement
  <2>3. UNCHANGED <<sock, conns, gauge, listener>>
    BY <1>4 DEF Send
  <2>4. CASE fan' = [fan EXCEPT !.todo = @ \ {c}]
    BY <2>1, <2>3, <2>4
  <2>5. CASE sock[c] # "open" /\ fan' = [fan EXCEPT !.todo = @ \ {c}, !.dead = @ \cup {c}]
    <3>1. fan' = [busy |-> fan.busy, todo |-> fan.todo \ {c}, dead |-> fan.dead \cup {c}]
      BY <2>5
    <3>2. /\ fan'.busy = fan.busy /\ fan'.todo = fan.todo \ {c} /\ fan'.dead = fan.dead \cup {c}
          /\ fan' \in [busy : BOOLEAN, todo : SUBSET setup.clients, dead : SUBSET setup.clients]
      BY <2>1, <3>1
    <3> HIDE <3>1
    <3> QED
      BY <2>1, <2>2, <2>3, <2>5, <3>2
  <2> QED
    BY <1>4, <2>4, <2>5 DEF Send
<1>5. ASSUME NEW c \in Clients, Notice(c) PROVE Registered'
  <2>1. /\ IsFiniteSet(conns \ {c}) /\ Cardinality(conns) - 1 <= Cardinality(conns \ {c})
        /\ Cardinality(conns \ {c}) \in Nat
    <3>1. /\ IsFiniteSet(conns \ {c})
          /\ Cardinality(conns \ {c}) = IF c \in conns THEN Cardinality(conns) - 1
                                        ELSE Cardinality(conns)
      BY FS_RemoveElement
    <3>2. Cardinality(conns \ {c}) \in Nat
      BY <3>1, FS_CardinalityType
    <3> QED
      BY <3>1, <3>2
  <2>2. sock' = [sock EXCEPT ![c] = "closed"] /\ UNCHANGED <<fan, listener>>
    BY <1>5 DEF Notice
  <2>3. CASE conns' = conns \ {c} /\ gauge' = gauge - 1
    BY <2>1, <2>2, <2>3
  <2>4. CASE UNCHANGED <<conns, gauge>>
    BY <2>2, <2>4, <1>5 DEF Notice
  <2> QED
    BY <1>5, <2>3, <2>4 DEF Notice
<1>6. ASSUME NEW c \in Clients, Connect(c) PROVE Registered'
  <2>1. /\ c \notin conns /\ IsFiniteSet(conns \cup {c})
        /\ Cardinality(conns \cup {c}) = Cardinality(conns) + 1
    BY <1>6, FS_AddElement DEF Connect
  <2> QED
    BY <1>6, <2>1 DEF Connect
<1>7. ASSUME NEW c \in Clients, Drop(c) PROVE Registered'
  BY <1>7 DEF Drop
<1>8. CASE ListenerStops
  BY <1>8 DEF ListenerStops
<1> QED
  BY <1>2, <1>3, <1>4, <1>5, <1>6, <1>7, <1>8 DEF HubNext, Hub

(* A client gets every message of the time it is registered for.           *)
LEMMA GotStep ==
  ASSUME setup \in Setups, wire \in Seq(Event), UNCHANGED <<setup, wire>>,
         Registered, Got, HubNext
  PROVE  Got'
<1>1. setup.clients \subseteq Clients /\ Len(wire) \in Nat
  BY SetupAssumption
<1> USE <1>1 DEF Got, Registered
<1>2. CASE Listen
  <2>1. heard' = heard + 1 /\ heard' <= Len(wire) /\ fan.todo = {}
    BY <1>2 DEF Listen, Quiet
  <2>2. \A c \in Clients : sock[c] = "open" => c \in fan'.todo
    BY <1>2 DEF Listen
  <2> QED
    BY <1>2, <2>1, <2>2 DEF Listen
<1>3. CASE FanEnd
  BY <1>3 DEF FanEnd, Quiet
<1>4. ASSUME NEW c \in Clients, Send(c) PROVE Got'
  <2>1. c \in fan.todo /\ fan'.todo = fan.todo \ {c} /\ UNCHANGED <<sock, since, heard>>
    BY <1>4 DEF Send
  <2>2. CASE sock[c] = "open"
    <3>1. inbox[c] = Window(since[c], heard - since[c] - 1) /\ heard - since[c] - 1 \in Nat
      BY <2>1, <2>2
    <3>2. since[c] \in Nat /\ since[c] + (heard - since[c] - 1) + 1 = heard
          /\ (heard - since[c] - 1) + 1 = heard - since[c]
      BY <3>1
    <3>3. Append(inbox[c], heard) = Window(since[c], heard - since[c])
      BY <3>1, <3>2, WindowGrows
    <3>4. inbox' = [inbox EXCEPT ![c] = Append(inbox[c], heard)]
      BY <1>4, <2>2 DEF Send
    <3> QED
      BY <2>1, <2>2, <3>3, <3>4
  <2>3. CASE sock[c] # "open"
    BY <1>4, <2>1, <2>3 DEF Send
  <2> QED
    BY <2>2, <2>3
<1>5. ASSUME NEW c \in Clients, Notice(c) PROVE Got'
  BY <1>5 DEF Notice
<1>6. ASSUME NEW c \in Clients, Connect(c) PROVE Got'
  <2>1. Window(heard, 0) = <<>>
    BY DEF Window
  <2>2. c \notin fan.todo /\ inbox[c] = <<>> /\ heard - heard - 0 = 0
    BY <1>6 DEF Connect
  <2> QED
    BY <1>6, <2>1, <2>2 DEF Connect
<1>7. ASSUME NEW c \in Clients, Drop(c) PROVE Got'
  BY <1>7 DEF Drop
<1>8. CASE ListenerStops
  BY <1>8 DEF ListenerStops
<1> QED
  BY <1>2, <1>3, <1>4, <1>5, <1>6, <1>7, <1>8 DEF HubNext, Hub

LEMMA HubStep == RunInv /\ Registered /\ Got /\ [Next]_vars => Registered' /\ Got'
<1> SUFFICES ASSUME RunInv, Registered, Got, [Next]_vars PROVE Registered' /\ Got'
  OBVIOUS
<1>1. ASSUME UNCHANGED <<setup, hubVars>>, Len(wire) \in Nat, Len(wire') \in Nat,
             Len(wire) <= Len(wire')
      PROVE  Registered' /\ Got'
  BY <1>1 DEF Registered, Got, hubVars
<1>2. CASE StreamNext /\ UNCHANGED <<hubVars, cacheVars>>
  BY <1>1, <1>2, WireGrows, SetupStays
<1>3. CASE HubNext /\ UNCHANGED <<results, streamVars, cacheVars>>
  BY <1>3, RegisteredStep, GotStep DEF RunInv, Types, results
<1>4. CASE (CachesNext /\ UNCHANGED <<streamVars, hubVars>>) \/ UNCHANGED vars
  BY <1>1, <1>4, RequestsReadOnly DEF vars, results, RunInv, Types
<1> QED
  BY <1>2, <1>3, <1>4 DEF Next

(* For any number of connections that come and go at any step: the hub's   *)
(* sockets, sends and gauge keep their types, and the gauge never counts a *)
(* connection that is not in the registry (ws_manager.py:57-82).           *)
THEOREM HubIsTyped == Spec => []HubTypeOK
<1>1. RunInv /\ Registered /\ Got => HubTypeOK
  <2> SUFFICES ASSUME RunInv, Registered, Got PROVE HubTypeOK
    OBVIOUS
  <2>1. ASSUME NEW c \in Clients PROVE inbox[c] \in Seq(1..Len(wire))
    <3>1. Len(wire) \in Nat
      BY DEF RunInv, Types
    <3>2. CASE sock[c] # "open"
      BY <3>2, EmptySeq DEF Got
    <3>3. CASE sock[c] = "open"
      <4> DEFINE n == heard - since[c] - IF c \in fan.todo THEN 1 ELSE 0
      <4>1. since[c] \in Nat /\ n \in Nat /\ since[c] + n <= Len(wire)
        BY <3>1, <3>3 DEF Got
      <4>2. inbox[c] = Window(since[c], n)
        BY <3>3 DEF Got
      <4> HIDE DEF n
      <4> QED
        BY <3>1, <4>1, <4>2, WindowIsTyped
    <3> QED
      BY <3>2, <3>3
  <2>2. heard \in 0..Len(wire) /\ since \in [Clients -> 0..heard]
    BY DEF RunInv, Types, Got
  <2> QED
    BY <2>1, <2>2 DEF HubTypeOK, Registered
<1> QED
  BY <1>1, HubInitial, HubStep, RunIsConsistent, PTL DEF Spec

(* For any number of connections that come and go at any step: a client    *)
(* that is connected has got every message since it joined, each once and  *)
(* in order, but for the one that is being sent to it.                     *)
THEOREM NobodyMissesAMessage == Spec => []NothingSkipped
<1>1. Registered /\ Got => NothingSkipped
  BY DEF Registered, Got, NothingSkipped, Window
<1> QED
  BY <1>1, HubInitial, HubStep, RunIsConsistent, PTL DEF Spec

(***************************************************************************)
(* The cached answers.                                                     *)
(***************************************************************************)
Entry == [total : {"none", "old", "new"}, items : {"none", "old", "new"},
          n : 0..Size, after : BOOLEAN]

Entries ==
  /\ cache \in [Keys -> Entry]
  /\ reader \in [Readers -> [at : {"idle", "first", "second", "fill"}, key : Keys, got : Entry]]
  /\ replica \in [latest : {"old", "new"}, n : 0..Size]

(* What the caches read from the database has their types.                 *)
LEMMA DatabaseIsTyped ==
  ASSUME RunInv, Entries
  PROVE  /\ Primary \in [latest : {"old", "new"}, n : 0..Size]
         /\ Database \in [latest : {"old", "new"}, n : 0..Size]
<1>1. Cardinality(stored) \in 0..Size
  BY UniverseIsFinite DEF RunInv, Types
<1> QED
  BY <1>1 DEF Primary, Database, Latest, Entries

LEMMA EntriesStep == RunInv /\ Entries /\ CachesNext => Entries'
<1> SUFFICES ASSUME RunInv, Entries, CachesNext PROVE Entries'
  OBVIOUS
<1>1. Size' = Size /\ Entry' = Entry /\ Size \in Nat
  BY SetupStays, UniverseIsFinite DEF Size, Entry, RunInv
<1>2. Miss \in Entry
  BY <1>1 DEF Miss, Entry
<1>3. /\ Primary \in [latest : {"old", "new"}, n : 0..Size]
      /\ Database \in [latest : {"old", "new"}, n : 0..Size]
  BY DatabaseIsTyped
<1>4. ASSUME NEW db \in [latest : {"old", "new"}, n : 0..Size], NEW id
      PROVE  CountOf(id, db) \in 0..Size
  BY <1>1 DEF CountOf
<1>5. ASSUME NEW r \in Readers, NEW k \in Keys, Ask(r, k) PROVE Entries'
  BY <1>1, <1>2, <1>5 DEF Ask, Entries, results
<1>6. ASSUME NEW r \in Readers, First(r) PROVE Entries'
  BY <1>1, <1>3, <1>4, <1>6 DEF First, Entries, Entry, results
<1>7. ASSUME NEW r \in Readers, Second(r) PROVE Entries'
  <2>1. CountOf(reader[r].got.total, Database) \in 0..Size
    BY <1>3, <1>4
  <2> DEFINE got == reader[r].got
             read == IF reader[r].key = "list" THEN [got EXCEPT !.items = Database.latest]
                     ELSE [got EXCEPT !.n = CountOf(got.total, Database)]
  <2>2. read \in Entry
    BY <1>3, <2>1 DEF Entries, Entry
  <2>3. reader' = [reader EXCEPT ![r] = [at |-> "fill", key |-> reader[r].key, got |-> read]]
    BY <1>7 DEF Second
  <2> HIDE DEF read
  <2> QED
    BY <1>1, <2>2, <2>3, <1>7 DEF Second, Entries, results
<1>8. ASSUME NEW r \in Readers, ReadFails(r) PROVE Entries'
  BY <1>1, <1>2, <1>8 DEF ReadFails, Idle, Keys, Entries, results
<1>9. ASSUME NEW r \in Readers, Fill(r) PROVE Entries'
  <2>1. [reader[r].got EXCEPT !.after = scan # "pending"] \in Entry
    <3>1. \A b \in BOOLEAN : [reader[r].got EXCEPT !.after = b] \in Entry
      BY DEF Entries, Entry
    <3>2. (scan # "pending") \in BOOLEAN
      OBVIOUS
    <3> HIDE DEF Entries, Entry
    <3> QED
      BY <3>1, <3>2, Zenon
  <2> QED
    BY <1>1, <1>2, <2>1, <1>9 DEF Fill, Idle, Keys, Entries
<1>10. ASSUME NEW k \in Keys, Expire(k) PROVE Entries'
  BY <1>1, <1>2, <1>10 DEF Expire, Entries
<1>11. CASE Replicate
  BY <1>1, <1>3, <1>11 DEF Replicate, Entries, results
<1> QED
  BY <1>5, <1>6, <1>7, <1>8, <1>9, <1>10, <1>11 DEF CachesNext, Request

(* What a run does to the cache is to empty it. *)
LEMMA RunsOnlyBust ==
  ASSUME StreamNext
  PROVE  \/ cache' = cache
         \/ \E k \in Keys : cache' = [cache EXCEPT ![k] = Miss]
BY DEF StreamNext, FetchDone, Thread, Arrives, Take, RankFails, Exhausted, Close, Report,
       GiveUp, CallStep, CallPhase, CallAcquire, CallInsert, CallProgress, CallBatch,
       CallCheck, Task, Start, Resolve, Decide, Mark, Raised, BustLists, BustCounts, Tell,
       BustStats, Fail, Cleanup, ClosePool, FlagExpires, Stop, StopRead, StopMark,
       StopFlag, StopTell, StopBust, results, Keys

LEMMA EntriesStay == RunInv /\ Entries /\ [Next]_vars => Entries'
<1> SUFFICES ASSUME RunInv, Entries, [Next]_vars PROVE Entries'
  OBVIOUS
<1>1. CASE StreamNext /\ UNCHANGED <<hubVars, cacheVars>>
  <2>1. Size' = Size /\ Entry' = Entry /\ Size \in Nat
    BY <1>1, SetupStays, UniverseIsFinite DEF Size, Entry, RunInv
  <2>2. Miss \in Entry
    BY <2>1 DEF Miss, Entry
  <2> QED
    BY <1>1, <2>1, <2>2, RunsOnlyBust DEF Entries, cacheVars
<1>2. CASE CachesNext
  BY <1>2, EntriesStep
<1>3. CASE (HubNext /\ UNCHANGED <<results, streamVars, cacheVars>>) \/ UNCHANGED vars
  BY <1>3 DEF Entries, Entry, Size, vars, results, cacheVars
<1> QED
  BY <1>1, <1>2, <1>3 DEF Next

(* The scan is over before its cached answers are deleted, and what is in  *)
(* their place from then on was written after its end.                     *)
AfterTheEnd(k) == cache[k] # Miss => cache[k].after

Busted ==
  /\ loop \in {"lists", "counts", "tell", "stats"} \/ Published("complete") => scan # "pending"
  /\ ~May("redis") =>
       /\ loop \in {"counts", "tell", "stats"} \/ Published("complete") => AfterTheEnd("list")
       /\ loop \in {"tell", "stats"} \/ Published("complete") => AfterTheEnd("counts")

(* The completion is published by the step that tells of the end, and by   *)
(* no other.                                                               *)
LEMMA CompleteIsTold ==
  ASSUME RunInv, StreamNext, Published("complete")'
  PROVE  Published("complete") \/ loop = "tell"
<1>1. wire \in Seq(Event)
  BY DEF RunInv, Types
<1>2. ASSUME NEW type, NEW n, type # "complete", Publish(type, n)
      PROVE  Published("complete")
  <2>1. CASE wire' = Append(wire, [type |-> type, n |-> n])
    BY <1>1, <1>2, <2>1 DEF Published
  <2>2. CASE UNCHANGED wire
    BY <2>2 DEF Published
  <2> QED
    BY <1>2, <2>1, <2>2 DEF Publish
<1>3. CASE UNCHANGED wire
  BY <1>3 DEF Published
<1>4. UNCHANGED wire \/ loop = "tell" \/ \E type, n : type # "complete" /\ Publish(type, n)
  BY DEF StreamNext, FetchDone, Thread, Arrives, Take, RankFails, Exhausted, Close,
         Report, GiveUp, CallStep, CallPhase, CallAcquire, CallInsert, CallProgress,
         CallBatch, CallCheck, Task, Start, Resolve, Decide, Mark, Raised, BustLists,
         BustCounts, Tell, BustStats, Fail, Cleanup, ClosePool, FlagExpires, Stop,
         StopRead, StopMark, StopFlag, StopTell, StopBust, results, LoopStep
<1> QED
  BY <1>2, <1>3, <1>4

LEMMA BustedStep == RunInv /\ Entries /\ Busted /\ [Next]_vars => Busted'
<1> SUFFICES ASSUME RunInv, Entries, Busted, [Next]_vars PROVE Busted'
  OBVIOUS
<1>1. Miss.after = FALSE /\ "list" \in Keys /\ "counts" \in Keys
  BY DEF Miss, Keys
<1> USE <1>1 DEF Busted, AfterTheEnd, May
<1>2. CASE StreamNext
  <2>1. setup' = setup
    BY <1>2, SetupStays
  <2>2. Published("complete")' => Published("complete") \/ loop = "tell"
    BY <1>2, CompleteIsTold
  <2>3. \A k \in Keys : AfterTheEnd(k) => AfterTheEnd(k)'
    BY <1>2, RunsOnlyBust DEF Entries
  <2>4. scan # "pending" => scan' # "pending"
    BY <1>2 DEF StreamNext, FetchDone, Thread, Arrives, Take, RankFails, Exhausted, Close,
           Report, GiveUp, CallStep, CallPhase, CallAcquire, CallInsert, CallProgress,
           CallBatch, CallCheck, Task, Start, Resolve, Decide, Mark, Raised, BustLists,
           BustCounts, Tell, BustStats, Fail, Cleanup, ClosePool, FlagExpires, Stop,
           StopRead, StopMark, StopFlag, StopTell, StopBust, results
  <2>5. CASE Task
    <3> USE DEF LoopStep
    <3>1. \/ UNCHANGED loop \/ loop' \notin {"lists", "counts", "tell", "stats"}
          \/ Mark \/ BustLists \/ BustCounts \/ Tell
      BY <2>5 DEF Task, Start, Resolve, Decide, Raised, BustStats, Fail, Cleanup, ClosePool
    <3>2. /\ Mark => loop' = "lists" /\ scan' # "pending"
          /\ BustLists => \/ loop' = "counts" /\ cache'["list"] = Miss
                          \/ loop' = "tell" /\ May("redis")
          /\ BustCounts => loop = "counts" /\ loop' = "tell" /\ (cache'["counts"] = Miss \/ May("redis"))
          /\ Tell => loop = "tell" /\ loop' = "stats"
      BY DEF Mark, BustLists, BustCounts, Tell, Entries
    <3>3. BustLists => loop = "lists"
      BY DEF BustLists
    <3>4. ASSUME NEW k \in Keys, cache'[k] = Miss PROVE AfterTheEnd(k)'
      BY <3>4
    <3> HIDE DEF AfterTheEnd
    <3> QED
      BY <2>1, <2>2, <2>3, <2>4, <3>1, <3>2, <3>3, <3>4
  <2>6. CASE ~Task
    <3>1. UNCHANGED loop
      BY <1>2, <2>6 DEF StreamNext, FetchDone, Thread, Arrives, Take, RankFails,
             Exhausted, Close, Report, GiveUp, CallStep, Stop, FlagExpires
    <3> HIDE DEF AfterTheEnd
    <3> QED
      BY <2>1, <2>2, <2>3, <2>4, <3>1
  <2> QED
    BY <2>5, <2>6
<1>3. CASE (HubNext /\ UNCHANGED <<results, streamVars, cacheVars>>) \/ UNCHANGED vars
  BY <1>3 DEF vars, results, streamVars, Published
<1>4. CASE CachesNext /\ UNCHANGED <<streamVars, hubVars>>
  <2>1. UNCHANGED <<setup, scan, wire, loop>>
    BY <1>4, RequestsReadOnly DEF streamVars
  <2>2. \/ UNCHANGED cache
        \/ \E r \in Readers : Fill(r)
        \/ \E k \in Keys : cache' = [cache EXCEPT ![k] = Miss]
    BY <1>4 DEF CachesNext, Ask, Request, First, Second, ReadFails, Expire, Replicate,
           results
  <2>3. ASSUME NEW r \in Readers, Fill(r), scan # "pending"
        PROVE  \A k \in Keys : AfterTheEnd(k) => AfterTheEnd(k)'
    <3>1. cache' = [cache EXCEPT ![reader[r].key] = [reader[r].got EXCEPT !.after = scan # "pending"]]
      BY <2>3 DEF Fill
    <3>2. \A b : [reader[r].got EXCEPT !.after = b].after = b
      BY DEF Entries, Entry
    <3>3. [reader[r].got EXCEPT !.after = scan # "pending"].after
      BY <2>3, <3>2, Zenon
    <3> QED
      BY <3>1, <3>3 DEF Entries
  <2>4. scan # "pending" => \A k \in Keys : AfterTheEnd(k) => AfterTheEnd(k)'
    BY <2>2, <2>3 DEF Entries
  <2> HIDE DEF AfterTheEnd
  <2> QED
    BY <2>1, <2>4 DEF Published
<1> QED
  BY <1>2, <1>3, <1>4 DEF Next

LEMMA CachesInitial == Init => Entries /\ Busted
<1> SUFFICES ASSUME Init PROVE Entries /\ Busted
  OBVIOUS
<1>1. RunInv
  BY RunInitial
<1>2. Size \in Nat /\ Cardinality(stored) = 0
  BY <1>1, UniverseIsFinite, FS_EmptySet DEF RunInv, Init, ResultsInit
<1> QED
  BY <1>2 DEF Init, ResultsInit, StreamInit, CachesInit, Entries, Entry, Idle, Miss, Keys,
              Primary, Latest, Busted, AfterTheEnd, Published

(* For any number of requests at any step: the cached answers, what a      *)
(* request has read and what the replica knows keep their types, also when *)
(* a run empties them between two reads (routers/scans.py:108-173).        *)
THEOREM CachesAreTyped == Spec => []CachesTypeOK
<1>1. RunInv /\ Entries => CachesTypeOK
  BY DEF Entries, Entry, Size, CachesTypeOK
<1> QED
  BY <1>1, CachesInitial, EntriesStay, RunIsConsistent, PTL DEF Spec

(* For any universe, requests and faults: when clients are told that the   *)
(* scan is complete and Redis has not failed, no list and no counts that   *)
(* were kept before its end are left (scanner_tasks.py:182-191).           *)
THEOREM NothingOldIsLeft == Spec => []BustLeavesNothing
<1>1. Busted => BustLeavesNothing
  BY DEF Busted, AfterTheEnd, BustLeavesNothing
<1> QED
  BY <1>1, CachesInitial, EntriesStay, BustedStep, RunIsConsistent, PTL DEF Spec

(* An answer about the new scan was read after its end, and misses none of *)
(* what it found.                                                          *)
Whole(total, n) == total = "new" => loop \in AfterMark /\ (scan = "done" => n >= found)

(* This holds of every answer that is kept or on its way, of the state     *)
(* that a replica shows, and of the signals that the second statement of a *)
(* request will count. Only a list may be torn.                            *)
Agreed ==
  /\ \A k \in Keys : /\ Whole(cache[k].total, cache[k].n)
                     /\ k # "list" => cache[k].total = cache[k].items
  /\ \A r \in Readers :
       reader[r].at \in {"second", "fill"} =>
         /\ Whole(reader[r].got.total, reader[r].got.n)
         /\ reader[r].key # "list" => reader[r].got.total = reader[r].got.items
         /\ Whole(reader[r].got.total, Database.n)
  /\ Whole(replica.latest, replica.n)

(* A run makes no answer say less than it said. *)
LEMMA WholeStays ==
  ASSUME RunInv, Counted, StreamNext, NEW total, NEW n, Whole(total, n)
  PROVE  Whole(total, n)'
<1>1. loop \in AfterMark => loop' \in AfterMark
  BY DEF StreamNext, FetchDone, Thread, Arrives, Take, RankFails, Exhausted, Close,
         Report, GiveUp, CallStep, Task, Start, Resolve, Decide, Mark, Raised, BustLists,
         BustCounts, Tell, BustStats, Fail, Cleanup, ClosePool, FlagExpires, Stop,
         LoopStep, AfterMark
<1>2. scan' = "done" /\ loop \in AfterMark => scan = "done" /\ found' = found
  BY DEF StreamNext, FetchDone, Thread, Arrives, Take, RankFails, Exhausted, Close,
         Report, GiveUp, CallStep, CallPhase, CallAcquire, CallInsert, CallProgress,
         CallBatch, CallCheck, Task, Start, Resolve, Decide, Mark, Raised, BustLists,
         BustCounts, Tell, BustStats, Fail, Cleanup, ClosePool, FlagExpires, Stop,
         StopRead, StopMark, StopFlag, StopTell, StopBust, results, LoopStep, AfterMark
<1> QED
  BY <1>1, <1>2 DEF Whole

(* The primary database never knows less than the row of the scan says.    *)
LEMMA PrimaryIsWhole ==
  ASSUME RunInv, Counted
  PROVE  /\ Whole(Primary.latest, Primary.n)
         /\ \A total, n : Whole(total, n) => Whole(total, Primary.n)
         /\ Primary.n >= found
<1>1. Cardinality(stored) >= found
  BY UniverseIsFinite DEF RunInv, Types, Numbers
<1> QED
  BY <1>1 DEF Primary, Latest, Whole, Counted

(* Every step keeps what is known of the answers.                          *)
LEMMA AgreedStep ==
  ASSUME RunInv, RunInv', Counted, Entries, Agreed, [Next]_vars
  PROVE  Agreed'
<1>1. CASE StreamNext /\ UNCHANGED <<hubVars, cacheVars>>
  <2>1. setup' = setup /\ reader' = reader /\ replica' = replica
    BY <1>1, SetupStays DEF cacheVars
  <2>2. \A total, n : Whole(total, n) => Whole(total, n)'
    BY <1>1, WholeStays
  <2>3. Cardinality(stored') >= found'
    BY <2>1, UniverseIsFinite DEF RunInv, Types, Numbers
  <2>4. \A total : Whole(total, Database.n) => Whole(total, Database.n)'
    <3>1. CASE May("replica")
      BY <2>1, <2>2, <3>1 DEF Database, May
    <3>2. CASE ~May("replica")
      BY <2>1, <2>2, <2>3, <3>2 DEF Database, May, Primary, Whole
    <3> QED
      BY <3>1, <3>2
  <2>5. \A k \in Keys : cache'[k] = cache[k] \/ cache'[k] = Miss
    BY <1>1, RunsOnlyBust DEF Entries
  <2>6. Miss.total = "none" /\ Miss.items = "none" /\ \A n : Whole("none", n)'
    BY DEF Miss, Whole
  <2> HIDE DEF Whole
  <2> QED
    BY <2>1, <2>2, <2>4, <2>5, <2>6 DEF Agreed
<1>2. CASE CachesNext /\ UNCHANGED <<streamVars, hubVars>>
  <2>1. UNCHANGED <<setup, scan, found, stored, loop>>
    BY <1>2, RequestsReadOnly DEF streamVars
  <2>2. \A total, n : Whole(total, n)' <=> Whole(total, n)
    BY <2>1 DEF Whole
  <2>3. Primary' = Primary
    BY <2>1 DEF Primary, Latest
  <2>4. Whole(Database.latest, Database.n)
    BY PrimaryIsWhole DEF Database, Agreed
  <2>5. ~(Miss.total = "new") /\ Miss.total = Miss.items /\ \A n : Whole(Miss.total, n)
    BY DEF Miss, Whole
  <2>6. replica' = replica => Database' = Database
    BY <2>1, <2>3 DEF Database, May
  <2>7. ASSUME NEW r \in Readers, NEW k \in Keys, Ask(r, k) PROVE Agreed'
    <3>1. reader' = [reader EXCEPT ![r] = [at |-> "first", key |-> k, got |-> Miss]]
          /\ UNCHANGED <<cache, replica>>
      BY <2>7 DEF Ask, results
    <3> QED
      BY <2>2, <2>6, <3>1 DEF Agreed, Entries
  <2>8. ASSUME NEW r \in Readers, First(r) PROVE Agreed'
    <3>1. UNCHANGED <<cache, replica>>
      BY <2>8 DEF First, results
    <3>2. /\ reader'[r].key = reader[r].key
          /\ reader'[r].got.total = Database.latest /\ reader'[r].got.items = Database.latest
          /\ reader'[r].got.n = CountOf(Database.latest, Database)
          /\ \A x \in Readers \ {r} : reader'[x] = reader[x]
      BY <2>8 DEF First, Entries
    <3>3. Whole(Database.latest, CountOf(Database.latest, Database))
      BY <2>4 DEF CountOf, Whole
    <3> QED
      BY <2>2, <2>4, <2>6, <3>1, <3>2, <3>3 DEF Agreed
  <2>9. ASSUME NEW r \in Readers, Second(r) PROVE Agreed'
    <3>1. UNCHANGED <<cache, replica>> /\ reader[r].at = "second"
      BY <2>9 DEF Second, results
    <3>2. /\ reader'[r].key = reader[r].key
          /\ \A x \in Readers \ {r} : reader'[x] = reader[x]
          /\ reader[r].key = "list" => reader'[r].got = [reader[r].got EXCEPT !.items = Database.latest]
          /\ reader[r].key # "list" =>
               reader'[r].got = [reader[r].got EXCEPT !.n = CountOf(reader[r].got.total, Database)]
      BY <2>9 DEF Second, Entries
    <3>3. /\ reader'[r].got.total = reader[r].got.total
          /\ reader[r].key = "list" => reader'[r].got.n = reader[r].got.n
          /\ reader[r].key # "list" =>
               /\ reader'[r].got.n = CountOf(reader[r].got.total, Database)
               /\ reader'[r].got.items = reader[r].got.items
      BY <3>2 DEF Entries, Entry
    <3>4. Whole(reader[r].got.total, CountOf(reader[r].got.total, Database))
      BY <3>1 DEF Agreed, CountOf, Whole
    <3> QED
      BY <2>2, <2>6, <3>1, <3>2, <3>3, <3>4 DEF Agreed
  <2>10. ASSUME NEW r \in Readers, ReadFails(r) PROVE Agreed'
    <3>1. reader' = [reader EXCEPT ![r] = Idle] /\ UNCHANGED <<cache, replica>>
      BY <2>10 DEF ReadFails, results
    <3> QED
      BY <2>2, <2>6, <3>1 DEF Agreed, Entries, Idle
  <2>11. ASSUME NEW r \in Readers, Fill(r) PROVE Agreed'
    <3> DEFINE kept == [reader[r].got EXCEPT !.after = scan # "pending"]
    <3>1. /\ reader' = [reader EXCEPT ![r] = Idle] /\ UNCHANGED replica
          /\ cache' = [cache EXCEPT ![reader[r].key] = kept] /\ reader[r].at = "fill"
      BY <2>11 DEF Fill
    <3>2. /\ kept.total = reader[r].got.total /\ kept.items = reader[r].got.items
          /\ kept.n = reader[r].got.n
      BY DEF Entries, Entry
    <3> HIDE DEF kept
    <3> QED
      BY <2>2, <2>6, <3>1, <3>2 DEF Agreed, Entries, Idle
  <2>12. ASSUME NEW k \in Keys, Expire(k) PROVE Agreed'
    <3>1. cache' = [cache EXCEPT ![k] = Miss] /\ UNCHANGED <<reader, replica>>
      BY <2>12 DEF Expire
    <3> QED
      BY <2>2, <2>5, <2>6, <3>1 DEF Agreed, Entries
  <2>13. CASE Replicate
    <3>1. /\ replica' = Primary /\ UNCHANGED <<cache, reader>>
          /\ Database' = Primary
      BY <2>1, <2>13 DEF Replicate, results, Database, May
    <3>2. /\ Whole(Primary.latest, Primary.n)
          /\ \A total, n : Whole(total, n) => Whole(total, Primary.n)
      BY PrimaryIsWhole
    <3> QED
      BY <2>2, <3>1, <3>2 DEF Agreed
  <2> QED
    BY <1>2, <2>7, <2>8, <2>9, <2>10, <2>11, <2>12, <2>13 DEF CachesNext, Request
<1>3. CASE (HubNext /\ UNCHANGED <<results, streamVars, cacheVars>>) \/ UNCHANGED vars
  BY <1>3 DEF Agreed, Whole, Database, Primary, Latest, May, vars, results, streamVars,
         cacheVars
<1> QED
  BY <1>1, <1>2, <1>3 DEF Next

(* For any universe, requests and faults: a kept answer about the new scan *)
(* misses none of the signals it found, and the counts and the dashboard   *)
(* are of one scan, from the primary database or from a replica that lags  *)
(* (queries/signals.py:104-119, routers/dashboard.py:52-138).              *)
THEOREM AnswersAreWhole == Spec => []AnswersAgree
<1>1. Init => Agreed
  BY DEF Init, ResultsInit, CachesInit, Agreed, Whole, Miss, Idle, Primary, Latest, Keys
<1>2. RunInv /\ Agreed => AnswersAgree
  BY DEF Agreed, Whole, AnswersAgree, Keys
<1>3. RunInv /\ RunInv' /\ Counted /\ Entries /\ Agreed /\ [Next]_vars => Agreed'
  BY AgreedStep
<1> QED
  BY <1>1, <1>2, <1>3, RunCounts, CachesInitial, EntriesStay, RunIsConsistent, PTL DEF Spec

(* The run, the hub and the cached answers together keep their types.      *)
THEOREM DeliveryIsTyped == Spec => []TypeOK
BY RunIsTyped, HubIsTyped, CachesAreTyped, PTL DEF TypeOK
=============================================================================
