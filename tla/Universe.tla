------------------------------- MODULE Universe -------------------------------
(***************************************************************************)
(* Which tickers a scan without an explicit universe covers:               *)
(* services/scan_service.py asks stock_master, then the lists of NSE and   *)
(* BSE that core/scanner/universe/nse_universe.py downloads and keeps as   *)
(* files, then core/scanner/pipeline.py takes a hardcoded list.            *)
(*                                                                         *)
(* Scans resolve next to each other and share the files. A resolution      *)
(* takes minutes at most, so the hours of the model pass between           *)
(* resolutions; what the exchanges list may change at any step. A file is  *)
(* written as a whole: a reader that meets a half-written one is left out. *)
(***************************************************************************)
EXTENDS Integers, FiniteSets

CONSTANTS
  Companies,
  Movers,      (* those that NSE may list or delist                        *)
  BseListed,   (* those that are listed on BSE                             *)
  BseSymbol,   (* what the API of BSE calls them: scrip_cd when it has one *)
  Static,      (* the hardcoded lists together                             *)
  Restricted,  (* the hardcoded lists of the indexes pipeline.py takes     *)
  Master,      (* rows of stock_master: <<company, exchange>>              *)
  MasterEnough, NseEnough, BseEnough,  (* the smallest answers believed    *)
  Scans,       (* scans that resolve their universe next to each other     *)
  Pooled,      (* those in a process that has called create_pool           *)
  ListTTL      (* _UNIV_CACHE_HOURS                                        *)

ASSUME UniverseAssumption ==
  /\ Movers \subseteq Companies
  /\ BseListed \subseteq Companies
  /\ Static \subseteq Companies /\ Restricted \subseteq Static
  /\ Restricted # {}
  /\ \A row \in Master : row[2] = "BSE" => row[1] \in BseListed
  /\ Master \subseteq Companies \X {"NSE", "BSE"}
  /\ Pooled \subseteq Scans
  /\ ListTTL \in Nat \ {0}
  /\ {MasterEnough, NseEnough, BseEnough} \subseteq Nat \ {0}

VARIABLES
  nse,      (* the companies NSE lists in the series EQ                    *)
  since,    (* hours since that changed for a company, up to Known         *)
  nseFile,  (* _univ_nse_all.txt: companies and age in hours               *)
  bseFile,  (* _univ_bse_all.txt: symbols, age, and whether every group    *)
            (* was downloaded and compared with a list of NSE (a ghost)    *)
  step,     (* where a scan is in resolving its universe                   *)
  nseSet,   (* the NSE symbols it has found                                *)
  found     (* its universe, and the source: "master", "live" (both lists  *)
            (* downloaded as a whole), "partial", "static" or "restricted" *)

uvars == <<nse, since, nseFile, bseFile, step, nseSet, found>>

Known   == 2 * ListTTL
Ticker(symbol, feed) == [symbol |-> symbol, feed |-> feed]
Symbols == Companies \cup {BseSymbol[c] : c \in BseListed}
Tickers == {Ticker(s, f) : s \in Symbols, f \in {"NS", "BO"}}
Nothing == [tickers |-> {}, source |-> "none"]

(* The files, the steps of the scans and their universes keep their types. *)
UniverseTypeOK ==
  /\ nse \subseteq Companies
  /\ since \in [Companies -> 0..Known]
  /\ nseFile \in [listed : SUBSET Companies, age : 0..ListTTL]
  /\ bseFile \in [only : SUBSET Symbols, age : 0..ListTTL, whole : BOOLEAN]
  /\ step \in [Scans -> {"idle", "master", "nse", "bse", "pipeline", "found"}]
  /\ nseSet \in [Scans -> [listed : SUBSET Companies, live : BOOLEAN]]
  /\ found \in [Scans -> [tickers : SUBSET Tickers,
                          source : {"none", "master", "live", "partial",
                                    "static", "restricted"}]]

NoNse == [listed |-> {}, live |-> FALSE]

UniverseInit ==
  /\ nse = Companies \ Movers
  /\ since = [c \in Companies |-> Known]
  /\ nseFile = [listed |-> {}, age |-> ListTTL]
  /\ bseFile = [only |-> {}, age |-> ListTTL, whole |-> TRUE]
  /\ step = [s \in Scans |-> "idle"]
  /\ nseSet = [s \in Scans |-> NoNse]
  /\ found = [s \in Scans |-> Nothing]

Goto(s, there) == step' = [step EXCEPT ![s] = there]

End(s, tickers, source) ==
  /\ found' = [found EXCEPT ![s] = [tickers |-> tickers, source |-> source]]
  /\ Goto(s, "found")

(* An hour without a resolution under way. *)
AnHour ==
  /\ \A s \in Scans : step[s] = "idle"
  /\ since' = [c \in Companies |-> IF since[c] = Known THEN Known ELSE since[c] + 1]
  /\ nseFile' = [nseFile EXCEPT !.age = IF @ = ListTTL THEN @ ELSE @ + 1]
  /\ bseFile' = [bseFile EXCEPT !.age = IF @ = ListTTL THEN @ ELSE @ + 1]
  /\ UNCHANGED <<nse, step, nseSet, found>>

(* NSE lists a company, or ends its listing. *)
ListingChanges ==
  /\ \E c \in Movers :
       /\ nse' = IF c \in nse THEN nse \ {c} ELSE nse \cup {c}
       /\ since' = [since EXCEPT ![c] = 0]
  /\ UNCHANGED <<nseFile, bseFile, step, nseSet, found>>

(* run_scan_async without a universe. *)
Resolve(s) ==
  /\ step[s] = "idle"
  /\ Goto(s, "master")
  /\ UNCHANGED <<nse, since, nseFile, bseFile, nseSet, found>>

(* get_master_universe: every row that is not delisted, whatever its index. *)
MasterUniverse ==
  {IF row[2] = "BSE" THEN Ticker(BseSymbol[row[1]], "BO") ELSE Ticker(row[1], "NS") :
     row \in Master}

(* _resolve_universe_from_db. Without a pool get_pool raises, and so may   *)
(* the query: either way the master list counts as empty.                  *)
AskMaster(s) ==
  /\ step[s] = "master"
  /\ \/ /\ s \in Pooled
        /\ Cardinality(MasterUniverse) >= MasterEnough
        /\ End(s, MasterUniverse, "master")
     \/ Goto(s, "nse") /\ UNCHANGED found
  /\ UNCHANGED <<nse, since, nseFile, bseFile, nseSet>>

(* Mutant: a file is as good as on its first day. *)
Fresh_Always(file) == TRUE

Fresh(file) == file.age < ListTTL

(* A file that cannot be read raises outside of every try block but that   *)
(* of _fetch_full_equity_master, which answers with an empty list.         *)
Unreadable(s) ==
  /\ step[s] \in {"nse", "bse"}
  /\ Goto(s, "pipeline")
  /\ UNCHANGED <<nse, since, nseFile, bseFile, nseSet, found>>

TakeNse(s, listed, live) ==
  /\ nseSet' = [nseSet EXCEPT ![s] = [listed |-> listed, live |-> live]]
  /\ Goto(s, "bse")
  /\ UNCHANGED <<nse, since, bseFile, found>>

NseCached == nseFile.listed # {} /\ Fresh(nseFile)

(* _fetch_all_nse_equity *)
NseFromFile(s) ==
  /\ step[s] = "nse"
  /\ NseCached
  /\ TakeNse(s, nseFile.listed, TRUE)
  /\ UNCHANGED nseFile

NseDownload(s) ==
  /\ step[s] = "nse"
  /\ ~NseCached
  /\ Cardinality(nse) >= NseEnough
  /\ nseFile' = [listed |-> nse, age |-> 0]
  /\ TakeNse(s, nse, TRUE)

(* The download fails or is too short: _get_all_equity_universe falls back. *)
NseFails(s) ==
  /\ step[s] = "nse"
  /\ ~NseCached
  /\ TakeNse(s, Static, FALSE)
  /\ UNCHANGED nseFile

(* Mutant: the dual listings stay. *)
BseOnly_Dual(companies, listed) == {BseSymbol[c] : c \in companies}

(* The filter compares symbols. Where the API answers with scrip_cd, a     *)
(* number, it finds none of them among the symbols of NSE.                 *)
BseOnly(companies, listed) == {BseSymbol[c] : c \in companies} \ listed

(* The end of _get_all_equity_universe: the union of both lists. *)
Combine(s, only, whole) ==
  LET ours == nseSet[s]
  IN End(s, {Ticker(c, "NS") : c \in ours.listed} \cup {Ticker(b, "BO") : b \in only},
         IF ~ours.live THEN "static" ELSE IF whole THEN "live" ELSE "partial")

BseCached == bseFile.only # {} /\ Fresh(bseFile)

(* _fetch_all_bse_equity: the file is not asked what it was compared with. *)
BseFromFile(s) ==
  /\ step[s] = "bse"
  /\ BseCached
  /\ Combine(s, bseFile.only, bseFile.whole)
  /\ UNCHANGED <<nse, since, nseFile, bseFile, nseSet>>

(* Five groups, each in a try block of its own: what arrives is the list.  *)
BseDownload(s) ==
  /\ step[s] = "bse"
  /\ ~BseCached
  /\ \E arrived \in SUBSET BseListed :
       LET only  == BseOnly(arrived, nseSet[s].listed)
           whole == arrived = BseListed /\ nseSet[s].live
       IN \/ /\ Cardinality(arrived) >= BseEnough
             /\ bseFile' = [only |-> only, age |-> 0, whole |-> whole]
             /\ Combine(s, only, whole)
          \/ /\ Cardinality(arrived) < BseEnough
             /\ UNCHANGED bseFile
             /\ Combine(s, {}, FALSE)
  /\ UNCHANGED <<nse, since, nseFile, nseSet>>

(* run_scan without a universe: get_full_universe with the defaults. *)
PipelineDefault(s) ==
  /\ step[s] = "pipeline"
  /\ End(s, {Ticker(c, "NS") : c \in Restricted}, "restricted")
  /\ UNCHANGED <<nse, since, nseFile, bseFile, nseSet>>

(* The scan goes on with what it found. *)
Leave(s) ==
  /\ step[s] = "found"
  /\ Goto(s, "idle")
  /\ nseSet' = [nseSet EXCEPT ![s] = NoNse]
  /\ found' = [found EXCEPT ![s] = Nothing]
  /\ UNCHANGED <<nse, since, nseFile, bseFile>>

UniverseNext ==
  \/ AnHour
  \/ ListingChanges
  \/ \E s \in Scans :
       \/ Resolve(s) \/ AskMaster(s) \/ Unreadable(s)
       \/ NseFromFile(s) \/ NseDownload(s) \/ NseFails(s)
       \/ BseFromFile(s) \/ BseDownload(s)
       \/ PipelineDefault(s) \/ Leave(s)

UniverseSpec == UniverseInit /\ [][UniverseNext]_uvars

(***************************************************************************)
(* Properties.                                                             *)
(***************************************************************************)
FromLists(s) == step[s] = "found" /\ found[s].source \in {"live", "partial"}
Covers(s, symbol, feed) == Ticker(symbol, feed) \in found[s].tickers

(* A stock that NSE listed, or delisted, a full lifetime of the file ago   *)
(* is in, or out of, the universe of every scan that has a list of NSE     *)
(* (nse_universe.py:390-395): no failed download, no other scan and no     *)
(* moment of the day makes an old list live longer.                        *)
ListingsArrive ==
  \A s \in Scans : FromLists(s) =>
    \A c \in Companies :
      since[c] >= ListTTL => (Covers(s, c, "NS") <=> c \in nse)

(* The list of BSE is filtered against the list of NSE of another hour and *)
(* kept on its own (nse_universe.py:533-546). A company may be scanned on  *)
(* both feeds, or on none, while one file knows of its listing and the     *)
(* other does not, but not for two lifetimes: from then on it is on        *)
(* exactly one, where both files are whole and BSE uses the symbol of NSE. *)
OneFeed ==
  \A s \in Scans : step[s] = "found" /\ found[s].source = "live" =>
    \A c \in BseListed : BseSymbol[c] = c /\ since[c] >= Known - 1 =>
      (Covers(s, c, "NS") <=> ~Covers(s, BseSymbol[c], "BO"))
=============================================================================
