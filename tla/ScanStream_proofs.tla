-------------------------- MODULE ScanStream_proofs --------------------------
(***************************************************************************)
(* What a run of a scan guarantees for any universe, any mixture of faults *)
(* and any bounds, next to a hub and to requests of any number             *)
(* (ScanDelivery): what the row of the scan promises, how fast a stop is   *)
(* obeyed, in which order clients are told, and that it is quiet in the    *)
(* end.                                                                    *)
(***************************************************************************)
EXTENDS ScanDelivery, FiniteSetTheorems, SequenceTheorems, TLAPS

(***************************************************************************)
(* The inductive invariant of a run.                                       *)
(***************************************************************************)
Size  == Cardinality(setup.symbols)
Taken == {s \in setup.symbols : fetch[s] = "taken"}
Over  == {"returned", "raised"}
Event == [type : {"started", "phase", "progress", "batch", "complete", "failed"},
          n : 0..Size]

CallType == [n : 0..done, sym : setup.symbols \cup {NoSymbol},
             at : {"phase", "insert", "copy", "progress", "batch", "check"}]

(* StreamTypeOK in these words. *)
Types ==
  /\ scan \in {"pending", "done", "failed"}
  /\ found \in 0..Size
  /\ stored \subseteq setup.symbols
  /\ wire \in Seq(Event)
  /\ fetch \in [setup.symbols -> {"queued", "passed", "skipped", "taken"}]
  /\ thread \in {"idle", "next", "wait", "closing", "failing", "report", "returned",
                "raised"}
  /\ done \in 0..Size
  /\ \A c \in calls : c \in CallType
  /\ loop \in {"start", "resolve", "run", "mark", "lists", "counts", "tell",
               "stats", "fail", "cleanup", "close", "ended"}
  /\ inserted \in 0..done
  /\ cancel \in BOOLEAN
  /\ stop \in {"idle", "mark", "flag", "tell", "bust", "answered"}
  /\ late \in 0..MaxLate /\ deaf \in 0..MaxDeaf /\ overrun \in 0..done

(* Where the event loop is and where the pipeline thread is.               *)
Positions ==
  /\ loop \in {"start", "resolve"} <=> thread = "idle"
  /\ loop \in {"mark", "lists", "counts", "tell", "stats"} => thread = "returned"
  /\ loop \in {"fail", "cleanup", "close", "ended"} => thread \in Over
  /\ thread = "idle" => calls = {} /\ done = 0 /\ Taken = {}
  /\ loop = "ended" => \A c \in calls : c.at # "copy" /\ May("here")

(* Each callback has its own number and its own symbol, which was taken.   *)
Callbacks ==
  /\ \A c, d \in calls : c.n = d.n => c = d
  /\ \A c, d \in calls : c.sym = d.sym /\ c.sym # NoSymbol => c = d
  /\ \A c \in calls :
       /\ c.sym # NoSymbol => c.sym \in Taken
       /\ c.at \in {"insert", "copy"} => c.sym # NoSymbol /\ c.sym \notin stored
       /\ c.at = "phase" <=> c.n = 0

(* What was found is in the table, what is in the table was taken.         *)
Numbers ==
  /\ done = Cardinality(Taken)
  /\ stored \subseteq Taken
  /\ inserted <= Cardinality(stored)
  /\ found <= Cardinality(stored)

RunInv == setup \in Setups /\ Types /\ Positions /\ Callbacks /\ Numbers

(* What is said about the numbers makes sense: a universe is finite.       *)
LEMMA UniverseIsFinite ==
  ASSUME setup \in Setups
  PROVE  /\ IsFiniteSet(setup.symbols) /\ Size \in Nat
         /\ setup.symbols \subseteq Symbols
         /\ \A T \in SUBSET setup.symbols :
              IsFiniteSet(T) /\ Cardinality(T) \in Nat /\ Cardinality(T) <= Size
<1>1. setup.symbols \in SUBSET Symbols /\ IsFiniteSet(Symbols)
  BY SetupAssumption
<1>2. IsFiniteSet(setup.symbols)
  BY <1>1, FS_Subset
<1> QED
  BY <1>1, <1>2, FS_Subset, FS_CardinalityType DEF Size

(* No step of a run or of a request chooses another setup. *)
LEMMA SetupStays == StreamNext \/ CachesNext => setup' = setup
BY DEF results, StreamNext, CachesNext, FetchDone, Thread, Arrives, Take, RankFails,
       Exhausted, Close, Report, GiveUp, CallStep, CallPhase, CallAcquire, CallInsert,
       CallProgress, CallBatch, CallCheck, Task, Start, Resolve, Decide, Mark, Raised,
       BustLists, BustCounts, Tell, BustStats, Fail, Cleanup, ClosePool, FlagExpires,
       Stop, StopRead, StopMark, StopFlag, StopTell, StopBust, Ask, Request, First,
       Second, Fill, ReadFails, Expire, Replicate

(* An event is appended, or lost. *)
LEMMA PublishIsTyped ==
  ASSUME NEW S, NEW type, NEW n, wire \in Seq(S), [type |-> type, n |-> n] \in S,
         Publish(type, n)
  PROVE  wire' \in Seq(S)
BY DEF Publish

LEMMA RunInitial == Init => RunInv
<1> SUFFICES ASSUME Init PROVE RunInv
  OBVIOUS
<1> USE DEF Init, ResultsInit, StreamInit
<1>1. setup \in Setups
  OBVIOUS
<1>2. Size \in Nat
  BY <1>1, UniverseIsFinite
<1>3. Taken = {}
  BY DEF Taken
<1>4. Cardinality({}) = 0
  BY FS_EmptySet
<1>5. wire \in Seq(Event)
  BY EmptySeq
<1>6. Types
  <2>1. /\ found \in 0..Size /\ done \in 0..Size
        /\ inserted \in 0..done /\ overrun \in 0..done
        /\ late \in 0..MaxLate /\ deaf \in 0..MaxDeaf
    BY <1>2, StreamAssumption
  <2>2. fetch \in [setup.symbols -> {"queued", "passed", "skipped", "taken"}]
    OBVIOUS
  <2>3. wire \in Seq(Event)
    BY <1>5
  <2> QED
    BY <2>1, <2>2, <2>3 DEF Types
<1> QED
  BY <1>1, <1>3, <1>4, <1>6 DEF RunInv, Positions, Callbacks, Numbers, Over

(***************************************************************************)
(* The steps of a run keep the invariant, part by part.                    *)
(***************************************************************************)
(* The set of the taken symbols grows by one with each symbol. *)
LEMMA TakenGrows ==
  ASSUME RunInv, NEW s \in setup.symbols, Take(s) \/ RankFails(s)
  PROVE  /\ s \notin Taken /\ Taken' = Taken \cup {s}
         /\ Cardinality(Taken') = done + 1 /\ done + 1 \in 0..Size
<1> USE DEF RunInv
<1>1. setup' = setup
  BY DEF Arrives, Take, RankFails, results
<1>2. s \notin Taken /\ Taken' = Taken \cup {s}
  BY <1>1 DEF Arrives, Take, RankFails, Taken, Types
<1>3. Taken \in SUBSET setup.symbols /\ Taken \cup {s} \in SUBSET setup.symbols
  BY DEF Taken
<1>4. IsFiniteSet(Taken)
  BY <1>3, UniverseIsFinite
<1>5. Cardinality(Taken \cup {s}) = Cardinality(Taken) + 1
  BY <1>2, <1>4, FS_AddElement
<1>6. Cardinality(Taken \cup {s}) \in Nat /\ Cardinality(Taken \cup {s}) <= Size /\ Size \in Nat
  BY <1>3, UniverseIsFinite
<1> QED
  BY <1>2, <1>5, <1>6 DEF Numbers

(* A symbol is inserted once: there is room for it among those counted. *)
LEMMA InsertGrows ==
  ASSUME RunInv, NEW c \in calls, c.at = "copy"
  PROVE  /\ c.sym \in setup.symbols /\ c.sym \in Taken /\ c.sym \notin stored
         /\ Cardinality(stored) \in Nat /\ inserted + 1 <= done
         /\ Cardinality(stored \cup {c.sym}) = Cardinality(stored) + 1
<1> USE DEF RunInv
<1>1. c.sym \in Taken /\ c.sym \notin stored /\ Taken \in SUBSET setup.symbols
  BY DEF Callbacks, Taken
<1>2. IsFiniteSet(Taken) /\ IsFiniteSet(stored)
  BY <1>1, UniverseIsFinite DEF Types
<1>3. Cardinality(stored \cup {c.sym}) = Cardinality(stored) + 1
  BY <1>1, <1>2, FS_AddElement
<1>4. Cardinality(stored \cup {c.sym}) <= Cardinality(Taken)
  BY <1>1, <1>2, FS_Subset DEF Numbers
<1>5. Cardinality(stored) \in Nat /\ Cardinality(Taken) \in Nat
  BY <1>2, FS_CardinalityType
<1> QED
  BY <1>1, <1>3, <1>4, <1>5 DEF Numbers, Types

LEMMA TypesStep == RunInv /\ StreamNext => Types'
<1> SUFFICES ASSUME RunInv, StreamNext PROVE Types'
  OBVIOUS
<1>1. setup' = setup /\ setup \in Setups
  BY SetupStays DEF RunInv
<1>2. Size \in Nat /\ Size' = Size /\ Event' = Event
  BY <1>1, UniverseIsFinite DEF Size, Event
<1>3. MaxLate \in Nat /\ MaxDeaf \in Nat
  BY StreamAssumption
<1>4. ASSUME NEW type \in {"started", "phase", "progress", "batch", "complete", "failed"},
             NEW n \in 0..Size, Publish(type, n)
      PROVE  wire' \in Seq(Event)
  BY <1>4, <1>2, PublishIsTyped DEF Event, RunInv, Types
<1> USE <1>1, <1>2, <1>3 DEF RunInv, Types, CallType
<1>10. ASSUME NEW s \in setup.symbols, FetchDone(s) PROVE Types'
  BY <1>10 DEF FetchDone, results
<1>11. ASSUME NEW s \in setup.symbols, Take(s) \/ RankFails(s) PROVE Types'
  <2>1. done + 1 \in 0..Size
    BY <1>11, TakenGrows
  <2>2. setup.symbols # {} /\ s # NoSymbol
    BY StreamAssumption, UniverseIsFinite
  <2> QED
    BY <2>1, <2>2, <1>11 DEF Arrives, Take, RankFails, results
<1>12. CASE Exhausted \/ Close \/ Report \/ GiveUp
  BY <1>12 DEF Exhausted, Close, Report, GiveUp, results
<1>13. ASSUME NEW c \in calls, CallStep(c) PROVE Types'
  <2> USE DEF CallStep, Answer, Goto
  <2>1. CASE CallPhase(c)
    BY <2>1, <1>13, <1>4 DEF CallPhase
  <2>2. CASE CallInsert(c)
    <3>1. c.sym \in setup.symbols /\ inserted + 1 <= done
      BY <2>2, InsertGrows DEF CallInsert
    <3> QED
      BY <3>1, <2>2, <1>13 DEF CallInsert
  <2>3. CASE CallProgress(c)
    BY <2>3, <1>13, <1>4 DEF CallProgress
  <2>4. CASE CallBatch(c)
    BY <2>4, <1>13, <1>4 DEF CallBatch
  <2>5. CASE CallCheck(c) \/ CallAcquire(c)
    BY <2>5, <1>13 DEF CallCheck, CallAcquire, results
  <2> QED
    BY <1>13, <2>1, <2>2, <2>3, <2>4, <2>5
<1>14. CASE Task
  <2> USE DEF LoopStep
  <2>1. CASE Start
    BY <2>1, <1>4 DEF Start
  <2>2. CASE Resolve
    BY <2>2, <1>4 DEF Resolve
  <2>3. CASE Decide \/ Cleanup \/ ClosePool
    BY <2>3 DEF Decide, Cleanup, ClosePool, results
  <2>4. CASE Mark \/ Fail
    BY <2>4 DEF Mark, Fail
  <2>5. CASE Raised
    BY <2>5, <1>4 DEF Raised
  <2>6. CASE BustLists \/ BustCounts \/ BustStats
    BY <2>6 DEF BustLists, BustCounts, BustStats
  <2>7. CASE Tell
    BY <2>7, <1>4 DEF Tell
  <2> QED
    BY <1>14, <2>1, <2>2, <2>3, <2>4, <2>5, <2>6, <2>7 DEF Task
<1>15. CASE Stop \/ FlagExpires
  <2> USE DEF StopStep
  <2>0. CASE FlagExpires
    BY <2>0 DEF FlagExpires, results
  <2>1. CASE Stop /\ StopTell
    BY <2>1, <1>15, <1>4 DEF Stop, StopTell
  <2>2. CASE Stop /\ StopRead
    BY <2>2, <1>15 DEF Stop, StopRead, results
  <2>3. CASE Stop /\ (StopMark \/ StopBust)
    BY <2>3, <1>15 DEF Stop, StopMark, StopBust
  <2>4. CASE Stop /\ StopFlag
    BY <2>4, <1>15 DEF Stop, StopFlag, results
  <2> QED
    BY <1>15, <2>0, <2>1, <2>2, <2>3, <2>4 DEF Stop
<1> QED
  BY <1>10, <1>11, <1>12, <1>13, <1>14, <1>15 DEF StreamNext, Thread

LEMMA PositionsStep == RunInv /\ StreamNext => Positions'
<1> SUFFICES ASSUME RunInv, StreamNext PROVE Positions'
  OBVIOUS
<1>1. setup' = setup
  BY SetupStays
<1> USE <1>1 DEF RunInv, Positions, Over, Taken, May
<1>2. ASSUME NEW s \in setup.symbols, FetchDone(s) PROVE Positions'
  BY <1>2 DEF FetchDone, Types
<1>3. ASSUME NEW s \in setup.symbols, Take(s) \/ RankFails(s) PROVE Positions'
  BY <1>3 DEF Arrives, Take, RankFails
<1>4. CASE Exhausted \/ Close \/ Report \/ GiveUp
  BY <1>4 DEF Exhausted, Close, Report, GiveUp
<1>5. ASSUME NEW c \in calls, CallStep(c) PROVE Positions'
  <2>1. c \in CallType
    BY DEF Types
  <2>2. ASSUME NEW at, Goto(c, at), at # "copy" \/ loop # "ended"
        PROVE  \A d \in calls' : d \in calls \/ d.at # "copy" \/ loop # "ended"
    BY <2>1, <2>2 DEF Goto, CallType
  <2>3. CASE CallPhase(c) \/ CallCheck(c)
    BY <1>5, <2>3 DEF CallStep, Answer, CallPhase, CallCheck, results
  <2>4. CASE CallAcquire(c) \/ CallInsert(c) \/ CallProgress(c) \/ CallBatch(c)
    BY <1>5, <2>2, <2>4 DEF CallStep, CallAcquire, CallInsert, CallProgress, CallBatch,
           results
  <2> QED
    BY <1>5, <2>3, <2>4 DEF CallStep
<1>6. CASE Task
  <2> USE DEF LoopStep
  <2>1. CASE Start \/ Resolve \/ Decide
    BY <2>1 DEF Start, Resolve, Decide
  <2>2. CASE Mark \/ Raised \/ Fail \/ Cleanup \/ ClosePool
    BY <2>2 DEF Mark, Raised, Fail, Cleanup, ClosePool
  <2>3. CASE BustLists \/ BustCounts \/ BustStats \/ Tell
    BY <2>3 DEF BustLists, BustCounts, BustStats, Tell
  <2> QED
    BY <1>6, <2>1, <2>2, <2>3 DEF Task
<1>7. CASE Stop \/ FlagExpires
  BY <1>7 DEF Stop, FlagExpires
<1> QED
  BY <1>2, <1>3, <1>4, <1>5, <1>6, <1>7 DEF StreamNext, Thread

LEMMA CallbacksStep == RunInv /\ StreamNext => Callbacks'
<1> SUFFICES ASSUME RunInv, StreamNext PROVE Callbacks'
  OBVIOUS
<1>1. setup' = setup
  BY SetupStays
<1> USE <1>1 DEF RunInv, Callbacks
<1>2. ASSUME NEW s \in setup.symbols, FetchDone(s) PROVE Callbacks'
  BY <1>2 DEF FetchDone, Types, Taken, results
<1>8. ASSUME NEW s \in setup.symbols, RankFails(s) PROVE Callbacks'
  BY <1>8, TakenGrows DEF RankFails, results
<1>3. ASSUME NEW s \in setup.symbols, Take(s) PROVE Callbacks'
  <2>1. s \notin Taken /\ Taken' = Taken \cup {s} /\ s # NoSymbol /\ s \notin stored
    BY <1>3, TakenGrows, StreamAssumption, UniverseIsFinite DEF Numbers
  <2>2. \A c \in calls : c.n \in 0..done /\ done \in Nat
    BY UniverseIsFinite DEF Types, CallType
  <2>3. stored' = stored
    BY <1>3 DEF Arrives, Take, RankFails, results
  <2>4. PICK e : /\ calls' = calls \cup {e}
                 /\ e.n = done + 1 /\ e.at \in {"insert", "progress"}
                 /\ e.sym \in {s, NoSymbol} /\ (e.at = "insert" => e.sym = s)
    <3>1. CASE calls' = calls \cup {[n |-> done + 1, sym |-> s, at |-> "insert"]}
      BY <3>1
    <3>2. CASE calls' = calls \cup {[n |-> done + 1, sym |-> NoSymbol, at |-> "progress"]}
      BY <3>2
    <3> QED
      BY <1>3, <3>1, <3>2 DEF Arrives, Take, RankFails
  <2>5. \A c \in calls : c # e /\ c.n # e.n /\ (c.sym # NoSymbol => c.sym # s)
    BY <2>1, <2>2, <2>4
  <2>6. \A c, d \in calls' : /\ c.n = d.n => c = d
                             /\ c.sym = d.sym /\ c.sym # NoSymbol => c = d
    BY <2>4, <2>5
  <2>7. e.at # "phase" /\ e.n # 0
    BY <2>2, <2>4, UniverseIsFinite DEF Types
  <2>8. \A c \in calls' :
           /\ c.sym # NoSymbol => c.sym \in Taken'
           /\ c.at \in {"insert", "copy"} => c.sym # NoSymbol /\ c.sym \notin stored'
           /\ c.at = "phase" <=> c.n = 0
    BY <2>1, <2>3, <2>4, <2>7
  <2> QED
    BY <2>6, <2>8
<1>4. CASE Exhausted \/ Close \/ Report \/ GiveUp
  BY <1>4 DEF Exhausted, Close, Report, GiveUp, Taken, results
<1>5. ASSUME NEW c \in calls, CallStep(c) PROVE Callbacks'
  <2>1. Taken' = Taken
    BY <1>5 DEF CallStep, Taken
  <2>2. ASSUME NEW at, Goto(c, at), at \notin {"phase", "insert", "copy"}, c.at # "phase",
               stored' \subseteq stored \cup {c.sym}
        PROVE  Callbacks'
    BY <2>1, <2>2 DEF Goto, Types, CallType
  <2>3. CASE CallPhase(c) \/ CallCheck(c)
    BY <2>1, <2>3 DEF CallPhase, CallCheck, Answer, results
  <2>4. CASE CallInsert(c)
    BY <2>2, <2>4 DEF CallInsert
  <2>6. CASE CallAcquire(c)
    BY <2>1, <2>6 DEF CallAcquire, Goto, Types, CallType, results
  <2>5. CASE CallProgress(c) \/ CallBatch(c)
    BY <2>2, <2>5 DEF CallProgress, CallBatch
  <2> QED
    BY <1>5, <2>3, <2>4, <2>5, <2>6 DEF CallStep
<1>6. CASE Task
  <2>1. CASE Resolve
    BY <2>1 DEF Resolve
  <2>2. CASE Cleanup \/ ClosePool
    BY <2>2 DEF Cleanup, ClosePool, results, Taken
  <2>3. UNCHANGED <<calls, stored, fetch>> \/ Resolve \/ Cleanup \/ ClosePool
    BY <1>6 DEF Task, Start, Decide, Mark, Raised, BustLists, BustCounts, Tell,
                BustStats, Fail, results
  <2> QED
    BY <2>1, <2>2, <2>3 DEF Taken
<1>7. CASE Stop \/ FlagExpires
  BY <1>7 DEF FlagExpires, Stop, StopRead, StopMark, StopFlag, StopTell, StopBust,
         results, Taken
<1> QED
  BY <1>2, <1>3, <1>4, <1>5, <1>6, <1>7, <1>8 DEF StreamNext, Thread

LEMMA NumbersStep == RunInv /\ StreamNext => Numbers'
<1> SUFFICES ASSUME RunInv, StreamNext PROVE Numbers'
  OBVIOUS
<1>1. setup' = setup
  BY SetupStays
<1>2. Cardinality(stored) \in Nat /\ inserted \in Nat
  BY UniverseIsFinite DEF RunInv, Types
<1> USE <1>1, <1>2 DEF RunInv, Numbers
<1>3. ASSUME NEW s \in setup.symbols, FetchDone(s) PROVE Numbers'
  BY <1>3 DEF FetchDone, Types, Taken, results
<1>4. ASSUME NEW s \in setup.symbols, Take(s) \/ RankFails(s) PROVE Numbers'
  <2>1. Taken' = Taken \cup {s} /\ Cardinality(Taken') = done + 1
    BY <1>4, TakenGrows
  <2> QED
    BY <2>1, <1>4 DEF Arrives, Take, RankFails, results
<1>5. CASE Exhausted \/ Close \/ Report \/ GiveUp
  BY <1>5 DEF Exhausted, Close, Report, GiveUp, Taken, results
<1>6. ASSUME NEW c \in calls, CallStep(c) PROVE Numbers'
  <2>1. Taken' = Taken /\ done' = done
    BY <1>6 DEF CallStep, Taken
  <2>2. CASE CallInsert(c)
    <3>1. c.sym \in Taken /\ Cardinality(stored \cup {c.sym}) = Cardinality(stored) + 1
      BY <2>2, InsertGrows DEF CallInsert
    <3>2. found' = found /\ found <= Cardinality(stored) /\ found \in Nat
      BY <2>2, UniverseIsFinite DEF CallInsert, Types
    <3> QED
      BY <2>1, <2>2, <3>1, <3>2 DEF CallInsert
  <2>3. CASE CallPhase(c) \/ CallAcquire(c) \/ CallProgress(c) \/ CallBatch(c) \/ CallCheck(c)
    BY <2>1, <2>3 DEF CallPhase, CallAcquire, CallProgress, CallBatch, CallCheck, results
  <2> QED
    BY <1>6, <2>2, <2>3 DEF CallStep
<1>7. CASE Task
  BY <1>7 DEF Task, Start, Resolve, Decide, Mark, Raised, BustLists, BustCounts, Tell,
              BustStats, Fail, Cleanup, ClosePool, results, Taken
<1>8. CASE Stop \/ FlagExpires
  BY <1>8 DEF FlagExpires, Stop, StopRead, StopMark, StopFlag, StopTell, StopBust,
         results, Taken
<1> QED
  BY <1>3, <1>4, <1>5, <1>6, <1>7, <1>8 DEF StreamNext, Thread

(* The hub and the requests for the results leave a run alone. *)
LEMMA OthersLeaveTheRun ==
  ASSUME RunInv, UNCHANGED <<setup, scan, found, stored, wire, streamVars>>
  PROVE  RunInv'
BY DEF streamVars, RunInv, Types, Size, Event, CallType, Positions, Taken, Over,
       Callbacks, Numbers, May

(* A request leaves the run alone.                                         *)
LEMMA RequestsReadOnly ==
  CachesNext => UNCHANGED <<setup, scan, found, stored, wire>>
BY DEF CachesNext, Ask, Request, First, Second, Fill, ReadFails, Expire, Replicate, results

LEMMA RunStep == RunInv /\ [Next]_vars => RunInv'
<1> SUFFICES ASSUME RunInv, [Next]_vars PROVE RunInv'
  OBVIOUS
<1>1. CASE StreamNext
  <2>1. setup' = setup
    BY <1>1, SetupStays
  <2> QED
    BY <1>1, <2>1, TypesStep, PositionsStep, CallbacksStep, NumbersStep DEF RunInv
<1>2. CASE HubNext /\ UNCHANGED <<results, streamVars, cacheVars>>
  BY <1>2, OthersLeaveTheRun DEF results
<1>3. CASE CachesNext /\ UNCHANGED <<streamVars, hubVars>>
  BY <1>3, OthersLeaveTheRun, RequestsReadOnly
<1>4. CASE UNCHANGED vars
  BY <1>4, OthersLeaveTheRun DEF vars, results
<1> QED
  BY <1>1, <1>2, <1>3, <1>4 DEF Next

(* The types of a run, its bounds and its numbers (pipeline.py,            *)
(* scanner_tasks.py): done_count is the number of symbols that were taken, *)
(* no callback shares its number or its symbol with another one, and the   *)
(* positions of the loop and of the thread fit each other.                 *)
THEOREM RunIsConsistent == Spec => []RunInv
BY RunInitial, RunStep, PTL DEF Spec

(* For any universe and any faults: positions, queues, numbers and rows of *)
(* a run keep their types (pipeline.py, scanner_tasks.py).                 *)
THEOREM RunIsTyped == Spec => []StreamTypeOK
<1>1. RunInv => StreamTypeOK
  BY DEF RunInv, Types, StreamTypeOK, Size, Event, CallType
<1> QED
  BY <1>1, RunIsConsistent, PTL

(***************************************************************************)
(* FoundIsStored: what the row of the scan promises.                       *)
(***************************************************************************)
AfterMark == {"lists", "counts", "tell", "stats", "fail", "cleanup", "close", "ended"}

(* As long as every callback was waited for, there is at most one, and the *)
(* thread waits for it.                                                    *)
Waited == late = 0 => \A c \in calls : c.n = done /\ thread = "wait"

(* Without errors every insert is counted; the row gets the count when     *)
(* nothing can be inserted any more, or only by callbacks nobody waits for.*)
Counted ==
  /\ ~May("errors") => inserted = Cardinality(stored)
  /\ scan = "done" => loop \in AfterMark
  /\ scan = "done" /\ late = 0 => found = inserted

LEMMA WaitedStep == RunInv /\ Waited /\ StreamNext => Waited'
<1> SUFFICES ASSUME RunInv, Waited, StreamNext, late' = 0
             PROVE  \A c \in calls' : c.n = done' /\ thread' = "wait"
  BY DEF Waited
<1> USE DEF RunInv
<1>1. late \in Nat
  BY StreamAssumption DEF Types
<1>2. ASSUME NEW s \in setup.symbols, Take(s) \/ RankFails(s) PROVE Waited'
  BY <1>2 DEF Arrives, Take, RankFails, Waited
<1>3. CASE GiveUp
  BY <1>1, <1>3 DEF GiveUp
<1>4. CASE Exhausted \/ Close \/ Report
  BY <1>4 DEF Exhausted, Close, Report, Waited
<1>5. ASSUME NEW c \in calls, CallStep(c) PROVE Waited'
  <2>1. late = 0
    BY <1>5 DEF CallStep
  <2>2. \A d \in calls : d = c
    BY <2>1 DEF Waited, Callbacks
  <2>3. CASE CallPhase(c) \/ CallCheck(c)
    BY <2>2, <2>3 DEF CallPhase, CallCheck, Answer, Waited
  <2>4. CASE CallAcquire(c) \/ CallInsert(c) \/ CallProgress(c) \/ CallBatch(c)
    BY <2>1, <2>2, <2>4, <1>5 DEF CallAcquire, CallInsert, CallProgress, CallBatch, Goto,
           Waited, CallStep, Types, CallType
  <2> QED
    BY <1>5, <2>3, <2>4 DEF CallStep
<1>6. CASE Task
  BY <1>6 DEF Task, Start, Resolve, Decide, Mark, Raised, BustLists, BustCounts, Tell,
              BustStats, Fail, Cleanup, ClosePool, Waited, LoopStep, Positions
<1>7. CASE Stop \/ FlagExpires
  BY <1>7 DEF FlagExpires, Stop, Waited
<1>8. ASSUME NEW s \in setup.symbols, FetchDone(s) PROVE Waited'
  BY <1>8 DEF FetchDone, Waited
<1> QED
  BY <1>2, <1>3, <1>4, <1>5, <1>6, <1>7, <1>8 DEF StreamNext, Thread, Waited

LEMMA CountedStep == RunInv /\ Waited /\ Counted /\ StreamNext => Counted'
<1> SUFFICES ASSUME RunInv, Waited, Counted, StreamNext PROVE Counted'
  OBVIOUS
<1>1. setup' = setup
  BY SetupStays
<1> USE <1>1 DEF RunInv, Counted, May, AfterMark
<1>2. ASSUME NEW s \in setup.symbols, Take(s) \/ RankFails(s) \/ FetchDone(s) PROVE Counted'
  BY <1>2 DEF Arrives, Take, RankFails, FetchDone, results
<1>3. CASE GiveUp
  <2>1. thread = "wait" /\ UNCHANGED <<results, loop, inserted>>
    BY <1>3 DEF GiveUp
  <2>2. scan # "done"
    BY <2>1 DEF Positions, Over
  <2> QED
    BY <2>1, <2>2 DEF results
<1>4. CASE Exhausted \/ Close \/ Report
  BY <1>4 DEF Exhausted, Close, Report, results
<1>5. ASSUME NEW c \in calls, CallStep(c) PROVE Counted'
  <2>1. CASE CallInsert(c)
    <3>1. Cardinality(stored \cup {c.sym}) = Cardinality(stored) + 1
      BY <2>1, InsertGrows DEF CallInsert
    <3>2. ~(scan = "done" /\ late = 0)
      BY DEF Waited, Positions, Over
    <3> QED
      BY <1>5, <2>1, <3>1, <3>2 DEF CallInsert, CallStep
  <2>2. CASE CallPhase(c) \/ CallAcquire(c) \/ CallProgress(c) \/ CallBatch(c) \/ CallCheck(c)
    BY <1>5, <2>2 DEF CallPhase, CallAcquire, CallProgress, CallBatch, CallCheck,
           CallStep, results
  <2> QED
    BY <1>5, <2>1, <2>2 DEF CallStep
<1>6. CASE Task
  BY <1>6 DEF Task, Start, Resolve, Decide, Mark, Raised, BustLists, BustCounts, Tell,
              BustStats, Fail, Cleanup, ClosePool, LoopStep, results
<1>7. CASE Stop \/ FlagExpires
  BY <1>7 DEF FlagExpires, Stop, StopRead, StopMark, StopFlag, StopTell, StopBust, results
<1> QED
  BY <1>2, <1>3, <1>4, <1>5, <1>6, <1>7 DEF StreamNext, Thread

LEMMA RunCounts == Spec => [](Waited /\ Counted)
<1>1. Init => Waited /\ Counted
  BY FS_EmptySet DEF Init, ResultsInit, StreamInit, Waited, Counted
<1>2. RunInv /\ Waited /\ Counted /\ [Next]_vars => Waited' /\ Counted'
  <2>1. ASSUME UNCHANGED <<setup, scan, found, stored, wire, streamVars>>, Waited, Counted
        PROVE  Waited' /\ Counted'
    BY <2>1 DEF streamVars, Waited, Counted, May
  <2> QED
    BY <2>1, WaitedStep, CountedStep, RequestsReadOnly DEF Next, vars, results
<1> QED
  BY <1>1, <1>2, RunIsConsistent, PTL DEF Spec

(* For any universe and any faults: signals_found never exceeds the rows   *)
(* of the table, and is exact when every callback was waited for and no    *)
(* statement failed (scanner_tasks.py:98-104).                             *)
THEOREM WhatIsFoundIsStored == Spec => []FoundIsStored
<1>1. RunInv /\ Counted => FoundIsStored
  BY DEF RunInv, Numbers, Counted, FoundIsStored
<1> QED
  BY <1>1, RunCounts, RunIsConsistent, PTL

(***************************************************************************)
(* StopIsPrompt: the thread obeys the next answer it hears.                *)
(***************************************************************************)
(* While the flag is set, only a thread that was given leave to go on owes *)
(* nothing for the symbol it took last; before it is set there is nothing  *)
(* to count.                                                               *)
Obedient ==
  /\ overrun <= late + deaf + IF cancel /\ thread = "next" THEN 0 ELSE 1
  /\ stop \in {"idle", "mark", "flag"} => overrun = 0 /\ ~cancel

LEMMA ObedientStep == RunInv /\ Obedient /\ StreamNext => Obedient'
<1> SUFFICES ASSUME RunInv, Obedient, StreamNext PROVE Obedient'
  OBVIOUS
<1>1. /\ late \in Nat /\ deaf \in Nat /\ done \in Nat
      /\ overrun \in Nat /\ overrun <= done
  BY StreamAssumption, UniverseIsFinite DEF RunInv, Types
<1> USE <1>1 DEF Obedient, Over
<1>2. ASSUME NEW s \in setup.symbols, Take(s) \/ RankFails(s) PROVE Obedient'
  BY <1>2 DEF Arrives, Take, RankFails
<1>3. ASSUME NEW s \in setup.symbols, FetchDone(s) PROVE Obedient'
  BY <1>3 DEF FetchDone
<1>4. CASE GiveUp \/ Exhausted \/ Close \/ Report
  BY <1>4 DEF GiveUp, Exhausted, Close, Report
<1>5. ASSUME NEW c \in calls, CallStep(c) PROVE Obedient'
  <2> USE DEF CallStep, Answer
  <2>1. CASE CallPhase(c)
    <3>1. c.n = 0
      BY <2>1 DEF RunInv, Callbacks, CallPhase
    <3> QED
      BY <3>1, <2>1, <1>5 DEF CallPhase
  <2>2. CASE CallAcquire(c) \/ CallInsert(c) \/ CallProgress(c) \/ CallBatch(c)
    BY <2>2, <1>5 DEF CallAcquire, CallInsert, CallProgress, CallBatch
  <2>3. CASE CallCheck(c)
    BY <2>3, <1>5 DEF CallCheck
  <2> QED
    BY <1>5, <2>1, <2>2, <2>3
<1>6. CASE Task
  BY <1>6 DEF Task, Start, Resolve, Decide, Mark, Raised, BustLists, BustCounts, Tell,
              BustStats, Fail, Cleanup, ClosePool, LoopStep, RunInv, Positions
<1>7. CASE Stop \/ FlagExpires
  BY <1>7 DEF FlagExpires, Stop, StopRead, StopMark, StopFlag, StopTell, StopBust, StopStep
<1> QED
  BY <1>2, <1>3, <1>4, <1>5, <1>6, <1>7 DEF StreamNext, Thread

(* For any universe and any faults: after a stop one more symbol is        *)
(* analysed, and one for each answer that did not reach the pipeline       *)
(* (scan_service.py:119, scanner_tasks.py:129-134).                        *)
THEOREM StopsAreObeyed == Spec => []StopIsPrompt
<1>1. Init => Obedient
  BY DEF Init, StreamInit, Obedient
<1>2. RunInv /\ Obedient /\ [Next]_vars => Obedient'
  <2>1. UNCHANGED streamVars /\ Obedient => Obedient'
    BY DEF streamVars, Obedient
  <2> QED
    BY <2>1, ObedientStep DEF Next, vars
<1>3. RunInv /\ Obedient => StopIsPrompt
  BY StreamAssumption, UniverseIsFinite DEF RunInv, Types, Obedient, StopIsPrompt
<1> QED
  BY <1>1, <1>2, <1>3, RunIsConsistent, PTL DEF Spec

(***************************************************************************)
(* EventsInOrder: what clients are told, and when it is over.              *)
(***************************************************************************)
About(e) == e.type \in {"progress", "batch"}

(* e may be told before f. *)
Before(e, f) ==
  /\ e.type = "progress" /\ f.type = "progress" => e.n < f.n
  /\ e.type = "complete" => f.type = "failed"
  /\ e.type = "batch" => f.n # e.n \/ f.type = "complete"

(* As long as every callback was waited for: what was told so far is about *)
(* the symbols before the one whose callback is alive, or about that one   *)
(* itself but not yet with the next message; and completion comes last.    *)
Told ==
  late = 0 =>
    /\ \A i, j \in DOMAIN wire : i < j => Before(wire[i], wire[j])
    /\ \A i \in DOMAIN wire : About(wire[i]) => wire[i].n \in 1..done
    /\ \A c \in calls, i \in DOMAIN wire :
         /\ c.at \in {"insert", "copy", "progress"} /\ About(wire[i]) => wire[i].n < done
         /\ c.at = "batch" /\ wire[i].type = "batch" => wire[i].n < done
    /\ Published("complete") => loop \in {"stats", "cleanup", "close", "ended"}

(* Appending an event after which nothing before it is out of order.       *)
LEMMA AppendInOrder ==
  ASSUME NEW type, NEW n, wire \in Seq(Event), Publish(type, n),
         \A i, j \in DOMAIN wire : i < j => Before(wire[i], wire[j]),
         \A i \in DOMAIN wire : Before(wire[i], [type |-> type, n |-> n])
  PROVE  /\ \A i, j \in DOMAIN wire' : i < j => Before(wire'[i], wire'[j])
         /\ \A i \in DOMAIN wire' : \/ i \in DOMAIN wire /\ wire'[i] = wire[i]
                                    \/ wire'[i] = [type |-> type, n |-> n]
<1>1. CASE UNCHANGED wire
  BY <1>1
<1>2. CASE wire' = Append(wire, [type |-> type, n |-> n])
  <2>1. /\ Len(wire) \in Nat /\ DOMAIN wire = 1..Len(wire)
        /\ DOMAIN wire' = 1..Len(wire) + 1
        /\ \A i \in 1..Len(wire) : wire'[i] = wire[i]
        /\ wire'[Len(wire) + 1] = [type |-> type, n |-> n]
    BY <1>2
  <2> QED
    BY <2>1
<1> QED
  BY <1>1, <1>2 DEF Publish

(* An announcement that is not about a symbol fits, after completion only  *)
(* that of a failure.                                                      *)
LEMMA AnnounceInOrder ==
  ASSUME RunInv, Told, late = 0, late' = 0, done' = done, calls' = calls \/ calls' = {},
         NEW type \in {"started", "phase", "failed"}, Publish(type, 0),
         \/ ~Published("complete")
         \/ type = "failed" /\ (loop \in {"stats", "cleanup", "close", "ended"} => loop' = loop)
  PROVE  Told'
<1> DEFINE e == [type |-> type, n |-> 0]
<1> USE DEF About
<1>1. wire \in Seq(Event) /\ done \in Nat
  BY UniverseIsFinite DEF RunInv, Types
<1>2. \A i \in DOMAIN wire : Before(wire[i], e)
  BY <1>1 DEF Told, Before, Published
<1>3. /\ \A i, j \in DOMAIN wire' : i < j => Before(wire'[i], wire'[j])
      /\ \A i \in DOMAIN wire' : (i \in DOMAIN wire /\ wire'[i] = wire[i]) \/ wire'[i] = e
  BY <1>1, <1>2, AppendInOrder DEF Told
<1>4. \A i \in DOMAIN wire' : \/ i \in DOMAIN wire /\ wire'[i] = wire[i]
                              \/ ~About(wire'[i]) /\ wire'[i].type # "complete"
  BY <1>3
<1>5. Published("complete")' => Published("complete")
  BY <1>4 DEF Published
<1> HIDE DEF e
<1> QED
  BY <1>1, <1>3, <1>4, <1>5 DEF Told

LEMMA ToldStep == RunInv /\ Waited /\ Told /\ StreamNext => Told'
<1> SUFFICES ASSUME RunInv, Waited, Told, StreamNext, late' = 0 PROVE Told'
  BY DEF Told
<1>1. late = 0
  <2>1. late' = late \/ late' = late + 1
    BY DEF StreamNext, FetchDone, Thread, Arrives, Take, RankFails, Exhausted, Close,
           Report, GiveUp, CallStep, Task, Start, Resolve, Decide, Mark, Raised,
           BustLists, BustCounts, Tell, BustStats, Fail, Cleanup, ClosePool, Stop,
           FlagExpires
  <2> QED
    BY <2>1, StreamAssumption DEF RunInv, Types
<1>2. wire \in Seq(Event) /\ done \in Nat
  BY UniverseIsFinite DEF RunInv, Types
<1>3. \A c \in calls : c.n = done /\ thread = "wait" /\ loop = "run"
  BY <1>1 DEF Waited, RunInv, Positions, Over, Types
<1>4. \A c, d \in calls : c = d
  BY <1>3 DEF RunInv, Callbacks
<1>5. ASSUME UNCHANGED <<wire, done>>, calls' \subseteq calls,
             loop' = loop \/ (loop' \in {"stats", "cleanup", "close", "ended"} \/ ~Published("complete"))
      PROVE  Told'
  BY <1>1, <1>5 DEF Told, Published
<1>6. ASSUME NEW s \in setup.symbols, Take(s) \/ RankFails(s) PROVE Told'
  <2>1. calls = {}
    BY <1>3, <1>6 DEF Arrives, Take, RankFails
  <2>2. \A c \in calls' : c.at \in {"insert", "progress"}
    BY <2>1, <1>6 DEF Arrives, Take, RankFails
  <2> QED
    BY <1>1, <1>2, <2>2, <1>6 DEF Arrives, Take, RankFails, results, Told, Published, About
<1>7. ASSUME NEW s \in setup.symbols, FetchDone(s) PROVE Told'
  BY <1>5, <1>7 DEF FetchDone, results
<1>8. CASE GiveUp \/ Exhausted \/ Close \/ Report
  BY <1>5, <1>8 DEF GiveUp, Exhausted, Close, Report, results
<1>9. ASSUME NEW c \in calls, CallStep(c) PROVE Told'
  <2>1. ~Published("complete") /\ loop' = loop /\ done' = done /\ loop = "run"
    BY <1>1, <1>3, <1>9 DEF Told, CallStep
  <2>2. CASE CallPhase(c)
    <3>1. calls' = {} /\ Publish("phase", 0)
      BY <1>4, <2>2 DEF CallPhase, Answer
    <3> QED
      BY <1>1, <2>1, <3>1, AnnounceInOrder DEF Told
  <2>3. CASE CallAcquire(c) \/ CallInsert(c)
    <3>1. \A d \in calls' : d.at \in {"copy", "progress"}
      BY <1>4, <2>3 DEF CallAcquire, CallInsert, Goto, RunInv, Types, CallType
    <3> QED
      BY <1>1, <2>1, <2>3, <3>1, <1>9 DEF CallAcquire, CallInsert, Told, Published, results
  <2>4. CASE CallProgress(c)
    <3> DEFINE e == [type |-> "progress", n |-> done]
    <3>1. c.n = done /\ done \in 1..done
      BY <1>2, <1>3, <2>4 DEF RunInv, Callbacks, CallProgress
    <3>2. \A d \in calls' : d.at \in {"check", "batch"}
      BY <1>4, <2>4 DEF CallProgress, Goto, RunInv, Types, CallType
    <3>3. \A i \in DOMAIN wire : Before(wire[i], e) /\ (About(wire[i]) => wire[i].n < done)
      BY <1>1, <2>1, <2>4 DEF Told, Before, About, Published, CallProgress
    <3>4. Publish("progress", done)
      BY <2>4, <3>1 DEF CallProgress
    <3>5. /\ \A i, j \in DOMAIN wire' : i < j => Before(wire'[i], wire'[j])
          /\ \A i \in DOMAIN wire' : (i \in DOMAIN wire /\ wire'[i] = wire[i]) \/ wire'[i] = e
      BY <1>1, <1>2, <3>3, <3>4, AppendInOrder DEF Told
    <3> QED
      BY <1>1, <2>1, <3>1, <3>2, <3>3, <3>5 DEF Told, About, Published
  <2>5. CASE CallBatch(c)
    <3> DEFINE e == [type |-> "batch", n |-> done]
    <3>1. c.n = done /\ done \in 1..done
      BY <1>2, <1>3, <2>5 DEF RunInv, Callbacks, CallBatch
    <3>2. \A d \in calls' : d.at = "check"
      BY <1>4, <2>5 DEF CallBatch, Goto, RunInv, Types, CallType
    <3>3. CASE UNCHANGED wire
      BY <1>1, <2>1, <3>2, <3>3 DEF Told, Published
    <3>4. CASE Publish("batch", done)
      <4>1. \A i \in DOMAIN wire : Before(wire[i], e)
        BY <1>1, <1>2, <2>1, <2>5 DEF Told, Before, About, Published, CallBatch
      <4>2. /\ \A i, j \in DOMAIN wire' : i < j => Before(wire'[i], wire'[j])
            /\ \A i \in DOMAIN wire' : (i \in DOMAIN wire /\ wire'[i] = wire[i]) \/ wire'[i] = e
        BY <1>1, <1>2, <3>4, <4>1, AppendInOrder DEF Told
      <4> QED
        BY <1>1, <2>1, <3>1, <3>2, <4>2 DEF Told, About, Published
    <3> QED
      BY <2>5, <3>1, <3>3, <3>4 DEF CallBatch
  <2>6. CASE CallCheck(c)
    BY <1>5, <2>1, <2>6 DEF CallCheck, Answer, results
  <2> QED
    BY <1>9, <2>2, <2>3, <2>4, <2>5, <2>6 DEF CallStep
<1>10. CASE Task
  <2> USE DEF LoopStep
  <2>1. CASE Start \/ Resolve \/ Raised
    <3>1. ~Published("complete") /\ done' = done
      BY <1>1, <2>1 DEF Told, Start, Resolve, Raised
    <3>2. CASE Start \/ Raised
      BY <1>1, <3>1, <3>2, AnnounceInOrder DEF Start, Raised
    <3>3. CASE Resolve
      <4>1. done = 0 /\ \A c \in calls' : c.at = "phase"
        BY <3>3 DEF Resolve, RunInv, Positions
      <4>2. \A i \in DOMAIN wire : Before(wire[i], [type |-> "phase", n |-> 0]) /\ ~About(wire[i])
        BY <1>1, <3>1, <4>1 DEF Told, Before, Published, About
      <4>3. /\ \A i, j \in DOMAIN wire' : i < j => Before(wire'[i], wire'[j])
            /\ \A i \in DOMAIN wire' : \/ i \in DOMAIN wire /\ wire'[i] = wire[i]
                                       \/ wire'[i] = [type |-> "phase", n |-> 0]
        BY <1>1, <1>2, <3>3, <4>2, AppendInOrder DEF Told, Resolve
      <4> QED
        BY <3>1, <4>1, <4>2, <4>3 DEF Told, About, Published
    <3> QED
      BY <2>1, <3>2, <3>3
  <2>2. CASE Decide \/ Mark \/ Fail \/ BustLists \/ BustCounts \/ BustStats
    BY <1>1, <1>5, <2>2 DEF Decide, Mark, Fail, BustLists, BustCounts, BustStats, results,
           Told
  <2>3. CASE Cleanup \/ ClosePool
    BY <1>5, <2>3 DEF Cleanup, ClosePool, results
  <2>4. CASE Tell
    <3> DEFINE e == [type |-> "complete", n |-> inserted]
    <3>1. calls = {} /\ ~Published("complete")
      BY <1>1, <1>3, <2>4 DEF Told, Tell
    <3>2. \A i \in DOMAIN wire : Before(wire[i], e)
      BY <3>1 DEF Before, Published
    <3>3. /\ \A i, j \in DOMAIN wire' : i < j => Before(wire'[i], wire'[j])
          /\ \A i \in DOMAIN wire' : (i \in DOMAIN wire /\ wire'[i] = wire[i]) \/ wire'[i] = e
      BY <1>1, <1>2, <2>4, <3>2, AppendInOrder DEF Told, Tell
    <3> QED
      BY <1>1, <2>4, <3>1, <3>3 DEF Told, About, Tell
  <2> QED
    BY <1>10, <2>1, <2>2, <2>3, <2>4 DEF Task
<1>11. CASE Stop \/ FlagExpires
  <2>1. UNCHANGED <<calls, done, loop>>
    BY <1>11 DEF Stop, FlagExpires
  <2>2. CASE StopTell
    BY <1>1, <2>1, <2>2, AnnounceInOrder DEF StopTell
  <2>3. CASE StopRead \/ StopMark \/ StopFlag \/ StopBust \/ FlagExpires
    BY <1>5, <2>1, <2>3 DEF FlagExpires, StopRead, StopMark, StopFlag, StopBust, results
  <2> QED
    BY <1>11, <2>2, <2>3 DEF Stop
<1> QED
  BY <1>6, <1>7, <1>8, <1>9, <1>10, <1>11 DEF StreamNext, Thread

(* For any universe and any faults: as long as every callback was waited   *)
(* for, clients are told of the symbols in order and of nothing but a stop *)
(* after the end of the scan.                                              *)
THEOREM ClientsAreToldInOrder == Spec => []EventsInOrder
<1>1. Init => Waited /\ Told
  BY DEF Init, ResultsInit, StreamInit, Waited, Told, Published
<1>2. RunInv /\ Waited /\ Told /\ [Next]_vars => Waited' /\ Told'
  <2>1. ASSUME UNCHANGED <<setup, scan, found, stored, wire, streamVars>>, Waited, Told
        PROVE  Waited' /\ Told'
    BY <2>1 DEF streamVars, Waited, Told, Published
  <2> QED
    BY <2>1, WaitedStep, ToldStep, RequestsReadOnly DEF Next, vars, results
<1>3. Told => EventsInOrder
  BY DEF Told, Before, EventsInOrder
<1> QED
  BY <1>1, <1>2, <1>3, RunIsConsistent, PTL DEF Spec

(***************************************************************************)
(* QuietAfterEnd.                                                          *)
(***************************************************************************)
(* For any universe and any faults, in a Celery task and on the loop of    *)
(* the API: when the run is over, nothing is stored or counted any more    *)
(* (its pool closes after the last COPY), and only a callback that was     *)
(* given up on the loop of the API still announces something.              *)
THEOREM NobodyWritesAfterTheEnd == Spec => QuietAfterEnd
<1>1. RunInv /\ Waited /\ [Next]_vars
        => [loop = "ended" =>
              /\ UNCHANGED <<stored, inserted>>
              /\ wire' # wire => \/ stop' # stop
                                 \/ May("here") /\ late > 0 /\ calls' # calls
           ]_<<results, streamVars>>
  <2> SUFFICES ASSUME RunInv, Waited, [Next]_vars, loop = "ended"
               PROVE  /\ UNCHANGED <<stored, inserted>>
                      /\ wire' # wire => \/ stop' # stop
                                         \/ May("here") /\ late > 0 /\ calls' # calls
    OBVIOUS
  <2>1. thread \in Over /\ late \in Nat
    BY StreamAssumption DEF RunInv, Positions, Types
  <2>2. \A c \in calls : c.at # "copy" /\ May("here") /\ late > 0
    BY <2>1 DEF RunInv, Positions, Waited, Over
  <2>3. CASE StreamNext
    <3>1. \/ \E s \in setup.symbols : FetchDone(s)
          \/ \E c \in calls : CallStep(c)
          \/ Stop
          \/ FlagExpires
      BY <2>1, <2>3 DEF StreamNext, Thread, Arrives, Take, RankFails, Exhausted, Close,
             Report, GiveUp, Over, Task, Start, Resolve, Decide, Mark, Raised, BustLists,
             BustCounts, Tell, BustStats, Fail, Cleanup, ClosePool, LoopStep
    <3>2. ASSUME NEW c \in calls, CallStep(c)
          PROVE  /\ UNCHANGED <<stored, inserted>>
                 /\ wire' # wire => May("here") /\ late > 0 /\ calls' # calls
      <4>1. c \in CallType
        BY DEF RunInv, Types
      <4>2. CASE CallPhase(c) \/ CallAcquire(c) \/ CallCheck(c)
        BY <2>2, <4>2 DEF CallPhase, CallAcquire, CallCheck, Answer, results
      <4>3. CASE CallProgress(c) \/ CallBatch(c)
        <5>1. c \notin calls'
          BY <4>1, <4>3 DEF CallProgress, CallBatch, Goto, CallType
        <5> QED
          BY <2>2, <4>3, <5>1 DEF CallProgress, CallBatch
      <4> QED
        BY <2>2, <3>2, <4>2, <4>3 DEF CallStep, CallInsert
    <3> QED
      BY <3>1, <3>2 DEF FetchDone, FlagExpires, Stop, StopRead, StopMark, StopFlag,
             StopTell, StopBust, StopStep, results
  <2>4. CASE (HubNext /\ UNCHANGED <<results, streamVars, cacheVars>>) \/ UNCHANGED vars
    BY <2>4 DEF vars, results, streamVars
  <2>5. CASE CachesNext /\ UNCHANGED <<streamVars, hubVars>>
    BY <2>5, RequestsReadOnly DEF streamVars
  <2> QED
    BY <2>3, <2>4, <2>5 DEF Next
<1> QED
  BY <1>1, RunIsConsistent, RunCounts, PTL DEF Spec, QuietAfterEnd
=============================================================================
