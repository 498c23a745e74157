-------------------------- MODULE ScanClient_proofs --------------------------
(***************************************************************************)
(* What a browser shows, for any number of scans, any length of the wire   *)
(* and anything that can happen to it (ScanClient).                        *)
(***************************************************************************)
EXTENDS ScanClient, SequenceTheorems, TLAPS

(* That a scan is done is said of scans only that stay done: the worker    *)
(* writes it when nothing is left to write, announces nothing else, and a  *)
(* stop leaves it alone.                                                   *)
DoneIsFinal ==
  \A s \in Scans : /\ status[s] = "done" => work[s] \in {"announce", "over"}
                   /\ work[s] = "announce" => status[s] = "done"

DoneIsTrue ==
  /\ \A i \in DOMAIN wire : wire[i].type = "complete" => status[wire[i].scan] = "done"
  /\ polled.status = "done" => status[polled.scan] = "done"

(* A summary is shown when no scan is followed: the next one clears it.    *)
SummaryAlone == summary # NoScan => current = NoScan

StopSent == stp.at = "sent" => stp.scan \in Scans

ClientInv == TypeOK /\ StopSent /\ DoneIsFinal /\ DoneIsTrue /\ SummaryAlone /\ ShowsItsScan

(* What the reducers keep: the types of the slice and what it shows.       *)
SliceOK ==
  /\ current \in Scans \cup {NoScan}
  /\ scanning \in BOOLEAN
  /\ streamed \subseteq Scans
  /\ summary \in Scans \cup {NoScan}
  /\ SummaryAlone
  /\ ShowsItsScan

(* A scan that is done stays so. *)
DoneStays == \A s \in Scans : status[s] = "done" => status'[s] = "done"

(* The part of the invariant that is about the store of the browser,       *)
LEMMA SliceOfInv == ClientInv => SliceOK
BY DEF ClientInv, TypeOK, SliceOK

(* Each reducer keeps the slice, if what completes a scan is right or is   *)
(* what the top bar was told.                                              *)
LEMMA ReducersStep ==
  ASSUME SliceOK, DoneStays, polledTop' = polledTop,
         \/ UNCHANGED slice
         \/ \E id \in Scans \cup {NoScan} : scanStarted(id)
         \/ \E s \in Scans : scanProgressReceived(s) \/ scanBatchReceived(s)
         \/ \E s \in Scans : scanCompleted(s) /\ (status[s] = "done" \/ polledTop = "done")
         \/ scanFailed
         \/ clearStreamingSignals
  PROVE  SliceOK'
<1>1. CASE UNCHANGED slice
  BY <1>1 DEF SliceOK, slice, SummaryAlone, ShowsItsScan, DoneStays
<1>2. ASSUME NEW id \in Scans \cup {NoScan}, scanStarted(id) PROVE SliceOK'
  BY <1>2 DEF SliceOK, scanStarted, SummaryAlone, ShowsItsScan
<1>3. ASSUME NEW s \in Scans, scanProgressReceived(s) \/ scanBatchReceived(s) PROVE SliceOK'
  BY <1>3 DEF SliceOK, scanProgressReceived, scanBatchReceived, Stale, SummaryAlone,
              ShowsItsScan, DoneStays
<1>4. ASSUME NEW s \in Scans, scanCompleted(s), status[s] = "done" \/ polledTop = "done"
      PROVE  SliceOK'
  BY <1>4 DEF SliceOK, scanCompleted, Stale, slice, SummaryAlone, ShowsItsScan, DoneStays
<1>5. CASE scanFailed \/ clearStreamingSignals
  BY <1>5 DEF SliceOK, scanFailed, clearStreamingSignals, SummaryAlone, ShowsItsScan, DoneStays
<1> QED
  BY <1>1, <1>2, <1>3, <1>4, <1>5

(* What an event adds to the wire. *)
LEMMA Published ==
  ASSUME TypeOK, NEW type \in {"started", "progress", "batch", "complete", "failed"},
         NEW s \in Scans, Publish(type, s)
  PROVE  /\ wire' \in Seq(Event) /\ Len(wire') <= MaxWire
         /\ \A i \in DOMAIN wire' :
              \/ i \in DOMAIN wire /\ wire'[i] = wire[i]
              \/ wire'[i] = [type |-> type, scan |-> s]
<1> USE DEF TypeOK
<1>1. CASE connected
  <2>1. /\ [type |-> type, scan |-> s] \in Event
        /\ wire' = Append(wire, [type |-> type, scan |-> s]) /\ Len(wire) < MaxWire
    BY <1>1 DEF Publish, Event
  <2>2. MaxWire \in Nat /\ Len(wire) \in Nat
    BY ClientAssumption, LenProperties
  <2> QED
    BY <2>1, <2>2, AppendProperties, LenProperties
<1>2. CASE ~connected
  BY <1>2 DEF Publish
<1> QED
  BY <1>1, <1>2 DEF TypeOK

(* The service: what an action of the service proves of the rest.          *)
ServiceOK ==
  /\ status \in [Scans -> Statuses]
  /\ work \in [Scans -> {"none", "queued", "run", "poll", "check", "write", "announce",
                         "mark", "over"}]
  /\ todo \in [Scans -> 0..Batches]
  /\ wire \in Seq(Event) /\ Len(wire) <= MaxWire
  /\ DoneIsFinal
  /\ \A i \in DOMAIN wire : wire[i].type = "complete" => status[wire[i].scan] = "done"

(* and the part that is about the scans behind it.                         *)
LEMMA ServiceOfInv == ClientInv => ServiceOK
BY DEF ClientInv, TypeOK, DoneIsTrue, ServiceOK

(* What a scan publishes are events.                                       *)
LEMMA EventsAreTyped ==
  ASSUME TypeOK
  PROVE  \A i \in DOMAIN wire : wire[i] \in Event /\ wire[i].scan \in Scans
<1>1. \A i \in DOMAIN wire : wire[i] \in Event
  BY ElementOfSeq, LenProperties DEF TypeOK
<1> QED
  BY <1>1 DEF Event

(* A trigger adds a scan that nobody has heard of.                         *)
LEMMA CreateStep ==
  ASSUME ClientInv, NEW s \in Scans, Create(s), wire' = wire
  PROVE  ServiceOK' /\ DoneStays
<1>1. DoneStays
  BY DEF ClientInv, TypeOK, Create, DoneStays
<1> QED
  BY <1>1, EventsAreTyped
     DEF ClientInv, TypeOK, Create, DoneIsFinal, DoneIsTrue, ServiceOK, Statuses, DoneStays

(* A scan goes on and publishes.                                           *)
LEMMA WorkerStep ==
  ASSUME ClientInv, NEW s \in Scans, Worker(s)
  PROVE  ServiceOK' /\ DoneStays
<1> USE DEF WorkStep
<1>0. TypeOK /\ ServiceOK
  BY ServiceOfInv DEF ClientInv
<1>1. ASSUME NEW type \in {"started", "progress", "batch", "failed"}, Publish(type, s),
             UNCHANGED status, DoneIsFinal',
             work' \in [Scans -> {"none", "queued", "run", "poll", "check", "write", "announce",
                                  "mark", "over"}],
             todo' \in [Scans -> 0..Batches]
      PROVE  ServiceOK' /\ DoneStays
  BY <1>0, <1>1, Published DEF ServiceOK, DoneStays
<1>2. CASE WorkerBegin(s)
  <2>1. work[s] = "queued" /\ work' = [work EXCEPT ![s] = "run"] /\ UNCHANGED <<status, todo>>
    BY <1>2 DEF WorkerBegin
  <2>2. DoneIsFinal'
    BY <1>0, <2>1 DEF ServiceOK, DoneIsFinal
  <2> QED
    BY <1>0, <1>1, <1>2, <2>1, <2>2 DEF WorkerBegin, ServiceOK
<1>3. CASE WorkerBatch(s)
  <2>1. work[s] = "run" /\ work' = [work EXCEPT ![s] = "poll"] /\ UNCHANGED status
    BY <1>3 DEF WorkerBatch
  <2>2. DoneIsFinal'
    BY <1>0, <2>1 DEF ServiceOK, DoneIsFinal
  <2>3. todo' \in [Scans -> 0..Batches]
    BY <1>0, <1>3, ClientAssumption DEF WorkerBatch, ServiceOK
  <2> QED
    BY <1>0, <1>1, <1>3, <2>1, <2>2, <2>3 DEF WorkerBatch, ServiceOK
<1>4. CASE WorkerPoll(s) \/ WorkerDrained(s) \/ WorkerCheck(s)
  <2>1. /\ work[s] \in {"run", "poll", "check"}
        /\ \E to \in {"run", "check", "write", "over"} : work' = [work EXCEPT ![s] = to]
        /\ UNCHANGED <<status, todo, wire>>
    BY <1>4 DEF WorkerPoll, WorkerDrained, WorkerCheck
  <2> QED
    BY <1>0, <2>1 DEF ServiceOK, DoneIsFinal, DoneStays
<1>5. CASE WorkerWrite(s)
  <2>1. /\ work' = [work EXCEPT ![s] = "announce"] /\ status' = [status EXCEPT ![s] = "done"]
        /\ UNCHANGED <<todo, wire>>
    BY <1>5 DEF WorkerWrite
  <2>2. \A t \in Scans : status[t] = "done" => status'[t] = "done"
    BY <1>0, <2>1 DEF ServiceOK
  <2> QED
    BY <1>0, <2>1, <2>2, EventsAreTyped DEF ServiceOK, DoneIsFinal, DoneStays, Statuses
<1>6. CASE WorkerAnnounce(s)
  <2>1. /\ work[s] = "announce" /\ work' = [work EXCEPT ![s] = "over"]
        /\ UNCHANGED <<status, todo>> /\ Publish("complete", s)
    BY <1>6 DEF WorkerAnnounce
  <2>2. DoneIsFinal' /\ DoneStays /\ status'[s] = "done"
    BY <1>0, <2>1 DEF ServiceOK, DoneIsFinal, DoneStays
  <2> QED
    BY <1>0, <2>1, <2>2, Published DEF ServiceOK
<1>7. CASE WorkerRaise(s)
  <2>1. work[s] = "run" /\ work' = [work EXCEPT ![s] = "mark"] /\ UNCHANGED <<status, todo>>
    BY <1>7 DEF WorkerRaise
  <2>2. DoneIsFinal'
    BY <1>0, <2>1 DEF ServiceOK, DoneIsFinal
  <2> QED
    BY <1>0, <1>1, <1>7, <2>1, <2>2 DEF WorkerRaise, ServiceOK
<1>8. CASE WorkerMark(s)
  <2>1. /\ work[s] = "mark" /\ work' = [work EXCEPT ![s] = "over"]
        /\ status' = [status EXCEPT ![s] = "failed"] /\ UNCHANGED <<todo, wire>>
    BY <1>8 DEF WorkerMark
  <2>2. DoneStays
    BY <1>0, <2>1 DEF ServiceOK, DoneIsFinal, DoneStays
  <2> QED
    BY <1>0, <2>1, <2>2, EventsAreTyped DEF ServiceOK, DoneIsFinal, DoneStays, Statuses
<1> QED
  BY <1>2, <1>3, <1>4, <1>5, <1>6, <1>7, <1>8 DEF Worker


(* A step that neither publishes nor receives leaves the wire's claims.    *)
LEMMA QuietStep ==
  ASSUME ClientInv, UNCHANGED <<status, work, todo>>,
         wire' = wire \/ wire' = <<>>
  PROVE  ServiceOK' /\ DoneStays
<1>1. CASE wire' = wire
  BY <1>1, ServiceOfInv DEF ServiceOK, DoneIsFinal, DoneStays
<1>2. CASE wire' = <<>>
  <2>1. wire' \in Seq(Event) /\ Len(wire') = 0 /\ DOMAIN wire' = {}
    BY <1>2, EmptySeq
  <2>2. 0 <= MaxWire
    BY ClientAssumption
  <2> QED
    BY <2>1, <2>2, ServiceOfInv DEF ServiceOK, DoneIsFinal, DoneStays
<1> QED
  BY <1>1, <1>2

(* The rest of the browser's state.                                        *)
RestOK ==
  /\ connected \in BOOLEAN
  /\ timers \subseteq Scans
  /\ list \subseteq Scans
  /\ fetch \subseteq SUBSET Scans
  /\ stale \in BOOLEAN
  /\ polled \in Answer
  /\ polledTop \in {"none", "done", "failed"}
  /\ due \subseteq {"page", "top"}
  /\ trig \in [at : {"idle", "sent", "accepted", "conflict", "error"},
               scan : Scans \cup {NoScan}, seen : SUBSET Scans]
  /\ stp \in [at : {"idle", "sent", "stopped", "conflict", "error"},
              scan : Scans \cup {NoScan}]
  /\ StopSent
  /\ polled.status = "done" => status[polled.scan] = "done"

(* The invariant is made of three parts that steps touch separately,       *)
LEMMA Parts == ClientInv <=> ServiceOK /\ SliceOK /\ RestOK
BY DEF ClientInv, TypeOK, DoneIsTrue, ServiceOK, SliceOK, RestOK

(* before a step and after it.                                             *)
LEMMA PartsNext == ServiceOK' /\ SliceOK' /\ RestOK' => ClientInv'
BY DEF ClientInv, TypeOK, DoneIsTrue, ServiceOK, SliceOK, RestOK

(* An answer that said done stays right.                                   *)
LEMMA PolledStays ==
  ASSUME RestOK, DoneStays
  PROVE  polled.status = "done" => status'[polled.scan] = "done"
BY DEF RestOK, Answer, NoAnswer, DoneStays

(* The effects that are due are those of the page and the top bar.         *)
LEMMA RerunIsTyped ==
  ASSUME RestOK, Rerun \/ due' = due
  PROVE  due' \subseteq {"page", "top"}
BY DEF RestOK, Rerun

(* Every step keeps the invariant.                                         *)
LEMMA ClientStep == ClientInv /\ [Next]_vars => ClientInv'
<1> SUFFICES ASSUME ClientInv, [Next]_vars PROVE ClientInv'
  OBVIOUS
<1>0. ServiceOK /\ SliceOK /\ RestOK /\ TypeOK
  BY Parts DEF ClientInv
<1> USE DEF service, slice, cache, polls
<1>1. ASSUME NEW s \in Scans, OthersCreate(s) \/ Worker(s) PROVE ClientInv'
  <2>1. ServiceOK' /\ DoneStays
    BY <1>1, CreateStep, WorkerStep DEF OthersCreate
  <2>2. UNCHANGED <<connected, slice, timers, cache, polls, due, trig, stp>>
    BY <1>1 DEF OthersCreate, Worker
  <2>3. SliceOK'
    BY <1>0, <2>1, <2>2, ReducersStep
  <2>4. RestOK'
    BY <1>0, <2>1, <2>2, PolledStays DEF RestOK, StopSent
  <2> QED
    BY <2>1, <2>3, <2>4, PartsNext
<1>2. ASSUME NEW s \in Scans, TimerFires(s) PROVE ClientInv'
  <2>1. ServiceOK' /\ DoneStays
    BY <1>2, QuietStep DEF TimerFires
  <2>2. SliceOK'
    BY <1>0, <1>2, <2>1, ReducersStep DEF TimerFires
  <2>3. RestOK'
    BY <1>0, <1>2, <2>1, PolledStays, RerunIsTyped DEF TimerFires, RestOK, StopSent
  <2> QED
    BY <2>1, <2>2, <2>3, PartsNext
<1>3. ASSUME NEW s \in Scans, PagePoll(s) PROVE ClientInv'
  <2>1. ServiceOK' /\ DoneStays
    BY <1>3, QuietStep DEF PagePoll
  <2>2. SliceOK'
    BY <1>0, <1>3, <2>1, ReducersStep DEF PagePoll
  <2>3. polled' \in Answer /\ (polled'.status = "done" => status'[polled'.scan] = "done")
    BY <1>3 DEF PagePoll, Answer, NoAnswer
  <2>4. RestOK'
    BY <1>0, <1>3, <2>3, RerunIsTyped DEF PagePoll, RestOK, StopSent
  <2> QED
    BY <2>1, <2>2, <2>4, PartsNext
<1>4. ASSUME NEW s \in Scans, StopClick(s) PROVE ClientInv'
  <2>1. ServiceOK' /\ DoneStays
    BY <1>4, QuietStep DEF StopClick
  <2>2. SliceOK'
    BY <1>0, <1>4, <2>1, ReducersStep DEF StopClick
  <2>3. RestOK'
    BY <1>0, <1>4, <2>1, PolledStays DEF StopClick, RestOK, StopSent
  <2> QED
    BY <2>1, <2>2, <2>3, PartsNext
<1>5. CASE Receive
  <2>1. /\ wire # <<>> /\ wire' = Tail(wire) /\ wire \in Seq(Event) /\ 1 \in DOMAIN wire
        /\ Head(wire) = wire[1] /\ UNCHANGED <<status, work, todo>>
    BY <1>0, <1>5, EmptySeq, LenProperties DEF Receive, ServiceOK
  <2>2. /\ wire' \in Seq(Event) /\ Len(wire') = Len(wire) - 1 /\ Len(wire) \in Nat
        /\ \A i \in DOMAIN wire' : i + 1 \in DOMAIN wire /\ wire'[i] = wire[i + 1]
    BY <2>1, HeadTailProperties, LenProperties
  <2>3. ServiceOK' /\ DoneStays
    BY <1>0, <2>1, <2>2, ClientAssumption DEF ServiceOK, DoneIsFinal, DoneStays
  <2>4. /\ Head(wire) \in Event /\ Head(wire).scan \in Scans
        /\ Head(wire).type = "complete" => status[Head(wire).scan] = "done"
    BY <1>0, <2>1, EventsAreTyped DEF ServiceOK
  <2>5. /\ handleMessage(Head(wire))
        /\ polledTop' = polledTop
    BY <1>5 DEF Receive
  <2>6. SliceOK' /\ timers' \subseteq Scans /\ stale' \in BOOLEAN
    BY <1>0, <2>3, <2>4, <2>5, ReducersStep DEF handleMessage, RestOK
  <2>7. RestOK'
    BY <1>0, <1>5, <2>3, <2>6, PolledStays, RerunIsTyped DEF Receive, RestOK, StopSent
  <2> QED
    BY <2>3, <2>6, <2>7, PartsNext
<1>6. CASE Disconnect \/ Reconnect \/ ListAsk \/ Visible
  <2>1. ServiceOK' /\ DoneStays
    BY <1>6, QuietStep DEF Disconnect, Reconnect, ListAsk, Visible
  <2>2. SliceOK'
    BY <1>0, <1>6, <2>1, ReducersStep DEF Disconnect, Reconnect, ListAsk, Visible
  <2>3. RestOK'
    BY <1>0, <1>6, <2>1, PolledStays
       DEF Disconnect, Reconnect, ListAsk, Visible, RestOK, StopSent, Pending
  <2> QED
    BY <2>1, <2>2, <2>3, PartsNext
<1>7. CASE ListAnswer
  <2>1. ServiceOK' /\ DoneStays
    BY <1>7, QuietStep DEF ListAnswer
  <2>2. PICK answer \in fetch :
          /\ list' = answer
          /\ UNCHANGED slice \/ \E s \in answer : scanStarted(s)
    BY <1>7 DEF ListAnswer
  <2>3. answer \subseteq Scans
    BY <1>0 DEF RestOK
  <2>4. SliceOK'
    BY <1>0, <1>7, <2>1, <2>2, <2>3, ReducersStep DEF ListAnswer
  <2>5. RestOK'
    BY <1>0, <1>7, <2>1, <2>2, <2>3, PolledStays, RerunIsTyped DEF ListAnswer, RestOK, StopSent
  <2> QED
    BY <2>1, <2>4, <2>5, PartsNext
<1>8. CASE PageEffect
  <2>1. ServiceOK' /\ DoneStays
    BY <1>8, QuietStep DEF PageEffect
  <2>2. polled.status = "done" => polled.scan \in Scans /\ status[polled.scan] = "done"
    BY <1>0 DEF RestOK, Answer, NoAnswer
  <2>3. SliceOK'
    BY <1>0, <1>8, <2>1, <2>2, ReducersStep DEF PageEffect
  <2>4. RestOK'
    BY <1>0, <1>8, <2>1, PolledStays DEF PageEffect, RestOK, StopSent
  <2> QED
    BY <2>1, <2>3, <2>4, PartsNext
<1>9. CASE TopPoll
  <2>1. ServiceOK' /\ DoneStays
    BY <1>9, QuietStep DEF TopPoll
  <2>2. SliceOK'
    BY <1>0, <1>9 DEF TopPoll, SliceOK, SummaryAlone, ShowsItsScan
  <2>3. RestOK'
    BY <1>0, <1>9, <2>1, PolledStays, RerunIsTyped DEF TopPoll, RestOK, StopSent
  <2> QED
    BY <2>1, <2>2, <2>3, PartsNext
<1>10. CASE TopEffect
  <2>1. ServiceOK' /\ DoneStays
    BY <1>10, QuietStep DEF TopEffect
  <2>2. SliceOK'
    BY <1>0, <1>10, <2>1, ReducersStep DEF TopEffect, SliceOK
  <2>3. RestOK'
    BY <1>0, <1>10, <2>1, PolledStays DEF TopEffect, RestOK, StopSent
  <2> QED
    BY <2>1, <2>2, <2>3, PartsNext
<1>11. CASE RunClick
  <2>1. ServiceOK' /\ DoneStays
    BY <1>11, QuietStep DEF RunClick
  <2>2. SliceOK'
    BY <1>0, <1>11, <2>1, ReducersStep DEF RunClick
  <2>3. RestOK'
    BY <1>0, <1>11, <2>1, PolledStays, RerunIsTyped DEF RunClick, RestOK, StopSent
  <2> QED
    BY <2>1, <2>2, <2>3, PartsNext
<1>12. CASE TriggerServed
  <2>1. /\ wire' = wire
        /\ \/ \E s \in Scans : Create(s) /\ trig' = [trig EXCEPT !.at = "accepted", !.scan = s]
           \/ /\ \E at \in {"conflict", "error"} : trig' = [trig EXCEPT !.at = at]
              /\ UNCHANGED <<status, work, todo>>
    BY <1>12 DEF TriggerServed
  <2>2. ServiceOK' /\ DoneStays
    BY <2>1, QuietStep, CreateStep
  <2>3. trig' \in [at : {"idle", "sent", "accepted", "conflict", "error"},
                   scan : Scans \cup {NoScan}, seen : SUBSET Scans]
    BY <1>0, <2>1 DEF RestOK
  <2>4. SliceOK'
    BY <1>0, <1>12, <2>2, ReducersStep DEF TriggerServed
  <2>5. RestOK'
    BY <1>0, <1>12, <2>2, <2>3, PolledStays DEF TriggerServed, RestOK, StopSent
  <2> QED
    BY <2>2, <2>4, <2>5, PartsNext
<1>13. CASE TriggerReply
  <2>1. ServiceOK' /\ DoneStays
    BY <1>13, QuietStep DEF TriggerReply
  <2>2. (\E id \in Scans \cup {NoScan} : scanStarted(id)) \/ scanFailed
    BY <1>0, <1>13 DEF TriggerReply, RestOK
  <2>3. SliceOK'
    BY <1>0, <1>13, <2>1, <2>2, ReducersStep DEF TriggerReply
  <2>4. RestOK'
    BY <1>0, <1>13, <2>1, PolledStays, RerunIsTyped DEF TriggerReply, IdleTrig, RestOK, StopSent
  <2> QED
    BY <2>1, <2>3, <2>4, PartsNext
<1>14. CASE StopServed
  <2>1. stp.scan \in Scans /\ UNCHANGED <<work, todo>>
    BY <1>0, <1>14 DEF StopServed, RestOK, StopSent
  <2>2. ASSUME status[stp.scan] = "pending",
               status' = [status EXCEPT ![stp.scan] = "failed"],
               Publish("failed", stp.scan)
        PROVE  ServiceOK' /\ DoneStays
    <3>1. DoneStays /\ DoneIsFinal' /\ status' \in [Scans -> Statuses]
      BY <1>0, <2>1, <2>2 DEF ServiceOK, DoneIsFinal, DoneStays, Statuses
    <3>2. ServiceOK'
      BY <1>0, <2>1, <2>2, <3>1, Published, EventsAreTyped DEF ServiceOK, DoneStays
    <3> QED
      BY <3>1, <3>2
  <2>3. ASSUME UNCHANGED <<status, wire>> PROVE ServiceOK' /\ DoneStays
    BY <2>1, <2>3, QuietStep
  <2>4. ServiceOK' /\ DoneStays
    BY <1>14, <2>2, <2>3 DEF StopServed
  <2>5. SliceOK'
    BY <1>0, <1>14, <2>4, ReducersStep DEF StopServed
  <2>6. RestOK'
    BY <1>0, <1>14, <2>4, PolledStays DEF StopServed, RestOK, StopSent
  <2> QED
    BY <2>4, <2>5, <2>6, PartsNext
<1>15. CASE StopReply
  <2>1. ServiceOK' /\ DoneStays
    BY <1>15, QuietStep DEF StopReply
  <2>2. SliceOK'
    BY <1>0, <1>15, <2>1, ReducersStep DEF StopReply
  <2>3. RestOK'
    BY <1>0, <1>15, <2>1, PolledStays, RerunIsTyped DEF StopReply, IdleStop, RestOK, StopSent
  <2> QED
    BY <2>1, <2>2, <2>3, PartsNext
<1>16. CASE UNCHANGED vars
  <2>1. ServiceOK' /\ DoneStays
    BY <1>16, QuietStep DEF vars
  <2>2. SliceOK'
    BY <1>0, <1>16, <2>1, ReducersStep DEF vars
  <2>3. RestOK'
    BY <1>0, <1>16, <2>1, PolledStays DEF vars, RestOK, StopSent
  <2> QED
    BY <2>1, <2>2, <2>3, PartsNext
<1> QED
  BY <1>1, <1>2, <1>3, <1>4, <1>5, <1>6, <1>7, <1>8, <1>9, <1>10, <1>11, <1>12, <1>13, <1>14,
     <1>15, <1>16 DEF Next

LEMMA ClientInitial == Init => ClientInv
<1> SUFFICES ASSUME Init PROVE ClientInv
  OBVIOUS
<1>1. ServiceOK
  <2>1. <<>> \in Seq(Event) /\ Len(<<>>) = 0 /\ DOMAIN wire = {}
    BY EmptySeq DEF Init
  <2> QED
    BY <2>1, ClientAssumption DEF Init, ServiceOK, Statuses, DoneIsFinal
<1>2. SliceOK
  BY DEF Init, SliceOK, SummaryAlone, ShowsItsScan
<1>3. RestOK
  BY DEF Init, RestOK, StopSent, Answer, NoAnswer, IdleTrig, IdleStop
<1> QED
  BY <1>1, <1>2, <1>3, Parts

LEMMA ClientInvHolds == Spec => []ClientInv
BY ClientInitial, ClientStep, PTL DEF Spec

(* For any number of scans and anything that can happen: slice, queries,   *)
(* requests and events keep their types; null is never undefined           *)
(* (wsSlice.ts, useWebSocket.ts).                                          *)
THEOREM TypeCorrect == Spec => []TypeOK
<1>1. ClientInv => TypeOK
  BY DEF ClientInv
<1> QED
  BY <1>1, ClientInvHolds, PTL

(* For any number of scans and anything that can happen: the counters of a *)
(* scan that is followed count no other one, and a summary is of a scan    *)
(* that is done, but for the top bar's (wsSlice.ts, useWebSocket.ts).      *)
THEOREM ScansAreNotMixed == Spec => []ShowsItsScan
<1>1. ClientInv => ShowsItsScan
  BY DEF ClientInv
<1> QED
  BY <1>1, ClientInvHolds, PTL

(* What ends the scanning state, with the scan that is followed pending.   *)
Shown ==
  \/ current = NoScan \/ status[current] # "pending" \/ scanning'
  \/ wire # <<>> /\ Head(wire).type = "failed"
  \/ polled.status = "failed" \/ stp.at \in {"stopped", "conflict"}
  \/ trig.at = "error" \/ polledTop # "none"

(* For any number of scans and anything that can happen: a pending scan    *)
(* that is followed is not taken off the page by the completion of another *)
(* one (wsSlice.ts, ScannerPage).                                          *)
THEOREM PendingStaysShown == Spec => KeepsShowing
<1> DEFINE Same == UNCHANGED <<current, scanning>>
<1>1. ASSUME ClientInv, [Next]_vars PROVE Shown \/ Same
  <2> SUFFICES ASSUME ~Shown PROVE Same
    OBVIOUS
  <2>0. /\ ServiceOK /\ SliceOK /\ RestOK /\ TypeOK
        /\ current # NoScan /\ status[current] = "pending" /\ polledTop = "none"
    BY <1>1, Parts DEF ClientInv, Shown
  <2>1. ASSUME NEW s \in Scans, status[s] = "done", scanCompleted(s) PROVE Same
    BY <2>0, <2>1 DEF scanCompleted, Stale, slice
  <2>2. CASE Receive
    <3>1. /\ wire # <<>> /\ wire \in Seq(Event) /\ 1 \in DOMAIN wire /\ Head(wire) = wire[1]
      BY <2>0, <2>2, EmptySeq, LenProperties DEF Receive, ServiceOK
    <3>2. /\ Head(wire).scan \in Scans
          /\ Head(wire).type = "complete" => status[Head(wire).scan] = "done"
      BY <2>0, <3>1, EventsAreTyped DEF ServiceOK
    <3>3. handleMessage(Head(wire)) /\ Head(wire).type # "failed"
      BY <2>2, <3>1 DEF Receive, Shown
    <3>4. CASE Head(wire).type = "complete"
      BY <2>1, <3>2, <3>3, <3>4 DEF handleMessage
    <3>5. CASE Head(wire).type # "complete"
      BY <2>0, <3>3, <3>5 DEF handleMessage, scanStarted, scanProgressReceived,
                              scanBatchReceived, SliceOK, Shown
    <3> QED
      BY <3>4, <3>5
  <2>3. CASE PageEffect
    <3>1. polled.status = "done" => polled.scan \in Scans /\ status[polled.scan] = "done"
      BY <2>0 DEF RestOK, Answer, NoAnswer
    <3> QED
      BY <2>1, <2>3, <3>1 DEF PageEffect, slice, Shown
  <2>4. CASE TopEffect
    BY <2>0, <2>4 DEF TopEffect, slice
  <2>5. CASE ListAnswer \/ TriggerReply \/ StopReply \/ RunClick
    BY <2>5 DEF ListAnswer, TriggerReply, StopReply, RunClick, scanStarted, slice, Shown
  <2>6. CASE \E s \in Scans : TimerFires(s) \/ PagePoll(s) \/ StopClick(s)
    BY <2>6 DEF TimerFires, PagePoll, StopClick, clearStreamingSignals, slice
  <2>7. CASE \/ \E s \in Scans : OthersCreate(s) \/ Worker(s)
             \/ Disconnect \/ Reconnect \/ ListAsk \/ Visible \/ TopPoll
             \/ TriggerServed \/ StopServed \/ UNCHANGED vars
    BY <2>7 DEF OthersCreate, Worker, Disconnect, Reconnect, ListAsk, Visible, TopPoll,
                TriggerServed, StopServed, vars, slice
  <2> QED
    BY <1>1, <2>2, <2>3, <2>4, <2>5, <2>6, <2>7 DEF Next
<1>2. KeepsShowing <=> [][Shown]_<<current, scanning>>
  BY DEF KeepsShowing, Shown
<1> QED
  BY <1>1, <1>2, ClientInvHolds, PTL DEF Spec
=============================================================================
