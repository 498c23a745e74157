------------------------ MODULE ScanLifecycle_proofs ------------------------
(***************************************************************************)
(* Theorems about ScanLifecycle, for any set of scans, any bounds and any  *)
(* environment unless the theorem names an assumption on Env.              *)
(***************************************************************************)
EXTENDS ScanLifecycle, TLAPS

(* Ticking stays inside 0..TTL. *)
LEMMA DownType == ASSUME NEW n \in 0..TTL PROVE Down(n) \in 0..TTL
  BY ScanAssumption DEF Down

(***************************************************************************)
(* Types.                                                                  *)
(***************************************************************************)

(* Every variable keeps its type, whatever fails and however often a task  *)
(* is executed.                                                            *)
THEOREM TypeCorrect == Spec => []TypeOK
<1>1. Init => TypeOK
  BY ScanAssumption DEF Init, TypeOK, Runs, RowStates, ReqSteps, StopSteps, RunSteps
<1>2. TypeOK /\ [Next]_vars => TypeOK'
  <2> SUFFICES ASSUME TypeOK, [Next]_vars PROVE TypeOK'
    OBVIOUS
  <2> USE ScanAssumption DEF TypeOK, Runs, shared, tasks, runs
  <2>1. CASE Tick
    BY <2>1, DownType DEF Tick
  <2>2. ASSUME NEW s \in Scans,
               TriggerLock(s) \/ ScheduledCreate(s) \/ Request(s)
        PROVE  TypeOK'
    <3>1. CASE TriggerLock(s)
      BY <3>1 DEF TriggerLock, TakeLock, ReqStep, ReqSteps
    <3>2. CASE ScheduledCreate(s)
      BY <3>2 DEF ScheduledCreate, ReqStep, CreateScan, ReqSteps, RowStates
    <3>3. CASE TriggerCheck(s)
      BY <3>3 DEF TriggerCheck, ReqStep, ReqSteps
    <3>4. CASE TriggerDelete(s)
      BY <3>4 DEF TriggerDelete, ReqStep, ReqSteps
    <3>5. CASE TriggerRetake(s)
      BY <3>5 DEF TriggerRetake, TakeLock, ReqStep, ReqSteps
    <3>6. CASE TriggerCreate(s)
      <4>1. row' \in [Scans -> RowStates] /\ window' \in [Scans -> 0..TTL]
        <5>1. CASE CreateScan(s)
          BY <5>1 DEF CreateScan, RowStates
        <5>2. CASE UNCHANGED <<row, window>>
          BY <5>2
        <5> QED
          BY <3>6, <5>1, <5>2 DEF TriggerCreate
      <4>2. req' \in [Scans -> ReqSteps]
        BY <3>6 DEF TriggerCreate, ReqStep, ReqSteps
      <4> QED
        BY <3>6, <4>1, <4>2 DEF TriggerCreate
    <3>7. CASE TriggerEnqueue(s)
      BY <3>7 DEF TriggerEnqueue, Enqueue, RunHere, ReqStep, ReqSteps, RunSteps
    <3>8. CASE ScheduledDispatch(s)
      BY <3>8 DEF ScheduledDispatch, Enqueue, RunHere, ReqStep, ReqSteps, RunSteps
    <3> QED
      BY <2>2, <3>1, <3>2, <3>3, <3>4, <3>5, <3>6, <3>7, <3>8 DEF Request
  <2>3. ASSUME NEW s \in Scans, StopRead(s) \/ Stop(s) \/ Redeliver(s)
        PROVE  TypeOK'
    <3>1. CASE StopRead(s)
      BY <3>1 DEF StopRead, StopStep, StopSteps
    <3>2. CASE StopMark(s)
      BY <3>2 DEF StopMark, StopStep, UpdateScanStatus, StopSteps, RowStates
    <3>3. CASE StopFlag(s)
      BY <3>3 DEF StopFlag, StopStep, StopSteps
    <3>4. CASE StopUnlock(s)
      BY <3>4 DEF StopUnlock, StopStep, StopSteps
    <3>5. CASE StopAnnounce(s)
      BY <3>5 DEF StopAnnounce, StopStep, Publish, StopSteps
    <3>6. CASE Redeliver(s)
      BY <3>6 DEF Redeliver
    <3> QED
      BY <2>3, <3>1, <3>2, <3>3, <3>4, <3>5, <3>6 DEF Stop
  <2>4. ASSUME NEW e \in Runs, Worker(e) \/ Crash(e)
        PROVE  TypeOK'
    <3>0. e[1] \in Scans
      OBVIOUS
    <3>1. CASE WorkerPick(e)
      BY <3>0, <3>1 DEF WorkerPick, RunStep, RunSteps
    <3>2. CASE WorkerStart(e)
      <4>0. row' \in [Scans -> RowStates] /\ window' \in [Scans -> 0..TTL]
        <5>1. CASE CreateScan(e[1])
          BY <3>0, <5>1 DEF CreateScan, RowStates
        <5>2. CASE UNCHANGED <<row, window>>
          BY <5>2
        <5> QED
          BY <3>2, <5>1, <5>2 DEF WorkerStart
      <4>1. CASE RunStep(e, "start", "insert")
        <5>1. pc' \in [Runs -> RunSteps]
          BY <4>1 DEF RunStep, RunSteps
        <5>2. UNCHANGED tasks
          BY <3>2, <4>1 DEF WorkerStart, RunStep
        <5> QED
          BY <3>2, <4>0, <5>1, <5>2 DEF WorkerStart
      <4>2. CASE RunStep(e, "start", "aborted")
        BY <3>0, <3>2, <4>2 DEF WorkerStart, RunStep, Acknowledge, RunSteps
      <4> QED
        BY <3>2, <4>1, <4>2 DEF WorkerStart
    <3>3. CASE WorkerInsert(e)
      <4>1. announced' \in [Scans -> SUBSET {"complete", "failed"}]
        BY <3>0, <3>3 DEF WorkerInsert, Publish
      <4>2. left' \in [Runs -> 0..Batches]
        BY <3>3 DEF WorkerInsert
      <4>3. pc' \in [Runs -> RunSteps]
        BY <3>3 DEF WorkerInsert, RunStep, RunSteps
      <4> QED
        BY <3>3, <4>1, <4>2, <4>3 DEF WorkerInsert
    <3>4. CASE WorkerPoll(e)
      BY <3>4 DEF WorkerPoll, RunStep, RunSteps
    <3>5. CASE WorkerCheck(e)
      BY <3>5 DEF WorkerCheck, RunStep, RunSteps
    <3>6. CASE WorkerWrite(e)
      <4>1. announced' \in [Scans -> SUBSET {"complete", "failed"}]
        BY <3>0, <3>6 DEF WorkerWrite, Publish
      <4> QED
        BY <3>0, <3>6, <4>1 DEF WorkerWrite, RunStep, UpdateScanStatus, RunSteps, RowStates
    <3>7. CASE WorkerPublish(e)
      BY <3>0, <3>7 DEF WorkerPublish, RunStep, Publish, RunSteps
    <3>8. CASE WorkerMark(e)
      BY <3>0, <3>8 DEF WorkerMark, RunStep, UpdateScanStatus, RunSteps, RowStates
    <3>9. CASE WorkerUnlock(e)
      BY <3>0, <3>9 DEF WorkerUnlock, RunStep, Acknowledge, RunSteps
    <3>10. CASE WorkerUnflag(e)
      BY <3>0, <3>10 DEF WorkerUnflag, RunStep, Acknowledge, RunSteps
    <3>11. CASE Crash(e)
      BY <3>11 DEF Crash, RunSteps
    <3> QED
      BY <2>4, <3>1, <3>2, <3>3, <3>4, <3>5, <3>6, <3>7, <3>8, <3>9, <3>10,
         <3>11 DEF Worker
  <2>5. CASE UNCHANGED vars
    BY <2>5 DEF vars
  <2> QED
    BY <2>1, <2>2, <2>3, <2>4, <2>5 DEF Next
<1> QED
  BY <1>1, <1>2, PTL DEF Spec

(***************************************************************************)
(* A scan is settled when its row has left 'pending'.  The invariant has   *)
(* three parts: a request that has not inserted its row has left no other  *)
(* trace; what presupposes a settled row finds one; a run that is about to *)
(* publish scan.complete has settled it.                                   *)
(***************************************************************************)
Settled(s) == row[s] \notin {"none", "pending"}

Early(s) == req[s] \in {"idle", "check", "delete", "retake", "create"}

Untouched(s) ==
  /\ row[s] = "none" /\ stp[s] = "idle"
  /\ s \notin queue /\ s \notin unacked
  /\ \A k \in 1..MaxRuns : pc[<<s, k>>] = "idle"

EarlyInv == \A s \in Scans : Early(s) => Untouched(s)

SettledInv ==
  /\ \A s \in Scans : stp[s] \in {"flag", "unlock", "announce"} => Settled(s)
  /\ \A s \in Scans : flag[s] > 0 => Settled(s)
  /\ \A s \in Scans : "complete" \in announced[s] => Settled(s)
  /\ \A e \in Runs : pc[e] = "publish" => Settled(e[1])

LEMMA EarlyStep == TypeOK /\ EarlyInv /\ [Next]_vars => EarlyInv'
<1> SUFFICES ASSUME TypeOK, EarlyInv, [Next]_vars,
                    NEW s \in Scans, Early(s)'
             PROVE  Untouched(s)'
  BY DEF EarlyInv
<1> USE DEF EarlyInv, Early, Untouched, TypeOK, shared, tasks, runs
<1>1. CASE Tick
  BY <1>1 DEF Tick
<1>2. ASSUME NEW t \in Scans,
             TriggerLock(t) \/ TriggerCheck(t) \/ TriggerDelete(t) \/ TriggerRetake(t)
      PROVE  Untouched(s)'
  BY <1>2 DEF TriggerLock, TriggerCheck, TriggerDelete, TriggerRetake, ReqStep
<1>3. ASSUME NEW t \in Scans, TriggerCreate(t) \/ ScheduledCreate(t)
      PROVE  Untouched(s)'
  BY <1>3 DEF TriggerCreate, ScheduledCreate, CreateScan, ReqStep
<1>4. ASSUME NEW t \in Scans, TriggerEnqueue(t) \/ ScheduledDispatch(t)
      PROVE  Untouched(s)'
  <2>1. req[t] \in {"enqueue", "dispatch"} /\ req'[t] \in {"accepted", "error"}
    BY <1>4 DEF TriggerEnqueue, ScheduledDispatch, ReqStep
  <2>2. s # t /\ req'[s] = req[s]
    BY <1>4, <2>1 DEF TriggerEnqueue, ScheduledDispatch, ReqStep
  <2>3. /\ UNCHANGED <<row, stp, unacked>>
        /\ queue' \subseteq queue \cup {t}
        /\ \A e \in Runs : e # <<t, 1>> => pc'[e] = pc[e]
    BY <1>4 DEF TriggerEnqueue, ScheduledDispatch, Enqueue, RunHere
  <2>4. \A k \in 1..MaxRuns : <<s, k>> \in Runs /\ <<s, k>> # <<t, 1>>
    BY <2>2 DEF Runs
  <2> QED
    BY <2>2, <2>3, <2>4
<1>5. ASSUME NEW t \in Scans, StopRead(t) \/ Stop(t)
      PROVE  Untouched(s)'
  <2>1. s # t
    BY <1>5 DEF StopRead, Stop, StopMark, StopFlag, StopUnlock, StopAnnounce, StopStep
  <2> QED
    BY <1>5, <2>1 DEF StopRead, Stop, StopMark, StopFlag, StopUnlock, StopAnnounce,
                      StopStep, UpdateScanStatus
<1>6. ASSUME NEW t \in Scans, Redeliver(t)
      PROVE  Untouched(s)'
  BY <1>6 DEF Redeliver
<1>7. ASSUME NEW e \in Runs, Worker(e) \/ Crash(e)
      PROVE  Untouched(s)'
  <2>1. e = <<e[1], e[2]>> /\ e[1] \in Scans /\ e[2] \in 1..MaxRuns
    BY DEF Runs
  <2>2. UNCHANGED <<req, stp>>
    BY <1>7 DEF Worker, WorkerPick, WorkerStart, WorkerInsert, WorkerPoll, WorkerCheck,
                WorkerWrite, WorkerPublish, WorkerMark, WorkerUnlock, WorkerUnflag, Crash
  <2>3. pc[e] # "idle" \/ e[1] \in queue
    BY <1>7 DEF Worker, WorkerPick, WorkerStart, WorkerInsert, WorkerPoll, WorkerCheck,
                WorkerWrite, WorkerPublish, WorkerMark, WorkerUnlock, WorkerUnflag,
                Crash, Active, InTry, RunStep
  <2>4. e[1] # s
    BY <2>1, <2>2, <2>3
  <2>5. /\ \A x \in Scans : x # e[1] => row'[x] = row[x]
        /\ queue' \subseteq queue \cup {e[1]}
        /\ unacked' \subseteq unacked \cup {e[1]}
        /\ \A d \in Runs : d # e => pc'[d] = pc[d]
    <3>1. CASE WorkerPick(e) \/ WorkerStart(e)
      BY <2>1, <3>1 DEF WorkerPick, WorkerStart, Acknowledge, RunStep, CreateScan
    <3>2. CASE WorkerInsert(e) \/ WorkerPoll(e) \/ WorkerCheck(e) \/ WorkerPublish(e)
      BY <2>1, <3>2 DEF WorkerInsert, WorkerPoll, WorkerCheck, WorkerPublish, RunStep
    <3>3. CASE WorkerWrite(e) \/ WorkerMark(e)
      BY <2>1, <3>3 DEF WorkerWrite, WorkerMark, UpdateScanStatus, RunStep
    <3>4. CASE WorkerUnlock(e) \/ WorkerUnflag(e)
      BY <2>1, <3>4 DEF WorkerUnlock, WorkerUnflag, Acknowledge, RunStep
    <3>5. CASE Crash(e)
      BY <2>1, <3>5 DEF Crash
    <3> QED
      BY <1>7, <3>1, <3>2, <3>3, <3>4, <3>5 DEF Worker
  <2>6. \A k \in 1..MaxRuns : <<s, k>> \in Runs /\ <<s, k>> # e
    BY <2>1, <2>4 DEF Runs
  <2> QED
    BY <2>2, <2>4, <2>5, <2>6
<1>8. CASE UNCHANGED vars
  BY <1>8 DEF vars
<1> QED
  BY <1>1, <1>2, <1>3, <1>4, <1>5, <1>6, <1>7, <1>8 DEF Next, Request

(* No step takes a settled row back. *)
LEMMA SettledStays ==
  TypeOK /\ EarlyInv /\ [Next]_vars => \A s \in Scans : Settled(s) => Settled(s)'
<1> SUFFICES ASSUME TypeOK, EarlyInv, [Next]_vars, NEW s \in Scans, Settled(s)
             PROVE  Settled(s)'
  OBVIOUS
<1> USE DEF Settled, TypeOK, shared, tasks, runs
<1>1. CASE Tick
  BY <1>1 DEF Tick
<1>2. ASSUME NEW t \in Scans, TriggerCreate(t) \/ ScheduledCreate(t)
      PROVE  Settled(s)'
  BY <1>2 DEF TriggerCreate, ScheduledCreate, CreateScan, ReqStep, EarlyInv, Early,
              Untouched
<1>3. ASSUME NEW t \in Scans,
             \/ TriggerLock(t) \/ TriggerCheck(t) \/ TriggerDelete(t)
             \/ TriggerRetake(t) \/ TriggerEnqueue(t) \/ ScheduledDispatch(t)
             \/ StopRead(t) \/ Redeliver(t)
      PROVE  Settled(s)'
  BY <1>3 DEF TriggerLock, TriggerCheck, TriggerDelete, TriggerRetake, TriggerEnqueue,
              ScheduledDispatch, StopRead, Redeliver
<1>4. ASSUME NEW t \in Scans, Stop(t)
      PROVE  Settled(s)'
  BY <1>4 DEF Stop, StopMark, StopFlag, StopUnlock, StopAnnounce, UpdateScanStatus
<1>5. ASSUME NEW e \in Runs, Worker(e) \/ Crash(e)
      PROVE  Settled(s)'
  <2>1. e[1] \in Scans
    BY DEF Runs
  <2>2. CASE WorkerStart(e)
    BY <2>1, <2>2 DEF WorkerStart, CreateScan
  <2>3. CASE WorkerWrite(e) \/ WorkerMark(e)
    BY <2>1, <2>3 DEF WorkerWrite, WorkerMark, UpdateScanStatus
  <2>4. CASE \/ WorkerPick(e) \/ WorkerInsert(e) \/ WorkerPoll(e) \/ WorkerCheck(e)
             \/ WorkerPublish(e) \/ WorkerUnlock(e) \/ WorkerUnflag(e) \/ Crash(e)
    BY <2>4 DEF WorkerPick, WorkerInsert, WorkerPoll, WorkerCheck, WorkerPublish,
                WorkerUnlock, WorkerUnflag, Crash
  <2> QED
    BY <1>5, <2>2, <2>3, <2>4 DEF Worker
<1>6. CASE UNCHANGED vars
  BY <1>6 DEF vars
<1> QED
  BY <1>1, <1>2, <1>3, <1>4, <1>5, <1>6 DEF Next, Request

(* No step disturbs a scan that has settled.                               *)
LEMMA SettledStep ==
  TypeOK /\ EarlyInv /\ SettledInv /\ [Next]_vars => SettledInv'
<1> SUFFICES ASSUME TypeOK, EarlyInv, SettledInv, [Next]_vars
             PROVE  SettledInv'
  OBVIOUS
<1>0. \A s \in Scans : Settled(s) => Settled(s)'
  BY SettledStays
<1> HIDE DEF Settled
<1> USE DEF SettledInv, TypeOK, shared, tasks, runs
<1>1. CASE Tick
  BY <1>0, <1>1, ScanAssumption DEF Tick, Down, Runs
<1>2. ASSUME NEW t \in Scans, TriggerCreate(t) \/ ScheduledCreate(t)
      PROVE  SettledInv'
  BY <1>0, <1>2 DEF TriggerCreate, ScheduledCreate, Runs
<1>3. ASSUME NEW t \in Scans, TriggerLock(t) \/ TriggerCheck(t) \/ TriggerDelete(t)
                              \/ TriggerRetake(t) \/ Redeliver(t)
      PROVE  SettledInv'
  BY <1>0, <1>3 DEF TriggerLock, TriggerCheck, TriggerDelete, TriggerRetake, Redeliver,
                    Runs
<1>4. ASSUME NEW t \in Scans, TriggerEnqueue(t) \/ ScheduledDispatch(t)
      PROVE  SettledInv'
  <2>1. \A e \in Runs : pc'[e] = pc[e] \/ pc'[e] = "start"
    BY <1>4 DEF TriggerEnqueue, ScheduledDispatch, Enqueue, RunHere
  <2>2. UNCHANGED <<shared, stp, announced>>
    BY <1>4 DEF TriggerEnqueue, ScheduledDispatch
  <2> QED
    BY <1>0, <2>1, <2>2 DEF Runs
<1>5. ASSUME NEW t \in Scans, StopRead(t) \/ Stop(t)
      PROVE  SettledInv'
  <2>1. CASE StopRead(t)
    BY <1>0, <2>1 DEF StopRead, StopStep, Runs
  <2>2. CASE StopMark(t)
    <3>1. CASE UpdateScanStatus(t, "stopped") /\ StopStep(t, "mark", "flag")
      <4>1. Settled(t)'
        BY <3>1 DEF UpdateScanStatus, Settled
      <4> QED
        BY <1>0, <2>2, <3>1, <4>1 DEF StopMark, StopStep, Runs
    <3>2. CASE StopStep(t, "mark", "idle")
      BY <1>0, <2>2, <3>2 DEF StopMark, StopStep, Runs
    <3> QED
      BY <2>2, <3>1, <3>2 DEF StopMark
  <2>3. CASE StopFlag(t)
    BY <1>0, <2>3 DEF StopFlag, StopStep, Runs
  <2>4. CASE StopUnlock(t)
    BY <1>0, <2>4 DEF StopUnlock, StopStep, Runs
  <2>5. CASE StopAnnounce(t)
    BY <1>0, <2>5 DEF StopAnnounce, StopStep, Publish, Runs
  <2> QED
    BY <1>5, <2>1, <2>2, <2>3, <2>4, <2>5 DEF Stop
<1>6. ASSUME NEW e \in Runs, Worker(e) \/ Crash(e)
      PROVE  SettledInv'
  <2>1. e[1] \in Scans /\ \A d \in Runs : d[1] \in Scans
    BY DEF Runs
  <2>2. stp' = stp
    BY <1>6 DEF Worker, WorkerPick, WorkerStart, WorkerInsert, WorkerPoll, WorkerCheck,
                WorkerWrite, WorkerPublish, WorkerMark, WorkerUnlock, WorkerUnflag, Crash
  <2>3. \A s \in Scans : flag'[s] = flag[s] \/ flag'[s] = 0
    BY <1>6 DEF Worker, WorkerPick, WorkerStart, WorkerInsert, WorkerPoll, WorkerCheck,
                WorkerWrite, WorkerPublish, WorkerMark, WorkerUnlock, WorkerUnflag, Crash
  <2>4. \A s \in Scans : "complete" \in announced'[s] =>
          "complete" \in announced[s] \/ (s = e[1] /\ pc[e] = "publish")
    <3>1. CASE WorkerPublish(e)
      BY <2>1, <3>1 DEF WorkerPublish, Publish, RunStep
    <3>2. CASE UNCHANGED announced
      BY <3>2
    <3>3. CASE Publish(e[1], "failed")
      BY <2>1, <3>3 DEF Publish
    <3> QED
      BY <1>6, <3>1, <3>2, <3>3
         DEF Worker, WorkerPick, WorkerStart, WorkerInsert, WorkerPoll, WorkerCheck,
             WorkerWrite, WorkerMark, WorkerUnlock, WorkerUnflag, Crash
  <2>5. ASSUME NEW d \in Runs, pc'[d] = "publish" PROVE Settled(d[1])'
    <3>1. CASE WorkerWrite(e) /\ d = e /\ RunStep(e, "write", "publish")
      BY <2>1, <3>1 DEF WorkerWrite, RunStep, UpdateScanStatus, Settled
    <3>2. CASE pc[d] = "publish"
      BY <1>0, <2>1, <3>2
    <3>3. CASE WorkerWrite(e)
      BY <2>5, <3>1, <3>2, <3>3 DEF WorkerWrite, RunStep
    <3>4. CASE ~WorkerWrite(e)
      BY <1>6, <2>5, <3>2, <3>4
         DEF Worker, WorkerPick, WorkerStart, WorkerInsert, WorkerPoll, WorkerCheck,
             WorkerPublish, WorkerMark, WorkerUnlock, WorkerUnflag, Crash, RunStep
    <3> QED
      BY <3>3, <3>4
  <2> QED
    BY <1>0, <2>1, <2>2, <2>3, <2>4, <2>5
<1>7. CASE UNCHANGED vars
  BY <1>7 DEF vars, Settled
<1> QED
  BY <1>1, <1>2, <1>3, <1>4, <1>5, <1>6, <1>7 DEF Next, Request

LEMMA SettledAlways == Spec => [](TypeOK /\ EarlyInv /\ SettledInv)
<1>1. Init => EarlyInv /\ SettledInv
  BY DEF Init, EarlyInv, SettledInv, Early, Untouched, Runs
<1> QED
  BY <1>1, TypeCorrect, EarlyStep, SettledStep, PTL DEF Spec

(* scan.complete is never published while the row is still 'pending'. *)
THEOREM CompleteAfterWrite == Spec => []CompleteIsFinal
<1>1. SettledInv => CompleteIsFinal
  BY DEF SettledInv, CompleteIsFinal, Settled
<1> QED
  BY <1>1, SettledAlways, PTL

(* A cancel flag never stands for a scan that is still 'pending'. *)
THEOREM FlagAfterMark == Spec => []FlaggedIsMarked
<1>1. SettledInv => FlaggedIsMarked
  BY DEF SettledInv, FlaggedIsMarked, Settled
<1> QED
  BY <1>1, SettledAlways, PTL

(* However often Celery executes the task of a scan, a scan that left      *)
(* 'pending' does not return to it.                                        *)
THEOREM PendingIsLeftForGood == Spec => NeverBackToPending
<1>1. TypeOK /\ EarlyInv /\ [Next]_vars
        => [\A s \in Scans : row[s] \notin {"none", "pending"}
                               => row'[s] \notin {"none", "pending"}]_vars
  BY SettledStays DEF Settled
<1> QED
  BY <1>1, SettledAlways, PTL DEF Spec, NeverBackToPending
=============================================================================
