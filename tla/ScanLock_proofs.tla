--------------------------- MODULE ScanLock_proofs ---------------------------
(***************************************************************************)
(* Theorems about ScanLifecycle that hold in some environments only: tasks *)
(* that Celery executes once, statements that do not fail, a Redis that    *)
(* answers.  The last of them is that it implements ScanService.           *)
(***************************************************************************)
EXTENDS ScanLifecycle_proofs

(***************************************************************************)
(* Without retries and redeliveries the task of a scan is executed once.   *)
(***************************************************************************)
OnceInv ==
  /\ \A s \in Scans : s \in queue \/ req[s] \in {"enqueue", "dispatch"}
                        => \A k \in 1..MaxRuns : pc[<<s, k>>] = "idle"
  /\ \A s \in Scans : req[s] \in {"enqueue", "dispatch"} => s \notin queue
  /\ \A d, e \in Runs : pc[d] # "idle" /\ pc[e] # "idle" /\ d[1] = e[1] => d = e

(***************************************************************************)
(* A flagged scan is stopped, unless its run is past the point of no       *)
(* return; a cancelled run has nothing left to write.                      *)
(***************************************************************************)
Late(e) == pc[e] \in {"publish", "unlock", "unflag", "ended", "crashed"}

CancelInv ==
  /\ \A s \in Scans : flag[s] > 0 \/ stp[s] = "flag"
       => row[s] = "stopped" \/ \E e \in Runs : e[1] = s /\ Late(e)
  /\ \A e \in Runs : final[e] = "cancelled"
       => row[e[1]] = "stopped" /\ Late(e) /\ pc[e] # "publish"

(* What a step of run e leaves alone. *)
LEMMA WorkerFrame ==
  ASSUME TypeOK, NEW e \in Runs, Worker(e) \/ Crash(e)
  PROVE  /\ e = <<e[1], e[2]>> /\ e[1] \in Scans /\ e[2] \in 1..MaxRuns
         /\ UNCHANGED <<req, stp>>
         /\ pc'[e] # "idle"
         /\ \A d \in Runs : d # e => pc'[d] = pc[d] /\ final'[d] = final[d]
         /\ \A s \in Scans : s # e[1] => row'[s] = row[s]
         /\ \A s \in Scans : flag'[s] = flag[s] \/ flag'[s] = 0
<1> USE DEF TypeOK, shared, tasks, runs
<1>0. e = <<e[1], e[2]>> /\ e[1] \in Scans /\ e[2] \in 1..MaxRuns
  BY DEF Runs
<1>1. CASE WorkerPick(e) \/ WorkerStart(e)
  BY <1>0, <1>1 DEF WorkerPick, WorkerStart, RunStep, CreateScan
<1>2. CASE WorkerInsert(e) \/ WorkerPoll(e)
  BY <1>0, <1>2 DEF WorkerInsert, WorkerPoll, RunStep
<1>3. CASE WorkerCheck(e) \/ WorkerPublish(e)
  BY <1>0, <1>3 DEF WorkerCheck, WorkerPublish, RunStep
<1>4. CASE WorkerWrite(e) \/ WorkerMark(e)
  BY <1>0, <1>4 DEF WorkerWrite, WorkerMark, UpdateScanStatus, RunStep
<1>5. CASE WorkerUnlock(e) \/ WorkerUnflag(e)
  BY <1>0, <1>5 DEF WorkerUnlock, WorkerUnflag, RunStep
<1>6. CASE Crash(e)
  BY <1>0, <1>6 DEF Crash
<1> QED
  BY <1>1, <1>2, <1>3, <1>4, <1>5, <1>6 DEF Worker

(* A request that hands its task over to the queue or to this process.     *)
LEMMA HandoverFrame ==
  ASSUME TypeOK, NEW t \in Scans, TriggerEnqueue(t) \/ ScheduledDispatch(t)
  PROVE  /\ req[t] \in {"enqueue", "dispatch"}
         /\ req'[t] \in {"accepted", "error"}
         /\ \A s \in Scans : s # t => req'[s] = req[s]
         /\ queue' \subseteq queue \cup {t}
         /\ \A e \in Runs : e # <<t, 1>> => pc'[e] = pc[e]
         /\ queue' = queue \/ pc' = pc
         /\ UNCHANGED <<shared, announced, stp, final, unacked>>
<1> USE DEF TypeOK, Enqueue, RunHere
<1>1. CASE TriggerEnqueue(t)
  BY <1>1 DEF TriggerEnqueue, ReqStep
<1>2. CASE ScheduledDispatch(t)
  BY <1>2 DEF ScheduledDispatch, ReqStep
<1> QED
  BY <1>1, <1>2

(* No step executes a task for the second time.                            *)
LEMMA OnceStep ==
  ASSUME "rerun" \notin Env
  PROVE  TypeOK /\ EarlyInv /\ OnceInv /\ [Next]_vars => OnceInv'
<1> SUFFICES ASSUME TypeOK, EarlyInv, OnceInv, [Next]_vars
             PROVE  OnceInv'
  OBVIOUS
<1> USE DEF TypeOK, OnceInv, shared, tasks, runs
<1>1. CASE Tick
  BY <1>1 DEF Tick
<1>2. ASSUME NEW t \in Scans, TriggerLock(t) \/ TriggerCheck(t) \/ TriggerDelete(t)
                              \/ TriggerRetake(t)
      PROVE  OnceInv'
  BY <1>2 DEF TriggerLock, TriggerCheck, TriggerDelete, TriggerRetake, ReqStep
<1>3. ASSUME NEW t \in Scans, TriggerCreate(t) \/ ScheduledCreate(t)
      PROVE  OnceInv'
  <2>1. t \notin queue /\ \A k \in 1..MaxRuns : pc[<<t, k>>] = "idle"
    BY <1>3 DEF TriggerCreate, ScheduledCreate, ReqStep, EarlyInv, Early, Untouched
  <2>2. UNCHANGED <<queue, pc>> /\ \A s \in Scans : s # t => req'[s] = req[s]
    BY <1>3 DEF TriggerCreate, ScheduledCreate, ReqStep
  <2> QED
    BY <2>1, <2>2
<1>4. ASSUME NEW t \in Scans, TriggerEnqueue(t) \/ ScheduledDispatch(t)
      PROVE  OnceInv'
  <2>1. <<t, 1>> \in Runs
    BY ScanAssumption DEF Runs
  <2>2. \A k \in 1..MaxRuns : pc[<<t, k>>] = "idle"
    BY <1>4, HandoverFrame
  <2>3. t \notin queue
    BY <1>4, HandoverFrame
  <2>4. \A e \in Runs : e = <<e[1], e[2]>> /\ e[2] \in 1..MaxRuns /\ e[1] \in Scans
    BY DEF Runs
  <2>5. ASSUME NEW s \in Scans, s \in queue' \/ req'[s] \in {"enqueue", "dispatch"},
               NEW k \in 1..MaxRuns
        PROVE  pc'[<<s, k>>] = "idle"
    <3>1. CASE s # t
      <4>1. <<s, k>> \in Runs /\ <<s, k>> # <<t, 1>>
        BY <3>1 DEF Runs
      <4> QED
        BY <1>4, <2>5, <3>1, <4>1, HandoverFrame
    <3>2. CASE s = t
      BY <1>4, <2>2, <2>3, <2>5, <3>2, HandoverFrame
    <3> QED
      BY <3>1, <3>2
  <2>6. \A d, e \in Runs : pc'[d] # "idle" /\ pc'[e] # "idle" /\ d[1] = e[1] => d = e
    BY <1>4, <2>1, <2>2, <2>4, HandoverFrame
  <2> QED
    BY <1>4, <2>5, <2>6, HandoverFrame
<1>5. ASSUME NEW t \in Scans, StopRead(t) \/ Stop(t)
      PROVE  OnceInv'
  BY <1>5 DEF StopRead, Stop, StopMark, StopFlag, StopUnlock, StopAnnounce
<1>6. ASSUME NEW t \in Scans, Redeliver(t)
      PROVE  OnceInv'
  BY <1>6 DEF Redeliver
<1>7. ASSUME NEW e \in Runs, Worker(e) \/ Crash(e)
      PROVE  OnceInv'
  <2>1. pc[e] # "idle" \/ (e[1] \in queue /\ e[1] \notin queue')
    BY <1>7 DEF Worker, WorkerPick, WorkerStart, WorkerInsert, WorkerPoll, WorkerCheck,
                WorkerWrite, WorkerPublish, WorkerMark, WorkerUnlock, WorkerUnflag,
                Crash, Active, InTry, RunStep
  <2>2. queue' \subseteq queue
    BY <1>7 DEF Worker, WorkerPick, WorkerStart, WorkerInsert, WorkerPoll, WorkerCheck,
                WorkerWrite, WorkerPublish, WorkerMark, WorkerUnlock, WorkerUnflag,
                Crash, Acknowledge
  <2>3. \A d \in Runs : d = <<d[1], d[2]>> /\ d[2] \in 1..MaxRuns /\ d[1] \in Scans
    BY DEF Runs
  <2>4. ASSUME NEW s \in Scans, s \in queue' \/ req'[s] \in {"enqueue", "dispatch"},
               NEW k \in 1..MaxRuns
        PROVE  pc'[<<s, k>>] = "idle"
    <3>1. pc[<<s, k>>] = "idle" /\ <<s, k>> \in Runs
      BY <1>7, <2>2, <2>4, WorkerFrame DEF Runs
    <3>2. <<s, k>> # e
      BY <1>7, <2>1, <2>2, <2>3, <2>4, <3>1, WorkerFrame
    <3> QED
      BY <1>7, <3>1, <3>2, WorkerFrame
  <2>5. ASSUME NEW d \in Runs, NEW c \in Runs,
               pc'[d] # "idle", pc'[c] # "idle", d[1] = c[1]
        PROVE  d = c
    BY <1>7, <2>1, <2>3, <2>5, WorkerFrame
  <2> QED
    BY <1>7, <2>2, <2>4, <2>5, WorkerFrame
<1>8. CASE UNCHANGED vars
  BY <1>8 DEF vars
<1> QED
  BY <1>1, <1>2, <1>3, <1>4, <1>5, <1>6, <1>7, <1>8 DEF Next, Request

(* What the steps outside the runs leave alone. *)
LEMMA OutsideFrame ==
  ASSUME TypeOK, EarlyInv, NEW t \in Scans,
         \/ TriggerLock(t) \/ ScheduledCreate(t) \/ Request(t) \/ StopRead(t)
         \/ Redeliver(t) \/ Stop(t)
  PROVE  /\ final' = final
         /\ \A e \in Runs : pc'[e] = pc[e] \/ (pc[e] = "idle" /\ pc'[e] = "start")
                                           \/ (e = <<t, 1>> /\ pc'[e] = "start")
         /\ \A s \in Scans : row[s] = "stopped" => row'[s] = "stopped"
<1> USE DEF TypeOK, shared, tasks, runs
<1>1. CASE TriggerLock(t) \/ TriggerCheck(t) \/ TriggerDelete(t) \/ TriggerRetake(t)
  BY <1>1 DEF TriggerLock, TriggerCheck, TriggerDelete, TriggerRetake
<1>2. CASE TriggerCreate(t) \/ ScheduledCreate(t)
  BY <1>2 DEF TriggerCreate, ScheduledCreate, CreateScan, ReqStep, EarlyInv, Early,
              Untouched
<1>3. CASE TriggerEnqueue(t) \/ ScheduledDispatch(t)
  BY <1>3 DEF TriggerEnqueue, ScheduledDispatch, Enqueue, RunHere
<1>4. CASE StopRead(t) \/ Stop(t) \/ Redeliver(t)
  BY <1>4 DEF StopRead, Stop, StopMark, StopFlag, StopUnlock, StopAnnounce,
              UpdateScanStatus, Redeliver
<1> QED
  BY <1>1, <1>2, <1>3, <1>4 DEF Request

(* A run that is late stays so; it touches the row of a stopped scan at    *)
(* two places only, and becomes cancelled at one.                          *)
LEMMA WorkerCourse ==
  ASSUME TypeOK, NEW e \in Runs, Worker(e) \/ Crash(e)
  PROVE  /\ Late(e) => Late(e)' /\ pc'[e] # "publish"
         /\ row[e[1]] = "stopped" => \/ row'[e[1]] = "stopped"
                                     \/ Late(e)' /\ pc[e] \in {"write", "mark"}
         /\ final'[e] = "cancelled"
              => \/ final[e] = "cancelled"
                 \/ /\ pc[e] = "check" /\ pc'[e] = "unlock"
                    /\ flag[e[1]] > 0 /\ row'[e[1]] = row[e[1]]
<1> USE DEF TypeOK, shared, tasks, runs, Late
<1>0. e = <<e[1], e[2]>> /\ e[1] \in Scans /\ e[2] \in 1..MaxRuns
  BY DEF Runs
<1>1. CASE WorkerPick(e) \/ WorkerStart(e)
  BY <1>0, <1>1 DEF WorkerPick, WorkerStart, RunStep, CreateScan
<1>2. CASE WorkerInsert(e) \/ WorkerPoll(e)
  BY <1>0, <1>2 DEF WorkerInsert, WorkerPoll, RunStep
<1>3. CASE WorkerCheck(e)
  BY <1>0, <1>3 DEF WorkerCheck, RunStep
<1>4. CASE WorkerPublish(e)
  BY <1>0, <1>4 DEF WorkerPublish, RunStep
<1>5. CASE WorkerWrite(e)
  BY <1>0, <1>5 DEF WorkerWrite, UpdateScanStatus, RunStep
<1>6. CASE WorkerMark(e)
  BY <1>0, <1>6 DEF WorkerMark, UpdateScanStatus, RunStep
<1>7. CASE WorkerUnlock(e) \/ WorkerUnflag(e)
  BY <1>0, <1>7 DEF WorkerUnlock, WorkerUnflag, RunStep
<1>8. CASE Crash(e)
  BY <1>0, <1>8 DEF Crash
<1> QED
  BY <1>1, <1>2, <1>3, <1>4, <1>5, <1>6, <1>7, <1>8 DEF Worker

(* No step overwrites the message of a cancelled run.                      *)
LEMMA CancelStep ==
  ASSUME "rerun" \notin Env
  PROVE  TypeOK /\ EarlyInv /\ OnceInv /\ CancelInv /\ [Next]_vars => CancelInv'
<1> SUFFICES ASSUME TypeOK, EarlyInv, OnceInv, CancelInv, [Next]_vars
             PROVE  CancelInv'
  OBVIOUS
<1> USE DEF TypeOK, CancelInv, Late, shared, tasks, runs
<1>0. \A e \in Runs : e = <<e[1], e[2]>> /\ e[1] \in Scans /\ e[2] \in 1..MaxRuns
  BY DEF Runs
<1>1. CASE Tick
  BY <1>1, ScanAssumption DEF Tick, Down
<1>2. ASSUME NEW t \in Scans,
             \/ TriggerLock(t) \/ ScheduledCreate(t) \/ Request(t) \/ StopRead(t)
             \/ Redeliver(t)
      PROVE  CancelInv'
  <2>1. flag' = flag /\ \A s \in Scans : stp'[s] = "flag" => stp[s] = "flag"
    BY <1>2 DEF TriggerLock, ScheduledCreate, Request, TriggerCheck, TriggerDelete,
                TriggerRetake, TriggerCreate, TriggerEnqueue, ScheduledDispatch,
                StopRead, StopStep, Redeliver
  <2>2. \A e \in Runs : pc'[e] = pc[e] \/ pc[e] = "idle"
    <3>1. CASE TriggerEnqueue(t) \/ ScheduledDispatch(t)
      BY <3>1, HandoverFrame, ScanAssumption DEF OnceInv
    <3>2. CASE pc' = pc
      BY <3>2
    <3> QED
      BY <1>2, <3>1, <3>2
         DEF TriggerLock, ScheduledCreate, Request, TriggerCheck, TriggerDelete,
             TriggerRetake, TriggerCreate, StopRead, Redeliver
  <2> QED
    BY <1>0, <1>2, <2>1, <2>2, OutsideFrame
<1>3. ASSUME NEW t \in Scans, Stop(t)
      PROVE  CancelInv'
  <2>1. UNCHANGED <<pc, final>>
    BY <1>3 DEF Stop, StopMark, StopFlag, StopUnlock, StopAnnounce
  <2>2. \A s \in Scans : row[s] = "stopped" => row'[s] = "stopped"
    BY <1>3, OutsideFrame
  <2>3. \A s \in Scans : flag'[s] > 0 => flag[s] > 0 \/ stp[s] = "flag"
    BY <1>3 DEF Stop, StopMark, StopFlag, StopUnlock, StopAnnounce, StopStep
  <2>4. \A s \in Scans : stp'[s] = "flag" => stp[s] = "flag" \/ row'[s] = "stopped"
    BY <1>3 DEF Stop, StopMark, StopFlag, StopUnlock, StopAnnounce, StopStep,
                UpdateScanStatus
  <2> QED
    BY <1>0, <2>1, <2>2, <2>3, <2>4
<1>4. ASSUME NEW e \in Runs, Worker(e) \/ Crash(e)
      PROVE  CancelInv'
  <2>1. \A d \in Runs : d # e => (Late(d) <=> Late(d)')
    BY <1>4, WorkerFrame
  <2>2. Late(e) => Late(e)' /\ pc'[e] # "publish"
    BY <1>4, WorkerCourse
  <2>3. ASSUME NEW s \in Scans, flag'[s] > 0 \/ stp'[s] = "flag"
        PROVE  row'[s] = "stopped" \/ \E d \in Runs : d[1] = s /\ Late(d)'
    <3>1. flag[s] > 0 \/ stp[s] = "flag"
      <4>1. stp' = stp /\ (flag'[s] = flag[s] \/ flag'[s] = 0)
        BY <1>4, WorkerFrame
      <4> QED
        BY <2>3, <4>1
    <3>2. CASE \E d \in Runs : d[1] = s /\ Late(d)
      <4>1. PICK d \in Runs : d[1] = s /\ Late(d)
        BY <3>2
      <4>2. Late(d)'
        BY <2>1, <2>2, <4>1
      <4> QED
        BY <4>1, <4>2
    <3>3. CASE row[s] = "stopped"
      <4>1. CASE s = e[1]
        <5>1. row'[s] = "stopped" \/ Late(e)'
          BY <1>4, <3>3, <4>1, WorkerCourse
        <5> QED
          BY <4>1, <5>1
      <4>2. CASE s # e[1]
        BY <1>4, <3>3, <4>2, WorkerFrame
      <4> QED
        BY <4>1, <4>2
    <3> QED
      BY <3>1, <3>2, <3>3
  <2>4. ASSUME NEW d \in Runs, final'[d] = "cancelled"
        PROVE  row'[d[1]] = "stopped" /\ Late(d)' /\ pc'[d] # "publish"
    <3>1. CASE final[d] = "cancelled"
      <4>1. row[d[1]] = "stopped" /\ Late(d) /\ pc[d] # "publish"
        BY <3>1
      <4>2. Late(d)' /\ pc'[d] # "publish"
        <5>1. CASE d = e
          BY <2>2, <4>1, <5>1
        <5>2. CASE d # e
          <6>1. pc'[d] = pc[d]
            BY <1>4, <5>2, WorkerFrame
          <6> QED
            BY <2>1, <4>1, <5>2, <6>1
        <5> QED
          BY <5>1, <5>2
      <4>3. row'[d[1]] = "stopped"
        <5>1. CASE d[1] # e[1]
          <6>1. row'[d[1]] = row[d[1]]
            BY <1>0, <1>4, <5>1, WorkerFrame
          <6> QED
            BY <4>1, <6>1
        <5>2. CASE d[1] = e[1]
          <6>1. row'[e[1]] = "stopped" \/ pc[e] \in {"write", "mark"}
            BY <1>4, <4>1, <5>2, WorkerCourse
          <6>2. pc[e] \in {"write", "mark"} => d = e
            BY <4>1, <5>2 DEF OnceInv
          <6>3. pc[d] \notin {"write", "mark"}
            BY <4>1
          <6> QED
            BY <5>2, <6>1, <6>2, <6>3
        <5> QED
          BY <5>1, <5>2
      <4> QED
        BY <4>2, <4>3
    <3>2. CASE final[d] # "cancelled"
      <4>1. d = e
        <5>1. d # e => final'[d] = final[d]
          BY <1>4, WorkerFrame
        <5> QED
          BY <2>4, <3>2, <5>1
      <4>2. /\ pc[e] = "check" /\ pc'[e] = "unlock"
            /\ flag[e[1]] > 0 /\ row'[e[1]] = row[e[1]]
        BY <1>4, <2>4, <3>2, <4>1, WorkerCourse
      <4>3. row[e[1]] = "stopped"
        <5>1. \A c \in Runs : c[1] = e[1] /\ Late(c) => c = e
          BY <4>2 DEF OnceInv
        <5>2. ~ Late(e)
          BY <4>2
        <5> QED
          BY <1>0, <4>2, <5>1, <5>2
      <4> QED
        BY <4>1, <4>2, <4>3
    <3> QED
      BY <3>1, <3>2
  <2> QED
    BY <2>3, <2>4
<1>5. CASE UNCHANGED vars
  BY <1>5 DEF vars
<1> QED
  BY <1>1, <1>2, <1>3, <1>4, <1>5 DEF Next

LEMMA OnceInit == Init => OnceInv /\ CancelInv
  BY ScanAssumption DEF Init, OnceInv, CancelInv, Late, Runs

(* When Celery executes a task once, a run that ends as cancelled leaves   *)
(* "Stopped by user" in the row, whatever fails or expires in between.     *)
THEOREM CancelKeepsMessage ==
  ASSUME "rerun" \notin Env
  PROVE  Spec => []CancelledIsStopped
<1>1. CancelInv => CancelledIsStopped
  BY DEF CancelInv, CancelledIsStopped
<1>2. TypeOK /\ EarlyInv /\ OnceInv /\ CancelInv /\ [Next]_vars => (OnceInv /\ CancelInv)'
  BY OnceStep, CancelStep
<1>3. Spec => [](OnceInv /\ CancelInv)
  BY <1>2, OnceInit, SettledAlways, PTL DEF Spec
<1> QED
  BY <1>1, <1>3, PTL

(***************************************************************************)
(* The lock, until it is disturbed.                                        *)
(***************************************************************************)
(* What has no row has no task.                                            *)
RowInv ==
  /\ \A s \in Scans : s \in queue \cup unacked \/ req[s] \in {"enqueue", "dispatch"}
                        => row[s] # "none"
  /\ \A e \in Runs : pc[e] # "idle" => row[e[1]] # "none"

(* No step gives a task to a scan without a row. *)
LEMMA RowStep ==
  TypeOK /\ EarlyInv /\ RowInv /\ [Next]_vars => RowInv'
<1> SUFFICES ASSUME TypeOK, EarlyInv, RowInv, [Next]_vars
             PROVE  RowInv'
  OBVIOUS
<1> USE DEF TypeOK, RowInv, shared, tasks, runs
<1>0. \A e \in Runs : e = <<e[1], e[2]>> /\ e[1] \in Scans /\ e[2] \in 1..MaxRuns
  BY DEF Runs
<1>1. CASE Tick \/ UNCHANGED vars
  BY <1>1 DEF Tick, vars
<1>2. ASSUME NEW t \in Scans, TriggerLock(t) \/ TriggerCheck(t) \/ TriggerDelete(t)
                              \/ TriggerRetake(t)
      PROVE  RowInv'
  BY <1>2 DEF TriggerLock, TriggerCheck, TriggerDelete, TriggerRetake, ReqStep
<1>3. ASSUME NEW t \in Scans, TriggerCreate(t) \/ ScheduledCreate(t)
      PROVE  RowInv'
  BY <1>0, <1>3 DEF TriggerCreate, ScheduledCreate, CreateScan, ReqStep
<1>4. ASSUME NEW t \in Scans, TriggerEnqueue(t) \/ ScheduledDispatch(t)
      PROVE  RowInv'
  <2>1. \A e \in Runs : pc'[e] # "idle" => pc[e] # "idle" \/ e = <<t, 1>>
    BY <1>0, <1>4, HandoverFrame
  <2>2. row[t] # "none"
    BY <1>4, HandoverFrame
  <2> QED
    BY <1>0, <1>4, <2>1, <2>2, HandoverFrame
<1>5. ASSUME NEW t \in Scans, StopRead(t) \/ Stop(t)
      PROVE  RowInv'
  BY <1>0, <1>5 DEF StopRead, Stop, StopMark, StopFlag, StopUnlock, StopAnnounce,
                    UpdateScanStatus
<1>6. ASSUME NEW t \in Scans, Redeliver(t)
      PROVE  RowInv'
  BY <1>6 DEF Redeliver
<1>7. ASSUME NEW e \in Runs, Worker(e) \/ Crash(e)
      PROVE  RowInv'
  <2>1. /\ row[e[1]] # "none" /\ queue' \subseteq queue \cup {e[1]}
        /\ unacked' \subseteq unacked \cup {e[1]}
    <3>1. pc[e] # "idle" \/ e[1] \in queue
      BY <1>7 DEF Worker, WorkerPick, WorkerStart, WorkerInsert, WorkerPoll, WorkerCheck,
                  WorkerWrite, WorkerPublish, WorkerMark, WorkerUnlock, WorkerUnflag,
                  Crash, Active, InTry, RunStep
    <3>2. /\ queue' \subseteq queue \cup {e[1]}
          /\ unacked' \subseteq unacked \cup {e[1]}
      BY <1>7 DEF Worker, WorkerPick, WorkerStart, WorkerInsert, WorkerPoll, WorkerCheck,
                  WorkerWrite, WorkerPublish, WorkerMark, WorkerUnlock, WorkerUnflag,
                  Crash, Acknowledge
    <3> QED
      BY <1>0, <3>1, <3>2
  <2>2. \A s \in Scans : row[s] # "none" => row'[s] # "none"
    <3>1. CASE WorkerStart(e)
      BY <1>0, <3>1 DEF WorkerStart, CreateScan
    <3>2. CASE WorkerWrite(e) \/ WorkerMark(e)
      BY <1>0, <3>2 DEF WorkerWrite, WorkerMark, UpdateScanStatus
    <3>3. CASE UNCHANGED row
      BY <3>3
    <3> QED
      BY <1>7, <3>1, <3>2, <3>3
         DEF Worker, WorkerPick, WorkerInsert, WorkerPoll, WorkerCheck, WorkerPublish,
             WorkerUnlock, WorkerUnflag, Crash
  <2> QED
    BY <1>0, <1>7, <2>1, <2>2, WorkerFrame
<1> QED
  BY <1>1, <1>2, <1>3, <1>4, <1>5, <1>6, <1>7 DEF Next, Request

(* The scan in hand has the lock, for as long as its row counts as recent, *)
(* and a trigger that is about to delete the lock still finds no scan.     *)
SerialInv ==
  /\ \A s \in Scans : InHand(s)
       => IF req[s] = "create" THEN lock = TTL ELSE window[s] <= lock
  /\ \A s, t \in Scans : InHand(s) /\ InHand(t) => s = t
  /\ \A s \in Scans : req[s] = "delete" => ~HasRunningScan

ShortInv == TypeOK /\ EarlyInv /\ SettledInv /\ OnceInv /\ RowInv /\ SerialInv

(* While nothing is overdue the scan in hand has the lock. *)
LEMMA HandHasLock ==
  ASSUME ShortInv, Undisturbed, NEW s \in Scans, InHand(s)
  PROVE  lock > 0
  BY ScanAssumption DEF ShortInv, SerialInv, Undisturbed, Overdue, TypeOK

(* The lock is deleted by a trigger, a stop request or a run.              *)
Deletes(s) ==
  \/ TriggerDelete(s) \/ StopUnlock(s)
  \/ \E e \in Runs : e[1] = s /\ WorkerUnlock(e)

(* Nobody has a scan in hand when that happens.                            *)
LEMMA NoneInHand ==
  ASSUME "rerun" \notin Env, "redis" \notin Env,
         ShortInv, Undisturbed, NEW t \in Scans, Deletes(t)
  PROVE  \A s \in Scans : ~InHand(s)
<1> USE DEF ShortInv
<1>1. CASE TriggerDelete(t)
  <2> SUFFICES ASSUME NEW s \in Scans, InHand(s) PROVE FALSE
    OBVIOUS
  <2>1. req[t] = "delete" /\ InLockBlock(t)
    BY <1>1 DEF TriggerDelete, ReqStep, InLockBlock
  <2>2. req[s] # "create"
    BY <2>1 DEF Undisturbed, Raced
  <2>3. row[s] = "pending" /\ window[s] # 0
    BY <2>2 DEF InHand, Undisturbed, Overdue
  <2> QED
    BY <2>1, <2>3 DEF SerialInv, HasRunningScan, TypeOK
<1>2. ASSUME WillUnlock(t), ~InHand(t)
      PROVE  \A s \in Scans : ~InHand(s)
  BY <1>2 DEF Undisturbed, Outlived
<1>3. CASE StopUnlock(t)
  <2>1. stp[t] = "unlock"
    BY <1>3 DEF StopUnlock, StopStep
  <2>2. row[t] # "pending" /\ req[t] # "create"
    BY <2>1 DEF SettledInv, Settled, EarlyInv, Early, Untouched
  <2> QED
    BY <1>2, <2>1, <2>2 DEF WillUnlock, InHand
<1>4. ASSUME NEW e \in Runs, e[1] = t, WorkerUnlock(e)
      PROVE  \A s \in Scans : ~InHand(s)
  <2>0. e = <<t, e[2]>> /\ e[2] \in 1..MaxRuns /\ pc[e] = "unlock"
    BY <1>4 DEF Runs, WorkerUnlock, RunStep
  <2>1. WillUnlock(t)
    BY <2>0 DEF WillUnlock, InTry
  <2>2. \A k \in 1..MaxRuns : pc[<<t, k>>] \notin {"start", "insert", "poll"}
    <3> SUFFICES ASSUME NEW k \in 1..MaxRuns, pc[<<t, k>>] \in {"start", "insert", "poll"}
                 PROVE  FALSE
      OBVIOUS
    <3>1. <<t, k>> \in Runs
      BY DEF Runs
    <3>2. <<t, k>> = e
      BY <2>0, <3>1 DEF OnceInv
    <3> QED
      BY <2>0, <3>2
  <2>3. t \notin queue /\ req[t] # "enqueue"
    BY <2>0 DEF OnceInv
  <2>4. req[t] # "create"
    BY <2>0 DEF EarlyInv, Early, Untouched
  <2>5. ~InHand(t)
    BY <2>2, <2>3, <2>4 DEF InHand
  <2> QED
    BY <1>2, <2>1, <2>5
<1> QED
  BY <1>1, <1>3, <1>4 DEF Deletes

(* A scan gets in hand only by the lock, which is free then.               *)
LEMMA HandStep ==
  ASSUME "rerun" \notin Env, "redis" \notin Env, "lookup" \notin Env,
         ShortInv, Undisturbed, Undisturbed', [Next]_vars, NEW s \in Scans, InHand(s)'
  PROVE  \/ InHand(s) /\ (req'[s] = "create" => req[s] = "create")
         \/ /\ TriggerLock(s) \/ TriggerRetake(s)
            /\ req'[s] = "create" /\ lock = 0 /\ lock' = TTL
<1> USE DEF ShortInv, TypeOK, shared, tasks, runs
<1>0. \A e \in Runs : e = <<e[1], e[2]>> /\ e[1] \in Scans /\ e[2] \in 1..MaxRuns
  BY DEF Runs
<1>1. CASE Tick \/ UNCHANGED vars
  BY <1>1 DEF Tick, vars, InHand
<1>2. ASSUME NEW t \in Scans, TriggerLock(t) \/ TriggerRetake(t)
      PROVE  \/ InHand(s) /\ (req'[s] = "create" => req[s] = "create")
             \/ s = t /\ req'[s] = "create" /\ lock = 0 /\ lock' = TTL
  BY <1>2 DEF TriggerLock, TriggerRetake, TakeLock, ReqStep, RedisFails, InHand
<1>3. ASSUME NEW t \in Scans, TriggerCheck(t) \/ TriggerDelete(t) \/ TriggerCreate(t)
      PROVE  InHand(s) /\ (req'[s] = "create" => req[s] = "create")
  BY <1>3 DEF TriggerCheck, TriggerDelete, TriggerCreate, CreateScan, ReqStep,
              RedisFails, InHand
<1>4. ASSUME NEW t \in Scans, ScheduledCreate(t) \/ ScheduledDispatch(t)
      PROVE  FALSE
  BY <1>4 DEF ScheduledCreate, ScheduledDispatch, ReqStep, Undisturbed, Unlocked
<1>5. ASSUME NEW t \in Scans, TriggerEnqueue(t)
      PROVE  InHand(s) /\ (req'[s] = "create" => req[s] = "create")
  BY <1>5 DEF TriggerEnqueue, Enqueue, RedisFails, ReqStep, InHand
<1>6. ASSUME NEW t \in Scans, StopRead(t) \/ Stop(t) \/ Redeliver(t)
      PROVE  InHand(s) /\ (req'[s] = "create" => req[s] = "create")
  BY <1>6 DEF StopRead, Stop, StopMark, StopFlag, StopUnlock, StopAnnounce,
              UpdateScanStatus, Redeliver, InHand
<1>7. ASSUME NEW e \in Runs, Worker(e) \/ Crash(e)
      PROVE  InHand(s) /\ (req'[s] = "create" => req[s] = "create")
  <2>1. req' = req /\ \A d \in Runs : d # e => pc'[d] = pc[d]
    BY <1>7, WorkerFrame
  <2>2. queue' \subseteq queue
    BY <1>7 DEF Worker, WorkerPick, WorkerStart, WorkerInsert, WorkerPoll, WorkerCheck,
                WorkerWrite, WorkerPublish, WorkerMark, WorkerUnlock, WorkerUnflag,
                Crash, Acknowledge
  <2>3. row'[s] = "pending" => row[s] = "pending"
    <3>1. CASE WorkerStart(e)
      BY <3>1 DEF WorkerStart, RunStep, RowInv
    <3>2. CASE WorkerWrite(e) \/ WorkerMark(e)
      BY <1>0, <3>2 DEF WorkerWrite, WorkerMark, UpdateScanStatus
    <3>3. CASE UNCHANGED row
      BY <3>3
    <3> QED
      BY <1>7, <3>1, <3>2, <3>3
         DEF Worker, WorkerPick, WorkerInsert, WorkerPoll, WorkerCheck, WorkerPublish,
             WorkerUnlock, WorkerUnflag, Crash
  <2>4. pc'[e] \in {"start", "insert", "poll"}
          => pc[e] \in {"start", "insert", "poll"} \/ e[1] \in queue
    BY <1>7 DEF Worker, WorkerPick, WorkerStart, WorkerInsert, WorkerPoll, WorkerCheck,
                WorkerWrite, WorkerPublish, WorkerMark, WorkerUnlock, WorkerUnflag,
                Crash, RunStep
  <2>5. ASSUME NEW k \in 1..MaxRuns, pc'[<<s, k>>] \in {"start", "insert", "poll"}
        PROVE  pc[<<s, k>>] \in {"start", "insert", "poll"} \/ s \in queue
    <3>1. <<s, k>> \in Runs
      BY DEF Runs
    <3> QED
      BY <1>0, <2>1, <2>4, <2>5, <3>1
  <2> QED
    BY <2>1, <2>2, <2>3, <2>5 DEF InHand
<1> QED
  BY <1>1, <1>2, <1>3, <1>4, <1>5, <1>6, <1>7 DEF Next, Request

(* What becomes of the lock and of the windows.                            *)
LEMMA LockCourse ==
  ASSUME "rerun" \notin Env, "redis" \notin Env, "lookup" \notin Env,
         ShortInv, Undisturbed, Undisturbed', [Next]_vars
  PROVE  \/ Tick
         \/ \E t \in Scans : Deletes(t) /\ UNCHANGED window
         \/ \E t \in Scans : req'[t] = "create" /\ lock = 0 /\ UNCHANGED window
         \/ \E t \in Scans : TriggerCreate(t) /\ UNCHANGED lock
         \/ UNCHANGED <<lock, window>>
<1> USE DEF ShortInv, TypeOK, shared, tasks, runs
<1>1. CASE Tick \/ UNCHANGED vars
  BY <1>1 DEF vars
<1>2. ASSUME NEW t \in Scans, TriggerLock(t) \/ TriggerRetake(t)
      PROVE  \/ req'[t] = "create" /\ lock = 0 /\ UNCHANGED window
             \/ UNCHANGED <<lock, window>>
  BY <1>2 DEF TriggerLock, TriggerRetake, TakeLock, ReqStep
<1>3. ASSUME NEW t \in Scans, TriggerDelete(t) \/ StopUnlock(t)
      PROVE  Deletes(t) /\ UNCHANGED window
  BY <1>3 DEF TriggerDelete, StopUnlock, Deletes
<1>4. ASSUME NEW t \in Scans, ScheduledCreate(t)
      PROVE  FALSE
  BY <1>4 DEF ScheduledCreate, ReqStep, Undisturbed, Unlocked
<1>5. ASSUME NEW t \in Scans,
             \/ TriggerCheck(t) \/ TriggerEnqueue(t) \/ ScheduledDispatch(t)
             \/ StopRead(t) \/ StopMark(t) \/ StopFlag(t) \/ StopAnnounce(t)
             \/ Redeliver(t)
      PROVE  UNCHANGED <<lock, window>>
  BY <1>5 DEF TriggerCheck, TriggerEnqueue, ScheduledDispatch, StopRead, StopMark,
              StopFlag, StopAnnounce, Redeliver
<1>6. ASSUME NEW t \in Scans, TriggerCreate(t)
      PROVE  UNCHANGED lock
  BY <1>6 DEF TriggerCreate
<1>7. ASSUME NEW e \in Runs, WorkerUnlock(e)
      PROVE  Deletes(e[1]) /\ e[1] \in Scans /\ UNCHANGED window
  BY <1>7 DEF WorkerUnlock, Deletes, Runs
<1>8. ASSUME NEW e \in Runs, Worker(e) \/ Crash(e), ~WorkerUnlock(e)
      PROVE  UNCHANGED <<lock, window>>
  BY <1>8 DEF Worker, WorkerPick, WorkerStart, WorkerInsert, WorkerPoll, WorkerCheck,
              WorkerWrite, WorkerPublish, WorkerMark, WorkerUnflag, Crash, RunStep, RowInv
<1> QED
  BY <1>1, <1>2, <1>3, <1>4, <1>5, <1>6, <1>7, <1>8 DEF Next, Request, Stop

(* No undisturbed step gives the lock a second holder.                     *)
LEMMA SerialStep ==
  ASSUME "rerun" \notin Env, "redis" \notin Env, "lookup" \notin Env, TTL > 1
  PROVE  ShortInv /\ Undisturbed /\ Undisturbed' /\ [Next]_vars => SerialInv'
<1> SUFFICES ASSUME ShortInv, Undisturbed, Undisturbed', [Next]_vars
             PROVE  SerialInv'
  OBVIOUS
<1> USE DEF ShortInv
<1>1. ASSUME NEW s \in Scans, InHand(s)'
      PROVE  IF req'[s] = "create" THEN lock' = TTL ELSE window'[s] <= lock'
  <2>1. CASE ~InHand(s)
    BY <1>1, <2>1, HandStep
  <2>2. CASE InHand(s)
    <3>1. lock > 0
      BY <2>2, HandHasLock
    <3>2. req'[s] = "create" => req[s] = "create"
      BY <1>1, <2>2, <3>1, HandStep
    <3>3. CASE Tick
      <4>1. req'[s] = req[s] /\ lock' = lock - 1
        BY <3>1, <3>3 DEF Tick, Down, TypeOK
      <4>2. CASE req[s] = "create"
        <5>1. lock' \in 1..(TTL - 1)
          BY <2>2, <4>1, <4>2, ScanAssumption DEF SerialInv
        <5> QED
          BY <4>1, <4>2, <5>1 DEF Undisturbed, Overdue
      <4>3. CASE req[s] # "create"
        <5>1. window[s] <= lock /\ window[s] \in 0..TTL /\ lock \in 0..TTL
          BY <2>2, <4>3 DEF SerialInv, TypeOK
        <5>2. window'[s] = Down(window[s])
          BY <3>3 DEF Tick
        <5> QED
          BY <3>1, <4>1, <4>3, <5>1, <5>2, ScanAssumption DEF Down
      <4> QED
        BY <4>2, <4>3
    <3>4. CASE \E t \in Scans : Deletes(t)
      BY <2>2, <3>4, NoneInHand
    <3>5. CASE \E t \in Scans : TriggerCreate(t) /\ UNCHANGED lock
      BY <1>1, <2>2, <3>2, <3>5
         DEF TriggerCreate, CreateScan, ReqStep, SerialInv, TypeOK, InHand
    <3>6. CASE UNCHANGED <<lock, window>>
      <4>1. CASE req[s] = "create" /\ req'[s] # "create"
        <5>1. lock = TTL /\ window[s] \in 0..TTL
          BY <2>2, <4>1 DEF SerialInv, TypeOK
        <5> QED
          BY <3>6, <4>1, <5>1, ScanAssumption
      <4>2. CASE req[s] = "create" <=> req'[s] = "create"
        BY <2>2, <3>6, <4>2 DEF SerialInv
      <4> QED
        BY <3>2, <4>1, <4>2
    <3> QED
      BY <3>1, <3>3, <3>4, <3>5, <3>6, LockCourse
  <2> QED
    BY <2>1, <2>2
<1>2. ASSUME NEW s \in Scans, NEW t \in Scans, InHand(s)', InHand(t)'
      PROVE  s = t
  <2>1. CASE InHand(s) /\ InHand(t)
    BY <2>1 DEF SerialInv
  <2>2. ASSUME NEW u \in Scans, ~InHand(u), InHand(u)'
        PROVE  s = u /\ t = u
    <3>1. /\ TriggerLock(u) \/ TriggerRetake(u)
          /\ req'[u] = "create" /\ lock = 0
      BY <2>2, HandStep
    <3>2. \A r \in Scans : ~InHand(r)
      BY <3>1, HandHasLock
    <3>3. \A r \in Scans : r # u => req'[r] = req[r]
      BY <3>1 DEF TriggerLock, TriggerRetake, ReqStep, TypeOK
    <3>4. ASSUME NEW r \in Scans, InHand(r)'
          PROVE  r = u
      <4>1. req'[r] = "create" /\ (r # u => req[r] = "create")
        BY <3>2, <3>3, <3>4, HandStep
      <4> QED
        BY <3>2, <4>1 DEF InHand
    <3> QED
      BY <1>2, <3>4
  <2> QED
    BY <1>2, <2>1, <2>2
<1>3. ASSUME NEW s \in Scans, req'[s] = "delete"
      PROVE  ~HasRunningScan'
  <2> USE DEF TypeOK, shared, tasks, runs
  <2>1. CASE TriggerCheck(s)
    BY <1>3, <2>1 DEF TriggerCheck, ReqStep, HasRunningScan
  <2>2. CASE ~TriggerCheck(s)
    <3>1. req[s] = "delete"
      BY <1>3, <2>2, WorkerFrame
         DEF Next, Request, Stop, Tick, vars, TriggerLock, TriggerCheck, TriggerDelete,
             TriggerRetake, TriggerCreate, TriggerEnqueue, ScheduledCreate,
             ScheduledDispatch, StopRead, StopMark, StopFlag, StopUnlock,
             StopAnnounce, Redeliver, ReqStep
    <3>2. ~HasRunningScan
      BY <3>1 DEF SerialInv
    <3>3. \A t \in Scans : ~TriggerCreate(t)
      BY <3>1 DEF TriggerCreate, ReqStep, Undisturbed, Raced, InLockBlock
    <3>4. \A t \in Scans : ~ScheduledCreate(t)
      BY DEF ScheduledCreate, ReqStep, Undisturbed, Unlocked
    <3>5. \A t \in Scans : row'[t] = "pending" => row[t] = "pending"
      <4>1. CASE \E e \in Runs : Worker(e) \/ Crash(e)
        <5>1. PICK e \in Runs : Worker(e) \/ Crash(e)
          BY <4>1
        <5>2. e[1] \in Scans
          BY DEF Runs
        <5> QED
          BY <5>1, <5>2
             DEF Worker, WorkerPick, WorkerStart, WorkerInsert, WorkerPoll, WorkerCheck,
                 WorkerWrite, WorkerPublish, WorkerMark, WorkerUnlock, WorkerUnflag,
                 Crash, RunStep, RowInv, UpdateScanStatus
      <4>2. CASE ~\E e \in Runs : Worker(e) \/ Crash(e)
        BY <3>3, <3>4, <4>2
           DEF Next, Request, Stop, Tick, vars, TriggerLock, TriggerCheck, TriggerDelete,
               TriggerRetake, TriggerEnqueue, ScheduledDispatch, StopRead, StopMark,
               StopFlag, StopUnlock, StopAnnounce, Redeliver, UpdateScanStatus
      <4> QED
        BY <4>1, <4>2
    <3>6. \A t \in Scans : window'[t] > 0 => window[t] > 0
      BY <3>3, LockCourse, ScanAssumption DEF Tick, Down
    <3> QED
      BY <3>2, <3>5, <3>6 DEF HasRunningScan
  <2> QED
    BY <2>1, <2>2
<1> QED
  BY <1>1, <1>2, <1>3 DEF SerialInv

(* As long as nobody looks at the lock between another's SET and INSERT,   *)
(* no stopped or finishing scan has its DEL ahead, no scan outlasts its    *)
(* lock and no scheduled scan is created, two scans never run at the same  *)
(* time: with stops, crashes, failing statements and left-over locks, and  *)
(* for any number of triggers.                                             *)
THEOREM LockSerialises ==
  ASSUME "rerun" \notin Env, "redis" \notin Env, "lookup" \notin Env, TTL > 1
  PROVE  Spec => SerialWhileUndisturbed
<1>1. ShortInv => OneScanAtATime
  <2> SUFFICES ASSUME ShortInv, NEW s \in Scans, NEW t \in Scans, Busy(s), Busy(t)
               PROVE  s = t
    BY DEF OneScanAtATime
  <2>1. InHand(s) /\ InHand(t)
    BY DEF Busy, InHand
  <2> QED
    BY <2>1 DEF ShortInv, SerialInv
<1>2. Init => OnceInv /\ RowInv /\ SerialInv
  BY OnceInit DEF Init, RowInv, SerialInv, InHand
<1>3. ShortInv /\ Undisturbed /\ Undisturbed' /\ [Next]_vars
        => (OnceInv /\ RowInv /\ SerialInv)'
  BY OnceStep, RowStep, SerialStep DEF ShortInv
<1>4. Spec /\ []Undisturbed => []ShortInv
  <2>1. TypeOK /\ EarlyInv /\ SettledInv /\ OnceInv /\ RowInv /\ SerialInv <=> ShortInv
    BY DEF ShortInv
  <2> QED
    BY <1>2, <1>3, <2>1, SettledAlways, PTL DEF Spec
<1> QED
  BY <1>1, <1>4, PTL DEF SerialWhileUndisturbed

(***************************************************************************)
(* What a run leaves behind, while the UPDATE of its finally block works.  *)
(***************************************************************************)
WroteAll(e) == final[e] = "done" => ~raised[e]

FinalInv ==
  /\ \A e \in Runs : pc[e] = "write" => final[e] = "done"
  /\ \A e \in Runs : pc[e] \in {"unlock", "unflag", "ended"} /\ WroteAll(e)
                      => Settled(e[1])

(* No step leaves a run that ended without a final status.                 *)
LEMMA FinalStep ==
  ASSUME "outage" \notin Env
  PROVE  TypeOK /\ EarlyInv /\ SettledInv /\ FinalInv /\ [Next]_vars => FinalInv'
<1> SUFFICES ASSUME TypeOK, EarlyInv, SettledInv, FinalInv, [Next]_vars
             PROVE  FinalInv'
  OBVIOUS
<1>0. /\ \A s \in Scans : Settled(s) => Settled(s)'
      /\ \A e \in Runs : e = <<e[1], e[2]>> /\ e[1] \in Scans /\ e[2] \in 1..MaxRuns
  BY SettledStays DEF Runs
<1> USE DEF TypeOK, FinalInv, WroteAll, shared, tasks, runs
<1>1. CASE Tick
  BY <1>0, <1>1 DEF Tick
<1>2. ASSUME NEW t \in Scans,
             \/ TriggerLock(t) \/ ScheduledCreate(t) \/ Request(t) \/ StopRead(t)
             \/ Redeliver(t) \/ Stop(t)
      PROVE  FinalInv'
  <2>1. UNCHANGED <<final, raised>>
    BY <1>2 DEF TriggerLock, ScheduledCreate, Request, TriggerCheck, TriggerDelete,
                TriggerRetake, TriggerCreate, TriggerEnqueue, ScheduledDispatch,
                StopRead, Redeliver, Stop, StopMark, StopFlag, StopUnlock, StopAnnounce
  <2>2. \A e \in Runs : pc'[e] = pc[e] \/ pc'[e] = "start"
    BY <1>2, OutsideFrame
  <2> QED
    BY <1>0, <2>1, <2>2
<1>3. ASSUME NEW e \in Runs, Worker(e) \/ Crash(e)
      PROVE  FinalInv'
  <2>1. \A d \in Runs : d # e =>
          pc'[d] = pc[d] /\ final'[d] = final[d] /\ raised'[d] = raised[d]
    <3>1. \A d \in Runs : d # e => pc'[d] = pc[d] /\ final'[d] = final[d]
      BY <1>3, WorkerFrame
    <3>2. \A d \in Runs : d # e => raised'[d] = raised[d]
      BY <1>3 DEF Worker, WorkerPick, WorkerStart, WorkerInsert, WorkerPoll,
                  WorkerCheck, WorkerWrite, WorkerPublish, WorkerMark, WorkerUnlock,
                  WorkerUnflag, Crash
    <3> QED
      BY <3>1, <3>2
  <2>2. /\ pc'[e] = "write" => final'[e] = "done"
        /\ pc'[e] \in {"unlock", "unflag", "ended"} /\ WroteAll(e)' => Settled(e[1])'
    <3> USE DEF RunStep
    <3>1. CASE WorkerPick(e) \/ WorkerStart(e) \/ WorkerInsert(e) \/ WorkerPoll(e)
      BY <3>1 DEF WorkerPick, WorkerStart, WorkerInsert, WorkerPoll
    <3>2. CASE WorkerCheck(e)
      BY <1>0, <3>2 DEF WorkerCheck, SettledInv
    <3>3. CASE WorkerWrite(e)
      BY <3>3 DEF WorkerWrite
    <3>4. CASE WorkerPublish(e)
      BY <1>0, <3>4 DEF WorkerPublish, SettledInv
    <3>5. CASE WorkerMark(e)
      <4>1. row'[e[1]] = "failed" /\ pc'[e] = "unlock"
        BY <1>0, <3>5 DEF WorkerMark, UpdateScanStatus
      <4> QED
        BY <4>1 DEF Settled
    <3>6. CASE WorkerUnlock(e) \/ WorkerUnflag(e)
      BY <1>0, <3>6 DEF WorkerUnlock, WorkerUnflag
    <3>7. CASE Crash(e)
      BY <3>7 DEF Crash
    <3> QED
      BY <1>3, <3>1, <3>2, <3>3, <3>4, <3>5, <3>6, <3>7 DEF Worker
  <2> QED
    BY <1>0, <2>1, <2>2
<1>4. CASE UNCHANGED vars
  <2>1. UNCHANGED <<pc, final, raised>>
    BY <1>4 DEF vars
  <2> QED
    BY <1>0, <2>1
<1> QED
  BY <1>1, <1>2, <1>3, <1>4 DEF Next

(* While the UPDATE of the finally block does not raise, a run that        *)
(* reached its end leaves a final status, but for the run whose UPDATE to  *)
(* 'done' raised: however often and by how many runs the scan is executed. *)
THEOREM EndIsFinal ==
  ASSUME "outage" \notin Env
  PROVE  Spec => []EndedIsFinal
<1>1. FinalInv => EndedIsFinal
  BY DEF FinalInv, WroteAll, EndedIsFinal, Settled
<1>2. Init => FinalInv
  BY DEF Init, FinalInv
<1>3. TypeOK /\ EarlyInv /\ SettledInv /\ FinalInv /\ [Next]_vars => FinalInv'
  BY FinalStep
<1>4. Spec => []FinalInv
  BY <1>2, <1>3, SettledAlways, PTL DEF Spec
<1> QED
  BY <1>1, <1>4, PTL

(***************************************************************************)
(* What clients are told, while Redis answers.                             *)
(***************************************************************************)
Told(s) == announced[s] # {} \/ stp[s] \in {"unlock", "announce"}

ToldInv ==
  /\ \A s \in Scans : flag[s] > 0 => Told(s)
  /\ \A e \in Runs : pc[e] \in {"mark", "unlock", "unflag", "ended"} => Told(e[1])

(* What is published is announced, and nothing is taken back.              *)
LEMMA Published ==
  ASSUME "redis" \notin Env, TypeOK, NEW s \in Scans, NEW event, Publish(s, event)
  PROVE  /\ event \in announced'[s]
         /\ \A t \in Scans : announced[t] \subseteq announced'[t]
  BY DEF Publish, RedisFails, TypeOK

(* No step ends a run that nobody announces.                               *)
LEMMA ToldStep ==
  ASSUME "redis" \notin Env
  PROVE  TypeOK /\ ToldInv /\ [Next]_vars => ToldInv'
<1> SUFFICES ASSUME TypeOK, ToldInv, [Next]_vars
             PROVE  ToldInv'
  OBVIOUS
<1>0. \A e \in Runs : e = <<e[1], e[2]>> /\ e[1] \in Scans /\ e[2] \in 1..MaxRuns
  BY DEF Runs
<1> USE DEF TypeOK, ToldInv, Told, RedisFails, shared, tasks, runs
<1>1. CASE Tick
  BY <1>0, <1>1, ScanAssumption DEF Tick, Down
<1>2. ASSUME NEW t \in Scans,
             TriggerLock(t) \/ ScheduledCreate(t) \/ Request(t) \/ Redeliver(t)
      PROVE  ToldInv'
  <2>1. UNCHANGED <<flag, announced, stp>>
    BY <1>2 DEF TriggerLock, ScheduledCreate, Request, TriggerCheck, TriggerDelete,
                TriggerRetake, TriggerCreate, TriggerEnqueue, ScheduledDispatch,
                Redeliver
  <2>2. \A e \in Runs : pc'[e] = pc[e] \/ pc'[e] = "start"
    BY <1>2 DEF TriggerLock, ScheduledCreate, Request, TriggerCheck, TriggerDelete,
                TriggerRetake, TriggerCreate, TriggerEnqueue, ScheduledDispatch,
                Redeliver, Enqueue, RunHere
  <2> QED
    BY <1>0, <2>1, <2>2
<1>3. ASSUME NEW t \in Scans, StopRead(t) \/ Stop(t)
      PROVE  ToldInv'
  <2>1. pc' = pc
    BY <1>3 DEF StopRead, Stop, StopMark, StopFlag, StopUnlock, StopAnnounce
  <2>2. \A s \in Scans : Told(s) => Told(s)'
    <3> USE DEF StopStep
    <3>1. CASE StopRead(t)
      BY <3>1 DEF StopRead
    <3>2. CASE StopMark(t) \/ StopFlag(t)
      BY <3>2 DEF StopMark, StopFlag
    <3>3. CASE StopUnlock(t)
      BY <3>3 DEF StopUnlock
    <3>4. CASE StopAnnounce(t)
      <4>1. announced'[t] # {} /\ \A s \in Scans : announced[s] \subseteq announced'[s]
        BY <3>4, Published DEF StopAnnounce
      <4>2. \A s \in Scans : s # t => stp'[s] = stp[s]
        BY <3>4 DEF StopAnnounce
      <4> QED
        BY <4>1, <4>2
    <3> QED
      BY <1>3, <3>1, <3>2, <3>3, <3>4 DEF Stop
  <2>3. \A s \in Scans : flag'[s] > 0 => flag[s] > 0 \/ stp'[s] = "unlock"
    BY <1>3 DEF StopRead, Stop, StopMark, StopFlag, StopUnlock, StopAnnounce, StopStep
  <2> QED
    BY <1>0, <2>1, <2>2, <2>3
<1>4. ASSUME NEW e \in Runs, Worker(e) \/ Crash(e)
      PROVE  ToldInv'
  <2>1. /\ stp' = stp /\ e[1] \in Scans
        /\ \A d \in Runs : d # e => pc'[d] = pc[d]
        /\ \A s \in Scans : flag'[s] = flag[s] \/ flag'[s] = 0
    BY <1>4, WorkerFrame
  <2>2. /\ \A s \in Scans : announced[s] \subseteq announced'[s]
        /\ pc'[e] \in {"mark", "unlock", "unflag", "ended"}
             => \/ pc[e] \in {"mark", "unlock", "unflag"}
                \/ flag[e[1]] > 0
                \/ announced'[e[1]] # {}
    <3> USE DEF RunStep
    <3>1. CASE WorkerPick(e) \/ WorkerStart(e) \/ WorkerPoll(e) \/ WorkerCheck(e)
      BY <2>1, <3>1 DEF WorkerPick, WorkerStart, WorkerPoll, WorkerCheck
    <3>2. CASE WorkerInsert(e) \/ WorkerWrite(e) \/ WorkerPublish(e)
      <4>1. CASE Publish(e[1], "failed") \/ Publish(e[1], "complete")
        BY <2>1, <4>1, Published
      <4>2. CASE announced' = announced /\ pc'[e] \notin {"mark", "unlock", "unflag", "ended"}
        BY <4>2
      <4> QED
        BY <3>2, <4>1, <4>2 DEF WorkerInsert, WorkerWrite, WorkerPublish
    <3>3. CASE WorkerMark(e)
      BY <2>1, <3>3 DEF WorkerMark
    <3>4. CASE WorkerUnlock(e) \/ WorkerUnflag(e)
      BY <2>1, <3>4 DEF WorkerUnlock, WorkerUnflag
    <3>5. CASE Crash(e)
      BY <2>1, <3>5 DEF Crash
    <3> QED
      BY <1>4, <3>1, <3>2, <3>3, <3>4, <3>5 DEF Worker
  <2>3. \A s \in Scans : Told(s) => Told(s)'
    BY <2>1, <2>2
  <2>4. pc'[e] \in {"mark", "unlock", "unflag", "ended"} => Told(e[1])'
    BY <2>1, <2>2, <2>3
  <2>5. \A s \in Scans : flag'[s] > 0 => Told(s)'
    BY <2>1, <2>3
  <2> QED
    BY <1>0, <2>1, <2>3, <2>4, <2>5
<1>5. CASE UNCHANGED vars
  BY <1>0, <1>5 DEF vars
<1> QED
  BY <1>1, <1>2, <1>3, <1>4, <1>5 DEF Next

(* While Redis answers, a run that reached its end was announced, or the   *)
(* stop request that cancelled it is about to publish: however the run     *)
(* ended, whatever else failed, expired or ran twice.                      *)
THEOREM EndIsAnnounced ==
  ASSUME "redis" \notin Env
  PROVE  Spec => []NoSilentEnd
<1>1. ToldInv => NoSilentEnd
  BY DEF ToldInv, Told, NoSilentEnd
<1>2. Init => ToldInv
  BY DEF Init, ToldInv
<1>3. TypeOK /\ ToldInv /\ [Next]_vars => ToldInv'
  BY ToldStep
<1>4. Spec => []ToldInv
  BY <1>2, <1>3, TypeCorrect, PTL DEF Spec
<1> QED
  BY <1>1, <1>4, PTL

(***************************************************************************)
(* A run that wrote 'failed' or published scan.complete does neither again. *)
(***************************************************************************)
Over(e) == pc[e] \in {"unlock", "unflag", "ended", "crashed"}

BareInv ==
  /\ \A s \in Scans : row[s] = "failed" \/ "complete" \in announced[s]
       => \E e \in Runs : e[1] = s /\ Over(e)
  /\ NoBareFailureAfterComplete

(* No step writes failed over a scan announced as complete.                *)
LEMMA BareStep ==
  ASSUME "rerun" \notin Env
  PROVE  TypeOK /\ EarlyInv /\ OnceInv /\ BareInv /\ [Next]_vars => BareInv'
<1> SUFFICES ASSUME TypeOK, EarlyInv, OnceInv, BareInv, [Next]_vars
             PROVE  BareInv'
  OBVIOUS
<1> USE DEF TypeOK, BareInv, NoBareFailureAfterComplete, Over, shared, tasks, runs
<1>1. CASE Tick \/ UNCHANGED vars
  BY <1>1 DEF Tick, vars
<1>2. ASSUME NEW t \in Scans,
             \/ TriggerLock(t) \/ ScheduledCreate(t) \/ Request(t) \/ StopRead(t)
             \/ Redeliver(t) \/ Stop(t)
      PROVE  BareInv'
  <2>1. \A s \in Scans : /\ row'[s] = "failed" => row[s] = "failed"
                         /\ "complete" \in announced'[s] => "complete" \in announced[s]
    <3> USE DEF ReqStep, StopStep
    <3>1. CASE TriggerLock(t) \/ TriggerCheck(t) \/ TriggerDelete(t) \/ TriggerRetake(t)
      BY <3>1 DEF TriggerLock, TriggerCheck, TriggerDelete, TriggerRetake
    <3>2. CASE TriggerCreate(t) \/ ScheduledCreate(t)
      BY <3>2 DEF TriggerCreate, ScheduledCreate, CreateScan
    <3>3. CASE TriggerEnqueue(t) \/ ScheduledDispatch(t) \/ Redeliver(t)
      BY <3>3 DEF TriggerEnqueue, ScheduledDispatch, Redeliver
    <3>4. CASE StopRead(t) \/ Stop(t)
      BY <3>4 DEF StopRead, Stop, StopMark, StopFlag, StopUnlock, StopAnnounce,
                  UpdateScanStatus, Publish
    <3> QED
      BY <1>2, <3>1, <3>2, <3>3, <3>4 DEF Request
  <2>2. \A e \in Runs : Over(e) => Over(e)'
    <3>1. \A e \in Runs : Over(e) => pc'[e] = pc[e] \/ (e = <<t, 1>> /\ pc'[e] = "start")
      BY <1>2, OutsideFrame
    <3>2. CASE TriggerEnqueue(t) \/ ScheduledDispatch(t)
      BY <3>1, <3>2, HandoverFrame, ScanAssumption DEF OnceInv
    <3>3. CASE pc' = pc
      BY <3>3
    <3> QED
      BY <1>2, <3>2, <3>3
         DEF TriggerLock, ScheduledCreate, Request, TriggerCheck, TriggerDelete,
             TriggerRetake, TriggerCreate, StopRead, Redeliver, Stop, StopMark,
             StopFlag, StopUnlock, StopAnnounce
  <2> QED
    BY <2>1, <2>2
<1>3. ASSUME NEW e \in Runs, Worker(e) \/ Crash(e)
      PROVE  BareInv'
  <2>1. /\ e[1] \in Scans
        /\ \A d \in Runs : d # e => pc'[d] = pc[d]
        /\ \A s \in Scans : s # e[1] => row'[s] = row[s]
    BY <1>3, WorkerFrame
  <2>2. /\ Over(e) => Over(e)'
        /\ \A s \in Scans : s # e[1] =>
             ("complete" \in announced'[s] => "complete" \in announced[s])
        /\ \/ row'[e[1]] = "failed" => row[e[1]] = "failed"
           \/ /\ pc[e] = "mark" /\ Over(e)'
              /\ announced' = announced
        /\ \/ "complete" \in announced'[e[1]] => "complete" \in announced[e[1]]
           \/ /\ pc[e] = "publish" /\ Over(e)'
              /\ row' = row
    <3> USE DEF RunStep
    <3>1. CASE WorkerStart(e)
      <4>1. ~Over(e) /\ announced' = announced
        BY <3>1 DEF WorkerStart
      <4>2. row'[e[1]] = "failed" => row[e[1]] = "failed"
        <5>1. CASE CreateScan(e[1])
          BY <2>1, <5>1 DEF CreateScan
        <5>2. CASE row' = row
          BY <5>2
        <5> QED
          BY <3>1, <5>1, <5>2 DEF WorkerStart
      <4> QED
        BY <4>1, <4>2
    <3>2. CASE WorkerPick(e) \/ WorkerPoll(e) \/ WorkerCheck(e)
      BY <2>1, <3>2 DEF WorkerPick, WorkerPoll, WorkerCheck
    <3>3. CASE WorkerInsert(e) \/ WorkerWrite(e)
      BY <2>1, <3>3 DEF WorkerInsert, WorkerWrite, UpdateScanStatus, Publish
    <3>4. CASE WorkerPublish(e)
      BY <2>1, <3>4 DEF WorkerPublish, Publish
    <3>5. CASE WorkerMark(e)
      BY <2>1, <3>5 DEF WorkerMark, UpdateScanStatus
    <3>6. CASE WorkerUnlock(e) \/ WorkerUnflag(e) \/ Crash(e)
      BY <2>1, <3>6 DEF WorkerUnlock, WorkerUnflag, Crash
    <3> QED
      BY <1>3, <3>1, <3>2, <3>3, <3>4, <3>5, <3>6 DEF Worker
  <2>3. pc[e] \in {"mark", "publish"}
          => row[e[1]] # "failed" /\ "complete" \notin announced[e[1]]
    BY <2>1 DEF OnceInv
  <2>4. \A d \in Runs : Over(d) => Over(d)'
    BY <2>1, <2>2
  <2>5. ASSUME NEW s \in Scans, row'[s] = "failed" \/ "complete" \in announced'[s]
        PROVE  \E d \in Runs : d[1] = s /\ Over(d)'
    <3>1. CASE row[s] = "failed" \/ "complete" \in announced[s]
      <4>1. PICK d \in Runs : d[1] = s /\ Over(d)
        BY <3>1
      <4>2. Over(d)'
        BY <2>4, <4>1
      <4> QED
        BY <4>1, <4>2
    <3>2. CASE ~(row[s] = "failed" \/ "complete" \in announced[s])
      <4>1. s = e[1]
        <5> SUFFICES ASSUME s # e[1] PROVE FALSE
          OBVIOUS
        <5>1. row'[s] = row[s] /\ ("complete" \in announced'[s] => "complete" \in announced[s])
          BY <2>1, <2>2
        <5> QED
          BY <2>5, <3>2, <5>1
      <4>2. Over(e)'
        BY <2>2, <2>5, <3>2, <4>1
      <4> QED
        BY <4>1, <4>2
    <3> QED
      BY <3>1, <3>2
  <2>6. ASSUME NEW s \in Scans, row'[s] = "failed"
        PROVE  "complete" \notin announced'[s]
    BY <2>1, <2>2, <2>3, <2>6
  <2> QED
    BY <2>5, <2>6
<1> QED
  BY <1>1, <1>2, <1>3 DEF Next

(* When Celery executes a task once, the finally block never writes        *)
(* 'failed' over a scan that its own run announced as complete.            *)
THEOREM CompleteIsNotFailed ==
  ASSUME "rerun" \notin Env
  PROVE  Spec => []NoBareFailureAfterComplete
<1>1. BareInv => NoBareFailureAfterComplete
  BY DEF BareInv
<1>2. Init => OnceInv /\ BareInv
  BY OnceInit DEF Init, BareInv, NoBareFailureAfterComplete
<1>3. TypeOK /\ EarlyInv /\ OnceInv /\ BareInv /\ [Next]_vars => (OnceInv /\ BareInv)'
  BY OnceStep, BareStep
<1>4. Spec => [](OnceInv /\ BareInv)
  BY <1>2, <1>3, SettledAlways, PTL DEF Spec
<1> QED
  BY <1>1, <1>4, PTL

(***************************************************************************)
(* The scans of ScanLifecycle are the scan service of ScanService, when    *)
(* Celery executes a task once.                                            *)
(***************************************************************************)
RefInv == TypeOK /\ EarlyInv /\ OnceInv /\ RowInv

phase == [s \in Scans |-> Phase(s)]

Past(e) == pc[e] \notin {"idle", "start", "insert", "poll"}

(* The phase of a scan is told by its row and its one run.                 *)
RunPhases ==
  \A e \in Runs : pc[e] # "idle" =>
    Phase(e[1]) = IF row[e[1]] = "pending" /\ pc[e] \in {"insert", "poll"} THEN "working"
                  ELSE IF row[e[1]] # "pending" \/ Past(e) THEN "over" ELSE "waiting"

LEMMA PhaseOfRun == RefInv => RunPhases
<1> SUFFICES ASSUME RefInv, NEW e \in Runs, pc[e] # "idle"
             PROVE  Phase(e[1]) =
                      IF row[e[1]] = "pending" /\ pc[e] \in {"insert", "poll"} THEN "working"
                      ELSE IF row[e[1]] # "pending" \/ Past(e) THEN "over" ELSE "waiting"
  BY DEF RunPhases
<1>1. e = <<e[1], e[2]>> /\ e[1] \in Scans /\ e[2] \in 1..MaxRuns
  BY DEF Runs
<1>2. \A k \in 1..MaxRuns : k # e[2] => pc[<<e[1], k>>] = "idle"
  <2> SUFFICES ASSUME NEW k \in 1..MaxRuns, pc[<<e[1], k>>] # "idle" PROVE k = e[2]
    OBVIOUS
  <2>1. <<e[1], k>> \in Runs
    BY <1>1 DEF Runs
  <2>2. <<e[1], k>> = e
    BY <2>1 DEF RefInv, OnceInv
  <2> QED
    BY <1>1, <2>2
<1>3. pc[<<e[1], e[2]>>] = pc[e] /\ row[e[1]] # "none"
  BY <1>1 DEF RefInv, RowInv
<1>4. Busy(e[1]) <=> row[e[1]] = "pending" /\ pc[e] \in {"insert", "poll"}
  BY <1>1, <1>2, <1>3 DEF Busy
<1>5. (\E k \in 1..MaxRuns : pc[<<e[1], k>>] \notin {"idle", "start", "insert", "poll"})
        <=> Past(e)
  BY <1>1, <1>2, <1>3 DEF Past
<1> QED
  BY <1>3, <1>4, <1>5 DEF Phase

LEMMA PhaseOfRunNext == RefInv' => RunPhases'
  BY PhaseOfRun, PTL

(* Without a run a scan waits, or was stopped. *)
LEMMA PhaseOfIdle ==
  ASSUME NEW s \in Scans, \A k \in 1..MaxRuns : pc[<<s, k>>] = "idle"
  PROVE  Phase(s) = IF row[s] \in {"none", "pending"} THEN "waiting" ELSE "over"
  BY DEF Phase, Busy

(* The course of a run, as far as the phases tell it apart. *)
LEMMA RunCourse ==
  ASSUME RefInv, NEW e \in Runs, Worker(e) \/ Crash(e)
  PROVE  /\ pc[e] = "idle" => e[1] \in queue /\ pc'[e] = "start"
         /\ pc[e] = "start" => pc'[e] \in {"insert", "aborted", "crashed"}
         /\ pc[e] \in {"insert", "poll"}
              => pc'[e] \in {"insert", "poll", "check", "mark", "crashed"}
         /\ Past(e) => Past(e)'
         /\ pc[e] \notin {"write", "mark"} => row' = row
<1>0. e[1] \in Scans
  BY DEF Runs
<1> USE DEF RefInv, TypeOK, shared, tasks, runs, RunStep, Past
<1>1. CASE WorkerPick(e)
  BY <1>1 DEF WorkerPick
<1>2. CASE WorkerStart(e)
  BY <1>0, <1>2 DEF WorkerStart, RowInv
<1>3. CASE WorkerInsert(e) \/ WorkerPoll(e) \/ WorkerCheck(e)
  BY <1>3 DEF WorkerInsert, WorkerPoll, WorkerCheck
<1>4. CASE WorkerWrite(e) \/ WorkerPublish(e) \/ WorkerMark(e)
  BY <1>4 DEF WorkerWrite, WorkerPublish, WorkerMark
<1>5. CASE WorkerUnlock(e) \/ WorkerUnflag(e)
  BY <1>0, <1>5 DEF WorkerUnlock, WorkerUnflag
<1>6. CASE Crash(e)
  BY <1>6 DEF Crash, Active, InTry
<1> QED
  BY <1>1, <1>2, <1>3, <1>4, <1>5, <1>6 DEF Worker

(* The requests that create scans and the broker leave the phases alone.   *)
LEMMA OutsidePhases ==
  ASSUME RefInv, NEW t \in Scans,
         \/ TriggerLock(t) \/ ScheduledCreate(t) \/ Request(t) \/ StopRead(t)
         \/ Redeliver(t)
  PROVE  phase' = phase
<1> USE DEF RefInv, TypeOK, shared, tasks, runs
<1>1. ASSUME UNCHANGED <<row, pc>>
      PROVE  phase' = phase
  BY <1>1 DEF phase, Phase, Busy
<1>2. CASE TriggerCreate(t) \/ ScheduledCreate(t)
  <2>1. /\ row[t] = "none" /\ \A k \in 1..MaxRuns : pc[<<t, k>>] = "idle"
        /\ pc' = pc /\ row'[t] \in {"none", "pending"}
        /\ \A s \in Scans : s # t => row'[s] = row[s]
    BY <1>2 DEF TriggerCreate, ScheduledCreate, CreateScan, ReqStep, EarlyInv, Early,
                Untouched
  <2>2. ASSUME NEW s \in Scans
        PROVE  Phase(s)' = Phase(s)
    BY <2>1 DEF Phase, Busy
  <2> QED
    BY <2>2 DEF phase
<1>3. CASE TriggerEnqueue(t) \/ ScheduledDispatch(t)
  <2>1. /\ row' = row /\ \A k \in 1..MaxRuns : pc[<<t, k>>] = "idle"
        /\ \A e \in Runs : pc'[e] = pc[e] \/ (pc[e] = "idle" /\ pc'[e] = "start")
    <3>1. \A k \in 1..MaxRuns : pc[<<t, k>>] = "idle"
      BY <1>3, HandoverFrame DEF OnceInv
    <3>2. pc[<<t, 1>>] = "idle"
      BY <3>1, ScanAssumption
    <3> QED
      BY <1>3, <3>1, <3>2 DEF TriggerEnqueue, ScheduledDispatch, Enqueue, RunHere
  <2>2. ASSUME NEW s \in Scans, NEW k \in 1..MaxRuns
        PROVE  \/ pc'[<<s, k>>] = pc[<<s, k>>]
               \/ pc[<<s, k>>] = "idle" /\ pc'[<<s, k>>] = "start"
    BY <2>1 DEF Runs
  <2>3. ASSUME NEW s \in Scans
        PROVE  Phase(s)' = Phase(s)
    BY <2>1, <2>2 DEF Phase, Busy
  <2> QED
    BY <2>3 DEF phase
<1> QED
  BY <1>1, <1>2, <1>3
     DEF TriggerLock, Request, TriggerCheck, TriggerDelete, TriggerRetake, StopRead,
         Redeliver

(* A stop request takes its scan to its end.                               *)
LEMMA StopPhases ==
  ASSUME RefInv, NEW t \in Scans, Stop(t)
  PROVE  Service!Next \/ phase' = phase
<1> USE DEF RefInv, TypeOK, shared, tasks, runs
<1>1. CASE UNCHANGED <<row, pc>>
  BY <1>1 DEF phase, Phase, Busy
<1>2. CASE StopMark(t) /\ row' # row
  <2>1. pc' = pc /\ row'[t] = "stopped" /\ \A s \in Scans : s # t => row'[s] = row[s]
    BY <1>2 DEF StopMark, UpdateScanStatus
  <2>2. \A s \in Scans : s # t => Phase(s)' = Phase(s)
    BY <2>1 DEF Phase, Busy
  <2>3. Phase(t)' = "over"
    BY <2>1 DEF Phase, Busy
  <2>4. phase' = [phase EXCEPT ![t] = "over"]
    BY <2>2, <2>3 DEF phase
  <2>5. Phase(t) \in {"waiting", "working", "over"}
    BY DEF Phase
  <2>6. CASE Phase(t) = "waiting"
    BY <2>4, <2>6 DEF Service!Drop, Service!Next, phase
  <2>7. CASE Phase(t) = "working"
    BY <2>4, <2>7 DEF Service!End, Service!Next, phase
  <2>8. CASE Phase(t) = "over"
    BY <2>2, <2>3, <2>8 DEF phase
  <2> QED
    BY <2>5, <2>6, <2>7, <2>8
<1> QED
  BY <1>1, <1>2 DEF Stop, StopMark, StopFlag, StopUnlock, StopAnnounce

(* A step of a run is a step of its scan or none.                          *)
LEMMA WorkerPhases ==
  ASSUME RefInv, RefInv', NEW e \in Runs, Worker(e) \/ Crash(e)
  PROVE  Service!Next \/ phase' = phase
<1>0. /\ e = <<e[1], e[2]>> /\ e[1] \in Scans /\ e[2] \in 1..MaxRuns
      /\ pc'[e] # "idle"
      /\ \A d \in Runs : d # e => pc'[d] = pc[d]
      /\ \A s \in Scans : s # e[1] => row'[s] = row[s]
  BY WorkerFrame DEF RefInv
<1>1. \A s \in Scans : s # e[1] => Phase(s)' = Phase(s)
  <2> SUFFICES ASSUME NEW s \in Scans, s # e[1] PROVE Phase(s)' = Phase(s)
    OBVIOUS
  <2>1. \A k \in 1..MaxRuns : pc'[<<s, k>>] = pc[<<s, k>>]
    <3> SUFFICES ASSUME NEW k \in 1..MaxRuns PROVE pc'[<<s, k>>] = pc[<<s, k>>]
      OBVIOUS
    <3>1. <<s, k>> \in Runs /\ <<s, k>> # e
      BY DEF Runs
    <3> QED
      BY <1>0, <3>1
  <2> QED
    BY <1>0, <2>1 DEF Phase, Busy
<1>2. phase' = [phase EXCEPT ![e[1]] = Phase(e[1])']
  BY <1>0, <1>1 DEF phase
<1>3. pc[e] # "idle" =>
        Phase(e[1]) = IF row[e[1]] = "pending" /\ pc[e] \in {"insert", "poll"} THEN "working"
                      ELSE IF row[e[1]] # "pending" \/ Past(e) THEN "over" ELSE "waiting"
  BY PhaseOfRun DEF RunPhases
<1>4. Phase(e[1])' =
        IF row'[e[1]] = "pending" /\ pc'[e] \in {"insert", "poll"} THEN "working"
        ELSE IF row'[e[1]] # "pending" \/ Past(e)' THEN "over" ELSE "waiting"
  BY <1>0, PhaseOfRunNext DEF RunPhases
<1>5. CASE Phase(e[1])' = Phase(e[1])
  BY <1>1, <1>5 DEF phase
<1>6. CASE Phase(e[1])' # Phase(e[1])
  <2>1. CASE pc[e] = "idle"
    <3>1. e[1] \in queue /\ pc'[e] = "start" /\ row' = row
      BY <2>1, RunCourse
    <3>2. \A k \in 1..MaxRuns : pc[<<e[1], k>>] = "idle"
      BY <1>0, <3>1 DEF RefInv, OnceInv
    <3>3. row[e[1]] # "none"
      BY <1>0, <3>1 DEF RefInv, RowInv
    <3>4. Phase(e[1]) = IF row[e[1]] = "pending" THEN "waiting" ELSE "over"
      BY <1>0, <3>2, <3>3, PhaseOfIdle
    <3> QED
      BY <1>4, <1>6, <3>1, <3>4 DEF Past
  <2>2. CASE pc[e] = "start"
    <3>1. row' = row /\ pc'[e] \in {"insert", "aborted", "crashed"}
      BY <2>2, RunCourse
    <3>2. Phase(e[1]) = "waiting"
      BY <1>3, <1>4, <1>6, <2>2, <3>1 DEF Past
    <3>3. Phase(e[1])' \in {"working", "over"}
      BY <1>4, <1>6, <3>2
    <3>4. CASE Phase(e[1])' = "working"
      BY <1>0, <1>2, <3>2, <3>4 DEF Service!Begin, Service!Next, phase
    <3>5. CASE Phase(e[1])' = "over"
      BY <1>0, <1>2, <3>2, <3>5 DEF Service!Drop, Service!Next, phase
    <3> QED
      BY <3>3, <3>4, <3>5
  <2>3. CASE pc[e] \in {"insert", "poll"}
    <3>1. row' = row /\ pc'[e] \in {"insert", "poll", "check", "mark", "crashed"}
      BY <2>3, RunCourse
    <3>2. Phase(e[1]) = "working" /\ Phase(e[1])' = "over"
      BY <1>3, <1>4, <1>6, <2>3, <3>1 DEF Past
    <3> QED
      BY <1>0, <1>2, <3>2 DEF Service!End, Service!Next, phase
  <2>4. CASE Past(e)
    BY <1>3, <1>4, <1>6, <2>4, RunCourse DEF Past
  <2> QED
    BY <2>1, <2>2, <2>3, <2>4 DEF Past
<1> QED
  BY <1>5, <1>6

(* When Celery executes a task once, the triggers, the schedule, the stop  *)
(* requests, the queue and the workers are the service of ScanService,     *)
(* whatever fails, expires or dies: a scan is worked on once at most, and  *)
(* never after it was stopped or is over.                                  *)
THEOREM Refinement ==
  ASSUME "rerun" \notin Env
  PROVE  Spec => ImplementsScanService
<1>1. Init => RowInv
  BY DEF Init, RowInv
<1>2. RefInv /\ [Next]_vars => (OnceInv /\ RowInv)'
  BY OnceStep, RowStep DEF RefInv
<1>3. Spec => []RefInv
  BY <1>1, <1>2, OnceInit, SettledAlways, PTL DEF Spec, RefInv
<1>4. Init => Service!Init
  BY PhaseOfIdle DEF Init, Service!Init, phase, Runs
<1>5. RefInv /\ RefInv' /\ [Next]_vars => [Service!Next]_phase
  <2> SUFFICES ASSUME RefInv, RefInv', [Next]_vars
               PROVE  [Service!Next]_phase
    OBVIOUS
  <2>1. CASE Tick \/ UNCHANGED vars
    <3>1. UNCHANGED <<row, pc>>
      BY <2>1 DEF Tick, vars, runs
    <3> QED
      BY <3>1 DEF phase, Phase, Busy
  <2>2. ASSUME NEW t \in Scans,
               \/ TriggerLock(t) \/ ScheduledCreate(t) \/ Request(t) \/ StopRead(t)
               \/ Redeliver(t)
        PROVE  phase' = phase
    BY <2>2, OutsidePhases
  <2>3. ASSUME NEW t \in Scans, Stop(t)
        PROVE  Service!Next \/ phase' = phase
    BY <2>3, StopPhases
  <2>4. ASSUME NEW e \in Runs, Worker(e) \/ Crash(e)
        PROVE  Service!Next \/ phase' = phase
    BY <2>4, WorkerPhases
  <2> QED
    BY <2>1, <2>2, <2>3, <2>4 DEF Next
<1>6. Spec => Service!Init /\ [][Service!Next]_phase
  BY <1>3, <1>4, <1>5, PTL DEF Spec
<1> QED
  BY <1>6, PTL DEF ImplementsScanService, Service!Spec, phase
=============================================================================
