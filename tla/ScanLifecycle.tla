---------------------------- MODULE ScanLifecycle ----------------------------
(***************************************************************************)
(* The life of a scan, from POST /scans/trigger or the daily schedule to   *)
(* the worker's finally block, with POST /scans/{id}/stop at any moment.   *)
(*                                                                         *)
(* Three kinds of process share the scans table, the Redis lock            *)
(* scan:running and the Redis flags scan:cancel:{id}:                      *)
(*   - the request that creates a scan   routers/scans.py, internal.py     *)
(*   - the request that stops it         routers/scans.py                  *)
(*   - the worker that runs it           tasks/scanner_tasks.py            *)
(* Every database statement and every Redis command is one step, because   *)
(* each is an await at which the other processes run.                      *)
(***************************************************************************)
EXTENDS Naturals

CONSTANTS
  Scans,      (* scan ids; each is the uuid4 of one create request         *)
  MaxRuns,    (* bound: how often the task of one scan can be executed     *)
  Batches,    (* symbols in the universe of a scan                         *)
  TTL,        (* SCAN_LOCK_TTL and the window of has_running_scan, in ticks *)
  Env         (* what the environment does, a subset of EnvEvents          *)

EnvEvents == {"worker",     (* a Celery worker takes tasks from the queue   *)
              "scheduled",  (* daily scans are created next to triggers     *)
              "stop",       (* users stop scans                             *)
              "expiry",     (* 600 s can pass while something is going on   *)
              "redis",      (* a Redis command can raise                    *)
              "lookup",     (* so can the query of has_running_scan         *)
              "errors",     (* the pipeline or another statement can raise  *)
              "outage",     (* so can the UPDATE of the finally block       *)
              "crash",      (* the process of a run can be killed           *)
              "rerun"}      (* Celery retries or redelivers a task          *)

ASSUME ScanAssumption ==
  /\ MaxRuns \in Nat \ {0}
  /\ Batches \in Nat
  /\ TTL \in Nat \ {0}
  /\ Env \subseteq EnvEvents

Runs == Scans \X (1..MaxRuns)

VARIABLES
  row,        (* scans.status; "stopped" is failed / "Stopped by user"      *)
  window,     (* ticks for which triggered_at is recent                     *)
  lock,       (* ticks before scan:running expires, 0 when it is absent     *)
  flag,       (* ticks before scan:cancel:{id} expires, 0 when it is absent *)
  queue,      (* tasks waiting in the Celery queue "scans"                  *)
  unacked,    (* tasks taken from the queue and not acknowledged            *)
  announced,  (* terminal events published for a scan                       *)
  req,        (* where the request that creates the scan is                 *)
  stp,        (* where the request that stops the scan is                   *)
  pc,         (* where a run of the scan's task is                          *)
  final,      (* its local final_status                                     *)
  left,       (* symbols its pipeline has not delivered yet                 *)
  raised      (* TRUE when an exception is on its way out of the run        *)

shared == <<row, window, lock, flag>>
tasks  == <<queue, unacked>>
runs   == <<pc, final, left, raised>>
vars   == <<row, window, lock, flag, queue, unacked, announced, req, stp,
            pc, final, left, raised>>

RowStates == {"none", "pending", "done", "failed", "stopped"}
ReqSteps  == {"idle", "check", "delete", "retake", "create", "enqueue",
              "dispatch", "accepted", "rejected", "error"}
StopSteps == {"idle", "mark", "flag", "unlock", "announce"}
RunSteps  == {"idle", "start", "insert", "poll", "check", "write", "publish",
              "mark", "unlock", "unflag", "ended", "aborted", "crashed"}

TypeOK ==
  /\ row \in [Scans -> RowStates]
  /\ window \in [Scans -> 0..TTL]
  /\ lock \in 0..TTL
  /\ flag \in [Scans -> 0..TTL]
  /\ queue \subseteq Scans
  /\ unacked \subseteq Scans
  /\ announced \in [Scans -> SUBSET {"complete", "failed"}]
  /\ req \in [Scans -> ReqSteps]
  /\ stp \in [Scans -> StopSteps]
  /\ pc \in [Runs -> RunSteps]
  /\ final \in [Runs -> {"failed", "done", "cancelled"}]
  /\ left \in [Runs -> 0..Batches]
  /\ raised \in [Runs -> BOOLEAN]

Init ==
  /\ row = [s \in Scans |-> "none"]
  /\ window = [s \in Scans |-> 0]
  /\ lock = 0
  /\ flag = [s \in Scans |-> 0]
  /\ queue = {}
  /\ unacked = {}
  /\ announced = [s \in Scans |-> {}]
  /\ req = [s \in Scans |-> "idle"]
  /\ stp = [s \in Scans |-> "idle"]
  /\ pc = [e \in Runs |-> "idle"]
  /\ final = [e \in Runs |-> "failed"]
  /\ left = [e \in Runs |-> Batches]
  /\ raised = [e \in Runs |-> FALSE]

(***************************************************************************)
(* Redis keys and the scans table.                                         *)
(***************************************************************************)
RedisFails == "redis" \in Env
Fails      == "errors" \in Env

(* SET scan:running 1 NX EX ttl, when it succeeds. *)
TakeLock == lock = 0 /\ lock' = TTL

(* Mutant: the row is born with a status the table does not know. *)
CreateScan_BadStatus(s) ==
  /\ row' = [row EXCEPT ![s] = "queued"]
  /\ window' = [window EXCEPT ![s] = TTL]

(* INSERT INTO scans ... 'pending', with triggered_at = NOW(). *)
CreateScan(s) ==
  /\ row' = [row EXCEPT ![s] = "pending"]
  /\ window' = [window EXCEPT ![s] = TTL]

HasRunningScan == \E s \in Scans : row[s] = "pending" /\ window[s] > 0

(* UPDATE scans SET status = ... WHERE id = s, whatever the status is. *)
UpdateScanStatus(s, status) == row' = [row EXCEPT ![s] = status]

(* 600 s are TTL ticks for the lock, the flags and the window alike. *)
Down(n) == IF n > 0 THEN n - 1 ELSE 0

(* Mutant: the lock is set without EX. *)
Tick_NoExpiry ==
  /\ "expiry" \in Env
  /\ \E s \in Scans : window[s] > 0 \/ flag[s] > 0
  /\ window' = [s \in Scans |-> Down(window[s])]
  /\ flag' = [s \in Scans |-> Down(flag[s])]
  /\ UNCHANGED <<row, lock, tasks, announced, req, stp, runs>>

Tick ==
  /\ "expiry" \in Env
  /\ \/ lock > 0
     \/ \E s \in Scans : window[s] > 0 \/ flag[s] > 0
  /\ lock' = Down(lock)
  /\ window' = [s \in Scans |-> Down(window[s])]
  /\ flag' = [s \in Scans |-> Down(flag[s])]
  /\ UNCHANGED <<row, tasks, announced, req, stp, runs>>

(***************************************************************************)
(* trigger_scan.  Any exception of the lock block, the one of              *)
(* has_running_scan included, is taken for "Redis unavailable": the        *)
(* request goes on without the lock.                                       *)
(***************************************************************************)
ReqStep(s, from, to) == req[s] = from /\ req' = [req EXCEPT ![s] = to]

TriggerLock(s) ==
  /\ \/ TakeLock /\ ReqStep(s, "idle", "create")
     \/ lock > 0 /\ ReqStep(s, "idle", "check") /\ UNCHANGED lock
     \/ RedisFails /\ ReqStep(s, "idle", "create") /\ UNCHANGED lock
  /\ UNCHANGED <<row, window, flag, tasks, announced, stp, runs>>

(* Mutant: has_running_scan is asked, and its answer ignored. *)
TriggerCheck_Ignored(s) ==
  /\ ReqStep(s, "check", "create")
  /\ UNCHANGED <<shared, tasks, announced, stp, runs>>

TriggerCheck(s) ==
  /\ \/ HasRunningScan /\ ReqStep(s, "check", "rejected")
     \/ ~HasRunningScan /\ ReqStep(s, "check", "delete")
     \/ "lookup" \in Env /\ ReqStep(s, "check", "create")
  /\ UNCHANGED <<shared, tasks, announced, stp, runs>>

TriggerDelete(s) ==
  /\ \/ lock' = 0 /\ ReqStep(s, "delete", "retake")
     \/ RedisFails /\ ReqStep(s, "delete", "create") /\ UNCHANGED lock
  /\ UNCHANGED <<row, window, flag, tasks, announced, stp, runs>>

TriggerRetake(s) ==
  /\ \/ TakeLock /\ ReqStep(s, "retake", "create")
     \/ lock > 0 /\ ReqStep(s, "retake", "rejected") /\ UNCHANGED lock
     \/ RedisFails /\ ReqStep(s, "retake", "create") /\ UNCHANGED lock
  /\ UNCHANGED <<row, window, flag, tasks, announced, stp, runs>>

TriggerCreate(s) ==
  /\ \/ CreateScan(s) /\ ReqStep(s, "create", "enqueue")
     \/ Fails /\ ReqStep(s, "create", "error") /\ UNCHANGED <<row, window>>
  /\ UNCHANGED <<lock, flag, tasks, announced, stp, runs>>

(* The task goes to the Celery queue, or runs inside this process. *)
Enqueue(s) == queue' = queue \cup {s} /\ UNCHANGED pc
RunHere(s) == pc' = [pc EXCEPT ![<<s, 1>>] = "start"] /\ UNCHANGED queue

TriggerEnqueue(s) ==
  /\ ReqStep(s, "enqueue", "accepted")
  /\ Enqueue(s) \/ (RedisFails /\ RunHere(s))
  /\ UNCHANGED <<shared, unacked, announced, stp, final, left, raised>>

(***************************************************************************)
(* run_scheduled_scan (Celery beat) and _run_daily_scan_direct (cron       *)
(* calling /internal/tasks/daily-scan): neither looks at the lock.         *)
(***************************************************************************)
ScheduledCreate(s) ==
  /\ "scheduled" \in Env
  /\ ReqStep(s, "idle", "dispatch")
  /\ CreateScan(s)
  /\ UNCHANGED <<lock, flag, tasks, announced, stp, runs>>

ScheduledDispatch(s) ==
  /\ \/ Enqueue(s) /\ ReqStep(s, "dispatch", "accepted")
     \/ RunHere(s) /\ ReqStep(s, "dispatch", "accepted")
     \/ RedisFails /\ ReqStep(s, "dispatch", "error") /\ UNCHANGED <<queue, pc>>
  /\ UNCHANGED <<shared, unacked, announced, stp, final, left, raised>>

(***************************************************************************)
(* stop_scan.  A 404 or a 409 leaves everything as it is and is not a      *)
(* step.  The Redis commands have a try block each.                        *)
(***************************************************************************)
StopStep(s, from, to) == stp[s] = from /\ stp' = [stp EXCEPT ![s] = to]

StopRead(s) ==
  /\ "stop" \in Env
  /\ row[s] = "pending"
  /\ StopStep(s, "idle", "mark")
  /\ UNCHANGED <<shared, tasks, announced, req, runs>>

StopMark(s) ==
  /\ \/ UpdateScanStatus(s, "stopped") /\ StopStep(s, "mark", "flag")
     \/ Fails /\ StopStep(s, "mark", "idle") /\ UNCHANGED row
  /\ UNCHANGED <<window, lock, flag, tasks, announced, req, runs>>

StopFlag(s) ==
  /\ StopStep(s, "flag", "unlock")
  /\ flag' = [flag EXCEPT ![s] = TTL] \/ (RedisFails /\ UNCHANGED flag)
  /\ UNCHANGED <<row, window, lock, tasks, announced, req, runs>>

(* Mutant: the stop request does not publish scan.failed. *)
StopUnlock_Silent(s) ==
  /\ StopStep(s, "unlock", "idle")
  /\ lock' = 0 \/ (RedisFails /\ UNCHANGED lock)
  /\ UNCHANGED <<row, window, flag, tasks, announced, req, runs>>

StopUnlock(s) ==
  /\ StopStep(s, "unlock", "announce")
  /\ lock' = 0 \/ (RedisFails /\ UNCHANGED lock)
  /\ UNCHANGED <<row, window, flag, tasks, announced, req, runs>>

(* PUBLISH on scan:progress or scan:complete. *)
Publish(s, event) ==
  \/ announced' = [announced EXCEPT ![s] = @ \cup {event}]
  \/ RedisFails /\ UNCHANGED announced

StopAnnounce(s) ==
  /\ StopStep(s, "announce", "idle")
  /\ Publish(s, "failed")
  /\ UNCHANGED <<shared, tasks, req, runs>>

(***************************************************************************)
(* run_scan_task and _run_scan_async, as run k of scan s: e = <<s, k>>.    *)
(***************************************************************************)
RunStep(e, from, to) == pc[e] = from /\ pc' = [pc EXCEPT ![e] = to]

Spare(s) == \E k \in 1..MaxRuns : pc[<<s, k>>] = "idle"

(* The end of a task: acknowledged, whether it failed or not.  One that    *)
(* failed with a connection or timeout error is published once more.       *)
Acknowledge(s, failed) ==
  /\ unacked' = unacked \ {s}
  /\ \/ UNCHANGED queue
     \/ /\ failed /\ "rerun" \in Env
        /\ s \in unacked /\ Spare(s)
        /\ queue' = queue \cup {s}

(* docker-compose starts a worker; the production image has none, and what *)
(* is sent to the queue there stays in it.                                 *)
WorkerPick(e) ==
  /\ "worker" \in Env
  /\ e[1] \in queue
  /\ \A k \in 1..(e[2] - 1) : pc[<<e[1], k>>] # "idle"
  /\ RunStep(e, "idle", "start")
  /\ queue' = queue \ {e[1]}
  /\ unacked' = unacked \cup {e[1]}
  /\ UNCHANGED <<shared, announced, req, stp, final, left, raised>>

(* Mutant: ON CONFLICT DO UPDATE SET status = 'pending'. *)
WorkerStart_Upsert(e) ==
  /\ RunStep(e, "start", "insert")
  /\ CreateScan(e[1])
  /\ UNCHANGED <<lock, flag, tasks, announced, req, stp, final, left, raised>>

(* Pools, then INSERT ... ON CONFLICT DO NOTHING, all before the try block. *)
WorkerStart(e) ==
  /\ \/ /\ RunStep(e, "start", "insert")
        /\ IF row[e[1]] = "none" THEN CreateScan(e[1])
                                 ELSE UNCHANGED <<row, window>>
        /\ UNCHANGED tasks
     \/ /\ Fails
        /\ RunStep(e, "start", "aborted")
        /\ Acknowledge(e[1], TRUE)
        /\ UNCHANGED <<row, window>>
  /\ UNCHANGED <<lock, flag, announced, req, stp, final, left, raised>>

(* The pipeline delivers a symbol, has none left, or raises. *)
WorkerInsert(e) ==
  \/ /\ left[e] > 0
     /\ RunStep(e, "insert", "poll")
     /\ left' = [left EXCEPT ![e] = @ - 1]
     /\ UNCHANGED <<shared, tasks, announced, req, stp, final, raised>>
  \/ /\ left[e] = 0
     /\ RunStep(e, "insert", "check")
     /\ UNCHANGED <<shared, tasks, announced, req, stp, final, left, raised>>
  \/ /\ Fails
     /\ RunStep(e, "insert", "mark")
     /\ raised' = [raised EXCEPT ![e] = TRUE]
     /\ Publish(e[1], "failed")
     /\ UNCHANGED <<shared, tasks, req, stp, final, left>>

(* The cancellation poll at the end of on_batch. *)
WorkerPoll(e) ==
  /\ \/ flag[e[1]] > 0 /\ RunStep(e, "poll", "check")
     \/ (flag[e[1]] = 0 \/ RedisFails) /\ RunStep(e, "poll", "insert")
  /\ UNCHANGED <<shared, tasks, announced, req, stp, final, left, raised>>

(* Mutants: scan.complete is published before the row is written; a        *)
(* cancelled run goes through the UPDATE of the finally block; the UPDATE  *)
(* to 'done' is left to the finally block.                                 *)
WorkerCheck_AnnounceFirst(e) ==
  /\ RunStep(e, "check", "write")
  /\ final' = [final EXCEPT ![e] = "done"]
  /\ Publish(e[1], "complete")
  /\ UNCHANGED <<shared, tasks, req, stp, left, raised>>

WorkerCheck_MarksCancelled(e) ==
  /\ \/ /\ flag[e[1]] > 0
        /\ RunStep(e, "check", "mark")
        /\ final' = [final EXCEPT ![e] = "cancelled"]
     \/ /\ flag[e[1]] = 0
        /\ RunStep(e, "check", "write")
        /\ final' = [final EXCEPT ![e] = "done"]
  /\ UNCHANGED <<shared, tasks, announced, req, stp, left, raised>>

WorkerCheck_NoWrite(e) ==
  /\ RunStep(e, "check", "publish")
  /\ final' = [final EXCEPT ![e] = "done"]
  /\ UNCHANGED <<shared, tasks, announced, req, stp, left, raised>>

(* The cancellation check after the pipeline. *)
WorkerCheck(e) ==
  /\ \/ /\ flag[e[1]] > 0
        /\ RunStep(e, "check", "unlock")
        /\ final' = [final EXCEPT ![e] = "cancelled"]
     \/ /\ flag[e[1]] = 0 \/ RedisFails
        /\ RunStep(e, "check", "write")
        /\ final' = [final EXCEPT ![e] = "done"]
  /\ UNCHANGED <<shared, tasks, announced, req, stp, left, raised>>

(* final_status is "done" by now: the finally block writes nothing more. *)
WorkerWrite(e) ==
  /\ \/ /\ RunStep(e, "write", "publish")
        /\ UpdateScanStatus(e[1], "done")
        /\ UNCHANGED <<announced, raised>>
     \/ /\ Fails
        /\ RunStep(e, "write", "unlock")
        /\ raised' = [raised EXCEPT ![e] = TRUE]
        /\ Publish(e[1], "failed")
        /\ UNCHANGED row
  /\ UNCHANGED <<window, lock, flag, tasks, req, stp, final, left>>

WorkerPublish(e) ==
  /\ RunStep(e, "publish", "unlock")
  /\ Publish(e[1], "complete")
  /\ UNCHANGED <<shared, tasks, req, stp, final, left, raised>>

(* The finally block, for a final_status other than done and cancelled. *)
WorkerMark(e) ==
  /\ RunStep(e, "mark", "unlock")
  /\ \/ UpdateScanStatus(e[1], "failed")
     \/ "outage" \in Env /\ UNCHANGED row
  /\ UNCHANGED <<window, lock, flag, tasks, announced, req, stp,
                 final, left, raised>>

WorkerUnlock(e) ==
  /\ \/ /\ RunStep(e, "unlock", "unflag")
        /\ lock' = 0
        /\ UNCHANGED tasks
     \/ /\ RedisFails
        /\ RunStep(e, "unlock", "ended")
        /\ Acknowledge(e[1], raised[e])
        /\ UNCHANGED lock
  /\ UNCHANGED <<row, window, flag, announced, req, stp, final, left, raised>>

WorkerUnflag(e) ==
  /\ RunStep(e, "unflag", "ended")
  /\ flag' = [flag EXCEPT ![e[1]] = 0] \/ (RedisFails /\ UNCHANGED flag)
  /\ Acknowledge(e[1], raised[e])
  /\ UNCHANGED <<row, window, lock, announced, req, stp, final, left, raised>>

InTry == {"insert", "poll", "check", "write", "publish", "mark", "unlock",
          "unflag"}
Active(e) == pc[e] \in {"start"} \cup InTry

Crash(e) ==
  /\ "crash" \in Env
  /\ Active(e)
  /\ pc' = [pc EXCEPT ![e] = "crashed"]
  /\ UNCHANGED <<shared, tasks, announced, req, stp, final, left, raised>>

(* task_acks_late and the visibility timeout of the broker. *)
Redeliver(s) ==
  /\ "rerun" \in Env
  /\ s \in unacked /\ Spare(s)
  /\ queue' = queue \cup {s}
  /\ unacked' = unacked \ {s}
  /\ UNCHANGED <<shared, announced, req, stp, runs>>

(***************************************************************************)
(* The specification.                                                      *)
(***************************************************************************)
Request(s) ==
  \/ TriggerCheck(s) \/ TriggerDelete(s) \/ TriggerRetake(s)
  \/ TriggerCreate(s) \/ TriggerEnqueue(s) \/ ScheduledDispatch(s)

Stop(s) == StopMark(s) \/ StopFlag(s) \/ StopUnlock(s) \/ StopAnnounce(s)

Worker(e) ==
  \/ WorkerPick(e) \/ WorkerStart(e) \/ WorkerInsert(e) \/ WorkerPoll(e)
  \/ WorkerCheck(e) \/ WorkerWrite(e) \/ WorkerPublish(e) \/ WorkerMark(e)
  \/ WorkerUnlock(e) \/ WorkerUnflag(e)

Next ==
  \/ Tick
  \/ \E s \in Scans : \/ TriggerLock(s) \/ ScheduledCreate(s) \/ StopRead(s)
                      \/ Request(s) \/ Stop(s) \/ Redeliver(s)
  \/ \E e \in Runs : Worker(e) \/ Crash(e)

Spec == Init /\ [][Next]_vars

(* Handlers and runs that began go on, and time passes; nobody has to      *)
(* trigger or stop a scan, and no failure has to happen.                   *)
Fairness ==
  /\ WF_vars(Tick)
  /\ \A s \in Scans : WF_vars(Request(s)) /\ WF_vars(Stop(s))
  /\ \A e \in Runs : WF_vars(Worker(e))

FairSpec == Spec /\ Fairness
-----------------------------------------------------------------------------
(***************************************************************************)
(* Properties.                                                             *)
(***************************************************************************)

(* scan.complete is only ever published for a scan whose row has left      *)
(* 'pending': clients that refetch on the event find the scan finished     *)
(* (scanner_tasks.py, the order of update_scan_status and _publish).       *)
CompleteIsFinal ==
  \A s \in Scans : "complete" \in announced[s] => row[s] \notin {"none", "pending"}

(* No retried, redelivered or late run takes a finished scan back to       *)
(* 'pending' (the INSERT of _run_scan_async is ON CONFLICT DO NOTHING).    *)
NeverBackToPending ==
  [][\A s \in Scans : row[s] \notin {"none", "pending"}
                         => row'[s] \notin {"none", "pending"}]_vars

(* A cancel flag stands only for a scan that has left 'pending': a worker  *)
(* that obeys it may leave the row alone (stop_scan marks, then flags).    *)
FlaggedIsMarked ==
  \A s \in Scans : flag[s] > 0 => row[s] \notin {"none", "pending"}

(* A run that ended as cancelled leaves "Stopped by user" behind, as the   *)
(* comment in the finally block promises; it needs the task to run once.   *)
CancelledIsStopped ==
  \A e \in Runs : final[e] = "cancelled" => row[e[1]] = "stopped"

(* A scan whose bare 'failed' was written by the finally block was not     *)
(* announced as complete, while the task runs once.                        *)
NoBareFailureAfterComplete ==
  \A s \in Scans : row[s] = "failed" => "complete" \notin announced[s]

(* A run that reached its end was announced to the clients, by itself or   *)
(* by the stop request that cancelled it and is still about to publish.    *)
NoSilentEnd ==
  \A e \in Runs : pc[e] = "ended" =>
    announced[e[1]] # {} \/ stp[e[1]] \in {"unlock", "announce"}

(* Once its run is over a scan has a final status, when the UPDATE to      *)
(* 'done' did not raise: the finally block writes what the try block left  *)
(* open, and leaves alone what is settled.                                 *)
EndedIsFinal ==
  \A e \in Runs : pc[e] = "ended" /\ (final[e] = "done" => ~raised[e])
                     => row[e[1]] \notin {"none", "pending"}

(* A scan that has not been stopped and whose pipeline is at work. *)
Busy(s) ==
  /\ row[s] = "pending"
  /\ \E k \in 1..MaxRuns : pc[<<s, k>>] \in {"insert", "poll"}

(* The lock of trigger_scan is there to "prevent concurrent scans". *)
OneScanAtATime == \A s, t \in Scans : Busy(s) /\ Busy(t) => s = t

(***************************************************************************)
(* When it does.  The key has no owner: a trigger that finds it without a  *)
(* pending scan deletes it, and so does whoever stops or ends a scan.      *)
(***************************************************************************)
InLockBlock(s) == req[s] \in {"check", "delete", "retake"}

(* A scan from the SET of its lock until its pipeline is left. *)
InHand(s) ==
  \/ req[s] = "create"
  \/ /\ row[s] = "pending"
     /\ \/ req[s] = "enqueue" \/ s \in queue
        \/ \E k \in 1..MaxRuns : pc[<<s, k>>] \in {"start", "insert", "poll"}

(* A run or a stop request of the scan has its DEL of the lock ahead. *)
WillUnlock(s) ==
  \/ stp[s] \in {"mark", "flag", "unlock"} \/ s \in queue
  \/ \E k \in 1..MaxRuns : pc[<<s, k>>] \in {"start"} \cup (InTry \ {"unflag"})

(* A trigger looks at the lock while another one is between its SET of the *)
(* lock and its INSERT.                                                    *)
Raced == \E s, t \in Scans : InLockBlock(s) /\ req[t] = "create"

(* A scan that is stopped or out of its pipeline has yet to delete the     *)
(* lock while another one is triggered or in hand.                         *)
Outlived ==
  \E s, t \in Scans :
    s # t /\ (InLockBlock(s) \/ InHand(s)) /\ WillUnlock(t) /\ ~InHand(t)

(* The INSERT comes a tick after the SET, or a scan takes TTL ticks.       *)
Overdue ==
  \E s \in Scans :
    IF req[s] = "create" THEN lock \in 1..(TTL - 1) ELSE InHand(s) /\ window[s] = 0

(* A scan is created by those who do not look at the lock. *)
Unlocked == \E s \in Scans : req[s] = "dispatch"

Undisturbed == ~Raced /\ ~Outlived /\ ~Overdue /\ ~Unlocked

(* The lock keeps scans apart until one of these four things happens, with *)
(* stops, crashes and failing statements, and with every trigger that      *)
(* meets a left-over lock, deletes it and sets its own.                    *)
SerialWhileUndisturbed == []Undisturbed => []OneScanAtATime

(* The scan service of ScanService, as this system provides it. *)
Phase(s) ==
  IF Busy(s) THEN "working"
  ELSE IF \/ row[s] \notin {"none", "pending"}
          \/ \E k \in 1..MaxRuns :
               pc[<<s, k>>] \notin {"idle", "start", "insert", "poll"} THEN "over"
  ELSE "waiting"

Service == INSTANCE ScanService WITH phase <- [s \in Scans |-> Phase(s)]

(* A scan is worked on once at most and never after it was stopped or is   *)
(* over, whatever expires, fails or dies, as long as its task is sent once *)
(* (the row is not reset by the INSERT of the run that comes late).        *)
ImplementsScanService == Service!Spec

(* A scan stopped by the user does not become 'done' (the comment at the   *)
(* cancellation check of _run_scan_async).                                 *)
StopBeatsDone ==
  [][\A s \in Scans : row[s] = "stopped" => row'[s] # "done"]_vars

(* What leaves a scan pending for good: its task could not be sent, or is  *)
(* in a queue that no worker reads, as under supervisord.conf; its run was *)
(* killed, raised before the try block, or lost the UPDATE to 'done' or    *)
(* the one of the finally block.                                           *)
LeftPending(s) ==
  \/ req[s] = "error"
  \/ s \in queue /\ "worker" \notin Env
  \/ \E k \in 1..MaxRuns :
       \/ pc[<<s, k>>] \in {"crashed", "aborted"}
       \/ /\ pc[<<s, k>>] = "ended" /\ raised[<<s, k>>]
          /\ final[<<s, k>>] = "done" \/ "outage" \in Env

(* Every scan that was created gets a final status but for these: also one *)
(* that is stopped in the queue, mid-flight or at its very end.            *)
EveryScanFinishes ==
  \A s \in Scans : row[s] = "pending" ~> row[s] # "pending" \/ LeftPending(s)

(* Whatever dies while it holds the lock, the lock is free again later. *)
LockIsFreed == lock > 0 ~> lock = 0
=============================================================================
