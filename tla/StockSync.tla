------------------------------ MODULE StockSync ------------------------------
(***************************************************************************)
(* The synchronisation of the table stock_master with the exchanges and    *)
(* with screener.in, and the status that POST /stocks/sync/trigger and     *)
(* GET /stocks/sync/status keep in Redis.                                  *)
(*                                                                         *)
(* A job runs a subset of the four phases                                  *)
(*   equity, bse_equity, index_flags, fundamentals                         *)
(* on behalf of a user, of the weekly schedule, of an internal route or of *)
(* the batch that Celery Beat sends every 15 minutes; the weekly sync with *)
(* screener.in is a job with a phase of its own. Every statement and every *)
(* download is a step of its own: the jobs interleave at each of them.     *)
(* The counters of stock_sync:progress are left out, they only feed  *)
(* a label; Redis is taken to be up once a job is running.                 *)
(***************************************************************************)
EXTENDS Naturals, Sequences, FiniteSets

CONSTANTS
  Nse, Bse,   (* listings: a symbol on one exchange                        *)
  Isin,       (* the company behind a listing, as the exchanges publish it *)
  Lists,      (* the lists of EQ stocks that NSE may publish               *)
  Members,    (* index -> its constituents; "fno" is the static list       *)
  Syncs,      (* jobs that are requested at most once                      *)
  Beat,       (* the job that is sent every 15 minutes                     *)
  UserPhases, (* the sets of phases a user asks for                        *)
  BatchSize,  (* rows that one pass of the fundamentals phase takes        *)
  Workers,    (* concurrency of the Celery worker of the queue "admin"     *)
  MaxFaults,  (* bound: exceptions and crashes in a behaviour              *)
  MaxAges     (* bound: how often six hours pass                           *)

Listings == Nse \cup Bse
Jobs     == Syncs \cup {Beat}
Indexes  == DOMAIN Members
CsvFiles == Indexes \ {"fno"}
Phases   == {"equity", "bse_equity", "index_flags", "fundamentals", "screener"}

ASSUME SyncAssumption ==
  /\ Nse \cap Bse = {}
  /\ Lists \subseteq SUBSET Nse
  /\ "fno" \in Indexes
  /\ \A x \in Indexes : Members[x] \subseteq Nse
  /\ UserPhases \subseteq SUBSET Phases
  /\ Beat \notin Syncs
  /\ BatchSize \in Nat \ {0}
  /\ Workers \in Nat \ {0}
  /\ MaxFaults \in Nat
  /\ MaxAges \in Nat

VARIABLES
  status,  (* stock_master.sync_status, "absent" when there is no row      *)
  synced,  (* last_synced_at: never, within six hours or longer ago        *)
  flags,   (* index -> the NSE rows whose membership column is TRUE        *)
  queue,   (* the Celery queue "admin"                                     *)
  pc,      (* where a job is                                               *)
  by,      (* who runs it: "celery", "screener" (a Celery task that leaves *)
           (* Redis alone), "process" (_sync_async in the API process) or  *)
           (* "direct" (_run_sync_direct, without Redis)                   *)
  asked,   (* the phases it was asked for                                  *)
  todo,    (* those it has not begun                                       *)
  rows,    (* its downloaded rows, or the rest of its batch                *)
  cols,    (* the indexes it has fetched and not yet written               *)
  track,   (* where the request that dispatched it is                      *)
  phase,   (* stock_sync:phase                                             *)
  current, (* stock_sync:current                                           *)
  faults,  (* exceptions and crashes so far                                *)
  ages,    (* how often six hours have passed                              *)
  lapsed   (* history: jobs that left rows without is_fno, or may have,    *)
           (* since the column was last written (see Finish)               *)

table == <<status, synced, flags>>
local == <<by, asked, todo, rows, cols>>
redis == <<phase, current>>
env   == <<faults, ages, lapsed>>
vars  == <<status, synced, flags, queue, pc, by, asked, todo, rows, cols,
           track, phase, current, faults, ages, lapsed>>

Statuses == {"pending", "enriched", "failed"}
Steps    == {"idle", "queued", "next", "equity", "bse_equity", "dedup",
             "upsert", "rejected", "index_flags", "reset", "flag",
             "fundamentals", "screener", "apply", "ended"}
NoJob    == "none"

TypeOK ==
  /\ status \in [Listings -> Statuses \cup {"absent"}]
  /\ synced \in [Listings -> {"never", "recent", "old"}]
  /\ flags \in [Indexes -> SUBSET Nse]
  /\ queue \in Seq(Jobs)
  /\ pc \in [Jobs -> Steps]
  /\ by \in [Jobs -> {"celery", "screener", "process", "direct"}]
  /\ asked \in [Jobs -> SUBSET Phases]
  /\ todo \in [Jobs -> SUBSET Phases]
  /\ rows \in [Jobs -> SUBSET Listings]
  /\ cols \in [Jobs -> SUBSET Indexes]
  /\ track \in [Jobs -> {"idle", "current", "phase"}]
  /\ phase \in Phases \cup {"none", "complete", "failed"}
  /\ current \in Jobs \cup {NoJob}
  /\ faults \in 0..MaxFaults
  /\ ages \in 0..MaxAges
  /\ lapsed \subseteq Jobs

Init ==
  /\ status = [l \in Listings |-> "absent"]
  /\ synced = [l \in Listings |-> "never"]
  /\ flags = [x \in Indexes |-> {}]
  /\ queue = <<>>
  /\ pc = [j \in Jobs |-> "idle"]
  /\ by = [j \in Jobs |-> "celery"]
  /\ asked = [j \in Jobs |-> {}]
  /\ todo = [j \in Jobs |-> {}]
  /\ rows = [j \in Jobs |-> {}]
  /\ cols = [j \in Jobs |-> {}]
  /\ track = [j \in Jobs |-> "idle"]
  /\ phase = "none"
  /\ current = NoJob
  /\ faults = 0
  /\ ages = 0
  /\ lapsed = {}

Present == {l \in Listings : status[l] # "absent"}
Go(j, step) == pc' = [pc EXCEPT ![j] = step]
Dispatch(j, who, phases) ==
  /\ by' = [by EXCEPT ![j] = who]
  /\ asked' = [asked EXCEPT ![j] = phases]
  /\ todo' = [todo EXCEPT ![j] = phases]
  /\ UNCHANGED <<rows, cols>>

(***************************************************************************)
(* Who asks for a synchronisation.                                         *)
(***************************************************************************)
(* sync_stock_master.delay, or the fallback when Celery is unavailable.    *)
Trigger(j) ==
  /\ pc[j] = "idle"
  /\ \E phases \in UserPhases :
       \/ /\ Dispatch(j, "celery", phases)
          /\ Go(j, "queued")
          /\ queue' = Append(queue, j)
          /\ track' = [track EXCEPT ![j] = "current"]
       \/ /\ Dispatch(j, "direct", phases)
          /\ Go(j, "next")
          /\ UNCHANGED <<queue, track>>
  /\ UNCHANGED <<table, redis, env>>

(* SET stock_sync:current, after the task has been sent. *)
TrackCurrent(j) ==
  /\ track[j] = "current"
  /\ track' = [track EXCEPT ![j] = "phase"]
  /\ current' = j
  /\ UNCHANGED <<table, queue, pc, local, phase, env>>

(* DELETE stock_sync:phase, which forgets the phase of the last sync. *)
TrackPhase(j) ==
  /\ track[j] = "phase"
  /\ track' = [track EXCEPT ![j] = "idle"]
  /\ phase' = "none"
  /\ UNCHANGED <<table, queue, pc, local, current, env>>

(* The weekly entry of the beat schedule. *)
Weekly(j) ==
  /\ pc[j] = "idle"
  /\ Dispatch(j, "celery", {"equity", "bse_equity", "index_flags"})
  /\ Go(j, "queued")
  /\ queue' = Append(queue, j)
  /\ UNCHANGED <<table, track, redis, env>>

(* sync_screener_fundamentals, every week. *)
WeeklyScreener(j) ==
  /\ pc[j] = "idle"
  /\ Dispatch(j, "screener", {"screener"})
  /\ Go(j, "queued")
  /\ queue' = Append(queue, j)
  /\ UNCHANGED <<table, track, redis, env>>

(* POST /internal/tasks/stock-sync and /internal/tasks/fundamentals. *)
Internal(j) ==
  /\ pc[j] = "idle"
  /\ \E phases \in {{"equity", "index_flags"}, {"fundamentals"}} :
       Dispatch(j, "process", phases)
  /\ Go(j, "next")
  /\ UNCHANGED <<table, queue, track, redis, env>>

(* enrich_fundamentals_batch, every 15 minutes; a batch that is still      *)
(* waiting or running is not sent twice.                                   *)
BeatFires ==
  /\ pc[Beat] = "idle"
  /\ Dispatch(Beat, "celery", {"fundamentals"})
  /\ Go(Beat, "queued")
  /\ queue' = Append(queue, Beat)
  /\ UNCHANGED <<table, track, redis, env>>

(***************************************************************************)
(* The job: _sync_async, and _run_sync_direct which does not touch Redis.  *)
(***************************************************************************)
(* What decides whether rows have their membership columns. *)
Membership == {"equity", "bse_equity", "index_flags"}

(* A job ends; it has lapsed if it may have added rows or reset columns    *)
(* and does not get to the UPDATE of is_fno, by an early end or because    *)
(* nobody asked for it.                                                    *)
Finish(j, early) ==
  /\ Go(j, IF j = Beat THEN "idle" ELSE "ended")
  /\ lapsed' = IF /\ asked[j] \cap Membership # {}
                  /\ early \/ "index_flags" \notin asked[j]
               THEN lapsed \cup {j} ELSE lapsed

SetPhase(j, p) == phase' = IF by[j] \in {"direct", "screener"} THEN phase ELSE p
InWorker(j) == by[j] \in {"celery", "screener"}
Running == {j \in Jobs : InWorker(j) /\ pc[j] \notin {"idle", "queued", "ended"}}

(* Mutant: a task that is delivered again goes on where it was. *)
Take_GoesOn ==
  /\ queue # <<>>
  /\ Cardinality(Running) < Workers
  /\ Go(Head(queue), "next")
  /\ queue' = Tail(queue)
  /\ UNCHANGED <<table, local, track, redis, env>>

Take ==
  /\ queue # <<>>
  /\ Cardinality(Running) < Workers
  /\ Go(Head(queue), "next")
  /\ queue' = Tail(queue)
  /\ todo' = [todo EXCEPT ![Head(queue)] = asked[Head(queue)]]
  /\ UNCHANGED <<table, by, asked, rows, cols, track, redis, env>>

Order == <<"equity", "bse_equity", "index_flags", "fundamentals", "screener">>

First(phases) ==
  Order[CHOOSE i \in 1..5 : /\ Order[i] \in phases
                            /\ \A k \in 1..(i - 1) : Order[k] \notin phases]

(* Mutant: the task ends without saying so. *)
Complete_Silent(j) == UNCHANGED phase

Complete(j) == SetPhase(j, "complete")

(* The next phase, or the end: stock_sync:phase says which. *)
NextPhase(j) ==
  /\ pc[j] = "next"
  /\ IF todo[j] = {}
     THEN /\ Complete(j)
          /\ Finish(j, FALSE)
          /\ UNCHANGED todo
     ELSE /\ SetPhase(j, First(todo[j]))
          /\ Go(j, First(todo[j]))
          /\ todo' = [todo EXCEPT ![j] = @ \ {First(@)}]
          /\ UNCHANGED lapsed
  /\ UNCHANGED <<table, queue, by, asked, rows, cols, track, current, faults, ages>>

(* phase1_fetch_nse_equity: a list, or an exception (see Fault). *)
FetchNse(j) ==
  /\ pc[j] = "equity"
  /\ \E list \in Lists : rows' = [rows EXCEPT ![j] = list]
  /\ Go(j, "upsert")
  /\ UNCHANGED <<table, queue, by, asked, todo, cols, track, redis, env>>

(* phase_bse_fetch_equity: a group that fails is left out, fewer than 50   *)
(* rows count as none.                                                     *)
FetchBse(j) ==
  /\ pc[j] = "bse_equity"
  /\ \E list \in SUBSET Bse :
       /\ rows' = [rows EXCEPT ![j] = list]
       /\ Go(j, IF list = {} THEN "next" ELSE "dedup")
  /\ UNCHANGED <<table, queue, by, asked, todo, cols, track, redis, env>>

(* get_existing_isins("NSE"), and the filter on it. *)
Dedup(j) ==
  /\ pc[j] = "dedup"
  /\ rows' = [rows EXCEPT ![j] =
                 {r \in @ : \A n \in Present \cap Nse : Isin[n] # Isin[r]}]
  /\ Go(j, "upsert")
  /\ UNCHANGED <<table, queue, by, asked, todo, cols, track, redis, env>>

(* INSERT ... ON CONFLICT (symbol, exchange) DO UPDATE. The unique index   *)
(* idx_sm_isin is another constraint: a new row with the ISIN of an old    *)
(* one makes the statement fail as a whole.                                *)
Clashes(new) == \E r \in new, l \in Present \cup new : r # l /\ Isin[r] = Isin[l]

Upsert(j) ==
  /\ pc[j] = "upsert"
  /\ IF Clashes(rows[j])
     THEN Go(j, "rejected") /\ UNCHANGED status
     ELSE /\ Go(j, "next")
          /\ status' = [l \in Listings |->
                         IF l \in rows[j] THEN "pending" ELSE status[l]]
  /\ rows' = [rows EXCEPT ![j] = {}]
  /\ UNCHANGED <<synced, flags, queue, by, asked, todo, cols, track, redis, env>>

(* phase2_fetch_index_memberships: any of the CSV files may be missing. *)
FetchIndexes(j) ==
  /\ pc[j] = "index_flags"
  /\ \E files \in SUBSET CsvFiles :
       cols' = [cols EXCEPT ![j] = files \cup {"fno"}]
  /\ Go(j, "reset")
  /\ UNCHANGED <<table, queue, by, asked, todo, rows, track, redis, env>>

(* reset_index_flags *)
ResetFlags(j) ==
  /\ pc[j] = "reset"
  /\ flags' = [x \in Indexes |-> {}]
  /\ Go(j, "flag")
  /\ UNCHANGED <<status, synced, queue, local, track, redis, env>>

Matching(x) == Members[x] \cap Present

(* set_index_flag, one UPDATE for each index; is_fno is the last one. *)
SetFlag(j) ==
  /\ pc[j] = "flag"
  /\ \E x \in cols[j] :
       /\ x = "fno" => cols[j] = {"fno"}
       /\ flags' = [flags EXCEPT ![x] = @ \cup Matching(x)]
       /\ cols' = [cols EXCEPT ![j] = @ \ {x}]
       /\ IF x = "fno" THEN Go(j, "next") /\ lapsed' = {} ELSE UNCHANGED <<pc, lapsed>>
  /\ UNCHANGED <<status, synced, queue, by, asked, todo, rows, track, redis, faults, ages>>

(* Mutant: a failed row is due at once. *)
InQueue_NoDelay(l) == status[l] \in {"pending", "failed"}

(* get_sync_queue: pending rows before failed ones, the oldest first. *)
InQueue(l) == \/ status[l] = "pending"
              \/ status[l] = "failed" /\ synced[l] \in {"never", "old"}
Age(l) == CASE synced[l] = "never" -> 0
            [] synced[l] = "old" -> 1
            [] synced[l] = "recent" -> 2
Precedes(l, m) == \/ status[l] = "pending" /\ status[m] = "failed"
                  \/ status[l] = status[m] /\ Age(l) < Age(m)

SyncQueue ==
  LET due == {l \in Listings : InQueue(l)}
  IN {b \in SUBSET due :
        /\ Cardinality(b) <= BatchSize
        /\ b # due => Cardinality(b) = BatchSize
        /\ \A l \in b, m \in due \ b : ~Precedes(m, l)}

(* One pass of the loop; an empty batch ends it. *)
FetchQueue(j) ==
  /\ pc[j] = "fundamentals"
  /\ \E batch \in SyncQueue :
       /\ rows' = [rows EXCEPT ![j] = batch]
       /\ Go(j, IF batch = {} THEN "next" ELSE "apply")
  /\ UNCHANGED <<table, queue, by, asked, todo, cols, track, redis, env>>

(* _sync_screener_async: every NSE row, whatever its status. *)
FetchSymbols(j) ==
  /\ pc[j] = "screener"
  /\ rows' = [rows EXCEPT ![j] = Present \cap Nse]
  /\ Go(j, IF Present \cap Nse = {} THEN "next" ELSE "apply")
  /\ UNCHANGED <<table, queue, by, asked, todo, cols, track, redis, env>>

Outcomes == {"enriched", "failed"}

(* update_fundamentals, update_screener_data or mark_sync_failed for one   *)
(* row of the batch.                                                       *)
Apply(j) ==
  /\ pc[j] = "apply"
  /\ \E l \in rows[j] :
       /\ \E s \in Outcomes : status' = [status EXCEPT ![l] = s]
       /\ synced' = [synced EXCEPT ![l] = "recent"]
       /\ rows' = [rows EXCEPT ![j] = @ \ {l}]
       /\ Go(j, IF rows[j] # {l} THEN "apply"
                ELSE IF by[j] = "screener" THEN "next" ELSE "fundamentals")
  /\ UNCHANGED <<flags, queue, by, asked, todo, cols, track, redis, env>>

(***************************************************************************)
(* What can go wrong.                                                      *)
(***************************************************************************)
Active(j) == pc[j] \notin {"idle", "queued", "ended"}
Drop(j) == /\ rows' = [rows EXCEPT ![j] = {}]
           /\ cols' = [cols EXCEPT ![j] = {}]

(* The unique violation reaches the except branch: phase "failed".         *)
Rejected(j) ==
  /\ pc[j] = "rejected"
  /\ SetPhase(j, "failed")
  /\ Finish(j, TRUE)
  /\ UNCHANGED <<table, queue, local, track, current, faults, ages>>

(* A download or a statement raises: phase "failed", unless it is the pool *)
(* or the client of Redis, which are opened before the try block. After a  *)
(* connection error sync_stock_master is sent once more.                   *)
Raise(j) ==
  /\ Active(j) /\ pc[j] # "rejected"
  /\ faults < MaxFaults
  /\ \/ SetPhase(j, "failed")
     \/ pc[j] = "next" /\ todo[j] = asked[j] /\ UNCHANGED phase
  /\ Drop(j)
  /\ \/ Finish(j, TRUE) /\ UNCHANGED queue
     \/ /\ by[j] = "celery" /\ j # Beat
        /\ Go(j, "queued")
        /\ queue' = Append(queue, j)
        /\ UNCHANGED lapsed
  /\ faults' = faults + 1
  /\ UNCHANGED <<table, by, asked, todo, track, current, ages>>

(* The process of the job is killed: an unacknowledged Celery message is   *)
(* delivered again, a background task of the API process is lost.          *)
Crash(j) ==
  /\ Active(j)
  /\ faults < MaxFaults
  /\ Drop(j)
  /\ IF InWorker(j)
     THEN Go(j, "queued") /\ queue' = Append(queue, j) /\ UNCHANGED lapsed
     ELSE Finish(j, TRUE) /\ UNCHANGED queue
  /\ faults' = faults + 1
  /\ UNCHANGED <<table, by, asked, todo, track, redis, ages>>

(* Six hours pass. *)
SixHours ==
  /\ ages < MaxAges
  /\ ages' = ages + 1
  /\ synced' = [l \in Listings |-> IF synced[l] = "recent" THEN "old" ELSE synced[l]]
  /\ UNCHANGED <<status, flags, queue, pc, local, track, redis, faults, lapsed>>

(* stock_sync:current lives for two hours. *)
Expire ==
  /\ current # NoJob
  /\ current' = NoJob
  /\ UNCHANGED <<table, queue, pc, local, track, phase, env>>

Request(j) == Trigger(j) \/ Weekly(j) \/ WeeklyScreener(j) \/ Internal(j)
Track(j)   == TrackCurrent(j) \/ TrackPhase(j)
Step(j)    == \/ NextPhase(j) \/ FetchNse(j) \/ FetchBse(j) \/ Dedup(j)
              \/ Upsert(j) \/ FetchIndexes(j) \/ ResetFlags(j) \/ SetFlag(j)
              \/ FetchQueue(j) \/ FetchSymbols(j) \/ Apply(j) \/ Rejected(j)

Next ==
  \/ \E j \in Syncs : Request(j) \/ Track(j)
  \/ \E j \in Jobs : Step(j) \/ Raise(j) \/ Crash(j)
  \/ Take \/ BeatFires \/ SixHours \/ Expire

Spec == Init /\ [][Next]_vars

(* Beat, the broker, the worker, the API process and its requests run on;  *)
(* nobody has to ask for a sync, time has to pass or a fault to happen.    *)
Fairness ==
  /\ WF_vars(BeatFires)
  /\ WF_vars(Take)
  /\ \A j \in Jobs : WF_vars(Step(j))
  /\ \A j \in Syncs : WF_vars(Track(j))

FairSpec == Spec /\ Fairness

(***************************************************************************)
(* Properties.                                                             *)
(***************************************************************************)
(* GET /stocks/sync/status: Celery is told to ignore results               *)
(* (task_ignore_result), so the state of the task is always PENDING and    *)
(* the phase alone decides.                                                *)
IsRunning == current # NoJob /\ phase \notin {"complete", "failed"}

(* No INSERT of a sync is rejected by the unique index on isin: running    *)
(* the phases again, or several jobs at once, does no harm                 *)
(* (stock_master_sync.py: "safe to re-run").                               *)
SafeToRerun == \A j \in Jobs : pc[j] # "rejected"

(* Every pending row is enriched or marked failed in the end, whatever     *)
(* other syncs put before it; and every job that is sent ends: the loop    *)
(* over the fundamentals queue stops although each pass marks rows failed  *)
(* that are due again later. Both need the worker and Beat of              *)
(* docker-compose.yml (WF of Take and BeatFires): under supervisord.conf,  *)
(* which starts neither, a job that was sent to Celery stays queued, and   *)
(* only the internal routes and the fallback of the trigger do any work.   *)
QueueDrains ==
  /\ \A l \in Listings : status[l] = "pending" ~> status[l] # "pending"
  /\ \A j \in Jobs : pc[j] = "queued" ~> pc[j] \in {"idle", "ended"}

(* When the sync that the status is about has ended, the status says so in *)
(* the end, although the dispatching request may delete the final phase    *)
(* and every other job overwrites it.                                      *)
StatusSettles ==
  \A j \in Syncs :
    current = j /\ pc[j] = "ended" ~> ~IsRunning \/ current # j

(* A row of the static list keeps its is_fno, or gets it back, whoever     *)
(* resets the columns, adds rows, dies or is delivered again in between:   *)
(* when no job that decides about it is under way, it stands, unless one   *)
(* has lapsed since it was written.                                        *)
FnoStands ==
  /\ \A j \in Jobs : asked[j] \cap Membership # {} => pc[j] \in {"idle", "ended"}
  /\ lapsed = {}
  => flags["fno"] = Members["fno"] \cap Present

(* "Partial failures are tolerated - the missing index will simply not be  *)
(* updated this run, preserving existing flags"                            *)
(* (stock_master_sync.py:142).                                             *)
MissingFileKeepsFlags ==
  [][\A j \in Jobs, x \in Indexes :
       pc[j] = "reset" /\ pc'[j] = "flag" /\ x \notin cols[j] =>
         flags'[x] = flags[x]]_vars

=============================================================================
