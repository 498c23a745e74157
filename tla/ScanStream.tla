----------------------------- MODULE ScanStream -----------------------------
(***************************************************************************)
(* The inside of one run of a scan, in the process that executes it:       *)
(*   - the fetch threads of agents/scanner_agent.py;                       *)
(*   - the pipeline thread (core/scanner/pipeline.py), which takes each    *)
(*     symbol as its data arrive, analyses it and reports it;              *)
(*   - the event loop of the task (tasks/scanner_tasks.py), on which every *)
(*     report is a coroutine of its own;                                   *)
(*   - the bridge between the two (services/scan_service.py): the thread   *)
(*     waits for the coroutine, but not for ever.                          *)
(* A request that stops the scan is a fourth party. The run has an event   *)
(* loop of its own, which ends with it, when Celery executes it, and       *)
(* shares that of the API otherwise. ScanLifecycle models the same task    *)
(* from outside, with locks, retries and crashes; here the run is taken    *)
(* apart instead.                                                          *)
(***************************************************************************)
EXTENDS ScanResults

CONSTANTS
  MaxLate, (* bound: callbacks that are not waited for                     *)
  MaxDeaf  (* bound: looks at the cancel flag that Redis does not answer   *)

NoSymbol == "none"

ASSUME StreamAssumption ==
  MaxLate \in Nat /\ MaxDeaf \in Nat /\ NoSymbol \notin Symbols

VARIABLES
  fetch,    (* symbol -> queued; passed or skipped when fetched; taken     *)
  thread,   (* where the pipeline thread is                                *)
  done,     (* done_count                                                  *)
  calls,    (* the callbacks alive on the event loop                       *)
  loop,     (* where _run_scan_async is                                    *)
  inserted, (* total_inserted                                              *)
  cancel,   (* scan:cancel:{id} is set                                     *)
  stop,     (* where the stop request is                                   *)
  late,     (* callbacks whose caller stopped waiting                      *)
  deaf,     (* looks at the flag that failed                               *)
  overrun   (* symbols taken since the flag was set                        *)

streamVars == <<fetch, thread, done, calls, loop, inserted, cancel, stop,
                late, deaf, overrun>>

StreamInit ==
  /\ fetch = [s \in setup.symbols |-> "queued"]
  /\ thread = "idle"
  /\ done = 0
  /\ calls = {}
  /\ loop = "start"
  /\ inserted = 0
  /\ cancel = FALSE
  /\ stop = "idle"
  /\ late = 0 /\ deaf = 0 /\ overrun = 0

(***************************************************************************)
(* The fetch threads.  _fetch_work answers for every symbol: data, or one  *)
(* of the reasons no_data, penny, illiquid and fetch_error.                *)
(***************************************************************************)
FetchDone(s) ==
  /\ thread # "idle"
  /\ fetch[s] = "queued"
  /\ \E r \in {"passed", "skipped"} : fetch' = [fetch EXCEPT ![s] = r]
  /\ UNCHANGED <<results, thread, done, calls, loop, inserted, cancel, stop,
                 late, deaf, overrun>>

(***************************************************************************)
(* The pipeline thread.                                                    *)
(***************************************************************************)
(* Mutant: the pipeline does not wait for the callback. *)
Take_NoWait(s) ==
  /\ thread = "next"
  /\ fetch[s] \in {"passed", "skipped"}
  /\ fetch' = [fetch EXCEPT ![s] = "taken"]
  /\ done' = done + 1
  /\ calls' = calls \cup {[n |-> done + 1, sym |-> NoSymbol, at |-> "progress"]}
  /\ UNCHANGED <<results, thread, loop, inserted, cancel, stop, late, deaf, overrun>>

(* The next symbol of scan_stream, in the order of arrival.                *)
Arrives(s) ==
  /\ thread = "next"
  /\ fetch[s] \in {"passed", "skipped"}
  /\ fetch' = [fetch EXCEPT ![s] = "taken"]
  /\ done' = done + 1
  /\ overrun' = IF cancel THEN overrun + 1 ELSE overrun

(* It is reported with its result, or with an empty batch when it was      *)
(* filtered or could not be analysed.                                      *)
Take(s) ==
  /\ Arrives(s)
  /\ \/ /\ fetch[s] = "passed"
        /\ calls' = calls \cup {[n |-> done + 1, sym |-> s, at |-> "insert"]}
     \/ /\ fetch[s] = "skipped" \/ May("errors")
        /\ calls' = calls \cup {[n |-> done + 1, sym |-> NoSymbol, at |-> "progress"]}
  /\ thread' = "wait"
  /\ UNCHANGED <<results, loop, inserted, cancel, stop, late, deaf>>

(* Its ranking raises, which nobody catches: the loop is left.             *)
RankFails(s) ==
  /\ May("errors")
  /\ Arrives(s)
  /\ fetch[s] = "passed"
  /\ thread' = "failing"
  /\ UNCHANGED <<results, calls, loop, inserted, cancel, stop, late, deaf>>

(* sync_cb after 30 s, sync_phase_cb after 5 s: the callback lives on, its *)
(* answer is lost, the thread goes on as if it were not to stop.           *)
GiveUp ==
  /\ May("slow") /\ late < MaxLate
  /\ thread = "wait"
  /\ late' = late + 1
  /\ thread' = "next"
  /\ UNCHANGED <<results, fetch, done, calls, loop, inserted, cancel, stop,
                 deaf, overrun>>

(* The end of the universe. *)
Exhausted ==
  /\ thread = "next"
  /\ \A s \in DOMAIN fetch : fetch[s] = "taken"
  /\ thread' = "report"
  /\ UNCHANGED <<results, fetch, done, calls, loop, inserted, cancel, stop,
                 late, deaf, overrun>>

(* Mutant: closing the generator waits for every symbol to be taken. *)
Close_Drains ==
  /\ thread \in {"closing", "failing"}
  /\ \A s \in DOMAIN fetch : fetch[s] = "taken"
  /\ thread' = IF thread = "closing" THEN "report" ELSE "raised"
  /\ UNCHANGED <<results, fetch, done, calls, loop, inserted, cancel, stop,
                 late, deaf, overrun>>

(* Leaving the loop closes the generator, whose executor waits for every   *)
(* fetch that was submitted, started or not.                               *)
Close ==
  /\ thread \in {"closing", "failing"}
  /\ \A s \in DOMAIN fetch : fetch[s] # "queued"
  /\ thread' = IF thread = "closing" THEN "report" ELSE "raised"
  /\ UNCHANGED <<results, fetch, done, calls, loop, inserted, cancel, stop,
                 late, deaf, overrun>>

(* The report files. *)
Report ==
  /\ thread = "report"
  /\ \/ thread' = "returned"
     \/ May("errors") /\ thread' = "raised"
  /\ UNCHANGED <<results, fetch, done, calls, loop, inserted, cancel, stop,
                 late, deaf, overrun>>

(***************************************************************************)
(* on_phase and on_batch, one step for each await.                         *)
(***************************************************************************)
Goto(c, at) == calls' = (calls \ {c}) \cup {[c EXCEPT !.at = at]}

(* The answer reaches the thread if it still waits for this callback.      *)
Answer(c, wantsStop) ==
  /\ calls' = calls \ {c}
  /\ thread' = IF thread # "wait" \/ c.n # done THEN thread
               ELSE IF wantsStop THEN "closing" ELSE "next"

CallPhase(c) ==
  /\ c.at = "phase"
  /\ Publish("phase", 0)
  /\ Answer(c, FALSE)
  /\ UNCHANGED <<setup, scan, found, stored, cache, inserted, deaf>>

(* A connection of the pool of the run; once the pool is being closed, the *)
(* failure to get one is logged.                                           *)
CallAcquire(c) ==
  /\ c.at = "insert"
  /\ \/ loop \notin {"close", "ended"} /\ Goto(c, "copy")
     \/ (loop \in {"close", "ended"} \/ May("errors")) /\ Goto(c, "progress")
  /\ UNCHANGED <<results, thread, inserted, deaf>>

(* Mutant: the batch is counted before it is inserted. *)
CallInsert_Eager(c) ==
  /\ c.at = "copy"
  /\ inserted' = inserted + 1
  /\ \/ stored' = stored \cup {c.sym}
     \/ May("errors") /\ UNCHANGED stored
  /\ Goto(c, "progress")
  /\ UNCHANGED <<setup, scan, found, wire, cache, thread, deaf>>

(* Mutant: a COPY is counted for each attempt. *)
CallInsert_Twice(c) ==
  /\ c.at = "copy"
  /\ stored' = stored \cup {c.sym} /\ inserted' \in inserted + 1..inserted + 2
  /\ Goto(c, "progress")
  /\ UNCHANGED <<setup, scan, found, wire, cache, thread, deaf>>

(* A COPY that fails is logged; one whose answer is lost is stored but not *)
(* counted.                                                                *)
CallInsert(c) ==
  /\ c.at = "copy"
  /\ \/ stored' = stored \cup {c.sym} /\ inserted' = inserted + 1
     \/ May("errors") /\ stored' = stored \cup {c.sym} /\ UNCHANGED inserted
     \/ May("errors") /\ UNCHANGED <<stored, inserted>>
  /\ Goto(c, "progress")
  /\ UNCHANGED <<setup, scan, found, wire, cache, thread, deaf>>

CallProgress(c) ==
  /\ c.at = "progress"
  /\ Publish("progress", c.n)
  /\ Goto(c, IF c.sym = NoSymbol THEN "check" ELSE "batch")
  /\ UNCHANGED <<setup, scan, found, stored, cache, thread, inserted, deaf>>

(* _serialize_batch_for_ws drops a symbol that is to be ignored.           *)
CallBatch(c) ==
  /\ c.at = "batch"
  /\ \/ Publish("batch", c.n)
     \/ UNCHANGED wire
  /\ Goto(c, "check")
  /\ UNCHANGED <<setup, scan, found, stored, cache, thread, inserted, deaf>>

(* Mutant: the answer of the flag is not passed on. *)
CallCheck_Mute(c) ==
  /\ c.at = "check"
  /\ Answer(c, FALSE)
  /\ UNCHANGED <<results, inserted, deaf>>

CallCheck(c) ==
  /\ c.at = "check"
  /\ \/ Answer(c, cancel) /\ UNCHANGED deaf
     \/ May("redis") /\ deaf < MaxDeaf /\ deaf' = deaf + 1 /\ Answer(c, FALSE)
  /\ UNCHANGED <<results, inserted>>

CallStep(c) ==
  /\ \/ CallPhase(c) \/ CallAcquire(c) \/ CallInsert(c) \/ CallProgress(c)
     \/ CallBatch(c) \/ CallCheck(c)
  /\ UNCHANGED <<fetch, done, loop, cancel, stop, late, overrun>>

(***************************************************************************)
(* _run_scan_async.                                                        *)
(***************************************************************************)
LoopStep(from, to) == loop = from /\ loop' = to

Start ==
  /\ LoopStep("start", "resolve")
  /\ Publish("started", 0)
  /\ UNCHANGED <<setup, scan, found, stored, cache, fetch, thread, done, calls,
                 inserted, cancel, stop, late, deaf, overrun>>

(* run_scan_async without a universe in the request: announces that it is  *)
(* resolved and hands the pipeline to a thread, which announces the        *)
(* fetching first.                                                         *)
Resolve ==
  /\ LoopStep("resolve", "run")
  /\ Publish("phase", 0)
  /\ thread' = "wait"
  /\ calls' = {[n |-> 0, sym |-> NoSymbol, at |-> "phase"]}
  /\ UNCHANGED <<setup, scan, found, stored, cache, fetch, done, inserted,
                 cancel, stop, late, deaf, overrun>>

(* The last look at the flag; if it fails the scan counts as not cancelled.*)
Decide ==
  /\ loop = "run" /\ thread = "returned"
  /\ \/ loop' = IF cancel THEN "cleanup" ELSE "mark"
     \/ May("redis") /\ loop' = "mark"
  /\ UNCHANGED <<results, fetch, thread, done, calls, inserted, cancel, stop,
                 late, deaf, overrun>>

Mark ==
  /\ LoopStep("mark", "lists")
  /\ scan' = "done" /\ found' = inserted
  /\ UNCHANGED <<setup, stored, wire, cache, fetch, thread, done, calls,
                 inserted, cancel, stop, late, deaf, overrun>>

(* An exception of the pipeline or of the UPDATE, which may have been done *)
(* nevertheless, is announced. final_status is done before the UPDATE, so  *)
(* that the finally block leaves the row of the second case as it is.      *)
Raised ==
  /\ \/ /\ loop = "run" /\ thread = "raised" /\ loop' = "fail"
        /\ UNCHANGED <<scan, found>>
     \/ /\ loop = "mark" /\ May("errors") /\ loop' = "cleanup"
        /\ UNCHANGED <<scan, found>> \/ (scan' = "done" /\ found' = inserted)
  /\ Publish("failed", 0)
  /\ UNCHANGED <<setup, stored, cache, fetch, thread, done, calls, inserted,
                 cancel, stop, late, deaf, overrun>>

(* Mutant: the cached lists outlive the scan. *)
BustLists_Skipped ==
  /\ LoopStep("lists", "counts")
  /\ UNCHANGED cache
  /\ UNCHANGED <<setup, scan, found, stored, wire, fetch, thread, done, calls,
                 inserted, cancel, stop, late, deaf, overrun>>

(* The first DELETE that fails skips the second one. *)
BustLists ==
  /\ loop = "lists"
  /\ \/ loop' = "counts" /\ cache' = [cache EXCEPT !["list"] = Miss]
     \/ May("redis") /\ loop' = "tell" /\ UNCHANGED cache
  /\ UNCHANGED <<setup, scan, found, stored, wire, fetch, thread, done, calls,
                 inserted, cancel, stop, late, deaf, overrun>>

BustCounts ==
  /\ LoopStep("counts", "tell")
  /\ \/ cache' = [cache EXCEPT !["counts"] = Miss]
     \/ May("redis") /\ UNCHANGED cache
  /\ UNCHANGED <<setup, scan, found, stored, wire, fetch, thread, done, calls,
                 inserted, cancel, stop, late, deaf, overrun>>

Tell ==
  /\ LoopStep("tell", "stats")
  /\ Publish("complete", inserted)
  /\ UNCHANGED <<setup, scan, found, stored, cache, fetch, thread, done, calls,
                 inserted, cancel, stop, late, deaf, overrun>>

BustStats ==
  /\ LoopStep("stats", "cleanup")
  /\ \/ cache' = [cache EXCEPT !["stats"] = Miss]
     \/ May("redis") /\ UNCHANGED cache
  /\ UNCHANGED <<setup, scan, found, stored, wire, fetch, thread, done, calls,
                 inserted, cancel, stop, late, deaf, overrun>>

(* The finally block of a run that failed: the UPDATE resets the count.    *)
Fail ==
  /\ LoopStep("fail", "cleanup")
  /\ \/ scan' = "failed" /\ found' = 0
     \/ May("errors") /\ UNCHANGED <<scan, found>>
  /\ UNCHANGED <<setup, stored, wire, cache, fetch, thread, done, calls,
                 inserted, cancel, stop, late, deaf, overrun>>

(* The lock and the flag go; that of the lock is part of ScanLifecycle.    *)
Cleanup ==
  /\ LoopStep("cleanup", "close")
  /\ \/ cancel' = FALSE
     \/ May("redis") /\ UNCHANGED cancel
  /\ UNCHANGED <<results, fetch, thread, done, calls, inserted, stop, late, deaf, overrun>>

(* Mutant: closing does not wait for the connections in use. *)
ClosePool_Now ==
  /\ LoopStep("close", "ended")
  /\ calls' = IF May("here") THEN calls ELSE {}
  /\ UNCHANGED <<results, fetch, thread, done, inserted, cancel, stop, late, deaf, overrun>>

(* The pool closes when the connections in use have come back. That is the *)
(* end of a coroutine on the loop of the API, where callbacks live on; in  *)
(* a Celery task asyncio.run then cancels what is still alive.             *)
ClosePool ==
  /\ LoopStep("close", "ended")
  /\ \A c \in calls : c.at # "copy"
  /\ calls' = IF May("here") THEN calls ELSE {}
  /\ UNCHANGED <<results, fetch, thread, done, inserted, cancel, stop, late, deaf, overrun>>

(***************************************************************************)
(* stop_scan.                                                              *)
(***************************************************************************)
StopStep(from, to) == May("cancel") /\ stop = from /\ stop' = to

StopRead ==
  /\ StopStep("idle", "mark")
  /\ scan = "pending"
  /\ UNCHANGED <<results, cancel>>

StopMark ==
  /\ StopStep("mark", "flag")
  /\ scan' = "failed" /\ found' = 0
  /\ UNCHANGED <<setup, stored, wire, cache, cancel>>

StopFlag ==
  /\ StopStep("flag", "tell")
  /\ \/ cancel' = TRUE
     \/ May("redis") /\ UNCHANGED cancel
  /\ UNCHANGED results

StopTell ==
  /\ StopStep("tell", "bust")
  /\ Publish("failed", 0)
  /\ UNCHANGED <<setup, scan, found, stored, cache, cancel>>

StopBust ==
  /\ StopStep("bust", "answered")
  /\ \/ cache' = [cache EXCEPT !["stats"] = Miss]
     \/ May("redis") /\ UNCHANGED cache
  /\ UNCHANGED <<setup, scan, found, stored, wire, cancel>>

(* The flag has a life of 600 s.                                           *)
FlagExpires ==
  /\ May("expiry") /\ cancel
  /\ cancel' = FALSE
  /\ UNCHANGED <<results, fetch, thread, done, calls, loop, inserted, stop, late,
                 deaf, overrun>>

Stop ==
  /\ StopRead \/ StopMark \/ StopFlag \/ StopTell \/ StopBust
  /\ UNCHANGED <<fetch, thread, done, calls, loop, inserted, late, deaf, overrun>>

-----------------------------------------------------------------------------
Thread ==
  \/ \E s \in setup.symbols : Take(s) \/ RankFails(s)
  \/ Exhausted \/ Close \/ Report

Task ==
  \/ Start \/ Resolve \/ Decide \/ Mark \/ Raised \/ BustLists \/ BustCounts
  \/ Tell \/ BustStats \/ Fail \/ Cleanup \/ ClosePool

StreamNext ==
  \/ \E s \in setup.symbols : FetchDone(s)
  \/ Thread
  \/ GiveUp
  \/ \E c \in calls : CallStep(c)
  \/ Task
  \/ Stop
  \/ FlagExpires

(* Threads and coroutines run on: a fetch ends by its own time-outs, a     *)
(* callback by the 30 s of the pool and the time-outs of Redis. Nobody has *)
(* to ask for a stop, and no callback has to be given up.                  *)
StreamFairness ==
  /\ WF_streamVars(\E s \in setup.symbols : FetchDone(s))
  /\ WF_streamVars(Thread)
  /\ WF_streamVars(\E c \in calls : CallStep(c))
  /\ WF_streamVars(Task)

(***************************************************************************)
(* Properties.                                                             *)
(***************************************************************************)
StreamTypeOK ==
  /\ scan \in {"pending", "done", "failed"}
  /\ found \in 0..Cardinality(setup.symbols)
  /\ stored \subseteq setup.symbols
  /\ wire \in Seq([type : {"started", "phase", "progress", "batch", "complete", "failed"},
                   n : 0..Cardinality(setup.symbols)])
  /\ fetch \in [setup.symbols -> {"queued", "passed", "skipped", "taken"}]
  /\ thread \in {"idle", "next", "wait", "closing", "failing", "report", "returned",
                "raised"}
  /\ done \in 0..Cardinality(setup.symbols)
  /\ calls \subseteq [n : 0..done, sym : setup.symbols \cup {NoSymbol},
                      at : {"phase", "insert", "copy", "progress", "batch", "check"}]
  /\ loop \in {"start", "resolve", "run", "mark", "lists", "counts", "tell",
               "stats", "fail", "cleanup", "close", "ended"}
  /\ inserted \in 0..done
  /\ cancel \in BOOLEAN
  /\ stop \in {"idle", "mark", "flag", "tell", "bust", "answered"}
  /\ late \in 0..MaxLate /\ deaf \in 0..MaxDeaf /\ overrun \in 0..done

(* signals_found never promises a signal that is not in the table, not     *)
(* even when inserts fail, their answers are lost or callbacks are given   *)
(* up (scanner_tasks.py:98-104); when nothing of that happens it is exact. *)
FoundIsStored ==
  /\ found <= Cardinality(stored)
  /\ scan = "done" /\ late = 0 /\ ~May("errors") => found = Cardinality(stored)

(* A cancel request is obeyed at the next look at the flag: one more       *)
(* symbol is analysed, and one for every answer that did not reach the     *)
(* pipeline (scan_service.py:119, scanner_tasks.py:129-134).               *)
StopIsPrompt == overrun <= 1 + late + deaf

(* As long as every callback was waited for, clients are told of the       *)
(* symbols in order and of nothing after the end of the scan. (The message *)
(* of a stop request can come at any time.)                                *)
EventsInOrder ==
  late = 0 =>
    \A i, j \in DOMAIN wire : i < j =>
      /\ wire[i].type = "progress" /\ wire[j].type = "progress" => wire[i].n < wire[j].n
      /\ wire[i].type = "complete" => wire[j].type = "failed"
      /\ wire[i].type = "batch" => wire[j].n # wire[i].n \/ wire[j].type = "complete"

(* Nothing is stored or counted once the run is over, on either loop: its  *)
(* own pool is closed, and not before the last COPY (scanner_tasks.py:233).*)
(* Nothing is announced either but by a stop request and, on the loop of   *)
(* the API, by callbacks the pipeline did not wait for.                    *)
QuietAfterEnd ==
  [][loop = "ended" =>
       /\ UNCHANGED <<stored, inserted>>
       /\ wire' # wire => stop' # stop \/ (May("here") /\ late > 0 /\ calls' # calls)
    ]_<<results, streamVars>>

(* The task ends, whatever fails and however late answers come.            *)
TaskEnds == <>(loop = "ended")
=============================================================================
