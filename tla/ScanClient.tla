----------------------------- MODULE ScanClient -----------------------------
(***************************************************************************)
(* One browser that watches scans: the Redux slice wsSlice, the hook       *)
(* useWebSocket that feeds it, and the scanner page and the top bar, which *)
(* trigger and stop scans and poll for what the socket missed.             *)
(*                                                                         *)
(* The service is reduced to what a browser sees of it: the status of each *)
(* scan, the events its worker publishes, in order, and the answers to the *)
(* two requests.  ScanLifecycle has the details.                           *)
(***************************************************************************)
EXTENDS Naturals, Sequences

CONSTANTS
  Scans,      (* scan ids                                                   *)
  NoScan,     (* null                                                       *)
  Batches,    (* batches with signals that a scan delivers                  *)
  MaxWire,    (* bound: events under way to the browser                     *)
  Env         (* what happens, a subset of EnvEvents                        *)

EnvEvents == {"stop",       (* the user stops scans                         *)
              "others",     (* scans are created by others                  *)
              "conflict",   (* a trigger can be answered with 409           *)
              "refusal",    (* a request can be answered with 5xx, or lost  *)
              "errors",     (* a scan can fail                              *)
              "drop",       (* the socket can close                         *)
              "visible"}    (* the tab comes back to the foreground         *)

ASSUME ClientAssumption ==
  /\ NoScan \notin Scans
  /\ Batches \in Nat
  /\ MaxWire \in Nat \ {0}
  /\ Env \subseteq EnvEvents

VARIABLES
  status,     (* scans.status                                               *)
  work,       (* where the worker of a scan is                              *)
  todo,       (* batches it has not delivered                               *)
  wire,       (* events between Redis and onmessage                         *)
  connected,  (* the socket is open                                         *)
  current,    (* currentScanId                                              *)
  scanning,   (* scanProgress is not null                                   *)
  streamed,   (* the scans whose signals the running counters count         *)
  summary,    (* the scan of lastCompletionSummary                          *)
  timers,     (* scans whose completion armed clearStreamingSignals         *)
  list,       (* the cached answer of listScans: the pending scans in it    *)
  fetch,      (* answers to listScans under way, at most one                *)
  stale,      (* the tag "Scan" is invalid: listScans has to be asked again *)
  polled,     (* the last answer of the page's poll, when it was final      *)
  polledTop,  (* the status in the top bar's last answer, when it was final *)
  due,        (* effects that React has to run                              *)
  trig,       (* the request of handleRunScan                               *)
  stp         (* the request of handleStopScan                              *)

service == <<status, work, todo>>
slice   == <<current, scanning, streamed, summary>>
cache   == <<list, fetch, stale>>
polls   == <<polled, polledTop>>
vars    == <<status, work, todo, wire, connected, current, scanning, streamed,
             summary, timers, list, fetch, stale, polled, polledTop, due, trig, stp>>

Statuses   == {"none", "pending", "done", "failed"}
Event      == [type : {"started", "progress", "batch", "complete", "failed"}, scan : Scans]
NoAnswer   == [scan |-> NoScan, status |-> "none"]
Answer     == {NoAnswer} \cup [scan : Scans, status : {"done", "failed"}]
IdleTrig   == [at |-> "idle", scan |-> NoScan, seen |-> {}]
IdleStop   == [at |-> "idle", scan |-> NoScan]

TypeOK ==
  /\ status \in [Scans -> Statuses]
  /\ work \in [Scans -> {"none", "queued", "run", "poll", "check", "write", "announce",
                         "mark", "over"}]
  /\ todo \in [Scans -> 0..Batches]
  /\ wire \in Seq(Event) /\ Len(wire) <= MaxWire
  /\ connected \in BOOLEAN
  /\ current \in Scans \cup {NoScan}
  /\ scanning \in BOOLEAN
  /\ streamed \subseteq Scans
  /\ summary \in Scans \cup {NoScan}
  /\ timers \subseteq Scans
  /\ list \subseteq Scans
  /\ fetch \subseteq SUBSET Scans
  /\ stale \in BOOLEAN
  /\ polled \in Answer
  /\ polledTop \in {"none", "done", "failed"}
  /\ due \subseteq {"page", "top"}
  /\ trig \in [at : {"idle", "sent", "accepted", "conflict", "error"},
               scan : Scans \cup {NoScan}, seen : SUBSET Scans]
  /\ stp \in [at : {"idle", "sent", "stopped", "conflict", "error"},
              scan : Scans \cup {NoScan}]

Init ==
  /\ status = [s \in Scans |-> "none"]
  /\ work = [s \in Scans |-> "none"]
  /\ todo = [s \in Scans |-> Batches]
  /\ wire = <<>>
  /\ connected = TRUE
  /\ current = NoScan
  /\ scanning = FALSE
  /\ streamed = {}
  /\ summary = NoScan
  /\ timers = {}
  /\ list = {}
  /\ fetch = {}
  /\ stale = TRUE
  /\ polled = NoAnswer
  /\ polledTop = "none"
  /\ due = {}
  /\ trig = IdleTrig
  /\ stp = IdleStop

Pending == {s \in Scans : status[s] = "pending"}

(***************************************************************************)
(* The service.  Nobody replays an event that a closed socket missed.      *)
(***************************************************************************)
Publish(type, s) ==
  IF connected
  THEN /\ Len(wire) < MaxWire
       /\ wire' = Append(wire, [type |-> type, scan |-> s])
  ELSE UNCHANGED wire

Create(s) ==
  /\ status[s] = "none"
  /\ status' = [status EXCEPT ![s] = "pending"]
  /\ work' = [work EXCEPT ![s] = "queued"]
  /\ UNCHANGED todo

OthersCreate(s) ==
  /\ "others" \in Env
  /\ Create(s)
  /\ UNCHANGED <<wire, connected, slice, timers, cache, polls, due, trig, stp>>

(* A stop fails the row and sets the cancel flag. *)
Cancelled(s) == status[s] = "failed"

WorkStep(s, from, to) == work[s] = from /\ work' = [work EXCEPT ![s] = to]

WorkerBegin(s) ==
  /\ WorkStep(s, "queued", "run")
  /\ Publish("started", s)
  /\ UNCHANGED <<status, todo>>

(* on_batch publishes scan.progress, and scan.batch when it has signals. *)
WorkerBatch(s) ==
  /\ todo[s] > 0
  /\ WorkStep(s, "run", "poll")
  /\ todo' = [todo EXCEPT ![s] = @ - 1]
  /\ Publish("progress", s) \/ Publish("batch", s)
  /\ UNCHANGED status

WorkerPoll(s) ==
  /\ WorkStep(s, "poll", IF Cancelled(s) THEN "check" ELSE "run")
  /\ UNCHANGED <<status, todo, wire>>

WorkerDrained(s) ==
  /\ todo[s] = 0
  /\ WorkStep(s, "run", "check")
  /\ UNCHANGED <<status, todo, wire>>

(* A cancelled run ends without an event of its own. *)
WorkerCheck(s) ==
  /\ WorkStep(s, "check", IF Cancelled(s) THEN "over" ELSE "write")
  /\ UNCHANGED <<status, todo, wire>>

WorkerWrite(s) ==
  /\ WorkStep(s, "write", "announce")
  /\ status' = [status EXCEPT ![s] = "done"]
  /\ UNCHANGED <<todo, wire>>

WorkerAnnounce(s) ==
  /\ WorkStep(s, "announce", "over")
  /\ Publish("complete", s)
  /\ UNCHANGED <<status, todo>>

WorkerRaise(s) ==
  /\ "errors" \in Env
  /\ WorkStep(s, "run", "mark")
  /\ Publish("failed", s)
  /\ UNCHANGED <<status, todo>>

WorkerMark(s) ==
  /\ WorkStep(s, "mark", "over")
  /\ status' = [status EXCEPT ![s] = "failed"]
  /\ UNCHANGED <<todo, wire>>

Worker(s) ==
  /\ \/ WorkerBegin(s) \/ WorkerBatch(s) \/ WorkerPoll(s) \/ WorkerDrained(s)
     \/ WorkerCheck(s) \/ WorkerWrite(s) \/ WorkerAnnounce(s) \/ WorkerRaise(s)
     \/ WorkerMark(s)
  /\ UNCHANGED <<connected, slice, timers, cache, polls, due, trig, stp>>

(***************************************************************************)
(* The reducers of wsSlice.                                                *)
(***************************************************************************)
(* An effect runs after a change of what it depends on: the page's of      *)
(* isScanning and polledScan, the top bar's of pollData and currentScanId. *)
(* React runs it before the browser handles its next event.                *)
Settled == due = {}

Rerun ==
  due' = due \cup (IF scanning' # scanning \/ polled' # polled THEN {"page"} ELSE {})
             \cup (IF current' # current \/ polledTop' # polledTop THEN {"top"} ELSE {})

(* Mutant: undefined is not turned into null. *)
scanStarted_Undefined(id) ==
  /\ current' = IF id = NoScan THEN "undefined" ELSE id
  /\ scanning' = TRUE
  /\ streamed' = {}
  /\ summary' = NoScan

scanStarted(id) ==
  /\ current' = id
  /\ scanning' = TRUE
  /\ streamed' = {}
  /\ summary' = NoScan

Stale(s) == current # NoScan /\ s # current

scanProgressReceived(s) ==
  /\ scanning' = (scanning \/ ~Stale(s))
  /\ UNCHANGED <<current, streamed, summary>>

(* Mutant: no guard on the scan of a batch. *)
scanBatchReceived_Any(s) ==
  /\ streamed' = streamed \cup {s}
  /\ scanning' = TRUE
  /\ UNCHANGED <<current, summary>>

scanBatchReceived(s) ==
  /\ streamed' = IF Stale(s) THEN streamed ELSE streamed \cup {s}
  /\ scanning' = (scanning \/ ~Stale(s))
  /\ UNCHANGED <<current, summary>>

(* Mutant: a completion of another scan is taken for the current one's. *)
scanCompleted_Any(s) ==
  /\ summary' = s
  /\ current' = NoScan
  /\ scanning' = FALSE
  /\ UNCHANGED streamed

scanCompleted(s) ==
  IF Stale(s) THEN UNCHANGED slice
  ELSE /\ summary' = s
       /\ current' = NoScan
       /\ scanning' = FALSE
       /\ UNCHANGED streamed

scanFailed ==
  /\ current' = NoScan
  /\ scanning' = FALSE
  /\ streamed' = {}
  /\ UNCHANGED summary

clearStreamingSignals ==
  /\ streamed' = {}
  /\ UNCHANGED <<current, scanning, summary>>

(***************************************************************************)
(* useWebSocket.                                                           *)
(***************************************************************************)
handleMessage(e) ==
  \/ /\ e.type = "started"
     /\ scanStarted(e.scan)
     /\ UNCHANGED <<timers, stale>>
  \/ /\ e.type = "progress"
     /\ scanProgressReceived(e.scan)
     /\ UNCHANGED <<timers, stale>>
  \/ /\ e.type = "batch"
     /\ scanBatchReceived(e.scan)
     /\ UNCHANGED <<timers, stale>>
  \/ /\ e.type = "complete"
     /\ scanCompleted(e.scan)
     /\ timers' = timers \cup {e.scan}
     /\ stale' = TRUE
  \/ /\ e.type = "failed"
     /\ scanFailed
     /\ UNCHANGED <<timers, stale>>

Receive ==
  /\ Settled
  /\ wire # <<>>
  /\ handleMessage(Head(wire))
  /\ wire' = Tail(wire)
  /\ UNCHANGED <<list, fetch, polls>> /\ Rerun
  /\ UNCHANGED <<service, connected, trig, stp>>

(* setTimeout(..., 5000) *)
TimerFires(s) ==
  /\ Settled
  /\ s \in timers
  /\ timers' = timers \ {s}
  /\ clearStreamingSignals
  /\ UNCHANGED polls /\ Rerun
  /\ UNCHANGED <<service, wire, connected, cache, trig, stp>>

Disconnect ==
  /\ "drop" \in Env
  /\ connected
  /\ connected' = FALSE
  /\ wire' = <<>>
  /\ UNCHANGED <<service, slice, timers, cache, polls, due, trig, stp>>

Reconnect ==
  /\ ~connected
  /\ connected' = TRUE
  /\ UNCHANGED <<service, wire, slice, timers, cache, polls, due, trig, stp>>

(***************************************************************************)
(* listScans and the effect that finds a running scan in it.               *)
(***************************************************************************)
ListAsk ==
  /\ stale /\ fetch = {}
  /\ stale' = FALSE
  /\ fetch' = {Pending}
  /\ UNCHANGED <<service, wire, connected, slice, timers, list, polls, due, trig, stp>>

ListAnswer ==
  /\ Settled
  /\ \E answer \in fetch :
       /\ list' = answer
       /\ IF answer # list /\ ~scanning /\ answer # {}
          THEN \E s \in answer : scanStarted(s)
          ELSE UNCHANGED slice
  /\ fetch' = {}
  /\ UNCHANGED <<stale, polls>> /\ Rerun
  /\ UNCHANGED <<service, wire, connected, timers, trig, stp>>

Visible ==
  /\ "visible" \in Env
  /\ scanning /\ ~stale
  /\ stale' = TRUE
  /\ UNCHANGED <<service, wire, connected, slice, timers, list, fetch, polls, due, trig, stp>>

(***************************************************************************)
(* The polls.  A query hook keeps the data of its last answer when its     *)
(* argument changes or it is skipped.  The effects do nothing with an      *)
(* answer that is not final, and it is kept as no answer.                  *)
(***************************************************************************)
Followed(id) == id = current \/ (current = NoScan /\ id \in list)

PagePoll(s) ==
  /\ Settled
  /\ scanning
  /\ Followed(s)
  /\ polled' = IF status[s] \in {"done", "failed"}
               THEN [scan |-> s, status |-> status[s]] ELSE NoAnswer
  /\ UNCHANGED <<slice, polledTop>> /\ Rerun
  /\ UNCHANGED <<service, wire, connected, timers, cache, trig, stp>>

(* Mutant: only a completed scan ends the scanning state. *)
PageEffect_DoneOnly ==
  /\ "page" \in due
  /\ IF scanning /\ polled.status = "done"
     THEN scanCompleted(polled.scan) /\ stale' = TRUE
     ELSE UNCHANGED <<slice, stale>>
  /\ due' = due \ {"page"}
  /\ UNCHANGED <<service, wire, connected, timers, list, fetch, polls, trig, stp>>

PageEffect ==
  /\ "page" \in due
  /\ \/ scanning /\ polled.status = "done" /\ scanCompleted(polled.scan) /\ stale' = TRUE
     \/ scanning /\ polled.status = "failed" /\ scanFailed /\ UNCHANGED stale
     \/ ~(scanning /\ polled.status \in {"done", "failed"}) /\ UNCHANGED <<slice, stale>>
  /\ due' = (due \ {"page"}) \cup (IF current' # current THEN {"top"} ELSE {})
  /\ UNCHANGED <<service, wire, connected, timers, list, fetch, polls, trig, stp>>

TopPoll ==
  /\ Settled
  /\ ~connected /\ current # NoScan
  /\ polledTop' = IF status[current] \in {"done", "failed"}
                  THEN status[current] ELSE "none"
  /\ UNCHANGED <<slice, polled>> /\ Rerun
  /\ UNCHANGED <<service, wire, connected, timers, cache, trig, stp>>

(* The top bar completes the scan that is current by now. *)
TopEffect ==
  /\ "top" \in due
  /\ \/ /\ current # NoScan /\ polledTop = "done"
        /\ scanCompleted(current) /\ stale' = TRUE
     \/ /\ current # NoScan /\ polledTop = "failed"
        /\ scanFailed /\ UNCHANGED stale
     \/ /\ current = NoScan \/ polledTop \notin {"done", "failed"}
        /\ UNCHANGED <<slice, stale>>
  /\ due' = (due \ {"top"}) \cup (IF scanning' # scanning THEN {"page"} ELSE {})
  /\ UNCHANGED <<service, wire, connected, timers, list, fetch, polls, trig, stp>>

(***************************************************************************)
(* handleRunScan.  It keeps the list of scans it was rendered with.  When  *)
(* Scans has no unused id left the request fails.                          *)
(***************************************************************************)
RunClick ==
  /\ Settled
  /\ ~scanning /\ trig.at = "idle"
  /\ trig' = [at |-> "sent", scan |-> NoScan, seen |-> list]
  /\ scanStarted(NoScan)
  /\ UNCHANGED polls /\ Rerun
  /\ UNCHANGED <<service, wire, connected, timers, cache, stp>>

TriggerServed ==
  /\ trig.at = "sent"
  /\ \/ /\ Pending = {}
        /\ \E s \in Scans : Create(s) /\ trig' = [trig EXCEPT !.at = "accepted", !.scan = s]
     \/ /\ "conflict" \in Env
        /\ \E s \in Scans : work[s] \notin {"none", "over"}
        /\ trig' = [trig EXCEPT !.at = "conflict"]
        /\ UNCHANGED service
     \/ /\ "refusal" \in Env \/ \A s \in Scans : status[s] # "none"
        /\ trig' = [trig EXCEPT !.at = "error"]
        /\ UNCHANGED service
  /\ UNCHANGED <<wire, connected, slice, timers, cache, polls, due, stp>>

TriggerReply ==
  /\ Settled
  /\ \/ trig.at = "accepted" /\ scanStarted(trig.scan)
     \/ trig.at = "conflict" /\ \E s \in trig.seen : scanStarted(s)
     \/ trig.at = "conflict" /\ trig.seen = {} /\ scanStarted(NoScan)
     \/ trig.at = "error" /\ scanFailed
  /\ stale' = TRUE
  /\ trig' = IdleTrig
  /\ UNCHANGED <<list, fetch, polls>> /\ Rerun
  /\ UNCHANGED <<service, wire, connected, timers, stp>>

(***************************************************************************)
(* handleStopScan and what stop_scan does for it.                          *)
(***************************************************************************)
StopClick(s) ==
  /\ Settled
  /\ "stop" \in Env
  /\ scanning /\ stp.at = "idle"
  /\ Followed(s)
  /\ stp' = [at |-> "sent", scan |-> s]
  /\ UNCHANGED <<service, wire, connected, slice, timers, cache, polls, due, trig>>

StopServed ==
  /\ stp.at = "sent"
  /\ \/ /\ status[stp.scan] = "pending"
        /\ status' = [status EXCEPT ![stp.scan] = "failed"]
        /\ Publish("failed", stp.scan)
        /\ stp' = [stp EXCEPT !.at = "stopped"]
     \/ /\ status[stp.scan] # "pending"
        /\ stp' = [stp EXCEPT !.at = "conflict"]
        /\ UNCHANGED <<status, wire>>
     \/ /\ "refusal" \in Env
        /\ stp' = [stp EXCEPT !.at = "error"]
        /\ UNCHANGED <<status, wire>>
  /\ UNCHANGED <<work, todo, connected, slice, timers, cache, polls, due, trig>>

StopReply ==
  /\ Settled
  /\ \/ stp.at \in {"stopped", "conflict"} /\ scanFailed
     \/ stp.at = "error" /\ UNCHANGED slice
  /\ stale' = TRUE
  /\ stp' = IdleStop
  /\ UNCHANGED <<list, fetch, polls>> /\ Rerun
  /\ UNCHANGED <<service, wire, connected, timers, trig>>

(***************************************************************************)
(* The specification.                                                      *)
(***************************************************************************)
Next ==
  \/ \E s \in Scans : \/ OthersCreate(s) \/ Worker(s) \/ TimerFires(s) \/ PagePoll(s)
                      \/ StopClick(s)
  \/ Receive \/ Disconnect \/ Reconnect
  \/ ListAsk \/ ListAnswer \/ Visible \/ PageEffect \/ TopPoll \/ TopEffect
  \/ RunClick \/ TriggerServed \/ TriggerReply \/ StopServed \/ StopReply

Spec == Init /\ [][Next]_vars

(* Workers work, requests are answered, effects run, polls go out and the  *)
(* socket reconnects.  Nobody has to click, look or lose the connection.   *)
Fairness ==
  /\ \A s \in Scans : WF_vars(Worker(s)) /\ WF_vars(TimerFires(s)) /\ WF_vars(PagePoll(s))
  /\ WF_vars(Receive) /\ WF_vars(Reconnect)
  /\ WF_vars(ListAsk) /\ WF_vars(ListAnswer)
  /\ WF_vars(PageEffect) /\ WF_vars(TopPoll) /\ WF_vars(TopEffect)
  /\ WF_vars(TriggerServed) /\ WF_vars(TriggerReply)
  /\ WF_vars(StopServed) /\ WF_vars(StopReply)

FairSpec == Spec /\ Fairness
-----------------------------------------------------------------------------
(***************************************************************************)
(* Properties.                                                             *)
(***************************************************************************)

(* What the page counts and sums up is of the scan it says: the running    *)
(* counters of the scan that is followed count no signal of another one,   *)
(* and a completion summary is of a scan that is done, but for the top     *)
(* bar, which takes what it polled last for the status of the current scan.*)
ShowsItsScan ==
  /\ current # NoScan => streamed \subseteq {current}
  /\ summary # NoScan => status[summary] = "done" \/ polledTop = "done"

(* A pending scan that is followed stays on the page: neither the late     *)
(* completion of another scan nor an answer that another scan is done      *)
(* takes it away.  What can is the failure of any scan, which no reducer   *)
(* compares with the current one, as an event, as the answer of the page's *)
(* poll or as that of a stop; a failed trigger; and the top bar's last     *)
(* answer.                                                                 *)
KeepsShowing ==
  [][\/ current = NoScan \/ status[current] # "pending" \/ scanning'
     \/ wire # <<>> /\ Head(wire).type = "failed"
     \/ polled.status = "failed" \/ stp.at \in {"stopped", "conflict"}
     \/ trig.at = "error" \/ polledTop # "none"]_<<current, scanning>>

(* A scan that is followed and over is not followed any more later on,     *)
(* whatever events the socket missed.                                      *)
FollowingEnds ==
  \A s \in Scans :
    current = s /\ status[s] \in {"done", "failed"} ~> current # s

(* The service has nothing under way for the browser. *)
Quiet ==
  /\ wire = <<>>
  /\ \A s \in Scans : status[s] # "pending" /\ work[s] \in {"none", "over"}

(* "The UI always exits the scanning state once the backend finishes"      *)
(* (the comment at the page's poll).                                       *)
UIExits == scanning /\ Quiet ~> ~scanning
=============================================================================
