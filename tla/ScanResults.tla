---------------------------- MODULE ScanResults ----------------------------
(***************************************************************************)
(* What one scan leaves to the rest of the platform: its row in the table  *)
(* scans, its rows in the table signals, the events it publishes on the    *)
(* Redis channels and the responses that the API keeps in Redis.           *)
(* ScanStream writes them, WsHub and ResultCaches read them, ScanDelivery  *)
(* puts the three together.                                                *)
(*                                                                         *)
(* An earlier scan is done all the time: it is what the pages show until   *)
(* this one is.                                                            *)
(***************************************************************************)
EXTENDS Integers, Sequences, FiniteSets

CONSTANTS
  Symbols, (* what can be in the universe of the scan                      *)
  Clients, (* WebSocket connections                                        *)
  Readers, (* requests that read the results                               *)
  Setups   (* who takes part: one of them is chosen for a whole behaviour  *)

(* signals:list:*, signals:counts:latest and dashboard:stats               *)
Keys == {"list", "counts", "stats"}

(* What may go wrong, or be asked, in a behaviour:                         *)
(*   slow     a callback takes longer than its caller waits                *)
(*   errors   a statement fails, or its answer is lost                     *)
(*   redis    a Redis command fails                                        *)
(*   cancel   POST /scans/{id}/stop                                        *)
(*   expiry   the cancel flag reaches the end of its life                  *)
(*   replica  the API reads from a replica, which lags                     *)
(*   deaf     the connection of the hub to Redis drops                     *)
(*   here     no fault: the run is a coroutine on the event loop of the    *)
(*            API (routers/scans.py:82, routers/internal.py:48) instead of *)
(*            a Celery task with a loop of its own                         *)
Faults ==
  {"slow", "errors", "redis", "cancel", "expiry", "replica", "deaf", "here"}

ASSUME SetupAssumption ==
  /\ IsFiniteSet(Symbols)
  /\ \A u \in Setups :
    /\ u.symbols \subseteq Symbols /\ u.symbols # {}
    /\ u.clients \subseteq Clients
    /\ u.readers \subseteq Readers
    /\ u.keys \subseteq Keys (* what the readers ask for                   *)
    /\ u.faults \subseteq Faults

VARIABLES
  setup,  (* the setup of this behaviour                                   *)
  scan,   (* scans.status of the scan                                      *)
  found,  (* scans.signals_found                                           *)
  stored, (* the symbols of the scan that have a row in signals            *)
  wire,   (* the events of the scan, in the order of their publication     *)
  cache   (* the three kinds of responses kept in Redis                    *)

results == <<setup, scan, found, stored, wire, cache>>

May(f) == f \in setup.faults

Miss == [total |-> "none", items |-> "none", n |-> 0, after |-> FALSE]

(* _publish, and the publish of a stop request: a failing Redis is ignored *)
Publish(type, n) ==
  \/ wire' = Append(wire, [type |-> type, n |-> n])
  \/ May("redis") /\ UNCHANGED wire

Published(type) == \E i \in DOMAIN wire : wire[i].type = type

(* Mutant: without the status. *)
Latest_Any == IF scan # "failed" THEN "new" ELSE "old"

(* SELECT id FROM scans WHERE status = 'done' ORDER BY triggered_at DESC   *)
Latest == IF scan = "done" THEN "new" ELSE "old"

ResultsInit ==
  /\ setup \in Setups
  /\ scan = "pending"
  /\ found = 0
  /\ stored = {}
  /\ wire = <<>>
  /\ cache = [k \in Keys |-> Miss]
=============================================================================
