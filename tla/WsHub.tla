------------------------------- MODULE WsHub -------------------------------
(***************************************************************************)
(* The WebSocket hub of the API process (services/ws_manager.py): one task *)
(* listens to the Redis channels and sends each message to a snapshot of   *)
(* the connections, all at once, but takes the next message only when      *)
(* every send of the last one has ended; every connection has a handler    *)
(* that waits for its disconnect.  A send to a client that is gone raises  *)
(* or is swallowed by the server: the hub then learns of it from the       *)
(* handler alone, or from both.                                            *)
(*                                                                         *)
(* The lock of the registry is never held across an await, so each of its  *)
(* blocks is one step.                                                     *)
(***************************************************************************)
EXTENDS ScanResults

VARIABLES
  sock,     (* connection -> new, open, gone, or closed (handler returned) *)
  conns,    (* _connections                                                *)
  gauge,    (* the gauge ws_connections                                    *)
  inbox,    (* connection -> the positions in wire of what was sent to it  *)
  since,    (* history: how much of wire had been taken when it joined     *)
  heard,    (* how much of wire the listener has taken                     *)
  fan,      (* the sends of the message in flight: waiting and failed      *)
  listener  (* on until the connection to Redis drops                      *)

hubVars == <<sock, conns, gauge, inbox, since, heard, fan, listener>>

Quiet == [busy |-> FALSE, todo |-> {}, dead |-> {}]

HubInit ==
  /\ sock = [c \in Clients |-> "new"]
  /\ conns = {}
  /\ gauge = 0
  /\ inbox = [c \in Clients |-> <<>>]
  /\ since = [c \in Clients |-> 0]
  /\ heard = 0
  /\ fan = Quiet
  /\ listener = "on"

(* connect *)
Connect(c) ==
  /\ c \in setup.clients
  /\ sock[c] = "new"
  /\ sock' = [sock EXCEPT ![c] = "open"]
  /\ conns' = conns \cup {c}
  /\ gauge' = gauge + 1
  /\ since' = [since EXCEPT ![c] = heard]
  /\ UNCHANGED <<inbox, heard, fan, listener>>

(* The peer is gone; nobody in the process knows yet. What it got does not *)
(* matter any more.                                                        *)
Drop(c) ==
  /\ sock[c] = "open"
  /\ sock' = [sock EXCEPT ![c] = "gone"]
  /\ inbox' = [inbox EXCEPT ![c] = <<>>]
  /\ since' = [since EXCEPT ![c] = 0]
  /\ UNCHANGED <<conns, gauge, heard, fan, listener>>

(* WebSocketDisconnect reaches the handler: disconnect. Any other          *)
(* exception, as of the reply to a ping, ends the handler without it.      *)
Notice(c) ==
  /\ sock[c] = "gone"
  /\ sock' = [sock EXCEPT ![c] = "closed"]
  /\ \/ conns' = conns \ {c} /\ gauge' = gauge - 1
     \/ UNCHANGED <<conns, gauge>>
  /\ UNCHANGED <<inbox, since, heard, fan, listener>>

(* Mutant: the next message does not wait for the sends of the last one. *)
Listen_NoAwait ==
  /\ listener = "on"
  /\ heard < Len(wire)
  /\ heard' = heard + 1
  /\ fan' = IF conns = {} THEN fan ELSE [busy |-> TRUE, todo |-> conns, dead |-> {}]
  /\ UNCHANGED <<sock, conns, gauge, inbox, since, listener>>

(* The next message: nothing to do without connections, else a snapshot.   *)
Listen ==
  /\ listener = "on"
  /\ ~fan.busy
  /\ heard < Len(wire)
  /\ heard' = heard + 1
  /\ fan' = IF conns = {} THEN Quiet
            ELSE [busy |-> TRUE, todo |-> conns, dead |-> {}]
  /\ UNCHANGED <<sock, conns, gauge, inbox, since, listener>>

(* Mutant: a send to a client that is gone never returns. *)
Send_Hangs(c) ==
  /\ c \in fan.todo /\ sock[c] = "open"
  /\ inbox' = [inbox EXCEPT ![c] = Append(@, heard)]
  /\ fan' = [fan EXCEPT !.todo = @ \ {c}]
  /\ UNCHANGED <<sock, conns, gauge, since, heard, listener>>

(* One send of the gather ends. *)
Send(c) ==
  /\ c \in fan.todo
  /\ \/ /\ sock[c] = "open"
        /\ inbox' = [inbox EXCEPT ![c] = Append(@, heard)]
        /\ fan' = [fan EXCEPT !.todo = @ \ {c}]
     \/ /\ sock[c] # "open"
        /\ \/ fan' = [fan EXCEPT !.todo = @ \ {c}]
           \/ fan' = [fan EXCEPT !.todo = @ \ {c}, !.dead = @ \cup {c}]
        /\ UNCHANGED inbox
  /\ UNCHANGED <<sock, conns, gauge, since, heard, listener>>

(* The end of broadcast: who raised is forgotten, and counted off whether  *)
(* or not its handler has done so already.                                 *)
FanEnd ==
  /\ fan.busy /\ fan.todo = {}
  /\ conns' = conns \ fan.dead
  /\ gauge' = gauge - Cardinality(fan.dead)
  /\ fan' = Quiet
  /\ UNCHANGED <<sock, inbox, since, heard, listener>>

(* The connection to Redis drops: listen_redis returns and nobody calls it *)
(* again.                                                                  *)
ListenerStops ==
  /\ May("deaf")
  /\ listener = "on" /\ ~fan.busy
  /\ listener' = "off"
  /\ UNCHANGED <<sock, conns, gauge, inbox, since, heard, fan>>

-----------------------------------------------------------------------------
Hub == Listen \/ FanEnd \/ (\E c \in Clients : Send(c) \/ Notice(c))

HubNext == Hub \/ ListenerStops \/ \E c \in Clients : Connect(c) \/ Drop(c)

(* A send ends when the client reads, or when the server finds that it is  *)
(* gone; the same time-out ends the wait of its handler.                   *)
HubFairness ==
  /\ WF_hubVars(Listen)
  /\ WF_hubVars(FanEnd)
  /\ \A c \in Clients : WF_hubVars(Send(c)) /\ WF_hubVars(Notice(c))

(***************************************************************************)
(* Properties.                                                             *)
(***************************************************************************)
(* Sockets, sends and the gauge keep their types. The gauge counts no      *)
(* connection that is not in the registry; it does fall below their        *)
(* number, for good, when a send has failed and the handler of the same    *)
(* client returns as well.                                                 *)
HubTypeOK ==
  /\ sock \in [Clients -> {"new", "open", "gone", "closed"}]
  /\ conns \subseteq setup.clients
  /\ \A c \in Clients : inbox[c] \in Seq(1..Len(wire))
  /\ heard \in 0..Len(wire)
  /\ since \in [Clients -> 0..heard]
  /\ fan.todo \subseteq setup.clients /\ fan.dead \subseteq setup.clients
  /\ fan.busy \in BOOLEAN
  /\ gauge \in Int /\ gauge <= Cardinality(conns)
  /\ listener \in {"on", "off"}

(* A client that is connected has got every message that the hub took      *)
(* since it joined, each once, in the order of publication, but for the    *)
(* one that is being sent to it: joining or leaving in the middle of a     *)
(* fan-out costs nobody a message (ws_manager.py:57-82).                   *)
NothingSkipped ==
  \A c \in Clients : sock[c] = "open" =>
    /\ c \in conns
    /\ inbox[c] = [i \in 1..(heard - since[c] - IF c \in fan.todo THEN 1 ELSE 0)
                     |-> since[c] + i]

(* As long as the listener lives, every client that stays gets everything  *)
(* that was published since it joined: a slow or dead client delays the    *)
(* others, it does not cut them off.                                       *)
EveryoneHears ==
  \A c \in Clients :
    <>[](sock[c] = "open" /\ listener = "on" => Len(inbox[c]) = Len(wire) - since[c])
=============================================================================
