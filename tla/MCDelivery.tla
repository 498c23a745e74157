----------------------------- MODULE MCDelivery -----------------------------
(* Instances of ScanDelivery: one for each question, chosen in Init.        *)
EXTENDS ScanDelivery

CONSTANTS s1, s2, c1, c2, r1, r2

Setup(symbols, clients, readers, keys, faults) ==
  [symbols |-> symbols, clients |-> clients, readers |-> readers,
   keys |-> keys, faults |-> faults]

Run(symbols, faults) == Setup(symbols, {}, {}, {}, faults)
Sockets(clients, faults) == Setup({s1}, clients, {}, {}, faults)
Requests(key, symbols, readers, faults) == Setup(symbols, {}, readers, {key}, faults)

MCSetups ==
  { Run({s1, s2}, {"slow"}),
    Run({s1, s2}, {"slow", "here"}),
    Run({s1, s2}, {"errors"}),
    Run({s1, s2}, {"redis"}),
    Run({s1, s2}, {"slow", "cancel"}),
    Run({s1, s2}, {"cancel", "expiry"}),
    Run({s1}, {"cancel", "errors"}),
    Sockets({c1, c2}, {}),
    Sockets({c1}, {"deaf"}),
    Requests("list", {s1}, {r1, r2}, {}),
    Requests("list", {s1}, {r1}, {"replica", "errors"}),
    Requests("counts", {s1, s2}, {r1}, {}),
    Requests("counts", {s1}, {r1}, {"cancel"}),
    Requests("stats", {s1}, {r1}, {"replica"}) }
=============================================================================
