---------------------------- MODULE ScanDelivery ----------------------------
(***************************************************************************)
(* From the pipeline to the page: the run of a scan (ScanStream), the hub  *)
(* that passes its events on (WsHub) and the cached answers to the         *)
(* requests for its results (ResultCaches), joined by the database and     *)
(* Redis (ScanResults).                                                    *)
(***************************************************************************)
EXTENDS ScanStream, WsHub, ResultCaches

vars == <<results, streamVars, hubVars, cacheVars>>

Init == ResultsInit /\ StreamInit /\ HubInit /\ CachesInit

Next ==
  \/ StreamNext /\ UNCHANGED <<hubVars, cacheVars>>
  \/ HubNext /\ UNCHANGED <<results, streamVars, cacheVars>>
  \/ CachesNext /\ UNCHANGED <<streamVars, hubVars>>

Spec == Init /\ [][Next]_vars

FairSpec == Spec /\ StreamFairness /\ HubFairness /\ CachesFairness

TypeOK == StreamTypeOK /\ HubTypeOK /\ CachesTypeOK
=============================================================================
