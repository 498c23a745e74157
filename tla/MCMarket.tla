------------------------------- MODULE MCMarket -------------------------------
(* StockSync as in MCSync, and beside it what else the program keeps of    *)
(* the market: the universe of a scan, the bars of a symbol and its price. *)
(* The four share no state; a behaviour is one of one of them. The first   *)
(* is asked twice: one requested job and all others for what must happen,  *)
(* two requested jobs for what they do to each other.                      *)
EXTENDS MCSync, Universe, MarketData, PriceCache

CONSTANTS cA, cB, cC, code, x1, x2, r1, r2, p1, p2

(* A is in every hardcoded list, B comes and goes on NSE, and the API of   *)
(* BSE knows C by a scrip code.                                            *)
mc_BseSymbol == (cA :> cA) @@ (cB :> cB) @@ (cC :> code)
mc_Master    == {<<cA, "NSE">>, <<cC, "BSE">>}

(* A scan (its weekly bars are kept as the daily ones are) and a chart. *)
mc_Requests == {<<"4h", "1d">>, <<"1d">>}

mc_Timeout == (p1 :> 1) @@ (p2 :> 2)

VARIABLE part

mc_vars == <<vars, uvars, dvars, pvars, part>>

OneRequested == pc'[u2] = "idle"

(* Two jobs for NSE alone and what decides about membership. Beat does not *)
(* get its turn here, so these behaviours are not fair: nothing that must  *)
(* happen is asked of them.                                                *)
OnlyMembership ==
  /\ Present' \subseteq Nse
  /\ pc'[Beat] = "idle" /\ current' = NoJob
  /\ \A j \in Syncs : asked'[j] \subseteq Membership

MCInit ==
  /\ part \in {"sync", "flags", "universe", "bars", "price"}
  /\ Init /\ UniverseInit /\ DataInit /\ PriceInit

MCNext ==
  /\ \/ /\ part = "sync" /\ Next /\ OneRequested
        /\ UNCHANGED <<uvars, dvars, pvars>>
     \/ /\ part = "flags" /\ Next /\ OnlyMembership
        /\ UNCHANGED <<uvars, dvars, pvars>>
     \/ part = "universe" /\ UniverseNext /\ UNCHANGED <<vars, dvars, pvars>>
     \/ part = "bars" /\ DataNext /\ UNCHANGED <<vars, uvars, pvars>>
     \/ part = "price" /\ PriceNext /\ UNCHANGED <<vars, uvars, dvars>>
  /\ UNCHANGED part

(* The types of the four parts. *)
MCTypeOK == TypeOK /\ UniverseTypeOK /\ DataTypeOK /\ PriceTypeOK

MCSpec == MCInit /\ [][MCNext]_mc_vars /\ Fairness
=============================================================================
