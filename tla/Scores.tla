-------------------------------- MODULE Scores --------------------------------
(***************************************************************************)
(* The two numbers a signal is sorted and shown by:                        *)
(*   core/analysis/signal_engine.py   gate strength and confidence         *)
(*   core/ranking/ranking_engine.py   the rank                             *)
(* In the classifier the rank is one of the inputs of SignalRules.         *)
(* Scores are whole numbers 0..100, rounded down.                          *)
(***************************************************************************)
EXTENDS SignalRules

(* Mutant: in a tie nobody disagrees. *)
Alignment_Tie(c) ==
  IF Dominant(c) = "neutral" THEN 100
  ELSE (100 * Cardinality({tf \in Timeframes : Direction(c, tf) = Dominant(c)}))
         \div Cardinality(c.data)

(* alignment_pct: of the charts with data, the share on the dominant side, *)
(* whichever side that is; nothing for a tie.                              *)
Alignment(c) ==
  IF Dominant(c) = "neutral" THEN 0
  ELSE (100 * Cardinality({tf \in Timeframes : Direction(c, tf) = Dominant(c)}))
         \div Cardinality(c.data)

(* htf_confirmed: the weekly chart goes the way of the daily one. *)
Confirmed(c) == Direction(c, "1d") # "neutral" /\ Direction(c, "1wk") = Direction(c, "1d")

(* GATE_WEIGHTS *)
GateStrength(c) == (60 * c.score + 40 * Alignment(c)) \div 100

(* The ratio of T2, full at 5. *)
Reward(sig) == Smaller(100, (20 * (sig.t2 - sig.entry)) \div (sig.entry - sig.sl))

(* A breakout that was just confirmed (breakout_state) is fully ready. *)
Readiness == 100

(* composite_score, RANK_WEIGHTS *)
CompositeScore(c, sig) ==
  LET base == 55 * GateStrength(c) + 25 * Readiness + 20 * Reward(sig)
  IN  Smaller(100, (base * (IF Confirmed(c) THEN 108 ELSE 100)) \div 10000)

(* _fib_confluence: the entry within 3 % of itself of one of the three     *)
(* middle retracements of the leg; none without a leg.                     *)
FibConfluence(entry, high, low) ==
  /\ 0 < low /\ low < high
  /\ \E r \in {382, 500, 618} :
       LET level == 1000 * high - r * (high - low)
           off   == IF 1000 * entry >= level THEN 1000 * entry - level ELSE level - 1000 * entry
       IN  100 * off <= 3 * 1000 * entry

(* _confidence: 10 % for the weekly chart, 8 % for a sequence that skipped *)
(* an average and for a retracement.                                       *)
Confidence(c, quality, sequence, fib) ==
  LET base == 30 * GateStrength(c) + 25 * Alignment(c) + 20 * quality + 25 * Readiness
      factor == 100 + (IF Confirmed(c) THEN 10 ELSE 0) - (IF sequence THEN 0 ELSE 8)
                    + (IF fib THEN 8 ELSE 0)
  IN  Smaller(100, (base * factor) \div 10000)

(***************************************************************************)
(* Properties.                                                             *)
(***************************************************************************)
TurnedUp(c, tf) == [c EXCEPT !.stack[tf] = "up", !.trend[tf] = "up", !.bias[tf] = "up"]

(* A chart with data that turns up never lowers the rank or the confidence *)
(* of a buy, even if most charts were down before, when their agreement    *)
(* counts for the buy (multi_timeframe.py:74-114).                         *)
BetterChartsRankHigher ==
  signal # NoSignal =>
    \A tf \in ctx.data :
      LET better == TurnedUp(ctx, tf)
      IN  /\ CompositeScore(better, signal) >= CompositeScore(ctx, signal)
          /\ \A q \in {0, 100}, sequence, fib \in BOOLEAN :
               Confidence(better, q, sequence, fib) >= Confidence(ctx, q, sequence, fib)
=============================================================================
