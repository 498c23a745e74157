------------------------------ MODULE GateRange ------------------------------
(***************************************************************************)
(* core/analysis/range_engine.py: the consolidation box ("gate") in front  *)
(* of the latest daily bar, where that bar closes with respect to the box, *)
(* and how often the top of the box has been tested without a breakout.    *)
(*                                                                         *)
(* A chart is a sequence of bars, the latest one at the end. Prices are    *)
(* integers and percentages are compared after cross-multiplication. The   *)
(* tightness is left out: nothing reads it. ChartEngines has the proximity *)
(* score, which is part of the score of the gate.                          *)
(***************************************************************************)
EXTENDS Integers, Sequences, FiniteSets

CONSTANTS
  Bars,         (* the daily bars: records with high, low and close        *)
  Windows,      (* RANGE_LOOKBACK and RANGE_LOOKBACK_FALLBACKS, in order   *)
  MinDuration,  (* RANGE_MIN_DURATION                                      *)
  Freshness     (* LEVEL_FRESHNESS_LOOKBACK                                *)

ASSUME RangeAssumption ==
  /\ \A b \in Bars : /\ b.high \in Nat /\ b.low \in Nat /\ b.close \in Nat
                     /\ b.low <= b.close /\ b.close <= b.high
  /\ Windows \in Seq(Nat \ {0})
  /\ MinDuration \in Nat \ {0}
  /\ Freshness \in Nat

Last(s) == s[Len(s)]
Larger(a, b)  == IF a >= b THEN a ELSE b
Smaller(a, b) == IF a <= b THEN a ELSE b

(* Mutant: the bar before the latest one is left out as well. *)
Window_Lagging(s, lb) == (Len(s) - lb)..(Len(s) - 2)

(* The lb bars before the latest one. *)
Window(s, lb) == (Len(s) - lb)..(Len(s) - 1)

Highest(s, I) == CHOOSE p \in {s[i].high : i \in I} : \A i \in I : s[i].high <= p
Lowest(s, I)  == CHOOSE p \in {s[i].low : i \in I} : \A i \in I : s[i].low >= p

(* _try_window: at most 25 % high. *)
Fits(s, lb) ==
  /\ Len(s) >= Larger(lb, MinDuration) + 1
  /\ LET high == Highest(s, Window(s, lb))
         low  == Lowest(s, Window(s, lb))
     IN  /\ low > 0 /\ high > low
         /\ 100 * (high - low) <= 25 * low

NoBox == [valid |-> FALSE, high |-> 0, low |-> 0, duration |-> 0]

Candidates(s) == {i \in DOMAIN Windows : Windows[i] >= MinDuration /\ Fits(s, Windows[i])}

(* detect_consolidation: the first window that fits. *)
Box(s) ==
  IF Candidates(s) = {} THEN NoBox
  ELSE LET i  == CHOOSE i \in Candidates(s) : \A k \in Candidates(s) : i <= k
           lb == Windows[i]
       IN  [valid |-> TRUE, high |-> Highest(s, Window(s, lb)),
            low |-> Lowest(s, Window(s, lb)), duration |-> lb]

(* breakout_state: 4 % below the top of the box begins the buy zone, 3 %   *)
(* above it the breakout is no longer fresh.                               *)
BreakoutState(s, box) ==
  LET close == Last(s).close
  IN  CASE ~box.valid -> "NO_GATE"
        [] box.valid /\ close < box.low -> "BROKEN_DOWN"
        [] box.valid /\ close >= box.low /\ close <= box.high ->
             IF 25 * (box.high - close) <= box.high THEN "BUY_ZONE" ELSE "ACCUMULATION"
        [] box.valid /\ close > box.high ->
             IF 100 * (close - box.high) <= 3 * box.high
             THEN "BREAKOUT_CONFIRMED" ELSE "EXTENDED"

(* A bar tests a level when its high comes within 2 % of it. *)
Tests(bar, level) == 50 * bar.high >= 49 * level

(* Mutant: a test that is under way at the end of the slice is forgotten. *)
FailedTests_NotLast(scan) == scan.tests

FailedTests(scan) == IF scan.inTest /\ ~scan.broke THEN scan.tests + 1 ELSE scan.tests

(* count_level_tests: one pass over the bars start+1..end. *)
LevelTests(s, level, lookback, exclude) ==
  LET end   == Larger(0, Len(s) - exclude)
      start == Larger(0, end - lookback)
      pass[i \in start..end] ==
        IF i = start THEN [tests |-> 0, inTest |-> FALSE, broke |-> FALSE]
        ELSE LET before == pass[i - 1]
                 bar    == s[i]
             IN  IF Tests(bar, level)
                 THEN [tests  |-> before.tests, inTest |-> TRUE,
                       broke  |-> (before.inTest /\ before.broke) \/ bar.close > level]
                 ELSE [tests  |-> FailedTests(before), inTest |-> FALSE,
                       broke  |-> before.broke]
  IN  IF level <= 0 \/ end <= start THEN 0 ELSE FailedTests(pass[end])

(* The box and the latest bar. *)
OwnBars(box) == box.duration + 1

(* analyze_range *)
AnalyzeRange(s) ==
  LET box == Box(s)
  IN  [box      |-> box,
       state    |-> BreakoutState(s, box),
       failures |-> IF box.valid THEN LevelTests(s, box.high, Freshness, OwnBars(box))
                    ELSE 0]
=============================================================================
