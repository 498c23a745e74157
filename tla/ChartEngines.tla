---------------------------- MODULE ChartEngines ----------------------------
(***************************************************************************)
(* The engines that look at one chart, day after day:                      *)
(*   core/analysis/indicators.py          swing points                     *)
(*   core/analysis/ema_engine.py          the ribbon of averages, and the  *)
(*                                        correction that led to today     *)
(*   core/analysis/structure_engine.py    trend, correction, phase         *)
(*   core/analysis/contraction_engine.py  the score of the gate            *)
(* SignalRules takes what they say as an input; here it is computed.       *)
(*                                                                         *)
(* A bar carries the columns that pandas computes from the bars before it: *)
(* the averages (0 while there are too few bars), the ATR, the ADX and the *)
(* width of the Bollinger bands (Missing while there are too few). They do *)
(* not change when bars are added.                                         *)
(* Scores are whole numbers 0..100, rounded down; spreads are thousandths  *)
(* of the price.                                                           *)
(***************************************************************************)
EXTENDS GateRange, FiniteSetsExt

CONSTANTS
  EngineBars, (* the bars: high, low, close, volume, ema, atr, adx, width  *)
  EngineDays, (* bound: bars in a chart                                    *)
  Lengths     (* the windows of the engines, in bars                       *)

Periods == {20, 50, 100, 200}
Missing == -1

(* swing   left and right of a swing point, 3                              *)
(* prior   before a high, 20; leg: for a correction, 50; full: for the     *)
(*         engines as a whole, 210; memory: for past touches, 500          *)
(* look    BB_LOOKBACK and ATR_LOOKBACK, 100                               *)
(* now, before   of the trend of the spread, 5 and 20                      *)
(* slope   of the averages, 10; narrow: NR_LOOKBACK, 5; atr: 14            *)
(* short, long, recent   of the volumes, 10, 50 and 3                      *)
WindowNames == {"swing", "prior", "leg", "full", "memory", "look", "now", "before", "slope",
                "narrow", "atr", "short", "long", "recent"}

ASSUME EngineAssumption ==
  /\ \A b \in EngineBars :
       /\ b.low \in Nat \ {0} /\ b.close \in Nat /\ b.high \in Nat
       /\ b.low <= b.close /\ b.close <= b.high
       /\ b.ema \in [Periods -> Nat]
       /\ \A p, q \in Periods : p < q /\ b.ema[q] > 0 => b.ema[p] > 0
       /\ b.volume \in Nat /\ {b.atr, b.adx, b.width} \subseteq Nat \cup {Missing}
  /\ EngineDays \in Nat
  /\ Lengths \in [WindowNames -> Nat \ {0}]
  /\ Lengths.recent < Lengths.short /\ Lengths.short <= Lengths.long

VARIABLE bars (* the daily chart up to today *)

Past(s, n) == (Larger(0, Len(s) - n) + 1)..Len(s)  (* the last n bars *)
Within(x, lo, hi) == Larger(lo, Smaller(hi, x))
Off(x, y) == IF x >= y THEN x - y ELSE y - x

(***************************************************************************)
(* Swing points.                                                           *)
(***************************************************************************)
SwingHighs(s) ==
  {i \in (Lengths.swing + 1)..(Len(s) - Lengths.swing) :
     \A d \in 1..Lengths.swing : s[i].high > s[i - d].high /\ s[i].high > s[i + d].high}

SwingLows(s) ==
  {i \in (Lengths.swing + 1)..(Len(s) - Lengths.swing) :
     \A d \in 1..Lengths.swing : s[i].low < s[i - d].low /\ s[i].low < s[i + d].low}

(***************************************************************************)
(* The ribbon.                                                             *)
(***************************************************************************)
Known(b) == \A p \in Periods : b.ema[p] > 0  (* survives dropna *)

(* stack_state *)
Stack(s) ==
  LET e == Last(s).ema
  IN  IF ~Known(Last(s)) THEN "unknown"
      ELSE IF e[20] > e[50] /\ e[50] > e[100] /\ e[100] > e[200] THEN "bullish"
      ELSE IF e[20] < e[50] /\ e[50] < e[100] /\ e[100] < e[200] THEN "bearish"
      ELSE "mixed"

(* ema_200_slope: the sign of the regression over the last n values.       *)
Slope200(s) ==
  LET n == 2 * Lengths.slope
      I == {i \in Past(s, n) : s[i].ema[200] > 0}
  IN  IF Cardinality(I) < n THEN 0
      ELSE SumFunction([i \in I |-> (2 * (i - Len(s)) + n - 1) * s[i].ema[200]])

Begun(b) == {p \in Periods : b.ema[p] > 0}

(* max(axis=1) and min(axis=1) skip an average that has no value yet: the  *)
(* spread of a young bar is that of the faster averages alone.             *)
Spread(b) ==
  LET es == {b.ema[p] : p \in Begun(b)}
  IN  (1000 * (Max(es) - Min(es))) \div b.close

(* The last bars that have a value, and of these the share, in percent,    *)
(* with a value below that of today; 100 while there are too few.          *)
Percentile(s, value) ==
  LET I == DOMAIN value
  IN  IF Cardinality(I) < Lengths.look THEN 100
      ELSE (100 * Cardinality({i \in I : value[i] < value[Len(s)]})) \div Lengths.look

(* compression_percentile *)
Tightness(s) == Percentile(s, [i \in {j \in Past(s, Lengths.look) : Begun(s[j]) # {}} |-> Spread(s[i])])

(* 100 at percentile 0, nothing above BB_SQUEEZE_PERCENTILE. *)
SqueezeScore(pct) == IF pct <= 20 THEN 100 - 5 * pct ELSE 0
CompressionScore(s) == SqueezeScore(Tightness(s))

IsTight(s) == Tightness(s) <= 20

(* convergence_signal: the last bars against those before them, of the     *)
(* bars that have all four averages.                                       *)
SpreadTrend(s) ==
  LET K == {i \in Past(s, Lengths.now + Lengths.before) : Known(s[i])}
      R == K \cap Past(s, Lengths.now)
      spread == [i \in K |-> Spread(s[i])]
      recent == SumFunctionOnSet(spread, R) * Cardinality(K \ R)
      before == SumFunctionOnSet(spread, K \ R) * Cardinality(R)
  IN  IF before = 0 THEN "unknown"
      ELSE IF 100 * recent < 85 * before THEN "tightening"
      ELSE IF 100 * recent > 115 * before THEN "widening"
      ELSE "flat"

Converging(s) == IsTight(s) /\ SpreadTrend(s) = "tightening"

(* correction_level: the average that is nearest, relative to its own      *)
(* value; the fastest of several. (The exception for monthly charts cannot *)
(* occur, they are not scanned.)                                           *)
CorrectionLevel(s) ==
  LET close == Last(s).close
      e     == Last(s).ema
      P     == Begun(Last(s))
      Nearer(p, q) == Off(close, e[p]) * e[q] < Off(close, e[q]) * e[p]
      best  == Min({p \in P : \A q \in P : ~Nearer(q, p)})
  IN  IF P = {} THEN [ema |-> 0, phase |-> "unknown"]
      ELSE [ema   |-> best,
            phase |-> IF 1000 * Off(close, e[best]) <= 15 * e[best] THEN "at_ema"
                      ELSE IF close >= e[best] THEN "above" ELSE "below"]

(* Within 3 %, twice EMA_TOUCH_TOLERANCE. *)
Touches(x, e) == e > 0 /\ 1000 * Off(x, e) <= 30 * e

(* bounce_sequence_valid: each average above this one was touched by some  *)
(* close before today, in the last "memory" bars (the first bar of the     *)
(* chart is never looked at).                                              *)
BounceSequence(s, ema) ==
  \A p \in Periods : p < ema =>
    \E i \in Past(s, Smaller(Lengths.memory, Len(s) - 1)) \ {Len(s)} :
      Touches(s[i].close, s[i].ema[p])

(***************************************************************************)
(* The last correction.                                                    *)
(***************************************************************************)
(* _has_genuine_prior_trend: from the swing low before the high at h, 3    *)
(* ATR; without enough history it is assumed.                              *)
GenuineTrend(s, h) ==
  LET lows == SwingLows(SubSeq(s, 1, h - 1))
  IN  \/ h - 1 < Lengths.prior \/ lows = {} \/ s[h].atr <= 0
      \/ s[h].high - s[Max(lows)].low >= 3 * s[h].atr

TouchesEMA200(b) ==
  b.ema[200] > 0 /\ (Touches(b.low, b.ema[200]) \/ b.close <= b.ema[200])

NoLeg == [validated |-> TRUE, high |-> 0, low |-> 0]

(* Mutant: the high is looked for in the whole chart. *)
LegHigh_Whole(s, low) ==
  LET highs == SwingHighs(s) IN IF highs = {} THEN 0 ELSE Max(highs)

(* The last swing high of the chart that ends before the low: one that the *)
(* bars up to there confirm.                                               *)
LegHigh(s, low) ==
  LET highs == SwingHighs(SubSeq(s, 1, low - 1)) IN IF highs = {} THEN 0 ELSE Max(highs)

(* validate_correction_leg *)
Leg(s) ==
  LET lows == SwingLows(s)
      low  == Max(lows)
      high == LegHigh(s, low)
  IN  IF Len(s) < Lengths.leg \/ Stack(s) # "bullish" \/ lows = {} THEN NoLeg
      ELSE IF high = 0 \/ low <= high THEN NoLeg
      ELSE [validated |-> GenuineTrend(s, high)
                          /\ \E i \in high..low : TouchesEMA200(s[i]),
            high |-> s[high].high, low |-> s[low].low]

(* correction_age: the bars since the last confirmed swing high, 0 without *)
(* one.                                                                    *)
CorrectionAge(s) ==
  LET highs == SwingHighs(s)
  IN  IF Len(s) < Lengths.prior \/ highs = {} THEN 0 ELSE Len(s) - Max(highs)

(***************************************************************************)
(* Trend and phase.                                                        *)
(***************************************************************************)
(* _slope, its sign; 0 while there are too few values.                     *)
Rise(s, p) ==
  LET n == Lengths.slope
  IN  IF Len(s) <= n \/ s[Len(s) - n].ema[p] = 0 THEN 0
      ELSE Last(s).ema[p] - s[Len(s) - n + 1].ema[p]

TrendDirection(s) ==
  IF Len(s) < Lengths.leg THEN "range"
  ELSE IF Rise(s, 50) > 0 /\ Rise(s, 100) > 0 THEN "up"
  ELSE IF Rise(s, 50) < 0 /\ Rise(s, 100) < 0 THEN "down"
  ELSE "range"

(* Mutant: the strength is not capped. *)
TrendStrength_Open(s) ==
  IF Len(s) < Lengths.leg \/ Last(s).adx = Missing THEN 0 ELSE (Last(s).adx * 3) \div 2

TrendStrength(s) ==
  IF Len(s) < Lengths.leg \/ Last(s).adx = Missing THEN 0
  ELSE Smaller(100, (Last(s).adx * 3) \div 2)

(* ema_engine.analyze answers with defaults below 210 bars. *)
EMAView(s) ==
  IF Len(s) < Lengths.full
  THEN [converging |-> FALSE, score |-> 0, level |-> [ema |-> 0, phase |-> "unknown"]]
  ELSE [converging |-> Converging(s), score |-> CompressionScore(s),
        level |-> CorrectionLevel(s)]

(* correction_type *)
CorrectionType(s) ==
  LET view == EMAView(s)
  IN  IF Len(s) < Lengths.leg THEN "none"
      ELSE IF view.converging /\ Last(s).ema[50] > 0 THEN "time"
      ELSE IF view.level.phase = "at_ema" THEN "price"
      ELSE "none"

Phase(s) ==
  IF EMAView(s).converging \/ EMAView(s).score >= 70 THEN "contracting"
  ELSE IF CorrectionType(s) \in {"price", "time"} THEN "correcting"
  ELSE IF TrendDirection(s) # "range" /\ TrendStrength(s) >= 35 THEN "trending"
  ELSE "transitioning"

(* structure_quality; respect is how near the closes are to the EMA50.     *)
StructureQuality(s) ==
  LET I       == Past(s, Lengths.prior)
      dev     == SumFunction([i \in I |-> (1000 * Off(s[i].close, s[i].ema[50])) \div s[i].ema[50]])
                   \div Cardinality(I)
      respect == IF \E i \in I : s[i].ema[50] = 0 THEN 50 ELSE Within(100 - dev, 0, 100)
      clean   == IF Stack(s) \in {"bullish", "bearish"} THEN 100 ELSE 40
  IN  IF Len(s) < Lengths.leg THEN 0
      ELSE (40 * clean + 35 * TrendStrength(s) + 25 * respect) \div 100

(***************************************************************************)
(* The score of the gate.                                                  *)
(***************************************************************************)
(* 100 for a ratio a : b of at most 1 - w/100, 0 from 1 on.                *)
Below(a, b, w) == Within((100 * (100 * b - 100 * a)) \div (w * b), 0, 100)

WidthScore(s) ==
  SqueezeScore(Percentile(s, [i \in {j \in Past(s, Lengths.look) : s[j].width # Missing} |-> s[i].width]))

ATRScore(s) ==
  LET pct == Percentile(s, [i \in {j \in Past(s, Lengths.look) : s[j].atr # Missing} |-> s[i].atr])
  IN  IF pct <= 25 THEN 100 - 4 * pct ELSE 0

NarrowScore(s) ==
  LET n == Lengths.narrow
      range == SumFunction([i \in Past(s, n) |-> s[i].high - s[i].low])
  IN  IF Len(s) < n + Lengths.atr \/ Last(s).atr <= 0 THEN 0
      ELSE Below(range, n * Last(s).atr, 40)

Volume(s, I) == SumFunction([i \in I |-> s[i].volume])

(* Mean volume of the last short bars against the last long ones.          *)
DryUp(s, w) ==
  LET long == Volume(s, Past(s, Lengths.long))
  IN  IF Len(s) < Lengths.long \/ long = 0 THEN 0
      ELSE Below(Lengths.long * Volume(s, Past(s, Lengths.short)), Lengths.short * long, w)

(* 100 for an ADX of 15, 0 for 35. *)
ADXScore(s) == IF Last(s).adx = Missing THEN 0 ELSE Within(175 - 5 * Last(s).adx, 0, 100)

(* CONTRACTION_WEIGHTS *)
Consolidation(s) ==
  (22 * WidthScore(s) + 18 * ATRScore(s) + 22 * CompressionScore(s)
     + 13 * NarrowScore(s) + 13 * DryUp(s, 60) + 12 * ADXScore(s)) \div 100

(* The last bars against the rest of the short window: [recent, base],     *)
(* brought to the same number of bars.                                     *)
Pickup(s) ==
  LET last == Past(s, Lengths.recent)
      rest == Past(s, Lengths.short) \ last
  IN  [recent |-> Volume(s, last) * Cardinality(rest),
       base   |-> Volume(s, rest) * Lengths.recent]

(* _volume_pattern: 50 without a verdict. *)
VolumePattern(s) ==
  LET v == Pickup(s)
      buildup == IF v.base = 0 THEN 0
                 ELSE Within((200 * (v.recent - v.base)) \div v.base, 0, 100)
  IN  IF Len(s) < Lengths.long \/ Volume(s, Past(s, Lengths.long)) = 0 THEN 50
      ELSE (DryUp(s, 50) + buildup) \div 2

VolumeBuildup(s) ==
  /\ Len(s) >= Lengths.long /\ Pickup(s).base > 0
  /\ 100 * Pickup(s).recent >= 115 * Pickup(s).base

(* breakout_state: proximity_score. *)
Proximity(s) ==
  LET box == Box(s)  close == Last(s).close
      below == box.high - close
  IN  CASE BreakoutState(s, box) = "BUY_ZONE" -> 100 - (20 * 25 * below) \div box.high
        [] BreakoutState(s, box) = "ACCUMULATION" -> Larger(0, 70 - (280 * below) \div box.high)
        [] BreakoutState(s, box) = "BREAKOUT_CONFIRMED" -> 100
        [] BreakoutState(s, box) = "EXTENDED" -> 10
        [] OTHER -> 0

(* Mutant: the weights before the rework, without the volume. *)
GateScore_Proximity(s) ==
  IF Len(s) < Lengths.full THEN 0 ELSE (50 * Consolidation(s) + 50 * Proximity(s)) \div 100

(* gate_score, GATE_TF_WEIGHTS *)
GateScore(s) ==
  IF Len(s) < Lengths.full THEN 0
  ELSE (50 * Consolidation(s) + 25 * Proximity(s) + 25 * VolumePattern(s)) \div 100

GateShut(s) == GateScore(s) >= 45

(* The middle of the Bollinger bands decides when the stack does not.      *)
DirectionBias(s) ==
  LET n == Lengths.prior
  IN  IF Stack(s) \in {"bullish", "bearish"} THEN Stack(s)
      ELSE IF Len(s) < n THEN "neutral"
      ELSE IF n * Last(s).close > SumFunction([i \in Past(s, n) |-> s[i].close])
      THEN "bullish" ELSE "bearish"

(* breakout_probability: -20 % to +30 % for the volume, 10 % for the stack.*)
BreakoutProbability(s) ==
  LET n == Lengths.prior
      base == Volume(s, Past(s, n)) * Lengths.recent
      pick == Volume(s, Past(s, Lengths.recent)) * n
      factor == IF Len(s) < n \/ base = 0 THEN 100
                ELSE 100 + Within((50 * (pick - base)) \div base, -20, 30)
      stack == IF Stack(s) \in {"bullish", "bearish"} THEN 110 ELSE 90
  IN  Smaller(100, (GateScore(s) * factor * stack) \div 10000)

(* fibonacci_levels in thousandths; none for a leg that does not descend.  *)
FibonacciLevels(high, low) ==
  IF high <= low THEN {}
  ELSE {1000 * high - r * (high - low) : r \in {236, 382, 500, 618, 786}}

(* leading_timeframe, for the daily chart. *)
Leads(s) ==
  \/ GateShut(s) \/ BreakoutProbability(s) >= 60
  \/ BreakoutState(s, Box(s)) = "BREAKOUT_CONFIRMED"

(* analyze_timeframe: what the signal rules are told.                      *)
AnalyzeTimeframe(s) ==
  [stack |-> IF Len(s) < Lengths.full THEN "unknown" ELSE Stack(s),
   trend |-> TrendDirection(s),
   bias  |-> IF Len(s) < Lengths.full THEN "neutral" ELSE DirectionBias(s),
   score |-> GateScore(s), probability |-> BreakoutProbability(s),
   phase |-> Phase(s), quality |-> StructureQuality(s), age |-> CorrectionAge(s),
   falling |-> Len(s) >= Lengths.full /\ Slope200(s) < 0,
   sequence |-> Len(s) >= Lengths.full => BounceSequence(s, CorrectionLevel(s).ema),
   corrected |-> Len(s) >= Lengths.full => Leg(s).validated]

(***************************************************************************)
(* Day after day.                                                          *)
(***************************************************************************)
EngineInit == bars = <<>>

(* The next bar: an average or another column that has begun does not end. *)
NextBar ==
  /\ Len(bars) < EngineDays
  /\ \E b \in EngineBars :
       /\ bars # <<>> => /\ Begun(Last(bars)) \subseteq Begun(b)
                         /\ \A column \in {"atr", "adx", "width"} :
                              Last(bars)[column] # Missing => b[column] # Missing
       /\ bars' = Append(bars, b)

EngineSpec == EngineInit /\ [][NextBar]_bars

(***************************************************************************)
(* Properties.                                                             *)
(***************************************************************************)
(* The scores stay in their range: the weights sum up to one and no ratio  *)
(* leaves its bounds (config.py, contraction_engine.py:174-240).           *)
EngineTypeOK ==
  /\ bars \in Seq(EngineBars)
  /\ bars # <<>> =>
       LET a == AnalyzeTimeframe(bars)
           leg == Leg(bars)
       IN  /\ {a.score, a.probability, a.quality, Consolidation(bars),
               VolumePattern(bars), Proximity(bars)} \subseteq 0..100
           /\ a.phase \in {"contracting", "correcting", "trending", "transitioning"}
           /\ a.age \in 0..Len(bars)
           /\ {a.falling, a.sequence, a.corrected, Leads(bars), VolumeBuildup(bars)} \subseteq BOOLEAN
           /\ \A f \in FibonacciLevels(leg.high, leg.low) :
                1000 * leg.low < f /\ f < 1000 * leg.high

(* What was said about the past is not revised: a day confirms at most the *)
(* swing point that is "swing" bars old and takes none back                *)
(* (indicators.py:157-175); and as long as the averages are stacked and no *)
(* new low is confirmed, the verdict on the last correction and its prices *)
(* stay (ema_engine.py:352-418): new highs do not reopen it.               *)
PastStays ==
  [][ /\ SwingHighs(bars) \subseteq SwingHighs(bars')
      /\ SwingHighs(bars') \ SwingHighs(bars) \subseteq {Len(bars') - Lengths.swing}
      /\ /\ Len(bars) >= Lengths.leg
         /\ Stack(bars) = "bullish" /\ Stack(bars') = "bullish"
         /\ SwingLows(bars') = SwingLows(bars)
         => Leg(bars') = Leg(bars) ]_bars

(* What the engines call a shut gate is a contraction.                     *)
(*   - "So the two engines never disagree about whether a stock's gate is  *)
(*     shut" (ema_engine.py:96-99): a ribbon that converges is a phase of  *)
(*     contraction and scores as compressed. Only at percentile 20 itself  *)
(*     it is tight and scores nothing.                                     *)
(*   - A gate is not shut by where the price stands and by a volume that   *)
(*     returns: together they give 37.5 of 45 points, the rest takes a     *)
(*     base that dried up (contraction_engine.py:38-71, 133-144, 220-225). *)
ShutGateContracts ==
  bars # <<>> =>
    /\ EMAView(bars).converging =>
         /\ Phase(bars) = "contracting" /\ Begun(Last(bars)) # {}
         /\ CompressionScore(bars) > 0 \/ Tightness(bars) = 20
    /\ GateShut(bars) => Consolidation(bars) > 0
=============================================================================
