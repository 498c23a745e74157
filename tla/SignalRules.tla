----------------------------- MODULE SignalRules -----------------------------
(***************************************************************************)
(* From a daily chart to one of the five lists: the rules that the scan    *)
(* applies to one symbol, day after day.                                   *)
(*   core/analysis/multi_timeframe.py   the trend on the three timeframes  *)
(*   core/analysis/signal_engine.py     the conditions of a BUY signal     *)
(*   agents/risk_agent.py               its last check                     *)
(*   core/ranking/classifier.py         the list the symbol is put on      *)
(*                                                                         *)
(* The chart is analysed by GateRange. What the indicator engines compute  *)
(* from prices and volumes (moving averages, slope, scores) is a record    *)
(* ctx that is chosen anew every day. Targets are counted in 1/40000 of    *)
(* the price unit, so that the factors 1.272, 1.618, 2.618 and the 0.5 %   *)
(* buffer of the stop loss are exact; a maximum that needs a finer unit is *)
(* rounded down.                                                           *)
(***************************************************************************)
EXTENDS GateRange

CONSTANTS
  Contexts,   (* what the indicator engines say on a day                   *)
  MaxDays,    (* bound: bars in a chart                                    *)
  ExpiryBars, (* SETUP_EXPIRY_BARS                                         *)
  MinPrice,   (* MIN_PRICE                                                 *)
  MaxFailures (* LEVEL_FRESHNESS_MAX_FAILURES                              *)

(* SCAN_TIMEFRAMES: the stop loss, the entry and the confirmation. A       *)
(* timeframe without data (its download failed, or there are no such bars) *)
(* has no votes.                                                           *)
Timeframes == {"4h", "1d", "1wk"}
Directions == {"up", "down", "neutral"}

(* ctx.data holds the timeframes with data, the daily one among them;      *)
(* ctx.stack, ctx.trend and ctx.bias hold the three votes of a timeframe,  *)
(* ema200 and ema4h the EMA200 of the daily and of the 4h chart (0 when    *)
(* there is none), ema20 the fast one; rank and score are 0..100.          *)
ContextOK(c) ==
  /\ {"data", "stack", "trend", "bias", "score"} \subseteq DOMAIN c
  /\ c.data \subseteq Timeframes /\ "1d" \in c.data
  /\ \A tf \in Timeframes \ c.data :
       c.stack[tf] = "neutral" /\ c.trend[tf] = "neutral" /\ c.bias[tf] = "neutral"
  /\ c.stack \in [Timeframes -> Directions]
  /\ c.trend \in [Timeframes -> Directions]
  /\ c.bias \in [Timeframes -> Directions]
  /\ c.ema200 \in Nat /\ c.ema4h \in Nat /\ c.ema20 \in Nat
  /\ c.score \in 0..100 /\ c.rank \in 0..100
  /\ c.long4h \in BOOLEAN     (* the 4h chart has the 210 bars ema_engine needs *)
  /\ c.volume \in BOOLEAN     (* volume_buildup                            *)
  /\ c.wide \in BOOLEAN       (* the candle is wide against the ATR        *)
  /\ c.corrected \in BOOLEAN  (* correction_validated                      *)
  /\ c.falling \in BOOLEAN    (* ema_200_slope < 0                         *)

ASSUME SignalAssumption ==
  /\ \A c \in Contexts : ContextOK(c)
  /\ MaxDays \in Nat /\ ExpiryBars \in Nat /\ MinPrice \in Nat /\ MaxFailures \in Nat

VARIABLES
  chart,     (* the daily bars up to today                                 *)
  ctx,       (* today's context                                            *)
  signal,    (* today's signal, or NoSignal                                *)
  category   (* the list the symbol is on                                  *)

vars == <<chart, ctx, signal, category>>

(***************************************************************************)
(* The trend.                                                              *)
(***************************************************************************)
Majority(ups, downs) ==
  IF ups > downs THEN "up" ELSE IF downs > ups THEN "down" ELSE "neutral"

Votes(c, tf, d) ==
  Cardinality({v \in {"stack", "trend", "bias"} : c[v][tf] = d})

(* _direction *)
Direction(c, tf) == Majority(Votes(c, tf, "up"), Votes(c, tf, "down"))

(* alignment_score: dominant_direction *)
Dominant(c) ==
  Majority(Cardinality({tf \in Timeframes : Direction(c, tf) = "up"}),
           Cardinality({tf \in Timeframes : Direction(c, tf) = "down"}))

(* Mutant: a timeframe that was not scanned counts as bearish. *)
Bearish_Absent(c, tf) ==
  tf \in Timeframes => c.stack[tf] = "down" \/ c.trend[tf] = "down"

(* _is_bullish_tf and _is_bearish_tf, FALSE without data. *)
Bullish(c, tf) == tf \in Timeframes /\ (c.stack[tf] = "up" \/ c.trend[tf] = "up")
Bearish(c, tf) == tf \in Timeframes /\ (c.stack[tf] = "down" \/ c.trend[tf] = "down")

(***************************************************************************)
(* Prices of a trade.                                                      *)
(***************************************************************************)
Unit == 40000

(* measured_move_targets for a box of the daily chart, TARGET_EXPECTANCY   *)
(* 70 %.                                                                   *)
T1(box) == 40000 * box.low + 50880 * (box.high - box.low)
T2(box) == LET raw == 40000 * box.low + 64720 * (box.high - box.low)
           IN  Larger(raw, (T1(box) * 201) \div 200)
T3(entry, box) ==
  LET raw == 40000 * box.low + 64720 * (box.high - box.low)
      far == 40000 * box.low + 104720 * (box.high - box.low)
      cap == Larger((entry * 17) \div 10, (raw * 101) \div 100)
  IN  Larger(Smaller(far, cap), (T2(box) * 201) \div 200)

(* 0.5 % below the EMA200 of the 4h chart *)
StopLoss(c) == 39800 * c.ema4h

(* compute_rr(entry, sl, target) >= MIN_RR_RATIO = 1.5; the ratio is 0     *)
(* without a risk.                                                         *)
Repays(entry, sl, target) ==
  entry > sl /\ 2 * (target - entry) >= 3 * (entry - sl)

(* Mutant: the agent does not check the first target. *)
RiskAgent_Trusting(sig) == TRUE

(* RiskManagementAgent.build_signal: "double-check". *)
RiskAgent(sig) ==
  /\ Repays(sig.entry, sig.sl, sig.t1)
  /\ 100 * (sig.entry - sig.sl) <= 8 * sig.entry

(***************************************************************************)
(* The conditions of a BUY signal.                                         *)
(***************************************************************************)
(* GATE_PRICE_MIN_EMA200 and GATE_RANGE_MAX_ABOVE_EMA200 *)
NearEMA200(c, price, low) ==
  c.ema200 > 0 => 100 * price >= 95 * c.ema200 /\ 10 * low <= 11 * c.ema200

(* More than SETUP_EXPIRY_BARS bars in a row, up to yesterday, closed       *)
(* between the EMA200 (less 1.5 %) and the top of the box.                 *)
Expired(s, box, c) ==
  /\ c.ema200 > 0
  /\ Len(s) > ExpiryBars + 1
  /\ \A i \in (Len(s) - 1 - ExpiryBars)..(Len(s) - 1) :
       1000 * s[i].close >= 985 * c.ema200 /\ s[i].close < box.high

IsGate(c) == c.score >= 45

NoSignal == [entry |-> 0, sl |-> 0, t1 |-> 0, t2 |-> 0, t3 |-> 0]

(* generate_signal: every early return, in order. The direction is that of *)
(* the majority of the timeframes or of the daily chart alone.             *)
GenerateSignal(s, c, range) ==
  LET close == Last(s).close
      entry == Unit * close
      box   == range.box
  IN  IF /\ Dominant(c) = "up" \/ Direction(c, "1d") = "up"
         /\ close >= MinPrice
         /\ range.state = "BREAKOUT_CONFIRMED"
         /\ IsGate(c)
         /\ c.volume
         /\ range.failures <= MaxFailures
         /\ NearEMA200(c, close, box.low)
         /\ c.wide
         /\ c.ema4h > 0 /\ StopLoss(c) < entry
         /\ 100 * (entry - StopLoss(c)) <= 8 * entry
         /\ Repays(entry, StopLoss(c), T2(box))
         /\ c.corrected
         /\ ~c.falling
         /\ ~Expired(s, box, c)
      THEN [entry |-> entry, sl |-> StopLoss(c),
            t1 |-> T1(box), t2 |-> T2(box), t3 |-> T3(entry, box)]
      ELSE NoSignal

(* build_signal *)
BuildSignal(s, c, range) ==
  LET sig == GenerateSignal(s, c, range)
  IN  IF sig # NoSignal /\ RiskAgent(sig) THEN sig ELSE NoSignal

(***************************************************************************)
(* classify                                                                *)
(***************************************************************************)
Broken(c) == Bearish(c, "1wk") /\ Bearish(c, "1mo") /\ Bearish(c, "1d")

(* The breakout as if it happened now, at the trigger 0.5 % above the box. *)
Projected(c, box) ==
  LET entry == 40200 * box.high
  IN  /\ c.long4h /\ c.ema4h > 0
      /\ StopLoss(c) < entry
      /\ Repays(entry, StopLoss(c), T2(box))

(* Without a box the fast EMA stands for the price. *)
Positioned(c, box) ==
  IF box.valid THEN NearEMA200(c, box.high, box.low)
  ELSE c.ema20 > 0 => NearEMA200(c, c.ema20, c.ema20)

Watched(c, range) ==
  /\ range.state \in {"ACCUMULATION", "BUY_ZONE", "NO_GATE"}
  /\ IsGate(c) /\ c.corrected /\ ~c.falling
  /\ range.failures <= MaxFailures
  /\ Positioned(c, range.box)
  /\ range.box.valid => Projected(c, range.box)

(* CATEGORY_RULES; the hourly gate score is the daily one's counterpart    *)
(* and 0 while 60m is not scanned.                                         *)
BuyList(c) ==
  IF Bullish(c, "1wk") /\ Bullish(c, "1mo") /\ c.rank >= 70 THEN "INVESTMENT"
  ELSE IF Bullish(c, "1d") /\ c.score >= 55 /\ c.rank >= 60 THEN "SWING"
  ELSE IF Bullish(c, "60m") /\ c.score >= 45 /\ c.rank >= 50 THEN "POSITIONAL"
  ELSE IF Bullish(c, "1d") THEN "SWING"
  ELSE "WATCH"

Classify(c, range, sig) ==
  IF Broken(c) THEN "IGNORE"
  ELSE IF sig = NoSignal THEN (IF Watched(c, range) THEN "WATCH" ELSE "IGNORE")
  ELSE IF Repays(sig.entry, sig.sl, sig.t2) THEN BuyList(c)
  ELSE "IGNORE"

(***************************************************************************)
(* One scan a day.                                                         *)
(***************************************************************************)
(* _analyze_one and rank_and_classify for the chart s on a day with        *)
(* context c.                                                              *)
Scanned(s, c) ==
  LET range == AnalyzeRange(s)
      sig   == BuildSignal(s, c, range)
  IN  /\ chart' = s /\ ctx' = c
      /\ signal' = sig
      /\ category' = Classify(c, range, sig)

Init ==
  /\ chart = <<>>
  /\ ctx \in Contexts
  /\ signal = NoSignal
  /\ category = "IGNORE"

NextDay ==
  /\ Len(chart) < MaxDays
  /\ \E bar \in Bars, c \in Contexts : Scanned(Append(chart, bar), c)

Next == NextDay

Spec == Init /\ [][Next]_vars

(***************************************************************************)
(* Properties.                                                             *)
(***************************************************************************)
(* The variables keep their types; a price of a trade is a natural number  *)
(* of units (signal_engine.py:373).                                        *)
TypeOK ==
  /\ chart \in Seq(Bars) /\ Len(chart) <= MaxDays
  /\ ctx \in Contexts
  /\ DOMAIN signal = {"entry", "sl", "t1", "t2", "t3"}
  /\ \A f \in DOMAIN signal : signal[f] \in Nat
  /\ category \in {"INVESTMENT", "SWING", "POSITIONAL", "WATCH", "IGNORE"}

(* A signal is a trade: the stop lies below the entry and the entry below  *)
(* three rising targets, the first target repays 1.5 times the risk and    *)
(* the stop is at most 8 % away (signal_engine.py:304-317,                 *)
(* risk_agent.py:40-44). The targets come from the box, the stop from the  *)
(* 4h chart and the entry from today's close: nothing but the checks holds *)
(* them in this order.                                                     *)
SignalIsTradable ==
  signal # NoSignal =>
    /\ signal.sl < signal.entry /\ signal.entry < signal.t1
    /\ signal.t1 < signal.t2 /\ signal.t2 < signal.t3
    /\ Repays(signal.entry, signal.sl, signal.t1)
    /\ 100 * (signal.entry - signal.sl) <= 8 * signal.entry

(* Signals on two days in a row are for two different breakouts, the       *)
(* second one at a higher price: after a breakout the box contains its bar *)
(* (range_engine.py:49), so the next close must clear that bar's high.     *)
RepeatedSignalsRise ==
  [][signal # NoSignal /\ signal' # NoSignal => signal'.entry > signal.entry]_vars

(* The maximal runs of bars in I that test the level. *)
TestRuns(s, level, I) ==
  {r \in {a..b : a \in I, b \in I} :
     /\ r # {} /\ \A i \in r : Tests(s[i], level)
     /\ \A i \in I \ r : Tests(s[i], level) => i + 1 \notin r /\ i - 1 \notin r}

(* The failures of a level are the maximal runs of bars that came within   *)
(* 2 % of it without one close above it, among the Freshness bars before   *)
(* the box: neither the box nor the breakout count against their own level *)
(* (range_engine.py:156-222).                                              *)
LevelTestsAgree ==
  chart # <<>> =>
    LET range == AnalyzeRange(chart)
        box   == range.box
        end   == Len(chart) - 1 - box.duration
        I     == {i \in DOMAIN chart : i <= end /\ i > end - Freshness}
    IN  box.valid =>
          range.failures =
            Cardinality({r \in TestRuns(chart, box.high, I) :
                           \A i \in r : chart[i].close <= box.high})

(* A signal is listed and a buy list holds signals only: a symbol whose    *)
(* weekly and daily stacks are bearish while its votes are bullish keeps   *)
(* its signal (classifier.py:105-107), because the monthly chart is never  *)
(* scanned (config.py:326).                                                *)
SignalIsListed ==
  /\ signal # NoSignal => category \in {"SWING", "WATCH"}
  /\ category \notin {"WATCH", "IGNORE"} => signal # NoSignal /\ category = "SWING"
=============================================================================
