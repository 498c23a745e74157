------------------------------ MODULE MCAnalysis ------------------------------
(* The rules on bars around a box of 100..120 and on days that differ from a *)
(* perfect one in one respect; the engines on charts of six other bars. The  *)
(* two do not depend on each other: a behaviour is about one of them.        *)
EXTENDS Scores, ChartEngines, TLC

VARIABLE part

Bar(h, l, c) == [high |-> h, low |-> l, close |-> c]

(* inside the box, near its top, a breakout, a second breakout above that    *)
(* one, the leg of a correction                                              *)
mc_Bars == {Bar(120, 100, 110), Bar(120, 112, 118), Bar(122, 113, 121),
            Bar(126, 118, 125), Bar(150, 125, 130)}

mc_Windows == <<3, 2>>

All(d) == [tf \in Timeframes |-> d]

Perfect ==
  [data |-> Timeframes, stack |-> All("up"), trend |-> All("up"), bias |-> All("up"),
   ema200 |-> 100, ema4h |-> 119, ema20 |-> 105, long4h |-> TRUE,
   score |-> 70, rank |-> 80,
   volume |-> TRUE, wide |-> TRUE, corrected |-> TRUE, falling |-> FALSE]

(* The weekly chart could not be downloaded. *)
NoWeek == [All("up") EXCEPT !["1wk"] = "neutral"]

(* The daily chart alone, against the weekly one. *)
Lone == [tf \in Timeframes |->
           IF tf = "1d" THEN "up" ELSE IF tf = "1wk" THEN "down" ELSE "neutral"]

mc_Contexts ==
  {Perfect,
   [Perfect EXCEPT !.stack = Lone, !.trend = Lone, !.bias = Lone, !.score = 45],
   [Perfect EXCEPT !.data = {"4h", "1d"}, !.stack = NoWeek, !.trend = NoWeek,
                   !.bias = NoWeek, !.bias["4h"] = "down", !.trend["4h"] = "down"],
   [Perfect EXCEPT !.ema4h = 124],
   [Perfect EXCEPT !.ema4h = 115],
   [Perfect EXCEPT !.ema200 = 130],
   [Perfect EXCEPT !.score = 50, !.rank = 40],
   [Perfect EXCEPT !.volume = FALSE, !.long4h = FALSE, !.ema4h = 0],
   [Perfect EXCEPT !.stack["1d"] = "neutral", !.trend["1d"] = "neutral"],
   [Perfect EXCEPT !.stack["1d"] = "down", !.stack["1wk"] = "down"],
   [Perfect EXCEPT !.stack = All("down"), !.trend = All("down"), !.score = 40]}

Ribbon(a, b, c, d) == 20 :> a @@ 50 :> b @@ 100 :> c @@ 200 :> d
Day(h, l, c, v, e, atr, adx, w) ==
  [high |-> h, low |-> l, close |-> c, volume |-> v, ema |-> e,
   atr |-> atr, adx |-> adx, width |-> w]

(* a chart too young for its EMA50 and its ADX, one too young for its        *)
(* EMA200, the top of a strong trend, a low that touches the EMA200, a       *)
(* narrow day near the top of the box, a day below all averages, a breakout  *)
(* with volume                                                               *)
mc_EngineBars ==
  {Day(116, 109, 113, 100, Ribbon(112, 0, 0, 0), 9, Missing, 60),
   Day(118, 110, 115, 100, Ribbon(112, 110, 109, 0), 9, 20, 60),
   Day(124, 114, 118, 200, Ribbon(116, 114, 105, 100), 10, 95, 90),
   Day(116, 100, 106, 100, Ribbon(112, 109, 106, 103), 11, 30, 80),
   Day(121, 116, 120, 40, Ribbon(114, 113, 112, 111), 8, 12, 30),
   Day(112, 104, 105, 60, Ribbon(106, 107, 108, 109), 9, 18, 50),
   Day(126, 119, 123, 400, Ribbon(116, 114, 112, 110), 7, 10, 40)}

(* Five values make a percentile of exactly 20 possible. *)
mc_Lengths ==
  [swing |-> 1, prior |-> 3, leg |-> 4, full |-> 5, memory |-> 4, look |-> 5, now |-> 1,
   before |-> 2, slope |-> 2, narrow |-> 2, atr |-> 2, short |-> 2, long |-> 4, recent |-> 1]

MCInit ==
  /\ part \in {"rules", "engines"} /\ Init /\ EngineInit
  /\ part = "engines" => ctx = Perfect

MCNext ==
  \/ part = "rules" /\ Next /\ UNCHANGED <<bars, part>>
  \/ part = "engines" /\ NextBar /\ UNCHANGED <<vars, part>>

(* The types of both parts. *)
MCTypeOK == TypeOK /\ EngineTypeOK

MCSpec == MCInit /\ [][MCNext]_<<vars, bars, part>>
===============================================================================
