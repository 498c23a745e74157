--------------------------- MODULE Analysis_proofs ---------------------------
(***************************************************************************)
(* What holds of the rules, the scores and the engines for every chart,    *)
(* every window and every context (SignalRules, GateRange, Scores,         *)
(* ChartEngines).                                                          *)
(*                                                                         *)
(* Four definitions recur or choose: the top of the box, the one pass over *)
(* the bars that counts the tests of a level, sums over bars, and the last *)
(* swing point. That what they choose exists is an induction over the      *)
(* bars, carried out each time by taking the least counterexample (Least), *)
(* from the well-foundedness of < on Nat.                                  *)
(***************************************************************************)
EXTENDS MCAnalysis, FiniteSetTheorems, SequenceTheorems, WellFoundedInduction, TLAPS

(***************************************************************************)
(* Extremes.                                                               *)
(***************************************************************************)
(* A set of natural numbers that is not empty has a least element.         *)
LEMMA Least ==
  ASSUME NEW T, T \subseteq Nat, T # {}
  PROVE  \E x \in T : \A y \in T : x <= y
<1> DEFINE R == {p \in Nat \X Nat : p[1] < p[2]}
<1>1. IsWellFoundedOn(R, Nat)
  BY NatLessThanWellFounded DEF OpToRel
<1>2. \A a, b \in Nat : a < b => <<a, b>> \in R
  OBVIOUS
<1> HIDE DEF R
<1>3. PICK x \in T : \A y \in T : ~(<<y, x>> \in R)
  BY <1>1, WFMin
<1>4. \A y \in T : ~(y < x)
  BY <1>2, <1>3
<1> QED BY <1>3, <1>4

(* A function with natural values has a greatest one on an interval.       *)
LEMMA Greatest ==
  ASSUME NEW a \in Int, NEW b \in Int, a <= b, NEW f, \A i \in a..b : f[i] \in Nat
  PROVE  \E j \in a..b : \A i \in a..b : f[i] <= f[j]
<1> DEFINE Q(n) == a + n <= b => \E j \in a..(a + n) : \A i \in a..(a + n) : f[i] <= f[j]
<1> DEFINE T == {n \in Nat : ~Q(n)}
<1>0. \A m \in Nat : m \notin T => Q(m)
  <2> HIDE DEF Q
  <2> QED OBVIOUS
<1>1. ASSUME T # {} PROVE FALSE
  <2>1. PICK n \in T : \A y \in T : n <= y
    <3> T \subseteq Nat OBVIOUS
    <3> HIDE DEF T
    <3> QED BY <1>1, Least
  <2>2. n \in Nat /\ ~Q(n)
    OBVIOUS
  <2>3. a + n <= b /\ ~\E j \in a..(a + n) : \A i \in a..(a + n) : f[i] <= f[j]
    BY <2>2
  <2>4. n # 0
    <3> SUFFICES ASSUME n = 0 PROVE FALSE OBVIOUS
    <3>1. a..(a + n) = {a} BY <2>2
    <3> QED BY <3>1, <2>3
  <2>5. Q(n - 1)
    <3>1. n \in Nat /\ n - 1 \in Nat BY <2>2, <2>4
    <3>2. n - 1 \notin T
      <4> HIDE DEF T
      <4> QED BY <2>1, <3>1
    <3> HIDE DEF T, Q
    <3> QED BY <1>0, <3>1, <3>2
  <2>6. PICK j \in a..(a + n - 1) : \A i \in a..(a + n - 1) : f[i] <= f[j]
    BY <2>5, <2>3, <2>2, <2>4
  <2>7. a..(a + n) = a..(a + n - 1) \cup {a + n}
    BY <2>2, <2>4
  <2>8. f[a + n] \in Nat /\ f[j] \in Nat
    BY <2>2, <2>3, <2>6
  <2>9. \A i \in a..(a + n - 1) : f[i] \in Nat
    BY <2>2, <2>3
  <2>10. CASE f[a + n] <= f[j]
    BY <2>10, <2>6, <2>7, <2>3
  <2>11. CASE f[j] < f[a + n]
    <3>1. \A i \in a..(a + n) : f[i] <= f[a + n]
      BY <2>11, <2>6, <2>7, <2>8, <2>9
    <3>2. a + n \in a..(a + n)
      BY <2>2
    <3> QED BY <3>1, <3>2, <2>3
  <2> QED BY <2>8, <2>10, <2>11
<1>2. b - a \in Nat /\ a + (b - a) = b
  OBVIOUS
<1>3. Q(b - a)
  BY <1>0, <1>1, <1>2
<1> QED BY <1>2, <1>3

(***************************************************************************)
(* The box.                                                                *)
(***************************************************************************)
Priced(B) ==
  \A b \in B : /\ b.high \in Nat /\ b.low \in Nat /\ b.close \in Nat
               /\ b.low <= b.close /\ b.close <= b.high

(* The bars of the rules have prices in order.                             *)
LEMMA BarsPriced == Priced(Bars)
BY RangeAssumption DEF Priced

(* The top of a stretch of bars is a number, and no bar of it is higher.   *)
LEMMA HighestBounds ==
  ASSUME NEW B, Priced(B), NEW s \in Seq(B), NEW a \in Int, NEW b \in Int, 1 <= a, a <= b, b <= Len(s)
  PROVE  /\ Highest(s, a..b) \in Nat
         /\ \A i \in a..b : s[i].high <= Highest(s, a..b)
<1> DEFINE f == [i \in a..b |-> s[i].high]
<1> DEFINE P(p) == \A i \in a..b : s[i].high <= p
<1>1. \A i \in a..b : s[i] \in B
  OBVIOUS
<1>2. \A i \in a..b : f[i] \in Nat /\ f[i] = s[i].high
  BY <1>1 DEF Priced
<1>3. PICK j \in a..b : \A i \in a..b : f[i] <= f[j]
  <2> HIDE DEF f
  <2> QED BY <1>2, Greatest
<1>4. s[j].high \in {s[i].high : i \in a..b} /\ P(s[j].high)
  BY <1>2, <1>3
<1>5. \E p \in {s[i].high : i \in a..b} : P(p)
  BY <1>4
<1>6. Highest(s, a..b) \in {s[i].high : i \in a..b} /\ P(Highest(s, a..b))
  BY <1>5 DEF Highest
<1> QED BY <1>2, <1>6

(* The bottom of a stretch of bars is a number.                            *)
LEMMA LowestBounds ==
  ASSUME NEW B, Priced(B), NEW s \in Seq(B), NEW a \in Int, NEW b \in Int, 1 <= a, a <= b, b <= Len(s)
  PROVE  Lowest(s, a..b) \in Nat
<1> DEFINE T == {s[i].low : i \in a..b}
<1>1. \A i \in a..b : s[i] \in B
  OBVIOUS
<1>2. T \subseteq Nat
  BY <1>1 DEF Priced
<1>3. T # {}
  <2>1. a \in a..b /\ s[a].low \in T OBVIOUS
  <2> QED BY <2>1
<1>4. PICK x \in T : \A y \in T : x <= y
  <2> HIDE DEF T
  <2> QED BY <1>2, <1>3, Least
<1>5. \A i \in a..b : s[i].low >= x
  <2> SUFFICES ASSUME NEW i \in a..b PROVE s[i].low >= x OBVIOUS
  <2>1. s[i].low \in T OBVIOUS
  <2>2. s[i].low \in Nat /\ x \in Nat BY <1>2, <2>1
  <2> HIDE DEF T
  <2> QED BY <1>4, <2>1, <2>2
<1>6. Lowest(s, a..b) \in T
  BY <1>4, <1>5 DEF Lowest
<1> QED BY <1>2, <1>6

(* A valid box is a proper one in front of the latest bar, and yesterday's *)
(* high lies within it.                                                    *)
LEMMA BoxFacts ==
  ASSUME NEW B, Priced(B), NEW s \in Seq(B), Box(s).valid
  PROVE  /\ Len(s) >= 2
         /\ Box(s).low \in Nat /\ Box(s).high \in Nat
         /\ 0 < Box(s).low /\ Box(s).low < Box(s).high
         /\ s[Len(s) - 1].high <= Box(s).high
<1>1. Candidates(s) # {}
  BY DEF Box, NoBox
<1>2. Candidates(s) \subseteq Nat
  BY RangeAssumption DEF Candidates
<1> DEFINE i == CHOOSE i \in Candidates(s) : \A k \in Candidates(s) : i <= k
<1>3. i \in Candidates(s)
  BY <1>1, <1>2, Least
<1> DEFINE lb == Windows[i]
<1>4. Box(s) = [valid |-> TRUE, high |-> Highest(s, Window(s, lb)),
               low |-> Lowest(s, Window(s, lb)), duration |-> lb]
  BY <1>1 DEF Box
<1>5. lb \in Nat \ {0} /\ Fits(s, lb)
  BY <1>3, RangeAssumption DEF Candidates
<1> HIDE DEF i
<1> HIDE DEF lb
<1>6. Len(s) \in Nat /\ Len(s) >= lb + 1
  BY <1>5, RangeAssumption DEF Fits, Larger
<1>7. Window(s, lb) = (Len(s) - lb)..(Len(s) - 1)
  BY DEF Window
<1>8. /\ Highest(s, Window(s, lb)) \in Nat
      /\ s[Len(s) - 1].high <= Highest(s, Window(s, lb))
  <2>1. Len(s) - 1 \in (Len(s) - lb)..(Len(s) - 1) BY <1>5, <1>6
  <2> QED BY <1>5, <1>6, <1>7, <2>1, HighestBounds
<1>9. Lowest(s, Window(s, lb)) \in Nat
  BY <1>5, <1>6, <1>7, LowestBounds
<1>10. Lowest(s, Window(s, lb)) > 0 /\ Highest(s, Window(s, lb)) > Lowest(s, Window(s, lb))
  BY <1>5 DEF Fits
<1> QED BY <1>4, <1>5, <1>6, <1>8, <1>9, <1>10

(***************************************************************************)
(* A signal.                                                               *)
(***************************************************************************)
(* A confirmed breakout closes above a valid box.                          *)
LEMMA ConfirmedIsAbove ==
  ASSUME NEW s \in Seq(Bars), s # <<>>,
         BreakoutState(s, Box(s)) = "BREAKOUT_CONFIRMED"
  PROVE  Box(s).valid /\ Last(s).close > Box(s).high
<1>1. Box(s).valid \in BOOLEAN
  BY DEF Box, NoBox
<1>2. Box(s).valid
  <2> SUFFICES ASSUME ~Box(s).valid PROVE FALSE
    BY <1>1
  <2>1. BreakoutState(s, Box(s)) = "NO_GATE"
    BY DEF BreakoutState
  <2> QED BY <2>1
<1>3. Last(s).close \in Nat
  BY RangeAssumption DEF Last
<1>4. Box(s).low \in Nat /\ Box(s).high \in Nat /\ Box(s).low < Box(s).high
  BY <1>2, BarsPriced, BoxFacts
<1>5. ASSUME Last(s).close < Box(s).low PROVE FALSE
  <2>1. BreakoutState(s, Box(s)) = "BROKEN_DOWN"
    BY <1>2, <1>3, <1>4, <1>5 DEF BreakoutState
  <2> QED BY <2>1
<1>6. ASSUME Last(s).close >= Box(s).low, Last(s).close <= Box(s).high PROVE FALSE
  <2>1. BreakoutState(s, Box(s)) \in {"BUY_ZONE", "ACCUMULATION"}
    BY <1>2, <1>3, <1>4, <1>6 DEF BreakoutState
  <2> QED BY <2>1
<1> QED BY <1>2, <1>3, <1>4, <1>5, <1>6

(* The targets of a proper box are numbers and rise.                       *)
LEMMA TargetsRise ==
  ASSUME NEW box, box.low \in Nat, box.high \in Nat, 0 < box.low, box.low < box.high,
         NEW entry \in Nat
  PROVE  /\ T1(box) \in Nat /\ T2(box) \in Nat /\ T3(entry, box) \in Nat
         /\ T1(box) < T2(box) /\ T2(box) < T3(entry, box)
<1>1. T1(box) \in Nat /\ T1(box) >= 200
  BY DEF T1
<1>2. \A n \in Nat : n >= 200 => (n * 201) \div 200 \in Nat /\ (n * 201) \div 200 > n
  OBVIOUS
<1>3. T2(box) \in Nat /\ T2(box) > T1(box)
  <2> DEFINE raw == 40000 * box.low + 64720 * (box.high - box.low)
  <2> DEFINE next == (T1(box) * 201) \div 200
  <2>1. raw \in Nat
    OBVIOUS
  <2>2. next \in Nat /\ next > T1(box)
    BY <1>1, <1>2
  <2>3. T2(box) = Larger(raw, next)
    BY DEF T2
  <2> HIDE DEF raw, next
  <2> QED BY <1>1, <2>1, <2>2, <2>3 DEF Larger
<1>4. T3(entry, box) \in Nat /\ T3(entry, box) > T2(box)
  <2> DEFINE raw == 40000 * box.low + 64720 * (box.high - box.low)
  <2> DEFINE far == 40000 * box.low + 104720 * (box.high - box.low)
  <2> DEFINE cap == Larger((entry * 17) \div 10, (raw * 101) \div 100)
  <2> DEFINE next == (T2(box) * 201) \div 200
  <2>1. raw \in Nat /\ far \in Nat
    OBVIOUS
  <2>2. (entry * 17) \div 10 \in Nat /\ (raw * 101) \div 100 \in Nat
    <3> HIDE DEF raw
    <3> QED BY <2>1
  <2>3. cap \in Nat
    <3> HIDE DEF raw
    <3> QED BY <2>2 DEF Larger
  <2>4. next \in Nat /\ next > T2(box)
    BY <1>1, <1>2, <1>3
  <2>5. T3(entry, box) = Larger(Smaller(far, cap), next)
    BY DEF T3
  <2> HIDE DEF far, cap, next
  <2> QED BY <1>3, <2>1, <2>3, <2>4, <2>5 DEF Larger, Smaller
<1> QED BY <1>1, <1>3, <1>4

(* What a signal of the day has passed.                                    *)
LEMMA SignalFacts ==
  ASSUME NEW s \in Seq(Bars), s # <<>>, NEW c \in Contexts,
         BuildSignal(s, c, AnalyzeRange(s)) # NoSignal
  PROVE  LET sig == BuildSignal(s, c, AnalyzeRange(s))
         IN  /\ sig = [entry |-> Unit * Last(s).close, sl |-> StopLoss(c),
                       t1 |-> T1(Box(s)), t2 |-> T2(Box(s)),
                       t3 |-> T3(Unit * Last(s).close, Box(s))]
             /\ Box(s).valid /\ Last(s).close > Box(s).high
             /\ Repays(sig.entry, sig.sl, sig.t1) /\ Repays(sig.entry, sig.sl, sig.t2)
             /\ 100 * (sig.entry - sig.sl) <= 8 * sig.entry
             /\ \A f \in DOMAIN sig : sig[f] \in Nat
             /\ sig.t1 < sig.t2 /\ sig.t2 < sig.t3
<1> DEFINE range == AnalyzeRange(s)
<1> DEFINE sig == BuildSignal(s, c, range)
<1> DEFINE entry == Unit * Last(s).close
<1>1. range.box = Box(s) /\ range.state = BreakoutState(s, Box(s))
  BY DEF AnalyzeRange
<1>2. sig = GenerateSignal(s, c, range) /\ RiskAgent(sig) /\ sig # NoSignal
  <2>1. sig # NoSignal
    OBVIOUS
  <2> HIDE DEF range
  <2>2. sig = IF GenerateSignal(s, c, range) # NoSignal /\ RiskAgent(GenerateSignal(s, c, range))
              THEN GenerateSignal(s, c, range) ELSE NoSignal
    BY DEF BuildSignal
  <2> HIDE DEF sig
  <2> QED BY <2>1, <2>2
<1> HIDE DEF range
<1>3. /\ range.state = "BREAKOUT_CONFIRMED"
      /\ Repays(entry, StopLoss(c), T2(Box(s)))
      /\ sig = [entry |-> entry, sl |-> StopLoss(c), t1 |-> T1(Box(s)),
                t2 |-> T2(Box(s)), t3 |-> T3(entry, Box(s))]
  BY <1>1, <1>2 DEF GenerateSignal
<1>4. Box(s).valid /\ Last(s).close > Box(s).high
  BY <1>1, <1>3, ConfirmedIsAbove
<1>5. entry \in Nat
  BY RangeAssumption DEF Last, Unit
<1>6. StopLoss(c) \in Nat
  BY SignalAssumption DEF ContextOK, StopLoss
<1>7. /\ T1(Box(s)) \in Nat /\ T2(Box(s)) \in Nat /\ T3(entry, Box(s)) \in Nat
      /\ T1(Box(s)) < T2(Box(s)) /\ T2(Box(s)) < T3(entry, Box(s))
  <2> HIDE DEF entry
  <2> QED BY <1>4, <1>5, BarsPriced, BoxFacts, TargetsRise
<1>8. Repays(sig.entry, sig.sl, sig.t1) /\ 100 * (sig.entry - sig.sl) <= 8 * sig.entry
  BY <1>2 DEF RiskAgent
<1> HIDE DEF sig, entry
<1>9. \A f \in DOMAIN sig : sig[f] \in Nat
  BY <1>3, <1>5, <1>6, <1>7
<1>10. Repays(sig.entry, sig.sl, sig.t2) /\ sig.t1 < sig.t2 /\ sig.t2 < sig.t3
  BY <1>3, <1>7
<1> QED BY <1>3, <1>4, <1>8, <1>9, <1>10 DEF sig, entry, range

(***************************************************************************)
(* The lists.                                                              *)
(***************************************************************************)
(* The monthly and the hourly chart are not scanned: two lists are out of  *)
(* reach and no structure is broken enough for the first rule.             *)
LEMMA ListsInReach ==
  ASSUME NEW c
  PROVE  /\ ~Broken(c)
         /\ BuyList(c) \in {"SWING", "WATCH"}
<1>1. "1mo" \notin Timeframes /\ "60m" \notin Timeframes
  BY DEF Timeframes
<1>2. ~Bearish(c, "1mo") /\ ~Bullish(c, "1mo") /\ ~Bullish(c, "60m")
  BY <1>1 DEF Bearish, Bullish
<1> QED BY <1>2 DEF Broken, BuyList

(* The list of a day follows from its signal.                              *)
LEMMA ClassifyFacts ==
  ASSUME NEW c, NEW range, NEW sig
  PROVE  /\ sig = NoSignal => Classify(c, range, sig) \in {"WATCH", "IGNORE"}
         /\ sig # NoSignal /\ Repays(sig.entry, sig.sl, sig.t2)
              => Classify(c, range, sig) \in {"SWING", "WATCH"}
         /\ Classify(c, range, sig) \in {"SWING", "WATCH", "IGNORE"}
BY ListsInReach DEF Classify

(***************************************************************************)
(* The invariant: today's signal is one of today's chart.                  *)
(***************************************************************************)
SignalOfToday ==
  signal # NoSignal => chart # <<>> /\ signal.entry = Unit * Last(chart).close

IInv == TypeOK /\ SignalOfToday /\ SignalIsTradable /\ SignalIsListed

(* Every scan of a chart establishes it.                                   *)
LEMMA ScanEstablishes ==
  ASSUME NEW s \in Seq(Bars), s # <<>>, Len(s) <= MaxDays, NEW c \in Contexts,
         Scanned(s, c)
  PROVE  IInv'
<1> DEFINE range == AnalyzeRange(s)
<1> DEFINE sig == BuildSignal(s, c, range)
<1>1. chart' = s /\ ctx' = c /\ signal' = sig /\ category' = Classify(c, range, sig)
  BY DEF Scanned
<1>2. CASE sig = NoSignal
  <2>1. category' \in {"WATCH", "IGNORE"}
    <3> HIDE DEF sig, range
    <3> QED BY <1>1, <1>2, ClassifyFacts
  <2>2. signal' = NoSignal
    BY <1>1, <1>2
  <2>3. TypeOK'
    BY <1>1, <2>1, <2>2 DEF TypeOK, NoSignal
  <2>4. SignalOfToday' /\ SignalIsTradable' /\ SignalIsListed'
    BY <2>1, <2>2 DEF SignalOfToday, SignalIsTradable, SignalIsListed
  <2> QED BY <2>3, <2>4 DEF IInv
<1>3. CASE sig # NoSignal
  <2>1. /\ sig = [entry |-> Unit * Last(s).close, sl |-> StopLoss(c),
                  t1 |-> T1(Box(s)), t2 |-> T2(Box(s)),
                  t3 |-> T3(Unit * Last(s).close, Box(s))]
        /\ Repays(sig.entry, sig.sl, sig.t1) /\ Repays(sig.entry, sig.sl, sig.t2)
        /\ 100 * (sig.entry - sig.sl) <= 8 * sig.entry
        /\ \A f \in DOMAIN sig : sig[f] \in Nat
        /\ sig.t1 < sig.t2 /\ sig.t2 < sig.t3
    BY <1>3, SignalFacts
  <2> HIDE DEF sig, range
  <2>2. category' \in {"SWING", "WATCH"}
    <3>1. sig # NoSignal /\ Repays(sig.entry, sig.sl, sig.t2)
            => Classify(c, range, sig) \in {"SWING", "WATCH"}
      BY ClassifyFacts
    <3> QED BY <1>1, <1>3, <2>1, <3>1
  <2>3. DOMAIN sig = {"entry", "sl", "t1", "t2", "t3"} /\ sig.entry = Unit * Last(s).close
    BY <2>1
  <2>4. sig.entry \in Nat /\ sig.sl \in Nat /\ sig.t1 \in Nat
    BY <2>1, <2>3
  <2>5. sig.sl < sig.entry /\ sig.entry < sig.t1
    BY <2>1, <2>4 DEF Repays
  <2>6. TypeOK'
    BY <1>1, <2>1, <2>2, <2>3 DEF TypeOK
  <2>7. SignalOfToday'
    BY <1>1, <2>3 DEF SignalOfToday
  <2>8. SignalIsTradable'
    BY <1>1, <2>1, <2>5 DEF SignalIsTradable
  <2>9. SignalIsListed'
    BY <1>1, <1>3, <2>2 DEF SignalIsListed
  <2> QED BY <2>6, <2>7, <2>8, <2>9 DEF IInv
<1> QED BY <1>2, <1>3

(* The invariant holds of the empty chart and every day keeps it.          *)
LEMMA InvInductive ==
  /\ Init => IInv
  /\ IInv /\ [Next]_vars => IInv'
<1>1. ASSUME Init PROVE IInv
  <2>1. TypeOK
    BY <1>1, SignalAssumption DEF Init, TypeOK, NoSignal
  <2> QED BY <1>1, <2>1 DEF Init, IInv, SignalOfToday, SignalIsTradable, SignalIsListed
<1>2. ASSUME IInv, NextDay PROVE IInv'
  <2>1. PICK bar \in Bars, c \in Contexts : Scanned(Append(chart, bar), c)
    BY <1>2 DEF NextDay
  <2>2. chart \in Seq(Bars) /\ Len(chart) < MaxDays
    BY <1>2 DEF IInv, TypeOK, NextDay
  <2>3. /\ Append(chart, bar) \in Seq(Bars) /\ Append(chart, bar) # <<>>
        /\ Len(Append(chart, bar)) <= MaxDays
    <3>1. Append(chart, bar) \in Seq(Bars) /\ Len(Append(chart, bar)) = Len(chart) + 1
      BY <2>2
    <3>2. Len(chart) \in Nat
      BY <2>2
    <3>3. Append(chart, bar) # <<>>
      BY <3>1, <3>2
    <3> QED BY <2>2, <3>1, <3>2, <3>3, SignalAssumption
  <2> QED BY <2>1, <2>3, ScanEstablishes
<1>3. ASSUME IInv, UNCHANGED vars PROVE IInv'
  BY <1>3 DEF vars, IInv, TypeOK, SignalOfToday, SignalIsTradable, SignalIsListed
<1> QED BY <1>1, <1>2, <1>3 DEF Next

LEMMA InvHolds == Spec => []IInv
BY InvInductive, PTL DEF Spec

(* The variables keep their types, whatever the charts, windows and        *)
(* contexts (TypeOK).                                                      *)
THEOREM TypeCorrect == Spec => []TypeOK
<1>1. IInv => TypeOK
  BY DEF IInv
<1> QED BY InvHolds, <1>1, PTL

(* Every signal is a trade, for all charts and contexts                    *)
(* (signal_engine.py:304-317, risk_agent.py:40-44).                        *)
THEOREM TradableSignals == Spec => []SignalIsTradable
<1>1. IInv => SignalIsTradable
  BY DEF IInv
<1> QED BY InvHolds, <1>1, PTL

(* No signal is lost on its way to a list, and only signals are bought     *)
(* (classifier.py:105-227).                                                *)
THEOREM ListedSignals == Spec => []SignalIsListed
<1>1. IInv => SignalIsListed
  BY DEF IInv
<1> QED BY InvHolds, <1>1, PTL

(* A second signal on the next day is at a higher price: yesterday's bar   *)
(* lies in every window the box can be taken from, so its close is below   *)
(* the box that today's close has to exceed (range_engine.py:49).          *)
THEOREM RisingSignals == Spec => RepeatedSignalsRise
<1> DEFINE Dearer == signal # NoSignal /\ signal' # NoSignal => signal'.entry > signal.entry
<1>1. ASSUME IInv, NextDay PROVE Dearer
  <2> SUFFICES ASSUME signal # NoSignal, signal' # NoSignal
               PROVE  signal'.entry > signal.entry
    OBVIOUS
  <2>1. PICK bar \in Bars, c \in Contexts : Scanned(Append(chart, bar), c)
    BY <1>1 DEF NextDay
  <2> DEFINE s == Append(chart, bar)
  <2>2. chart \in Seq(Bars) /\ chart # <<>> /\ signal.entry = Unit * Last(chart).close
    BY <1>1 DEF IInv, TypeOK, SignalOfToday
  <2>3. /\ s \in Seq(Bars) /\ s # <<>> /\ Len(s) - 1 = Len(chart)
        /\ s[Len(chart)] = Last(chart) /\ Last(chart) \in Bars /\ Last(s) \in Bars
    BY <2>2 DEF Last
  <2> HIDE DEF s
  <2>4. signal' = BuildSignal(s, c, AnalyzeRange(s))
    BY <2>1 DEF Scanned, s
  <2>5. Box(s).valid /\ Last(s).close > Box(s).high /\ signal'.entry = Unit * Last(s).close
    BY <2>3, <2>4, SignalFacts
  <2>6. Last(chart).high <= Box(s).high /\ Box(s).high \in Nat
    BY <2>3, <2>5, BarsPriced, BoxFacts
  <2>7. Last(chart).close <= Last(chart).high /\ Last(chart).high \in Nat
        /\ Last(chart).close \in Nat /\ Last(s).close \in Nat
    BY <2>3, RangeAssumption
  <2>8. Last(s).close > Last(chart).close
    BY <2>5, <2>6, <2>7
  <2> QED BY <2>2, <2>5, <2>7, <2>8 DEF Unit
<1>2. IInv /\ [Next]_vars => [Dearer]_vars
  BY <1>1 DEF Next
<1> HIDE DEF Dearer
<1>3. Spec => [][Dearer]_vars
  BY InvHolds, <1>2, PTL DEF Spec
<1> QED BY <1>3 DEF RepeatedSignalsRise, Dearer

(***************************************************************************)
(* The tests of a level: the one pass over the bars against the runs of    *)
(* bars that are counted by it.                                            *)
(***************************************************************************)
Before0 == [tests |-> 0, inTest |-> FALSE, broke |-> FALSE]

(* The pass after one more bar. *)
After(s, level, before, i) ==
  IF Tests(s[i], level)
  THEN [tests |-> before.tests, inTest |-> TRUE,
        broke |-> (before.inTest /\ before.broke) \/ s[i].close > level]
  ELSE [tests |-> FailedTests(before), inTest |-> FALSE, broke |-> before.broke]

IsPass(s, level, a, b, f) ==
  f = [i \in a..b |-> IF i = a THEN Before0 ELSE After(s, level, f[i - 1], i)]

(* There is a pass over any bars: by induction over their number, with the *)
(* least counterexample.                                                   *)
LEMMA PassExists ==
  ASSUME NEW s, NEW level, NEW a \in Nat, NEW b \in Nat, a <= b
  PROVE  \E f : IsPass(s, level, a, b, f)
<1> DEFINE Q(n) == \E f : IsPass(s, level, a, a + n, f)
           T == {n \in Nat : ~Q(n)}
<1>0. \A n \in Nat : n \notin T => Q(n)
  <2> HIDE DEF Q
  <2> QED OBVIOUS
<1>1. ASSUME T # {} PROVE FALSE
  <2>1. PICK n \in T : \A m \in T : n <= m
    <3> T \subseteq Nat OBVIOUS
    <3> HIDE DEF T
    <3> QED BY <1>1, Least
  <2>2. n \in Nat /\ ~Q(n)
    OBVIOUS
  <2>3. CASE n = 0
    <3> DEFINE f == [i \in a..a |-> Before0]
    <3>1. IsPass(s, level, a, a + 0, f)
      <4>1. a + 0 = a /\ \A i \in a..a : i = a
        OBVIOUS
      <4>2. f = [i \in a..a |-> IF i = a THEN Before0 ELSE After(s, level, f[i - 1], i)]
        BY <4>1
      <4> QED BY <4>1, <4>2 DEF IsPass
    <3> QED BY <2>2, <2>3, <3>1
  <2>4. CASE n # 0
    <3>1. Q(n - 1)
      <4>1. n - 1 \in Nat /\ n - 1 \notin T
        <5> HIDE DEF T
        <5> QED BY <2>1, <2>2, <2>4
      <4> HIDE DEF T, Q
      <4> QED BY <1>0, <4>1
    <3>2. PICK f : IsPass(s, level, a, a + (n - 1), f)
      BY <3>1
    <3> DEFINE last == a + n
               g == [i \in a..last |-> IF i = last THEN After(s, level, f[last - 1], last) ELSE f[i]]
    <3>3. /\ last \in Nat /\ a < last /\ a + (n - 1) = last - 1
      BY <2>2, <2>4
    <3>4. f = [i \in a..(last - 1) |-> IF i = a THEN Before0 ELSE After(s, level, f[i - 1], i)]
      BY <3>2, <3>3 DEF IsPass
    <3> HIDE DEF last
    <3>5. \A i \in a..last :
            g[i] = IF i = a THEN Before0 ELSE After(s, level, g[i - 1], i)
      <4> SUFFICES ASSUME NEW i \in a..last
                   PROVE  g[i] = IF i = a THEN Before0 ELSE After(s, level, g[i - 1], i)
        OBVIOUS
      <4>1. CASE i = last
        <5>1. g[i - 1] = f[last - 1] /\ i # a
          BY <3>3, <4>1
        <5> QED BY <4>1, <5>1
      <4>2. CASE i # last
        <5>1. i \in a..(last - 1) /\ g[i] = f[i]
          BY <3>3, <4>2
        <5>2. i # a => g[i - 1] = f[i - 1]
          BY <3>3, <4>2
        <5>3. f[i] = IF i = a THEN Before0 ELSE After(s, level, f[i - 1], i)
          BY <3>4, <5>1
        <5> QED BY <5>1, <5>2, <5>3
      <4> QED BY <4>1, <4>2
    <3>6. IsPass(s, level, a, last, g)
      BY <3>5 DEF IsPass
    <3> QED BY <2>2, <3>6 DEF last
  <2> QED BY <2>3, <2>4
<1>2. b - a \in Nat /\ a + (b - a) = b
  OBVIOUS
<1>3. Q(b - a)
  BY <1>0, <1>1, <1>2
<1> QED BY <1>2, <1>3

(* A run in the bars a+1..k, by its ends.                                  *)
Run(s, level, a, k, x, y) ==
  /\ x \in (a + 1)..k /\ y \in x..k
  /\ \A i \in x..y : Tests(s[i], level)
  /\ x = a + 1 \/ ~Tests(s[x - 1], level)
  /\ y = k \/ ~Tests(s[y + 1], level)

(* The runs of tests are the stretches that no further test adjoins.       *)
LEMMA RunShape ==
  ASSUME NEW s, NEW level, NEW a \in Nat, NEW k \in Nat, NEW r
  PROVE  r \in TestRuns(s, level, (a + 1)..k) <=> \E x, y \in Nat : r = x..y /\ Run(s, level, a, k, x, y)
<1> DEFINE I == (a + 1)..k
<1>1. ASSUME r \in TestRuns(s, level, I)
      PROVE  \E x, y \in Nat : r = x..y /\ Run(s, level, a, k, x, y)
  <2>1. /\ r \in {x..y : x \in I, y \in I} /\ r # {} /\ \A i \in r : Tests(s[i], level)
        /\ \A i \in I \ r : Tests(s[i], level) => i + 1 \notin r /\ i - 1 \notin r
    BY <1>1 DEF TestRuns
  <2>2. PICK x \in I, y \in I : r = x..y
    BY <2>1
  <2>3. x \in Nat /\ y \in Nat /\ x <= y /\ a + 1 <= x /\ y <= k
    BY <2>1, <2>2
  <2>4. x = a + 1 \/ ~Tests(s[x - 1], level)
    <3>1. x - 1 \notin r /\ (x - 1) + 1 \in r
      BY <2>2, <2>3
    <3>2. x # a + 1 => x - 1 \in I
      BY <2>3
    <3> QED BY <2>1, <3>1, <3>2
  <2>5. y = k \/ ~Tests(s[y + 1], level)
    <3>1. y + 1 \notin r /\ (y + 1) - 1 \in r
      BY <2>2, <2>3
    <3>2. y # k => y + 1 \in I
      BY <2>3
    <3> QED BY <2>1, <3>1, <3>2
  <2>6. x \in (a + 1)..k /\ y \in x..k
    BY <2>3
  <2>7. Run(s, level, a, k, x, y)
    BY <2>1, <2>2, <2>4, <2>5, <2>6 DEF Run
  <2> QED BY <2>2, <2>3, <2>7
<1>2. ASSUME NEW x \in Nat, NEW y \in Nat, r = x..y, Run(s, level, a, k, x, y)
      PROVE  r \in TestRuns(s, level, I)
  <2>1. x \in I /\ y \in I /\ x <= y /\ x \in r
    BY <1>2 DEF Run
  <2>2. \A i \in I \ r : Tests(s[i], level) => i + 1 \notin r /\ i - 1 \notin r
    <3> SUFFICES ASSUME NEW i \in I \ r, Tests(s[i], level), i + 1 \in r \/ i - 1 \in r
                 PROVE  FALSE
      OBVIOUS
    <3>1. i \in Nat /\ a + 1 <= i /\ i <= k /\ (i < x \/ y < i)
      BY <1>2
    <3>2. i = x - 1 \/ i = y + 1
      BY <1>2, <3>1
    <3>3. CASE i = x - 1
      BY <1>2, <3>1, <3>3 DEF Run
    <3>4. CASE i = y + 1
      BY <1>2, <3>1, <3>4 DEF Run
    <3> QED BY <3>2, <3>3, <3>4
  <2>3. r \in {p..q : p \in I, q \in I}
    BY <1>2, <2>1
  <2>4. \A i \in r : Tests(s[i], level)
    BY <1>2 DEF Run
  <2> QED BY <2>1, <2>2, <2>3, <2>4 DEF TestRuns
<1> QED BY <1>1, <1>2

(* The runs in the bars a+1..k without a close above the level, and those  *)
(* of them that do not reach the last of the bars.                         *)
FailedRuns(s, level, a, k) ==
  {r \in TestRuns(s, level, (a + 1)..k) : \A i \in r : s[i].close <= level}
ClosedRuns(s, level, a, k) == {r \in FailedRuns(s, level, a, k) : k \notin r}

(* Only one run reaches the last bar.                                      *)
LEMMA OpenRun ==
  ASSUME NEW s, NEW level, NEW a \in Nat, NEW k \in Nat, NEW x \in Nat,
         Run(s, level, a, k, x, k),
         NEW r \in TestRuns(s, level, (a + 1)..k), k \in r
  PROVE  r = x..k
<1>1. PICK p \in Nat, q \in Nat : r = p..q /\ Run(s, level, a, k, p, q)
  BY RunShape
<1>2. q = k
  BY <1>1 DEF Run
<1>3. ~(p < x)
  <2> SUFFICES ASSUME p < x PROVE FALSE
    OBVIOUS
  <2>1. x - 1 \in p..q /\ x # a + 1
    BY <1>1, <1>2 DEF Run
  <2> QED BY <1>1, <2>1 DEF Run
<1>4. ~(x < p)
  <2> SUFFICES ASSUME x < p PROVE FALSE
    OBVIOUS
  <2>1. p - 1 \in x..k /\ p # a + 1
    BY <1>1, <1>2 DEF Run
  <2> QED BY <1>1, <2>1 DEF Run
<1>5. p = x
  BY <1>3, <1>4
<1> QED BY <1>1, <1>2, <1>5

(* One more bar closes the run that reaches the last bar unless it tests   *)
(* the level too.                                                          *)
LEMMA ClosedStep ==
  ASSUME NEW s, NEW level, NEW a \in Nat, NEW k \in Nat, a <= k, NEW r
  PROVE  (r \in TestRuns(s, level, (a + 1)..(k + 1)) /\ k + 1 \notin r) <=>
         (r \in TestRuns(s, level, (a + 1)..k) /\ (Tests(s[k + 1], level) => k \notin r))
<1>1. ASSUME r \in TestRuns(s, level, (a + 1)..(k + 1)), k + 1 \notin r
      PROVE  r \in TestRuns(s, level, (a + 1)..k) /\ (Tests(s[k + 1], level) => k \notin r)
  <2>1. PICK x \in Nat, y \in Nat : r = x..y /\ Run(s, level, a, k + 1, x, y)
    BY <1>1, RunShape
  <2>2. x <= y /\ y <= k
    BY <1>1, <2>1 DEF Run
  <2>3. Run(s, level, a, k, x, y)
    BY <2>1, <2>2 DEF Run
  <2>4. k \in r => y = k
    BY <2>1, <2>2
  <2>5. Tests(s[k + 1], level) => y # k
    BY <2>1 DEF Run
  <2> QED BY <2>1, <2>3, <2>4, <2>5, RunShape
<1>2. ASSUME r \in TestRuns(s, level, (a + 1)..k), Tests(s[k + 1], level) => k \notin r
      PROVE  r \in TestRuns(s, level, (a + 1)..(k + 1)) /\ k + 1 \notin r
  <2>1. PICK x \in Nat, y \in Nat : r = x..y /\ Run(s, level, a, k, x, y)
    BY <1>2, RunShape
  <2>2. x <= y /\ y <= k
    BY <2>1 DEF Run
  <2>3. y = k => k \in r
    BY <2>1, <2>2
  <2>4. ~Tests(s[y + 1], level)
    BY <1>2, <2>1, <2>3 DEF Run
  <2>5. Run(s, level, a, k + 1, x, y)
    BY <2>1, <2>2, <2>4 DEF Run
  <2>6. k + 1 \notin r
    BY <2>1, <2>2
  <2> QED BY <2>1, <2>5, <2>6, RunShape
<1> QED BY <1>1, <1>2

(* What the pass knows after bar k.                                        *)
Knows(s, level, a, k, at) ==
  /\ at.inTest \in BOOLEAN /\ at.broke \in BOOLEAN
  /\ at.inTest <=> a < k /\ Tests(s[k], level)
  /\ at.inTest => \E x \in Nat : /\ Run(s, level, a, k, x, k)
                                 /\ at.broke <=> \E i \in x..k : s[i].close > level
  /\ IsFiniteSet(ClosedRuns(s, level, a, k))
  /\ at.tests = Cardinality(ClosedRuns(s, level, a, k))

(* The run under way is counted when the pass ends.                        *)
LEMMA FailedCount ==
  ASSUME NEW s, NEW level \in Nat, NEW a \in Nat, NEW k \in Nat, a <= k,
         \A i \in (a + 1)..k : s[i].close \in Nat,
         NEW at, Knows(s, level, a, k, at)
  PROVE  /\ IsFiniteSet(FailedRuns(s, level, a, k))
         /\ FailedTests(at) = Cardinality(FailedRuns(s, level, a, k))
<1> DEFINE FR == FailedRuns(s, level, a, k)
           CR == ClosedRuns(s, level, a, k)
<1>1. CASE at.inTest
  <2>1. PICK x \in Nat : /\ Run(s, level, a, k, x, k)
                         /\ at.broke <=> \E i \in x..k : s[i].close > level
    BY <1>1 DEF Knows
  <2>2. x..k \in TestRuns(s, level, (a + 1)..k) /\ k \in x..k /\ x..k \subseteq (a + 1)..k
    <3>1. x..k \in TestRuns(s, level, (a + 1)..k)
      BY <2>1, RunShape
    <3> QED BY <2>1, <3>1 DEF Run
  <2>3. \A r \in FR : k \in r => r = x..k
    <3> SUFFICES ASSUME NEW r \in FR, k \in r PROVE r = x..k
      OBVIOUS
    <3>1. r \in TestRuns(s, level, (a + 1)..k)
      BY DEF FailedRuns
    <3> QED BY <2>1, <3>1, OpenRun
  <2>4. (x..k \in FR) <=> ~at.broke
    <3>1. \A i \in x..k : s[i].close <= level <=> ~(s[i].close > level)
      BY <2>2
    <3> QED BY <2>1, <2>2, <3>1 DEF FailedRuns
  <2>5. CASE at.broke
    <3>1. FR = CR
      BY <2>3, <2>4, <2>5 DEF ClosedRuns
    <3> QED BY <2>5, <3>1 DEF Knows, FailedTests
  <2>6. CASE ~at.broke
    <3>1. FR = CR \cup {x..k} /\ x..k \notin CR
      BY <2>2, <2>3, <2>4, <2>6 DEF ClosedRuns
    <3>2. IsFiniteSet(CR)
      BY DEF Knows
    <3>3. IsFiniteSet(CR \cup {x..k}) /\ Cardinality(CR \cup {x..k}) = Cardinality(CR) + 1
      <4> HIDE DEF CR
      <4> QED BY <3>1, <3>2, FS_AddElement
    <3>4. FailedTests(at) = Cardinality(CR) + 1
      BY <1>1, <2>6 DEF Knows, FailedTests
    <3> QED BY <3>1, <3>3, <3>4
  <2> QED BY <2>5, <2>6 DEF Knows
<1>2. CASE ~at.inTest
  <2>1. FR = CR
    <3> SUFFICES ASSUME NEW r \in FR, k \in r PROVE FALSE
      BY DEF ClosedRuns
    <3>1. r \in TestRuns(s, level, (a + 1)..k)
      BY DEF FailedRuns
    <3>2. k \in (a + 1)..k /\ Tests(s[k], level)
      <4>1. PICK x \in Nat, y \in Nat : r = x..y /\ Run(s, level, a, k, x, y)
        BY <3>1, RunShape
      <4> QED BY <4>1 DEF Run
    <3> QED BY <1>2, <3>2 DEF Knows
  <2> QED BY <1>2, <2>1 DEF Knows, FailedTests
<1> QED BY <1>1, <1>2

(* One more bar.                                                           *)
LEMMA KnowsAfter ==
  ASSUME NEW s, NEW level \in Nat, NEW a \in Nat, NEW k \in Nat, a <= k,
         \A i \in (a + 1)..(k + 1) : s[i].close \in Nat,
         NEW at, Knows(s, level, a, k, at)
  PROVE  Knows(s, level, a, k + 1, After(s, level, at, k + 1))
<1> DEFINE next == After(s, level, at, k + 1)
<1>1. \A r : r \in ClosedRuns(s, level, a, k + 1) <=>
               r \in FailedRuns(s, level, a, k) /\ (Tests(s[k + 1], level) => k \notin r)
  BY ClosedStep DEF ClosedRuns, FailedRuns
<1>2. CASE Tests(s[k + 1], level)
  <2>1. ClosedRuns(s, level, a, k + 1) = ClosedRuns(s, level, a, k)
    BY <1>1, <1>2 DEF ClosedRuns
  <2>2. next = [tests |-> at.tests, inTest |-> TRUE,
                broke |-> (at.inTest /\ at.broke) \/ s[k + 1].close > level]
    BY <1>2 DEF After
  <2>3. next.broke \in BOOLEAN /\ (next.broke <=> (at.inTest /\ at.broke) \/ s[k + 1].close > level)
    <3> DEFINE B == (at.inTest /\ at.broke) \/ s[k + 1].close > level
    <3>1. B \in BOOLEAN /\ next.broke = B
      BY <2>2
    <3> HIDE DEF B
    <3>2. next.broke \in BOOLEAN /\ (next.broke <=> B)
      BY <3>1
    <3> QED BY <3>2 DEF B
  <2>4. \E x \in Nat : /\ Run(s, level, a, k + 1, x, k + 1)
                       /\ next.broke <=> \E i \in x..(k + 1) : s[i].close > level
    <3>1. CASE at.inTest
      <4>1. PICK x \in Nat : /\ Run(s, level, a, k, x, k)
                             /\ at.broke <=> \E i \in x..k : s[i].close > level
        BY <3>1 DEF Knows
      <4>2. x <= k
        BY <4>1 DEF Run
      <4>3. \A i \in x..(k + 1) : i \in x..k \/ i = k + 1
        OBVIOUS
      <4>4. x..k \subseteq x..(k + 1) /\ k + 1 \in x..(k + 1)
        BY <4>2
      <4>5. Run(s, level, a, k + 1, x, k + 1)
        BY <1>2, <4>1, <4>3, <4>4 DEF Run
      <4>6. next.broke <=> at.broke \/ s[k + 1].close > level
        BY <2>3, <3>1
      <4>7. next.broke <=> \E i \in x..(k + 1) : s[i].close > level
        BY <4>1, <4>3, <4>4, <4>6
      <4> QED BY <4>5, <4>7
    <3>2. CASE ~at.inTest
      <4>1. k = a \/ ~Tests(s[k], level)
        BY <3>2 DEF Knows
      <4>2. \A i : i \in (k + 1)..(k + 1) <=> i = k + 1
        OBVIOUS
      <4>3. Run(s, level, a, k + 1, k + 1, k + 1)
        BY <1>2, <4>1, <4>2 DEF Run
      <4>4. next.broke <=> \E i \in (k + 1)..(k + 1) : s[i].close > level
        BY <2>3, <3>2, <4>2
      <4> QED BY <4>3, <4>4
    <3> QED BY <3>1, <3>2 DEF Knows
  <2>5. next.inTest = TRUE /\ next.tests = at.tests
    BY <2>2
  <2>6. a < k + 1
    OBVIOUS
  <2> HIDE DEF next
  <2>7. Knows(s, level, a, k + 1, next)
    BY <1>2, <2>1, <2>3, <2>4, <2>5, <2>6 DEF Knows
  <2> QED BY <2>7 DEF next
<1>3. CASE ~Tests(s[k + 1], level)
  <2>1. ClosedRuns(s, level, a, k + 1) = FailedRuns(s, level, a, k)
    BY <1>1, <1>3
  <2>2. next.tests = FailedTests(at) /\ next.inTest = FALSE /\ next.broke = at.broke
    BY <1>3 DEF After
  <2>3. /\ IsFiniteSet(FailedRuns(s, level, a, k))
        /\ FailedTests(at) = Cardinality(FailedRuns(s, level, a, k))
    <3>1. \A i \in (a + 1)..k : s[i].close \in Nat
      OBVIOUS
    <3> QED BY <3>1, FailedCount
  <2>4. at.broke \in BOOLEAN
    BY DEF Knows
  <2> HIDE DEF next
  <2>5. Knows(s, level, a, k + 1, next)
    BY <1>3, <2>1, <2>2, <2>3, <2>4 DEF Knows
  <2> QED BY <2>5 DEF next
<1> QED BY <1>2, <1>3

(* The pass knows all bars up to the last one: by induction.               *)
LEMMA PassKnows ==
  ASSUME NEW s, NEW level \in Nat, NEW a \in Nat, NEW b \in Nat, a <= b,
         \A i \in (a + 1)..b : s[i].close \in Nat,
         NEW f, IsPass(s, level, a, b, f)
  PROVE  Knows(s, level, a, b, f[b])
<1> DEFINE T == {k \in a..b : ~Knows(s, level, a, k, f[k])}
<1>1. ASSUME T # {} PROVE FALSE
  <2>1. PICK k \in T : \A m \in T : k <= m
    <3> T \subseteq Nat OBVIOUS
    <3> HIDE DEF T
    <3> QED BY <1>1, Least
  <2>2. k \in a..b /\ ~Knows(s, level, a, k, f[k])
    OBVIOUS
  <2>3. f[k] = IF k = a THEN Before0 ELSE After(s, level, f[k - 1], k)
    BY <2>2 DEF IsPass
  <2>4. CASE k = a
    <3>1. TestRuns(s, level, (a + 1)..a) = {}
      BY DEF TestRuns
    <3>2. ClosedRuns(s, level, a, a) = {}
      BY <3>1 DEF ClosedRuns, FailedRuns
    <3>3. IsFiniteSet({}) /\ Cardinality({}) = 0
      BY FS_EmptySet
    <3>4. Knows(s, level, a, a, Before0)
      BY <3>2, <3>3 DEF Knows, Before0
    <3> QED BY <2>2, <2>3, <2>4, <3>4
  <2>5. CASE k # a
    <3>1. k - 1 \in a..b /\ k - 1 \in Nat /\ a <= k - 1 /\ (k - 1) + 1 = k
      BY <2>2, <2>5
    <3>2. k - 1 \notin T
      <4> HIDE DEF T
      <4> QED BY <2>1, <2>2, <3>1
    <3>3. Knows(s, level, a, k - 1, f[k - 1])
      BY <3>1, <3>2
    <3>4. \A i \in (a + 1)..((k - 1) + 1) : s[i].close \in Nat
      BY <2>2
    <3>5. Knows(s, level, a, (k - 1) + 1, After(s, level, f[k - 1], (k - 1) + 1))
      BY <3>1, <3>3, <3>4, KnowsAfter
    <3> QED BY <2>2, <2>3, <2>5, <3>1, <3>5
  <2> QED BY <2>4, <2>5
<1>2. b \in a..b
  OBVIOUS
<1> QED BY <1>1, <1>2

(* The number of failures is the number of failed runs.                    *)
LEMMA LevelTestsCount ==
  ASSUME NEW s \in Seq(Bars), NEW level \in Nat \ {0}, NEW exclude \in Nat, exclude <= Len(s)
  PROVE  LET end   == Len(s) - exclude
             start == Larger(0, end - Freshness)
         IN  LevelTests(s, level, Freshness, exclude) =
               Cardinality(FailedRuns(s, level, start, end))
<1> DEFINE end   == Larger(0, Len(s) - exclude)
           start == Larger(0, end - Freshness)
<1>1. end \in Nat /\ start \in Nat /\ start <= end /\ end = Len(s) - exclude
  BY RangeAssumption DEF Larger
<1>2. \A i \in (start + 1)..end : s[i].close \in Nat
  <2> SUFFICES ASSUME NEW i \in (start + 1)..end PROVE s[i].close \in Nat
    OBVIOUS
  <2>1. i \in 1..Len(s)
    BY <1>1
  <2>2. s[i] \in Bars
    BY <2>1
  <2> QED BY <2>2, RangeAssumption
<1> SUFFICES LevelTests(s, level, Freshness, exclude) = Cardinality(FailedRuns(s, level, start, end))
  BY <1>1
<1>3. CASE end <= start
  <2>1. LevelTests(s, level, Freshness, exclude) = 0
    BY <1>1, <1>3 DEF LevelTests
  <2>2. FailedRuns(s, level, start, end) = {}
    BY <1>1, <1>3 DEF FailedRuns, TestRuns
  <2> QED BY <2>1, <2>2, FS_EmptySet
<1>4. CASE start < end
  <2> DEFINE pass == CHOOSE f : IsPass(s, level, start, end, f)
  <2>1. LevelTests(s, level, Freshness, exclude) = FailedTests(pass[end])
    <3>1. ~(level <= 0 \/ end <= start)
      BY <1>1, <1>4
    <3> QED BY <3>1 DEF LevelTests, IsPass, After, Before0
  <2>2. IsPass(s, level, start, end, pass)
    BY <1>1, PassExists
  <2> HIDE DEF pass
  <2>3. Knows(s, level, start, end, pass[end])
    <3> HIDE DEF start, end
    <3> QED BY <1>1, <1>2, <2>2, PassKnows
  <2>4. FailedTests(pass[end]) = Cardinality(FailedRuns(s, level, start, end))
    <3> HIDE DEF start, end
    <3> DEFINE at == pass[end]
    <3>1. Knows(s, level, start, end, at)
      BY <2>3
    <3> HIDE DEF at
    <3>2. FailedTests(at) = Cardinality(FailedRuns(s, level, start, end))
      <4>1. level \in Nat /\ start \in Nat /\ end \in Nat /\ start <= end
        BY <1>1
      <4>2. IsFiniteSet(FailedRuns(s, level, start, end)) /\ FailedTests(at) = Cardinality(FailedRuns(s, level, start, end))
        BY <1>2, <3>1, <4>1, FailedCount, SMTT(60)
      <4> QED BY <4>2
    <3> QED BY <3>2 DEF at
  <2> QED BY <2>1, <2>4
<1> QED BY <1>1, <1>3, <1>4

(* A box lies in the chart, in front of the latest bar.                    *)
LEMMA BoxInFront ==
  ASSUME NEW B, Priced(B), NEW s \in Seq(B), Box(s).valid
  PROVE  Box(s).duration \in Nat /\ Box(s).duration + 1 <= Len(s)
<1>1. Candidates(s) # {}
  BY DEF Box, NoBox
<1>2. Candidates(s) \subseteq Nat
  BY RangeAssumption DEF Candidates
<1> DEFINE i == CHOOSE i \in Candidates(s) : \A k \in Candidates(s) : i <= k
<1>3. i \in Candidates(s)
  BY <1>1, <1>2, Least
<1>4. Box(s).duration = Windows[i]
  BY <1>1 DEF Box
<1>5. Windows[i] \in Nat /\ Fits(s, Windows[i])
  BY <1>3, RangeAssumption DEF Candidates
<1> HIDE DEF i
<1> QED BY <1>4, <1>5, RangeAssumption DEF Fits, Larger

(* Every analysed chart is a chart.                                        *)
LEMMA LevelTestsOfChart ==
  ASSUME chart \in Seq(Bars)
  PROVE  LevelTestsAgree
<1> DEFINE box == Box(chart)
           end == Len(chart) - 1 - box.duration
           I   == {i \in DOMAIN chart : i <= end /\ i > end - Freshness}
<1> SUFFICES ASSUME chart # <<>>, box.valid
             PROVE  AnalyzeRange(chart).failures =
                      Cardinality({r \in TestRuns(chart, box.high, I) :
                                     \A i \in r : chart[i].close <= box.high})
  BY DEF LevelTestsAgree, AnalyzeRange
<1> DEFINE start == Larger(0, end - Freshness)
<1>1. box.duration \in Nat /\ box.duration + 1 <= Len(chart) /\ box.high \in Nat \ {0}
  BY BarsPriced, BoxInFront, BoxFacts
<1>2. end = Len(chart) - (box.duration + 1) /\ box.duration + 1 \in Nat /\ Len(chart) \in Nat
  BY <1>1
<1>3. AnalyzeRange(chart).failures = LevelTests(chart, box.high, Freshness, box.duration + 1)
  BY DEF AnalyzeRange, OwnBars
<1>4. AnalyzeRange(chart).failures = Cardinality(FailedRuns(chart, box.high, start, end))
  <2> HIDE DEF box
  <2> QED BY <1>1, <1>2, <1>3, LevelTestsCount
<1>5. I = (start + 1)..end
  BY <1>1, <1>2, RangeAssumption DEF Larger
<1> QED BY <1>4, <1>5 DEF FailedRuns

(* The failures the scanner reads off one pass over the bars are the       *)
(* failed runs themselves, on every chart it analyses                      *)
(* (range_engine.py:156-222).                                              *)
THEOREM LevelTestsCounted == Spec => []LevelTestsAgree
<1>1. IInv => LevelTestsAgree
  BY LevelTestsOfChart DEF IInv, TypeOK
<1> QED BY InvHolds, <1>1, PTL

(***************************************************************************)
(* The numbers a signal is sorted by, when a chart turns up.               *)
(***************************************************************************)
One(b) == IF b THEN 1 ELSE 0

(* The charts of a set, counted one by one.                                *)
LEMMA CountThree ==
  ASSUME NEW T, T \subseteq Timeframes
  PROVE  Cardinality(T) = One("4h" \in T) + One("1d" \in T) + One("1wk" \in T)
<1> DEFINE T1h == T \cap {"4h"}
           T2h == T \cap {"4h", "1d"}
<1>0. IsFiniteSet({}) /\ Cardinality({}) = 0
  BY FS_EmptySet
<1>1. IsFiniteSet(T1h) /\ Cardinality(T1h) = One("4h" \in T)
  <2>1. CASE "4h" \in T
    <3>1. T1h = {} \cup {"4h"}
      BY <2>1
    <3> QED BY <1>0, <2>1, <3>1, FS_AddElement DEF One
  <2>2. CASE "4h" \notin T
    <3>1. T1h = {}
      BY <2>2
    <3> QED BY <1>0, <2>2, <3>1 DEF One
  <2> QED BY <2>1, <2>2
<1>2. IsFiniteSet(T2h) /\ Cardinality(T2h) = One("4h" \in T) + One("1d" \in T)
  <2>1. CASE "1d" \in T
    <3>1. T2h = T1h \cup {"1d"} /\ "1d" \notin T1h
      BY <2>1
    <3> QED BY <1>1, <2>1, <3>1, FS_AddElement DEF One
  <2>2. CASE "1d" \notin T
    <3>1. T2h = T1h
      BY <2>2
    <3> QED BY <1>1, <2>2, <3>1 DEF One
  <2> QED BY <2>1, <2>2
<1>3. CASE "1wk" \in T
  <2>1. T = T2h \cup {"1wk"} /\ "1wk" \notin T2h
    BY <1>3 DEF Timeframes
  <2> QED BY <1>2, <1>3, <2>1, FS_AddElement DEF One
<1>4. CASE "1wk" \notin T
  <2>1. T = T2h
    BY <1>4 DEF Timeframes
  <2> QED BY <1>2, <1>4, <2>1 DEF One
<1> QED BY <1>3, <1>4

(* How many of the three charts go a way.                                  *)
Going(c, d) == One(Direction(c, "4h") = d) + One(Direction(c, "1d") = d)
                 + One(Direction(c, "1wk") = d)

(* How many charts go in a direction.                                      *)
LEMMA GoingIsCounted ==
  ASSUME NEW c, NEW d
  PROVE  Cardinality({tf \in Timeframes : Direction(c, tf) = d}) = Going(c, d)
BY CountThree DEF Timeframes, Going

(* A chart goes in one of the three directions.                            *)
LEMMA DirectionIsOne ==
  ASSUME NEW c, NEW tf
  PROVE  Direction(c, tf) \in {"up", "down", "neutral"}
BY DEF Direction, Majority

LEMMA DominantIsCounted ==
  ASSUME NEW c
  PROVE  Dominant(c) = Majority(Going(c, "up"), Going(c, "down"))
BY GoingIsCounted DEF Dominant

(* How many charts have data.                                              *)
Charts(c) == One("4h" \in c.data) + One("1d" \in c.data) + One("1wk" \in c.data)

(* The agreement of the charts is that of the larger side.                 *)
LEMMA AlignmentIsCounted ==
  ASSUME NEW c, c.data \subseteq Timeframes
  PROVE  Alignment(c) = IF Going(c, "up") > Going(c, "down")
                        THEN (100 * Going(c, "up")) \div Charts(c)
                        ELSE IF Going(c, "down") > Going(c, "up")
                             THEN (100 * Going(c, "down")) \div Charts(c) ELSE 0
<1>1. Cardinality(c.data) = Charts(c)
  BY CountThree DEF Charts
<1>2. Cardinality({tf \in Timeframes : Direction(c, tf) = Dominant(c)}) = Going(c, Dominant(c))
  BY GoingIsCounted
<1> QED BY <1>1, <1>2, DominantIsCounted DEF Alignment, Majority

(* A chart that turns up goes up, and the others go on as they did.        *)
LEMMA TurnedUpGoesUp ==
  ASSUME NEW c \in Contexts, NEW tf \in Timeframes
  PROVE  /\ Direction(TurnedUp(c, tf), tf) = "up"
         /\ \A g \in Timeframes : g # tf => Direction(TurnedUp(c, tf), g) = Direction(c, g)
         /\ TurnedUp(c, tf).score = c.score /\ TurnedUp(c, tf).data = c.data
<1> DEFINE u == TurnedUp(c, tf)
<1>1. /\ \A v \in {"stack", "trend", "bias"} : c[v] \in [Timeframes -> Directions]
      /\ {"data", "stack", "trend", "bias", "score"} \subseteq DOMAIN c
  BY SignalAssumption DEF ContextOK
<1>2. /\ \A v \in {"stack", "trend", "bias"} : u[v] = [c[v] EXCEPT ![tf] = "up"]
      /\ u["score"] = c["score"] /\ u["data"] = c["data"]
  BY <1>1 DEF TurnedUp
<1> HIDE DEF u
<1>3. /\ \A v \in {"stack", "trend", "bias"} : u[v][tf] = "up"
      /\ \A v \in {"stack", "trend", "bias"} : \A g \in Timeframes : g # tf => u[v][g] = c[v][g]
  BY <1>1, <1>2
<1>4. Direction(u, tf) = "up"
  <2>1. /\ {v \in {"stack", "trend", "bias"} : u[v][tf] = "down"} = {}
        /\ {v \in {"stack", "trend", "bias"} : u[v][tf] = "up"} = ({"stack"} \cup {"trend"}) \cup {"bias"}
    BY <1>3
  <2>2. IsFiniteSet({"stack"}) /\ Cardinality({"stack"}) = 1 /\ Cardinality({}) = 0
    BY FS_Singleton, FS_EmptySet
  <2>3. /\ IsFiniteSet({"stack"} \cup {"trend"})
        /\ Cardinality({"stack"} \cup {"trend"}) = 2
    <3>1. "trend" \notin {"stack"}
      OBVIOUS
    <3> QED BY <2>2, <3>1, FS_AddElement
  <2>4. Cardinality(({"stack"} \cup {"trend"}) \cup {"bias"}) = 3
    <3>1. "bias" \notin {"stack"} \cup {"trend"}
      OBVIOUS
    <3> QED BY <2>3, <3>1, FS_AddElement
  <2>5. Votes(u, tf, "up") = 3 /\ Votes(u, tf, "down") = 0
    BY <2>1, <2>2, <2>4 DEF Votes
  <2> QED BY <2>5 DEF Direction, Majority
<1>5. ASSUME NEW g \in Timeframes, g # tf PROVE Direction(u, g) = Direction(c, g)
  <2>1. \A d : {v \in {"stack", "trend", "bias"} : u[v][g] = d}
                 = {v \in {"stack", "trend", "bias"} : c[v][g] = d}
    BY <1>3, <1>5
  <2> QED BY <2>1 DEF Direction, Votes
<1> QED BY <1>2, <1>4, <1>5 DEF u

(* A chart without data goes nowhere.                                      *)
LEMMA NoDataNoDirection ==
  ASSUME NEW c \in Contexts, NEW tf \in Timeframes \ c.data
  PROVE  Direction(c, tf) = "neutral"
<1>1. \A v \in {"stack", "trend", "bias"} : c[v][tf] = "neutral"
  BY SignalAssumption DEF ContextOK
<1>2. /\ {v \in {"stack", "trend", "bias"} : c[v][tf] = "up"} = {}
      /\ {v \in {"stack", "trend", "bias"} : c[v][tf] = "down"} = {}
  BY <1>1
<1>3. Votes(c, tf, "up") = 0 /\ Votes(c, tf, "down") = 0
  BY <1>2, FS_EmptySet DEF Votes
<1> QED BY <1>3 DEF Direction, Majority

(* What the signal rules ask of the charts.                                *)
ForBuying(c) == Dominant(c) = "up" \/ Direction(c, "1d") = "up"

(* If the charts are for a buy, they agree as much when one turns up, and  *)
(* a weekly chart that confirmed the daily one still does.                 *)
LEMMA AgreementGrows ==
  ASSUME NEW c \in Contexts, NEW tf \in c.data, ForBuying(c)
  PROVE  /\ Alignment(c) \in Nat /\ Alignment(TurnedUp(c, tf)) \in Nat
         /\ Alignment(TurnedUp(c, tf)) >= Alignment(c)
         /\ Confirmed(c) => Confirmed(TurnedUp(c, tf))
<1> DEFINE u == TurnedUp(c, tf)
<1>0. c.data \subseteq Timeframes /\ "1d" \in c.data
  BY SignalAssumption DEF ContextOK
<1>1. /\ Direction(u, tf) = "up" /\ u.data = c.data
      /\ \A g \in Timeframes : g # tf => Direction(u, g) = Direction(c, g)
  BY <1>0, TurnedUpGoesUp
<1> HIDE DEF u
<1>2. \A g \in Timeframes : Direction(c, g) \in {"up", "down", "neutral"}
  BY DirectionIsOne
<1> DEFINE U == Going(c, "up")  D == Going(c, "down")
           V == Going(u, "up")  E == Going(u, "down")
           n == Charts(c)
<1>3. /\ {U, D, V, E} \subseteq 0..3 /\ n \in 1..3 /\ U + D <= n /\ V + E <= n
      /\ (U = V /\ D = E) \/ (V = U + 1 /\ E = D - 1) \/ (V = U + 1 /\ E = D)
  <2> DEFINE up(x, g) == One(Direction(x, g) = "up")
             down(x, g) == One(Direction(x, g) = "down")
             here(g) == One(g \in c.data)
  <2>1. \A g \in Timeframes : /\ {up(c, g), down(c, g), here(g)} \subseteq 0..1
                              /\ up(c, g) + down(c, g) <= here(g)
    BY <1>2, NoDataNoDirection DEF One
  <2>10. here(tf) = 1 /\ here("1d") = 1 /\ n = here("4h") + here("1d") + here("1wk")
    BY <1>0 DEF One, Charts
  <2>2. up(u, tf) = 1 /\ down(u, tf) = 0
    BY <1>1 DEF One
  <2>3. \A g \in Timeframes : g # tf => up(u, g) = up(c, g) /\ down(u, g) = down(c, g)
    BY <1>1 DEF One
  <2>4. /\ U = up(c, "4h") + up(c, "1d") + up(c, "1wk")
        /\ D = down(c, "4h") + down(c, "1d") + down(c, "1wk")
        /\ V = up(u, "4h") + up(u, "1d") + up(u, "1wk")
        /\ E = down(u, "4h") + down(u, "1d") + down(u, "1wk")
    BY DEF Going
  <2> HIDE DEF up, down, here, U, D, V, E, n
  <2>5. \A g \in Timeframes : /\ up(c, g) \in 0..1 /\ down(c, g) \in 0..1 /\ here(g) \in 0..1
                              /\ up(c, g) + down(c, g) <= here(g)
                              /\ up(u, g) = IF g = tf THEN 1 ELSE up(c, g)
                              /\ down(u, g) = IF g = tf THEN 0 ELSE down(c, g)
    BY <2>1, <2>2, <2>3
  <2>6. "4h" \in Timeframes /\ "1d" \in Timeframes /\ "1wk" \in Timeframes
    BY DEF Timeframes
  <2>7. CASE tf = "4h"
    BY <2>4, <2>5, <2>6, <2>7, <2>10
  <2>8. CASE tf = "1d"
    BY <2>4, <2>5, <2>6, <2>8, <2>10
  <2>9. CASE tf = "1wk"
    BY <2>4, <2>5, <2>6, <2>9, <2>10
  <2> QED BY <1>0, <2>7, <2>8, <2>9 DEF Timeframes
<1>4. U > D \/ U >= 1
  BY <1>3, DominantIsCounted DEF ForBuying, Majority, Going, One
<1>5. /\ Alignment(c) = IF U > D THEN (100 * U) \div n ELSE IF D > U THEN (100 * D) \div n ELSE 0
      /\ Alignment(u) = IF V > E THEN (100 * V) \div n ELSE IF E > V THEN (100 * E) \div n ELSE 0
  <2>1. Charts(u) = n
    BY <1>1 DEF Charts
  <2> HIDE DEF n
  <2> QED BY <1>0, <1>1, <2>1, AlignmentIsCounted DEF n
<1>6. Confirmed(c) => Confirmed(u)
  <2> SUFFICES ASSUME Confirmed(c) PROVE Confirmed(u)
    OBVIOUS
  <2>1. Direction(c, "1d") = "up" /\ Direction(c, "1wk") = "up"
    BY <1>2, DominantIsCounted DEF ForBuying, Confirmed, Majority, Going, One, Timeframes
  <2> QED BY <1>1, <2>1 DEF Confirmed, Timeframes
<1>7. Alignment(c) \in Nat /\ Alignment(u) \in Nat /\ Alignment(u) >= Alignment(c)
  <2> HIDE DEF U, D, V, E, n
  <2>1. CASE n = 1
    BY <1>3, <1>4, <1>5, <2>1
  <2>2. CASE n = 2
    BY <1>3, <1>4, <1>5, <2>2
  <2>3. CASE n = 3
    BY <1>3, <1>4, <1>5, <2>3
  <2> QED BY <1>3, <2>1, <2>2, <2>3
<1> QED BY <1>6, <1>7 DEF u

(* A signal's reward is a number. *)
LEMMA RewardIsNatural ==
  ASSUME NEW sig, sig.t2 \in Nat, sig.entry \in Nat, sig.sl \in Nat,
         sig.sl < sig.entry, sig.entry < sig.t2
  PROVE  Reward(sig) \in Nat
<1> DEFINE x == 20 * (sig.t2 - sig.entry)
           y == sig.entry - sig.sl
<1>1. x \in Nat /\ y \in Nat \ {0}
  OBVIOUS
<1> HIDE DEF x, y
<1>2. x \div y \in Nat
  BY <1>1
<1> QED BY <1>2 DEF Reward, Smaller, x, y

(* The rank grows with the agreement of the charts and its confirmation,   *)
(* and so does the confidence.                                             *)
LEMMA RankGrows ==
  ASSUME NEW c, NEW u, c.score \in 0..100, u.score = c.score,
         Alignment(c) \in Nat, Alignment(u) \in Nat, Alignment(u) >= Alignment(c),
         Confirmed(c) => Confirmed(u),
         NEW sig, Reward(sig) \in Nat
  PROVE  /\ CompositeScore(u, sig) >= CompositeScore(c, sig)
         /\ \A q \in {0, 100} : \A sequence, fib \in BOOLEAN :
              Confidence(u, q, sequence, fib) >= Confidence(c, q, sequence, fib)
<1>1. /\ GateStrength(c) \in Nat /\ GateStrength(u) \in Nat
      /\ GateStrength(u) >= GateStrength(c)
  BY DEF GateStrength
<1>2. \A n, m \in Nat : n <= m => Smaller(100, n \div 10000) <= Smaller(100, m \div 10000)
  BY DEF Smaller
<1>3. CompositeScore(u, sig) >= CompositeScore(c, sig)
  <2> DEFINE a == 55 * GateStrength(c) + 25 * Readiness + 20 * Reward(sig)
             b == 55 * GateStrength(u) + 25 * Readiness + 20 * Reward(sig)
             f == IF Confirmed(c) THEN 108 ELSE 100
             g == IF Confirmed(u) THEN 108 ELSE 100
  <2>1. a \in Nat /\ b \in Nat /\ a <= b
    BY <1>1 DEF Readiness
  <2>2. a * f \in Nat /\ b * g \in Nat /\ a * f <= b * g
    <3> HIDE DEF a, b
    <3> QED BY <2>1
  <2>3. /\ CompositeScore(c, sig) = Smaller(100, (a * f) \div 10000)
        /\ CompositeScore(u, sig) = Smaller(100, (b * g) \div 10000)
    BY DEF CompositeScore
  <2>4. Smaller(100, (a * f) \div 10000) \in Int /\ Smaller(100, (b * g) \div 10000) \in Int
    <3> HIDE DEF a, b, f, g
    <3> QED BY <2>2 DEF Smaller
  <2> HIDE DEF a, b, f, g
  <2> QED BY <1>2, <2>2, <2>3, <2>4
<1>4. ASSUME NEW q \in {0, 100}, NEW sequence \in BOOLEAN, NEW fib \in BOOLEAN
      PROVE  Confidence(u, q, sequence, fib) >= Confidence(c, q, sequence, fib)
  <2> DEFINE a == 30 * GateStrength(c) + 25 * Alignment(c) + 20 * q + 25 * Readiness
             b == 30 * GateStrength(u) + 25 * Alignment(u) + 20 * q + 25 * Readiness
             rest == (IF sequence THEN 0 ELSE 8)
             more == (IF fib THEN 8 ELSE 0)
             f == 100 + (IF Confirmed(c) THEN 10 ELSE 0) - rest + more
             g == 100 + (IF Confirmed(u) THEN 10 ELSE 0) - rest + more
  <2>1. a \in Nat /\ b \in Nat /\ a <= b
    BY <1>1 DEF Readiness
  <2>2. f \in Nat /\ g \in Nat /\ f <= g
    OBVIOUS
  <2>3. a * f \in Nat /\ b * g \in Nat /\ a * f <= b * g
    <3> HIDE DEF a, b, f, g
    <3> QED BY <2>1, <2>2
  <2>4. /\ Confidence(c, q, sequence, fib) = Smaller(100, (a * f) \div 10000)
        /\ Confidence(u, q, sequence, fib) = Smaller(100, (b * g) \div 10000)
    BY DEF Confidence
  <2>5. Smaller(100, (a * f) \div 10000) \in Int /\ Smaller(100, (b * g) \div 10000) \in Int
    <3> HIDE DEF a, b, f, g
    <3> QED BY <2>3 DEF Smaller
  <2> HIDE DEF a, b, f, g
  <2> QED BY <1>2, <2>3, <2>4, <2>5
<1> QED BY <1>3, <1>4

(* The charts of a day with a signal are for a buy: two of three go up, or *)
(* the daily one does.                                                     *)
SignalForBuying == signal # NoSignal => ForBuying(ctx)

LEMMA ForBuyingHolds == Spec => []SignalForBuying
<1>1. Init => SignalForBuying
  BY DEF Init, SignalForBuying
<1>2. SignalForBuying /\ [Next]_vars => SignalForBuying'
  <2>1. ASSUME NEW s, NEW c \in Contexts, Scanned(s, c) PROVE SignalForBuying'
    <3> DEFINE range == AnalyzeRange(s)
    <3>1. ctx' = c /\ signal' = BuildSignal(s, c, range)
      BY <2>1 DEF Scanned
    <3> HIDE DEF range
    <3>2. BuildSignal(s, c, range) # NoSignal => GenerateSignal(s, c, range) # NoSignal
      BY DEF BuildSignal
    <3>3. GenerateSignal(s, c, range) # NoSignal => Dominant(c) = "up" \/ Direction(c, "1d") = "up"
      BY DEF GenerateSignal
    <3> QED BY <3>1, <3>2, <3>3 DEF SignalForBuying, ForBuying, Dominant, Direction, Votes
  <2>2. CASE UNCHANGED vars
    BY <2>2 DEF vars, SignalForBuying, ForBuying, Dominant, Direction, Votes
  <2> QED BY <2>1, <2>2 DEF Next, NextDay
<1> QED BY <1>1, <1>2, PTL DEF Spec

(* For any charts and contexts: the rank and the confidence of a signal    *)
(* are not lower when one of its charts turns up                           *)
(* (multi_timeframe.py:74-114). It takes the first rule of the signal: in  *)
(* a context that is not for a buy, a chart that turns up may well lower   *)
(* the agreement.                                                          *)
THEOREM BetterChartsCount == Spec => []BetterChartsRankHigher
<1>1. IInv /\ SignalForBuying => BetterChartsRankHigher
  <2> SUFFICES ASSUME IInv, SignalForBuying, signal # NoSignal, NEW tf \in ctx.data
               PROVE  LET better == TurnedUp(ctx, tf)
                      IN  /\ CompositeScore(better, signal) >= CompositeScore(ctx, signal)
                          /\ \A q \in {0, 100}, sequence, fib \in BOOLEAN :
                               Confidence(better, q, sequence, fib)
                                 >= Confidence(ctx, q, sequence, fib)
    BY DEF BetterChartsRankHigher
  <2>1. /\ ctx \in Contexts /\ ForBuying(ctx) /\ ctx.score \in 0..100
        /\ tf \in Timeframes
    BY SignalAssumption DEF IInv, TypeOK, SignalForBuying, ContextOK
  <2>2. /\ {signal.t2, signal.entry, signal.sl, signal.t1} \subseteq Nat
        /\ signal.sl < signal.entry /\ signal.entry < signal.t2
    BY DEF IInv, TypeOK, SignalIsTradable
  <2> QED BY <2>1, <2>2, AgreementGrows, TurnedUpGoesUp, RewardIsNatural, RankGrows
<1> QED BY <1>1, InvHolds, ForBuyingHolds, PTL

(***************************************************************************)
(* Day after day: what a new bar does to what was said of the past.        *)
(***************************************************************************)
(* A set of bounded numbers that is not empty has a greatest element.      *)
LEMMA MaxIsMember ==
  ASSUME NEW T, NEW n \in Nat, T \subseteq 1..n, T # {}
  PROVE  Max(T) \in T
<1> DEFINE U == {n - x : x \in T}
<1>1. U \subseteq Nat /\ U # {}
  <2>1. \A x \in T : n - x \in Nat
    OBVIOUS
  <2>2. PICK x \in T : TRUE
    OBVIOUS
  <2>3. n - x \in U
    OBVIOUS
  <2> QED BY <2>1, <2>3
<1>2. PICK u \in U : \A v \in U : u <= v
  <2> HIDE DEF U
  <2> QED BY <1>1, Least
<1>3. PICK x \in T : u = n - x
  OBVIOUS
<1>4. \A y \in T : x >= y
  <2> SUFFICES ASSUME NEW y \in T PROVE x >= y
    OBVIOUS
  <2>1. n - y \in U /\ n - x <= n - y
    BY <1>2, <1>3
  <2> QED BY <2>1
<1> QED BY <1>3, <1>4 DEF Max

(* t begins with s. *)
Prefix(s, t) == Len(s) <= Len(t) /\ \A i \in 1..Len(s) : t[i] = s[i]

(* A chart and a longer one have the same beginnings.                      *)
LEMMA PrefixParts ==
  ASSUME NEW s \in Seq(EngineBars), NEW t \in Seq(EngineBars), Prefix(s, t),
         NEW m \in 0..Len(s)
  PROVE  SubSeq(t, 1, m) = SubSeq(s, 1, m)
<1>1. Len(s) \in Nat /\ Len(t) \in Nat /\ m \in Nat /\ m <= Len(s) /\ m <= Len(t)
  BY LenProperties DEF Prefix
<1>2. CASE m = 0
  BY <1>1, <1>2, SubSeqEmpty
<1>3. CASE m > 0
  <2> DEFINE p == SubSeq(t, 1, m)
             q == SubSeq(s, 1, m)
  <2>1. /\ p \in Seq(EngineBars) /\ Len(p) = m
        /\ q \in Seq(EngineBars) /\ Len(q) = m
        /\ \A i \in 1..m : p[i] = t[i] /\ q[i] = s[i]
    BY <1>1, <1>3, SubSeqProperties
  <2>2. \A i \in 1..m : p[i] = q[i]
    BY <1>1, <2>1 DEF Prefix
  <2> HIDE DEF p, q
  <2> QED BY <2>1, <2>2, SeqEqual
<1> QED BY <1>1, <1>2, <1>3

(* A chart with a bar more: what was a swing point is one, and one day at  *)
(* most, as many bars ago as it takes, is new.                             *)
LEMMA SwingsStay ==
  ASSUME NEW s \in Seq(EngineBars), NEW t \in Seq(EngineBars), Prefix(s, t),
         Len(t) = Len(s) + 1
  PROVE  /\ SwingHighs(s) \subseteq SwingHighs(t)
         /\ SwingHighs(t) \ SwingHighs(s) \subseteq {Len(t) - Lengths.swing}
<1>1. Len(s) \in Nat /\ Lengths.swing \in Nat \ {0}
  BY EngineAssumption, LenProperties DEF WindowNames
<1>2. \A i \in (Lengths.swing + 1)..(Len(s) - Lengths.swing) : \A d \in 1..Lengths.swing :
        t[i] = s[i] /\ t[i - d] = s[i - d] /\ t[i + d] = s[i + d]
  BY <1>1 DEF Prefix
<1>3. ASSUME NEW i \in (Lengths.swing + 1)..(Len(s) - Lengths.swing)
      PROVE  i \in SwingHighs(s) <=> i \in SwingHighs(t)
  <2>1. i \in (Lengths.swing + 1)..(Len(t) - Lengths.swing)
    BY <1>1
  <2> QED BY <1>2, <2>1 DEF SwingHighs
<1>4. ASSUME NEW i \in SwingHighs(t)
      PROVE  i \in (Lengths.swing + 1)..(Len(s) - Lengths.swing) \/ i = Len(t) - Lengths.swing
  <2>1. i \in (Lengths.swing + 1)..(Len(t) - Lengths.swing)
    BY DEF SwingHighs
  <2> QED BY <1>1, <2>1
<1>5. \A i \in SwingHighs(s) : i \in (Lengths.swing + 1)..(Len(s) - Lengths.swing)
  BY DEF SwingHighs
<1> QED BY <1>3, <1>4, <1>5

(* Swing points lie within the chart. *)
LEMMA SwingsAreBars ==
  ASSUME NEW s \in Seq(EngineBars)
  PROVE  SwingHighs(s) \subseteq 1..Len(s) /\ SwingLows(s) \subseteq 1..Len(s)
<1>1. Len(s) \in Nat /\ Lengths.swing \in Nat \ {0}
  BY EngineAssumption, LenProperties DEF WindowNames
<1> QED BY <1>1 DEF SwingHighs, SwingLows

(* The high of a leg and the trend before it are looked for in bars that   *)
(* a longer chart has too.                                                 *)
LEMMA LegStays ==
  ASSUME NEW s \in Seq(EngineBars), NEW t \in Seq(EngineBars), Prefix(s, t),
         Len(s) >= Lengths.leg, Stack(s) = "bullish", Stack(t) = "bullish",
         SwingLows(t) = SwingLows(s)
  PROVE  Leg(t) = Leg(s)
<1>1. /\ Len(s) \in Nat /\ Len(t) \in Nat /\ Lengths.leg \in Nat
      /\ Len(s) <= Len(t) /\ Len(t) >= Lengths.leg
  BY EngineAssumption, LenProperties DEF Prefix, WindowNames
<1> DEFINE low == Max(SwingLows(s))
<1>2. CASE SwingLows(s) = {}
  BY <1>1, <1>2 DEF Leg
<1>3. CASE SwingLows(s) # {}
  <2>1. low \in 1..Len(s)
    BY <1>1, <1>3, MaxIsMember, SwingsAreBars
  <2> HIDE DEF low
  <2> DEFINE before == SubSeq(s, 1, low - 1)
  <2>2. before \in Seq(EngineBars) /\ Len(before) = low - 1 /\ SubSeq(t, 1, low - 1) = before
    BY <1>1, <2>1, PrefixParts, SubSeqProperties
  <2> HIDE DEF before
  <2>3. LegHigh(t, low) = LegHigh(s, low)
    BY <2>2 DEF LegHigh, before
  <2>4. LegHigh(s, low) = 0 \/ LegHigh(s, low) \in 1..(low - 1)
    <3>1. SwingHighs(before) \subseteq 1..(low - 1)
      BY <2>2, SwingsAreBars
    <3>2. LegHigh(s, low) = IF SwingHighs(before) = {} THEN 0 ELSE Max(SwingHighs(before))
      BY DEF LegHigh, before
    <3> QED BY <2>1, <3>1, <3>2, MaxIsMember
  <2> DEFINE high == LegHigh(s, low)
  <2>5. ASSUME high \in 1..(low - 1)
        PROVE  GenuineTrend(t, high) = GenuineTrend(s, high)
    <3> HIDE DEF high
    <3> DEFINE past == SubSeq(s, 1, high - 1)
    <3>1. past \in Seq(EngineBars) /\ Len(past) = high - 1 /\ SubSeq(t, 1, high - 1) = past
      BY <1>1, <2>1, <2>5, PrefixParts, SubSeqProperties
    <3> HIDE DEF past
    <3>2. t[high] = s[high]
      BY <1>1, <2>1, <2>5 DEF Prefix
    <3>3. SwingLows(past) # {} => t[Max(SwingLows(past))] = s[Max(SwingLows(past))]
      <4>1. SwingLows(past) \subseteq 1..(high - 1) /\ high - 1 \in Nat
        BY <2>5, <3>1, SwingsAreBars
      <4>2. SwingLows(past) # {} => Max(SwingLows(past)) \in 1..(high - 1)
        BY <4>1, MaxIsMember
      <4> QED BY <1>1, <2>1, <2>5, <4>2 DEF Prefix
    <3> QED BY <3>1, <3>2, <3>3 DEF GenuineTrend, past
  <2>6. ASSUME high \in 1..(low - 1)
        PROVE  /\ t[high] = s[high] /\ t[low] = s[low]
               /\ \A i \in high..low : t[i] = s[i]
    BY <1>1, <2>1, <2>6 DEF Prefix
  <2> HIDE DEF high
  <2>7. Leg(s) = IF high = 0 \/ low <= high THEN NoLeg
                 ELSE [validated |-> GenuineTrend(s, high)
                                     /\ \E i \in high..low : TouchesEMA200(s[i]),
                       high |-> s[high].high, low |-> s[low].low]
    BY <1>1, <1>3 DEF Leg, low, high
  <2>8. Leg(t) = IF high = 0 \/ low <= high THEN NoLeg
                 ELSE [validated |-> GenuineTrend(t, high)
                                     /\ \E i \in high..low : TouchesEMA200(t[i]),
                       high |-> t[high].high, low |-> t[low].low]
    BY <1>1, <1>3, <2>3 DEF Leg, low, high
  <2>9. high = 0 \/ high \in 1..(low - 1)
    BY <2>4 DEF high
  <2> QED BY <2>5, <2>6, <2>7, <2>8, <2>9
<1> QED BY <1>2, <1>3

(* For any bars and windows: a new day confirms one swing point at most    *)
(* and takes none back (indicators.py:157-175), and the verdict on the     *)
(* last correction stays as long as no new low is confirmed                *)
(* (ema_engine.py:352-418). The chart only grows: that, and that all three *)
(* are looked for before the low, is the argument.                         *)
THEOREM PastIsNotRevised == EngineSpec => PastStays
<1> DEFINE Chart == bars \in Seq(EngineBars)
           Stays == /\ SwingHighs(bars) \subseteq SwingHighs(bars')
                    /\ SwingHighs(bars') \ SwingHighs(bars) \subseteq {Len(bars') - Lengths.swing}
                    /\ /\ Len(bars) >= Lengths.leg
                       /\ Stack(bars) = "bullish" /\ Stack(bars') = "bullish"
                       /\ SwingLows(bars') = SwingLows(bars)
                       => Leg(bars') = Leg(bars)
<1>1. EngineInit => Chart
  BY EmptySeq DEF EngineInit
<1>2. Chart /\ [NextBar]_bars => Chart'
  BY AppendProperties DEF NextBar
<1>3. ASSUME Chart, NextBar PROVE Stays
  <2>1. PICK b \in EngineBars : bars' = Append(bars, b)
    BY <1>3 DEF NextBar
  <2>2. bars' \in Seq(EngineBars) /\ Len(bars') = Len(bars) + 1 /\ Prefix(bars, bars')
    BY <1>3, <2>1, AppendProperties, LenProperties DEF Prefix
  <2> QED BY <1>3, <2>2, SwingsStay, LegStays
<1>4. Chart /\ [NextBar]_bars => [Stays]_bars
  BY <1>3
<1> HIDE DEF Chart, Stays
<1>5. EngineSpec => [][Stays]_bars
  BY <1>1, <1>2, <1>4, PTL DEF EngineSpec
<1> QED BY <1>5 DEF PastStays, Stays

(***************************************************************************)
(* Sums (SumFunction of the community modules): an element is taken off    *)
(* until nothing is left. That this ends is an induction over the number   *)
(* of elements.                                                            *)
(***************************************************************************)
Pick(t) == CHOOSE x \in t : TRUE

(* The sums over all subsets of I, and over those with n elements at most. *)
IsSum(val, I, it) ==
  it = [t \in SUBSET I |-> IF t = {} THEN 0 ELSE val[Pick(t)] + it[t \ {Pick(t)}]]

UpTo(I, n) == {t \in SUBSET I : Cardinality(t) <= n}
IsSumTo(val, I, n, it) ==
  it = [t \in UpTo(I, n) |-> IF t = {} THEN 0 ELSE val[Pick(t)] + it[t \ {Pick(t)}]]

(* What is taken off a set leaves one element less.                        *)
LEMMA PickOne ==
  ASSUME NEW I, IsFiniteSet(I), NEW t \in SUBSET I, t # {}
  PROVE  /\ Pick(t) \in t /\ t \ {Pick(t)} \in SUBSET I
         /\ Cardinality(t) \in Nat /\ Cardinality(t) # 0
         /\ Cardinality(t \ {Pick(t)}) = Cardinality(t) - 1
<1>1. IsFiniteSet(t)
  BY FS_Subset
<1>2. Pick(t) \in t
  BY DEF Pick
<1>3. Cardinality(t) \in Nat /\ Cardinality(t) # 0
  BY <1>1, FS_CardinalityType, FS_EmptySet
<1>4. Cardinality(t \ {Pick(t)}) = Cardinality(t) - 1
  BY <1>1, <1>2, FS_RemoveElement
<1> QED BY <1>2, <1>3, <1>4

(* The sums over all subsets exist, by induction over the number of        *)
(* elements.                                                               *)
LEMMA SumExists ==
  ASSUME NEW val, NEW I, IsFiniteSet(I)
  PROVE  \E it : IsSum(val, I, it)
<1> DEFINE Q(n) == \E it : IsSumTo(val, I, n, it)
           T == {n \in Nat : ~Q(n)}
<1>0. \A n \in Nat : n \notin T => Q(n)
  <2> HIDE DEF Q
  <2> QED OBVIOUS
<1>1. ASSUME T # {} PROVE FALSE
  <2>1. PICK n \in T : \A m \in T : n <= m
    <3> T \subseteq Nat OBVIOUS
    <3> HIDE DEF T
    <3> QED BY <1>1, Least
  <2>2. n \in Nat /\ ~Q(n)
    OBVIOUS
  <2>3. CASE n = 0
    <3> DEFINE g == [t \in UpTo(I, 0) |-> 0]
    <3>1. \A t \in UpTo(I, 0) : t = {}
      <4> SUFFICES ASSUME NEW t \in UpTo(I, 0), t # {} PROVE FALSE
        OBVIOUS
      <4>1. t \in SUBSET I /\ Cardinality(t) <= 0
        BY DEF UpTo
      <4>2. Cardinality(t) \in Nat /\ Cardinality(t) # 0
        BY <4>1, PickOne
      <4> QED BY <4>1, <4>2
    <3>2. g = [t \in UpTo(I, 0) |-> IF t = {} THEN 0 ELSE val[Pick(t)] + g[t \ {Pick(t)}]]
      BY <3>1
    <3>3. IsSumTo(val, I, 0, g)
      BY <3>2 DEF IsSumTo
    <3> QED BY <2>2, <2>3, <3>3
  <2>4. CASE n # 0
    <3>1. Q(n - 1)
      <4>1. n - 1 \in Nat /\ n - 1 \notin T
        <5> HIDE DEF T
        <5> QED BY <2>1, <2>2, <2>4
      <4> HIDE DEF T, Q
      <4> QED BY <1>0, <4>1
    <3>2. PICK f : IsSumTo(val, I, n - 1, f)
      BY <3>1
    <3> DEFINE S == UpTo(I, n - 1)
               g == [t \in UpTo(I, n) |-> IF t \in S THEN f[t] ELSE val[Pick(t)] + f[t \ {Pick(t)}]]
    <3>3. \A t \in S : t \in UpTo(I, n)
      <4> SUFFICES ASSUME NEW t \in S PROVE t \in UpTo(I, n)
        OBVIOUS
      <4>1. t \in SUBSET I /\ Cardinality(t) <= n - 1 /\ IsFiniteSet(t)
        BY FS_Subset DEF UpTo
      <4>2. Cardinality(t) \in Nat
        BY <4>1, FS_CardinalityType
      <4>3. Cardinality(t) <= n
        BY <2>2, <4>1, <4>2
      <4> QED BY <4>1, <4>3 DEF UpTo
    <3>4. \A t \in UpTo(I, n) : t # {} => t \ {Pick(t)} \in S
      <4> SUFFICES ASSUME NEW t \in UpTo(I, n), t # {} PROVE t \ {Pick(t)} \in S
        OBVIOUS
      <4>1. t \in SUBSET I /\ Cardinality(t) <= n
        BY DEF UpTo
      <4>2. /\ t \ {Pick(t)} \in SUBSET I /\ Cardinality(t) \in Nat
            /\ Cardinality(t \ {Pick(t)}) = Cardinality(t) - 1
        BY <4>1, PickOne
      <4>3. Cardinality(t \ {Pick(t)}) <= n - 1
        BY <2>2, <4>1, <4>2
      <4> QED BY <4>2, <4>3 DEF UpTo
    <3>5. {} \in S
      <4>1. Cardinality({}) <= n - 1
        BY <2>2, <2>4, FS_EmptySet
      <4> QED BY <4>1 DEF UpTo
    <3>6. \A t \in S : f[t] = IF t = {} THEN 0 ELSE val[Pick(t)] + f[t \ {Pick(t)}]
      BY <3>2 DEF IsSumTo
    <3> HIDE DEF S
    <3>7. \A t \in UpTo(I, n) : g[t] = IF t = {} THEN 0 ELSE val[Pick(t)] + g[t \ {Pick(t)}]
      <4> SUFFICES ASSUME NEW t \in UpTo(I, n)
                   PROVE  g[t] = IF t = {} THEN 0 ELSE val[Pick(t)] + g[t \ {Pick(t)}]
        OBVIOUS
      <4>1. CASE t = {}
        BY <3>5, <3>6, <4>1
      <4>2. CASE t # {}
        <5>1. t \ {Pick(t)} \in S
          BY <3>4, <4>2
        <5>2. g[t \ {Pick(t)}] = f[t \ {Pick(t)}]
          BY <3>3, <5>1
        <5>3. g[t] = val[Pick(t)] + f[t \ {Pick(t)}]
          BY <3>6, <4>2
        <5> QED BY <4>2, <5>2, <5>3
      <4> QED BY <4>1, <4>2
    <3>8. IsSumTo(val, I, n, g)
      BY <3>7 DEF IsSumTo
    <3> QED BY <2>2, <3>8
  <2> QED BY <2>3, <2>4
<1>2. Q(Cardinality(I))
  <2> HIDE DEF Q, T
  <2> QED BY <1>0, <1>1, FS_CardinalityType
<1>3. UpTo(I, Cardinality(I)) = SUBSET I
  BY FS_Subset DEF UpTo
<1> QED BY <1>2, <1>3 DEF IsSum, IsSumTo

(* The sum of finitely many natural numbers is one.                        *)
LEMMA SumIsNat ==
  ASSUME NEW val, IsFiniteSet(DOMAIN val), \A i \in DOMAIN val : val[i] \in Nat
  PROVE  SumFunction(val) \in Nat
<1> DEFINE I == DOMAIN val
           it == CHOOSE g : IsSum(val, I, g)
<1>1. SumFunction(val) = it[I]
  BY DEF SumFunction, SumFunctionOnSet, FoldFunctionOnSet, MapThenFoldSet, IsSum, Pick
<1>2. IsSum(val, I, it)
  BY SumExists
<1> HIDE DEF it
<1>3. \A t \in SUBSET I : it[t] = IF t = {} THEN 0 ELSE val[Pick(t)] + it[t \ {Pick(t)}]
  BY <1>2 DEF IsSum
<1> DEFINE T == {n \in Nat : \E t \in SUBSET I : Cardinality(t) = n /\ it[t] \notin Nat}
<1>4. ASSUME T # {} PROVE FALSE
  <2>1. PICK n \in T : \A m \in T : n <= m
    <3> T \subseteq Nat OBVIOUS
    <3> HIDE DEF T
    <3> QED BY <1>4, Least
  <2>2. PICK t \in SUBSET I : Cardinality(t) = n /\ it[t] \notin Nat
    OBVIOUS
  <2>3. t # {}
    <3>1. {} \in SUBSET I /\ 0 \in Nat
      OBVIOUS
    <3>2. it[{}] = 0
      BY ONLY <1>3, <3>1
    <3> QED BY <2>2, <3>1, <3>2
  <2>4. /\ Pick(t) \in t /\ t \ {Pick(t)} \in SUBSET I /\ n \in Nat /\ n # 0
        /\ Cardinality(t \ {Pick(t)}) = n - 1
    BY <2>2, <2>3, PickOne
  <2>5. it[t \ {Pick(t)}] \in Nat
    <3> SUFFICES ASSUME it[t \ {Pick(t)}] \notin Nat PROVE FALSE
      OBVIOUS
    <3>1. n - 1 \in T
      BY <2>4
    <3> HIDE DEF T
    <3> QED BY <2>1, <2>4, <3>1
  <2>6. it[t] = val[Pick(t)] + it[t \ {Pick(t)}] /\ val[Pick(t)] \in Nat
    BY <1>3, <2>3, <2>4
  <2> QED BY <2>2, <2>5, <2>6
<1>5. it[I] \in Nat
  <2> SUFFICES ASSUME it[I] \notin Nat PROVE FALSE
    OBVIOUS
  <2>1. Cardinality(I) \in T
    BY FS_CardinalityType
  <2> HIDE DEF T
  <2> QED BY <1>4, <2>1
<1> QED BY <1>1, <1>5

(***************************************************************************)
(* The scores of the gate.                                                 *)
(***************************************************************************)
Score == 0..100

(* A rounded quotient is an integer, and natural when the dividend is.     *)
LEMMA DivIsInt ==
  ASSUME NEW x \in Int, NEW y \in Nat \ {0}
  PROVE  x \div y \in Int /\ (x >= 0 => x \div y \in Nat)
OBVIOUS

(* When a rounded quotient reaches a number, and when it stays below one.  *)
LEMMA DivBounds ==
  ASSUME NEW x \in Int, NEW y \in Nat \ {0}, NEW n \in Int
  PROVE  /\ (x \div y >= n) <=> (x >= n * y)
         /\ (x <= n * y) => (x \div y <= n)
<1> DEFINE q == x \div y
           r == x % y
<1>1. q \in Int /\ r \in Nat /\ r < y /\ x = y * q + r
  OBVIOUS
<1> HIDE DEF q, r
<1>2. ASSUME q >= n PROVE x >= n * y
  <2>1. q - n \in Nat
    BY <1>1, <1>2
  <2>2. y * (q - n) >= 0
    BY <2>1
  <2> QED BY <1>1, <2>2
<1>3. ASSUME ~(q >= n) PROVE ~(x >= n * y)
  <2>1. n - 1 - q \in Nat
    BY <1>1, <1>3
  <2>2. y * (n - 1 - q) >= 0
    BY <2>1
  <2> QED BY <1>1, <2>2
<1>4. ASSUME x <= n * y PROVE q <= n
  <2> SUFFICES ASSUME q > n PROVE FALSE
    BY <1>1
  <2>1. q - 1 - n \in Nat
    BY <1>1
  <2>2. y * (q - 1 - n) >= 0
    BY <2>1
  <2> QED BY <1>1, <1>4, <2>2
<1> QED BY <1>2, <1>3, <1>4 DEF q

(* A number that is cut off at 0 and 100 is a score.                       *)
LEMMA WithinRange ==
  ASSUME NEW x \in Int
  PROVE  Within(x, 0, 100) \in Score /\ (x >= 0 => Within(x, 0, 100) = Smaller(100, x))
BY DEF Within, Larger, Smaller, Score

(* The bars of a window are bars of the chart.                             *)
LEMMA PastFacts ==
  ASSUME NEW s \in Seq(EngineBars), NEW n \in Nat
  PROVE  /\ IsFiniteSet(Past(s, n)) /\ Cardinality(Past(s, n)) = Smaller(n, Len(s))
         /\ Past(s, n) \subseteq 1..Len(s)
         /\ n > 0 /\ s # <<>> => Len(s) \in Past(s, n)
<1> DEFINE a == Larger(0, Len(s) - n) + 1
<1>1. a \in Nat /\ 1 <= a /\ Len(s) \in Nat /\ Past(s, n) = a..Len(s)
  BY DEF Larger, Past
<1>2. /\ IsFiniteSet(a..Len(s))
      /\ Cardinality(a..Len(s)) = IF a > Len(s) THEN 0 ELSE Len(s) - a + 1
  <2> HIDE DEF a
  <2> DEFINE b == Len(s)
  <2>1. a \in Int /\ b \in Int
    BY <1>1
  <2> HIDE DEF b
  <2>2. IsFiniteSet(a..b) /\ Cardinality(a..b) = IF a > b THEN 0 ELSE b - a + 1
    BY <2>1, FS_Interval
  <2> QED BY <2>2 DEF b
<1>3. (IF a > Len(s) THEN 0 ELSE Len(s) - a + 1) = Smaller(n, Len(s))
  BY DEF Larger, Smaller
<1>4. n > 0 /\ s # <<>> => a <= Len(s)
  BY DEF Larger
<1> QED BY <1>1, <1>2, <1>3, <1>4

(* The columns of a bar of a chart.                                        *)
LEMMA BarFacts ==
  ASSUME NEW s \in Seq(EngineBars), NEW i \in 1..Len(s)
  PROVE  /\ s[i].low \in Nat /\ s[i].high \in Nat /\ s[i].close \in Nat \ {0}
         /\ s[i].low <= s[i].high
         /\ s[i].volume \in Nat
         /\ {s[i].atr, s[i].adx, s[i].width} \subseteq Nat \cup {Missing}
         /\ s[i].ema \in [Periods -> Nat]
<1> DEFINE b == s[i]
<1>1. b \in EngineBars
  OBVIOUS
<1> HIDE DEF b
<1>2. /\ b.low \in Nat \ {0} /\ b.close \in Nat /\ b.high \in Nat
      /\ b.low <= b.close /\ b.close <= b.high
  BY <1>1, EngineAssumption
<1>3. /\ b.ema \in [Periods -> Nat] /\ b.volume \in Nat
      /\ {b.atr, b.adx, b.width} \subseteq Nat \cup {Missing}
  BY <1>1, EngineAssumption
<1>4. b.close \in Nat \ {0}
  BY <1>2
<1> QED BY <1>2, <1>3, <1>4 DEF b

(* So have the bars of the engines.                                        *)
LEMMA EngineBarsPriced == Priced(EngineBars)
<1> SUFFICES ASSUME NEW b \in EngineBars
             PROVE  /\ b.high \in Nat /\ b.low \in Nat /\ b.close \in Nat
                    /\ b.low <= b.close /\ b.close <= b.high
  BY DEF Priced
<1> QED BY EngineAssumption

LEMMA LengthFacts == \A w \in WindowNames : Lengths[w] \in Nat \ {0}
BY EngineAssumption

(* A volume over some bars of a chart.                                     *)
LEMMA VolumeIsNat ==
  ASSUME NEW s \in Seq(EngineBars), NEW I \in SUBSET (1..Len(s)), IsFiniteSet(I)
  PROVE  Volume(s, I) \in Nat
<1> DEFINE val == [i \in I |-> s[i].volume]
<1>1. \A i \in DOMAIN val : val[i] \in Nat
  BY BarFacts
<1>2. DOMAIN val = I
  OBVIOUS
<1> HIDE DEF val
<1>3. SumFunction(val) \in Nat
  BY <1>1, <1>2, SumIsNat
<1> QED BY <1>3 DEF Volume, val

(* A percentile is a number, and a small one only if there are enough      *)
(* values.                                                                 *)
LEMMA PercentileFacts ==
  ASSUME NEW s, NEW value, IsFiniteSet(DOMAIN value)
  PROVE  /\ Percentile(s, value) \in Nat
         /\ Percentile(s, value) <= 20 => Cardinality(DOMAIN value) >= Lengths.look
<1> DEFINE I == DOMAIN value
           J == {i \in I : value[i] < value[Len(s)]}
<1>1. Cardinality(I) \in Nat /\ Cardinality(J) \in Nat
  BY FS_Subset, FS_CardinalityType
<1>2. Lengths.look \in Nat \ {0}
  BY LengthFacts DEF WindowNames
<1>3. Percentile(s, value) = IF Cardinality(I) < Lengths.look THEN 100
                             ELSE (100 * Cardinality(J)) \div Lengths.look
  BY DEF Percentile
<1>4. (100 * Cardinality(J)) \div Lengths.look \in Nat
  BY <1>1, <1>2, DivIsInt
<1> HIDE DEF I, J
<1> QED BY <1>1, <1>2, <1>3, <1>4 DEF I

(* The squeeze is a score, and positive below percentile 20.               *)
LEMMA SqueezeRange ==
  ASSUME NEW pct \in Nat
  PROVE  /\ SqueezeScore(pct) \in Score
         /\ pct <= 20 => SqueezeScore(pct) > 0 \/ pct = 20
BY DEF SqueezeScore, Score

(* A ribbon is tight only if an average has begun by today.                *)
LEMMA TightnessFacts ==
  ASSUME NEW s \in Seq(EngineBars), s # <<>>
  PROVE  /\ Tightness(s) \in Nat
         /\ Tightness(s) <= 20 => Begun(Last(s)) # {}
<1> DEFINE P == Past(s, Lengths.look)
           I == {j \in P : Begun(s[j]) # {}}
           value == [i \in I |-> Spread(s[i])]
<1>1. Lengths.look \in Nat \ {0}
  BY LengthFacts DEF WindowNames
<1>2. IsFiniteSet(P) /\ Cardinality(P) <= Lengths.look /\ Len(s) \in P
  <2>1. Len(s) \in Nat
    OBVIOUS
  <2> QED BY <1>1, <2>1, PastFacts DEF Smaller
<1>3. IsFiniteSet(I) /\ Cardinality(I) \in Nat /\ Cardinality(P) \in Nat
  BY <1>2, FS_Subset, FS_CardinalityType
<1>4. DOMAIN value = I
  OBVIOUS
<1>5. Tightness(s) = Percentile(s, value)
  BY DEF Tightness
<1> HIDE DEF value
<1>6. Percentile(s, value) \in Nat /\ (Percentile(s, value) <= 20 => Cardinality(I) >= Lengths.look)
  BY <1>3, <1>4, PercentileFacts
<1>7. Cardinality(I) >= Lengths.look => I = P
  <2> SUFFICES ASSUME Cardinality(I) >= Lengths.look PROVE I = P
    OBVIOUS
  <2>1. Cardinality(I) = Cardinality(P)
    <3>1. Cardinality(I) <= Cardinality(P)
      BY <1>2, FS_Subset
    <3> QED BY <1>1, <1>2, <1>3, <3>1
  <2>2. I \subseteq P
    OBVIOUS
  <2> HIDE DEF I, P
  <2> QED BY <1>2, <2>1, <2>2, FS_Subset
<1> QED BY <1>2, <1>5, <1>6, <1>7 DEF Last

(* A ratio is scored within its range.                                     *)
LEMMA BelowRange ==
  ASSUME NEW a \in Nat, NEW b \in Nat \ {0}, NEW w \in Nat \ {0}
  PROVE  /\ 100 * (100 * b - 100 * a) \in Int /\ w * b \in Nat \ {0}
         /\ Below(a, b, w) \in Score
<1>1. 100 * (100 * b - 100 * a) \in Int /\ w * b \in Nat \ {0}
  OBVIOUS
<1>2. (100 * (100 * b - 100 * a)) \div (w * b) \in Int
  BY <1>1, DivIsInt
<1> QED BY <1>1, <1>2, WithinRange DEF Below

(* A volume that dries up for the stricter measure does so for the other.  *)
LEMMA DriesUp ==
  ASSUME NEW a \in Nat, NEW b \in Nat \ {0}, Below(a, b, 50) >= 60
  PROVE  Below(a, b, 60) >= 50
<1> DEFINE x == 100 * (100 * b - 100 * a)
           q == x \div (50 * b)
           p == x \div (60 * b)
<1>1. x \in Int /\ 50 * b \in Nat \ {0} /\ 60 * b \in Nat \ {0}
  OBVIOUS
<1>2. Below(a, b, 50) = Within(q, 0, 100) /\ Below(a, b, 60) = Within(p, 0, 100)
  BY DEF Below
<1>3. (q >= 60 <=> x >= 60 * (50 * b)) /\ (p >= 50 <=> x >= 50 * (60 * b)) /\ q \in Int /\ p \in Int
  <2> HIDE DEF x
  <2> QED BY <1>1, DivBounds, DivIsInt
<1> HIDE DEF x, p, q
<1>4. q >= 60
  BY <1>2, <1>3 DEF Within, Larger, Smaller
<1>5. p >= 50
  BY <1>3, <1>4
<1> QED BY <1>2, <1>3, <1>5 DEF Within, Larger, Smaller

(* Both measures of a volume that dries up are scores, and they go         *)
(* together.                                                               *)
LEMMA DryUpRange ==
  ASSUME NEW s \in Seq(EngineBars)
  PROVE  /\ DryUp(s, 50) \in Score /\ DryUp(s, 60) \in Score
         /\ DryUp(s, 50) >= 60 => DryUp(s, 60) >= 50
<1> DEFINE long == Volume(s, Past(s, Lengths.long))
           a == Lengths.long * Volume(s, Past(s, Lengths.short))
           b == Lengths.short * long
<1>1. Lengths.long \in Nat \ {0} /\ Lengths.short \in Nat \ {0}
  BY LengthFacts DEF WindowNames
<1>2. long \in Nat /\ Volume(s, Past(s, Lengths.short)) \in Nat
  BY <1>1, PastFacts, VolumeIsNat
<1>3. a \in Nat
  <2> HIDE DEF long
  <2> QED BY <1>1, <1>2
<1>4. \A w : DryUp(s, w) = IF Len(s) < Lengths.long \/ long = 0 THEN 0 ELSE Below(a, b, w)
  BY DEF DryUp
<1>5. long # 0 => b \in Nat \ {0}
  <2> HIDE DEF long
  <2> QED BY <1>1, <1>2
<1> HIDE DEF a, b, long
<1>6. CASE Len(s) < Lengths.long \/ long = 0
  BY <1>4, <1>6 DEF Score
<1>7. CASE ~(Len(s) < Lengths.long \/ long = 0)
  <2>1. DryUp(s, 50) = Below(a, b, 50) /\ DryUp(s, 60) = Below(a, b, 60) /\ b \in Nat \ {0}
    BY <1>4, <1>5, <1>7
  <2>2. Below(a, b, 50) \in Score /\ Below(a, b, 60) \in Score
    BY <1>3, <2>1, BelowRange
  <2>3. Below(a, b, 50) >= 60 => Below(a, b, 60) >= 50
    BY <1>3, <2>1, DriesUp
  <2> QED BY <2>1, <2>2, <2>3
<1> QED BY <1>6, <1>7

(* Narrow bars against the ATR are scored.                                 *)
LEMMA NarrowRange ==
  ASSUME NEW s \in Seq(EngineBars), s # <<>>
  PROVE  NarrowScore(s) \in Score
<1> DEFINE n == Lengths.narrow
           val == [i \in Past(s, n) |-> s[i].high - s[i].low]
           range == SumFunction(val)
<1>1. n \in Nat \ {0}
  BY LengthFacts DEF WindowNames
<1>2. IsFiniteSet(Past(s, n)) /\ Past(s, n) \subseteq 1..Len(s)
  BY <1>1, PastFacts
<1>3. \A i \in DOMAIN val : val[i] \in Nat
  <2> SUFFICES ASSUME NEW i \in Past(s, n) PROVE s[i].high - s[i].low \in Nat
    OBVIOUS
  <2>1. s[i].low \in Nat /\ s[i].high \in Nat /\ s[i].low <= s[i].high
    BY <1>2, BarFacts
  <2> QED BY <2>1
<1>4. DOMAIN val = Past(s, n)
  OBVIOUS
<1>5. range \in Nat
  <2> HIDE DEF val
  <2> QED BY <1>2, <1>3, <1>4, SumIsNat
<1>6. Last(s).atr \in Nat \cup {Missing}
  <2>1. Len(s) \in 1..Len(s)
    OBVIOUS
  <2> QED BY <2>1, BarFacts DEF Last
<1>7. NarrowScore(s) = IF Len(s) < n + Lengths.atr \/ Last(s).atr <= 0 THEN 0
                       ELSE Below(range, n * Last(s).atr, 40)
  BY DEF NarrowScore
<1> HIDE DEF range, n
<1>8. ~(Last(s).atr <= 0) => n * Last(s).atr \in Nat \ {0}
  BY <1>1, <1>6 DEF Missing
<1>9. ~(Last(s).atr <= 0) => Below(range, n * Last(s).atr, 40) \in Score
  BY <1>5, <1>8, BelowRange
<1>10. 0 \in Score
  BY DEF Score
<1> QED BY <1>7, <1>9, <1>10

(* So are the bands and the ATR,                                           *)
LEMMA WidthRange ==
  ASSUME NEW s \in Seq(EngineBars)
  PROVE  WidthScore(s) \in Score /\ ATRScore(s) \in Score
<1> DEFINE P == Past(s, Lengths.look)
           w == [i \in {j \in P : s[j].width # Missing} |-> s[i].width]
           r == [i \in {j \in P : s[j].atr # Missing} |-> s[i].atr]
<1>1. IsFiniteSet(P)
  BY LengthFacts, PastFacts DEF WindowNames
<1>2. IsFiniteSet(DOMAIN w) /\ IsFiniteSet(DOMAIN r)
  <2>1. DOMAIN w \subseteq P /\ DOMAIN r \subseteq P
    OBVIOUS
  <2> HIDE DEF w, r, P
  <2> QED BY <1>1, <2>1, FS_Subset
<1>3. WidthScore(s) = SqueezeScore(Percentile(s, w))
  BY DEF WidthScore
<1>4. ATRScore(s) = IF Percentile(s, r) <= 25 THEN 100 - 4 * Percentile(s, r) ELSE 0
  BY DEF ATRScore
<1> HIDE DEF w, r
<1>5. Percentile(s, w) \in Nat /\ Percentile(s, r) \in Nat
  BY <1>2, PercentileFacts
<1>6. SqueezeScore(Percentile(s, w)) \in Score
  BY <1>5, SqueezeRange
<1>7. \A pct \in Nat : (IF pct <= 25 THEN 100 - 4 * pct ELSE 0) \in Score
  BY DEF Score
<1> QED BY <1>3, <1>4, <1>5, <1>6, <1>7

(* and the ADX.                                                            *)
LEMMA ADXRange ==
  ASSUME NEW s \in Seq(EngineBars), s # <<>>
  PROVE  ADXScore(s) \in Score
<1>1. Last(s).adx \in Nat \cup {Missing}
  <2>1. Len(s) \in 1..Len(s)
    OBVIOUS
  <2> QED BY <2>1, BarFacts DEF Last
<1>2. 175 - 5 * Last(s).adx \in Int
  BY <1>1 DEF Missing
<1>3. Within(175 - 5 * Last(s).adx, 0, 100) \in Score
  BY <1>2, WithinRange
<1> QED BY <1>3 DEF ADXScore, Score

(* Weights that sum up to 100 % make a score of scores.                    *)
LEMMA SixWeights ==
  ASSUME NEW a \in Score, NEW b \in Score, NEW c \in Score,
         NEW d \in Score, NEW e \in Score, NEW f \in Score
  PROVE  /\ (22 * a + 18 * b + 22 * c + 13 * d + 13 * e + 12 * f) \div 100 \in Score
         /\ e >= 50 => (22 * a + 18 * b + 22 * c + 13 * d + 13 * e + 12 * f) \div 100 > 0
BY DEF Score

(* A gate score of 45 takes a contraction or a high volume pattern.        *)
LEMMA ThreeWeights ==
  ASSUME NEW c \in Score, NEW p \in Score, NEW v \in Score
  PROVE  /\ (50 * c + 25 * p + 25 * v) \div 100 \in Score
         /\ (50 * c + 25 * p + 25 * v) \div 100 >= 45 => c > 0 \/ v >= 80
BY DEF Score

(* A mean of 80 takes 60 of each.                                          *)
LEMMA TwoWeights ==
  ASSUME NEW a \in Score, NEW b \in Score
  PROVE  /\ (a + b) \div 2 \in Score
         /\ (a + b) \div 2 >= 80 => a >= 60
BY DEF Score

(* The consolidation is a score, and a volume that dried up leaves a mark  *)
(* on it.                                                                  *)
LEMMA ConsolidationFacts ==
  ASSUME NEW s \in Seq(EngineBars), s # <<>>
  PROVE  /\ Consolidation(s) \in Score
         /\ DryUp(s, 60) >= 50 => Consolidation(s) > 0
<1>1. WidthScore(s) \in Score /\ ATRScore(s) \in Score
  BY WidthRange
<1>2. CompressionScore(s) \in Score
  BY TightnessFacts, SqueezeRange DEF CompressionScore
<1>3. NarrowScore(s) \in Score /\ DryUp(s, 60) \in Score /\ ADXScore(s) \in Score
  BY NarrowRange, DryUpRange, ADXRange
<1> QED BY <1>1, <1>2, <1>3, SixWeights DEF Consolidation

(* A window that fits is one of the bars before the latest.                *)
LEMMA ProximityRange ==
  ASSUME NEW s \in Seq(EngineBars), s # <<>>
  PROVE  Proximity(s) \in Score
<1> DEFINE box == Box(s)
           close == Last(s).close
           below == box.high - close
<1>1. close \in Nat
  <2>1. Len(s) \in 1..Len(s)
    OBVIOUS
  <2> QED BY <2>1, BarFacts DEF Last
<1>2. /\ BreakoutState(s, box) \in {"NO_GATE", "BROKEN_DOWN"} => Proximity(s) = 0
      /\ BreakoutState(s, box) = "BUY_ZONE" => Proximity(s) = 100 - (20 * 25 * below) \div box.high
      /\ BreakoutState(s, box) = "ACCUMULATION" =>
           Proximity(s) = Larger(0, 70 - (280 * below) \div box.high)
      /\ BreakoutState(s, box) = "BREAKOUT_CONFIRMED" => Proximity(s) = 100
      /\ BreakoutState(s, box) = "EXTENDED" => Proximity(s) = 10
  <2> HIDE DEF box
  <2> QED BY DEF Proximity, box
<1>3. box.valid \in BOOLEAN
  BY DEF Box, NoBox
<1>4. box.valid => box.high \in Nat \ {0} /\ box.low \in Nat /\ box.low < box.high
  BY EngineBarsPriced, BoxFacts
<1> HIDE DEF box, close
<1>5. CASE ~box.valid
  <2>1. BreakoutState(s, box) = "NO_GATE"
    BY <1>5 DEF BreakoutState
  <2> QED BY <1>2, <2>1 DEF Score
<1>6. CASE box.valid /\ close < box.low
  <2>1. BreakoutState(s, box) = "BROKEN_DOWN"
    BY <1>1, <1>4, <1>6 DEF BreakoutState, close
  <2> QED BY <1>2, <2>1 DEF Score
<1>7. CASE box.valid /\ close > box.high /\ close >= box.low
  <2>1. BreakoutState(s, box) \in {"BREAKOUT_CONFIRMED", "EXTENDED"}
    BY <1>1, <1>4, <1>7 DEF BreakoutState, close
  <2> QED BY <1>2, <2>1 DEF Score
<1>8. CASE box.valid /\ close >= box.low /\ close <= box.high
  <2>1. BreakoutState(s, box) = IF 25 * below <= box.high THEN "BUY_ZONE" ELSE "ACCUMULATION"
    BY <1>1, <1>4, <1>8 DEF BreakoutState, close
  <2>2. below \in Nat /\ box.high \in Nat \ {0}
    BY <1>1, <1>4, <1>8
  <2> HIDE DEF below
  <2>3. (280 * below) \div box.high \in Nat
    BY <2>2, DivIsInt
  <2>4. CASE 25 * below <= box.high
    <3>1. 20 * 25 * below \in Int /\ 20 * 25 * below >= 0 /\ 20 * 25 * below <= 20 * box.high
      BY <2>2, <2>4
    <3> DEFINE x == 20 * 25 * below
    <3> HIDE DEF x
    <3>2. x \in Int /\ x >= 0 /\ x <= 20 * box.high
      BY <3>1 DEF x
    <3>3. x \div box.high <= 20 /\ x \div box.high \in Nat
      <4>1. x \div box.high \in Nat
        BY <2>2, <3>2, DivIsInt
      <4>2. 20 \in Int
        OBVIOUS
      <4>3. x \div box.high <= 20
        BY <2>2, <3>2, <4>2, DivBounds
      <4> QED BY <4>1, <4>3
    <3>4. Proximity(s) = 100 - x \div box.high
      BY <1>2, <2>1, <2>4 DEF x
    <3>5. \A q \in Nat : q <= 20 => 100 - q \in Score
      BY DEF Score
    <3> QED BY <3>3, <3>4, <3>5
  <2>5. CASE ~(25 * below <= box.high)
    <3>1. Proximity(s) = Larger(0, 70 - (280 * below) \div box.high)
      BY <1>2, <2>1, <2>5
    <3>2. \A q \in Nat : Larger(0, 70 - q) \in Score
      BY DEF Score, Larger
    <3> QED BY <2>3, <3>1, <3>2
  <2> QED BY <2>4, <2>5
<1>9. box.valid => close < box.low \/ (close > box.high /\ close >= box.low)
                   \/ (close >= box.low /\ close <= box.high)
  BY <1>1, <1>4
<1> QED BY <1>3, <1>5, <1>6, <1>7, <1>8, <1>9

(* A volume pattern of 80 takes a volume that dried up.                    *)
LEMMA VolumePatternFacts ==
  ASSUME NEW s \in Seq(EngineBars)
  PROVE  /\ VolumePattern(s) \in Score
         /\ VolumePattern(s) >= 80 => DryUp(s, 50) >= 60
<1> DEFINE v == Pickup(s)
           buildup == IF v.base = 0 THEN 0
                      ELSE Within((200 * (v.recent - v.base)) \div v.base, 0, 100)
           last == Past(s, Lengths.recent)
           rest == Past(s, Lengths.short) \ last
<1>1. Lengths.recent \in Nat \ {0} /\ Lengths.short \in Nat \ {0}
  BY LengthFacts DEF WindowNames
<1>2. IsFiniteSet(rest) /\ rest \subseteq 1..Len(s) /\ IsFiniteSet(last) /\ last \subseteq 1..Len(s)
  BY <1>1, PastFacts, FS_Difference
<1>3. v = [recent |-> Volume(s, last) * Cardinality(rest), base |-> Volume(s, rest) * Lengths.recent]
  BY DEF Pickup
<1>4. Volume(s, last) \in Nat /\ Volume(s, rest) \in Nat /\ Cardinality(rest) \in Nat
  <2> HIDE DEF last, rest
  <2> QED BY <1>2, VolumeIsNat, FS_CardinalityType
<1> HIDE DEF last, rest, v
<1>5. v.recent \in Nat /\ v.base \in Nat
  BY <1>1, <1>3, <1>4
<1>6. buildup \in Score
  <2>1. CASE v.base = 0
    BY <2>1 DEF Score
  <2>2. CASE v.base # 0
    <3>1. 200 * (v.recent - v.base) \in Int
      BY <1>5
    <3>2. (200 * (v.recent - v.base)) \div v.base \in Int
      BY <1>5, <2>2, <3>1, DivIsInt
    <3> QED BY <2>2, <3>2, WithinRange
  <2> QED BY <2>1, <2>2
<1>7. VolumePattern(s) = IF Len(s) < Lengths.long \/ Volume(s, Past(s, Lengths.long)) = 0 THEN 50
                         ELSE (DryUp(s, 50) + buildup) \div 2
  BY DEF VolumePattern, v
<1> HIDE DEF buildup
<1>8. DryUp(s, 50) \in Score
  BY DryUpRange
<1>9. (DryUp(s, 50) + buildup) \div 2 \in Score /\ ((DryUp(s, 50) + buildup) \div 2 >= 80 => DryUp(s, 50) >= 60)
  BY <1>6, <1>8, TwoWeights
<1>10. 50 \in Score /\ ~(50 >= 80)
  BY DEF Score
<1> QED BY <1>7, <1>9, <1>10

(* A chart shows no shut gate without a contraction.                       *)
LEMMA ShutGateOfChart ==
  ASSUME bars \in Seq(EngineBars)
  PROVE  ShutGateContracts
<1> SUFFICES ASSUME bars # <<>>
             PROVE  /\ EMAView(bars).converging =>
                         /\ Phase(bars) = "contracting" /\ Begun(Last(bars)) # {}
                         /\ CompressionScore(bars) > 0 \/ Tightness(bars) = 20
                    /\ GateShut(bars) => Consolidation(bars) > 0
  BY DEF ShutGateContracts
<1>1. ASSUME EMAView(bars).converging
      PROVE  /\ Phase(bars) = "contracting" /\ Begun(Last(bars)) # {}
             /\ CompressionScore(bars) > 0 \/ Tightness(bars) = 20
  <2>1. Converging(bars)
    BY <1>1 DEF EMAView
  <2>2. Tightness(bars) <= 20 /\ Tightness(bars) \in Nat
    BY <2>1, TightnessFacts DEF Converging, IsTight
  <2>3. Phase(bars) = "contracting"
    BY <1>1 DEF Phase
  <2>4. Begun(Last(bars)) # {}
    BY <2>2, TightnessFacts
  <2>5. CompressionScore(bars) > 0 \/ Tightness(bars) = 20
    BY <2>2, SqueezeRange DEF CompressionScore
  <2> QED BY <2>3, <2>4, <2>5
<1>2. ASSUME GateShut(bars) PROVE Consolidation(bars) > 0
  <2>1. Consolidation(bars) \in Score /\ (DryUp(bars, 60) >= 50 => Consolidation(bars) > 0)
    BY ConsolidationFacts
  <2>2. Proximity(bars) \in Score
    BY ProximityRange
  <2>3. VolumePattern(bars) \in Score /\ (VolumePattern(bars) >= 80 => DryUp(bars, 50) >= 60)
    BY VolumePatternFacts
  <2>4. DryUp(bars, 50) >= 60 => DryUp(bars, 60) >= 50
    BY DryUpRange
  <2>5. (50 * Consolidation(bars) + 25 * Proximity(bars) + 25 * VolumePattern(bars)) \div 100 >= 45
    BY <1>2 DEF GateShut, GateScore
  <2>6. Consolidation(bars) > 0 \/ VolumePattern(bars) >= 80
    BY <2>1, <2>2, <2>3, <2>5, ThreeWeights
  <2> QED BY <2>1, <2>3, <2>4, <2>6
<1> QED BY <1>1, <1>2

(***************************************************************************)
(* The scores of the engines.                                              *)
(***************************************************************************)
LEMMA GateScoreRange ==
  ASSUME NEW s \in Seq(EngineBars), s # <<>>
  PROVE  GateScore(s) \in Score
<1>1. 0 \in Score
  BY DEF Score
<1>2. (50 * Consolidation(s) + 25 * Proximity(s) + 25 * VolumePattern(s)) \div 100 \in Score
  BY ConsolidationFacts, ProximityRange, VolumePatternFacts, ThreeWeights
<1> QED BY <1>1, <1>2 DEF GateScore

(* The probability stays a percentage although two factors stretch it.     *)
LEMMA ProbabilityRange ==
  ASSUME NEW s \in Seq(EngineBars), s # <<>>
  PROVE  BreakoutProbability(s) \in Score
<1> DEFINE n == Lengths.prior
           base == Volume(s, Past(s, n)) * Lengths.recent
           pick == Volume(s, Past(s, Lengths.recent)) * n
           factor == IF Len(s) < n \/ base = 0 THEN 100
                     ELSE 100 + Within((50 * (pick - base)) \div base, -20, 30)
           stack == IF Stack(s) \in {"bullish", "bearish"} THEN 110 ELSE 90
<1>1. n \in Nat \ {0} /\ Lengths.recent \in Nat \ {0}
  BY LengthFacts DEF WindowNames
<1>2. Volume(s, Past(s, n)) \in Nat /\ Volume(s, Past(s, Lengths.recent)) \in Nat
  BY <1>1, PastFacts, VolumeIsNat
<1>3. base \in Nat /\ pick \in Nat
  BY <1>1, <1>2
<1>4. BreakoutProbability(s) = Smaller(100, (GateScore(s) * factor * stack) \div 10000)
  BY DEF BreakoutProbability
<1> HIDE DEF base, pick
<1>5. factor \in Nat
  <2>1. CASE Len(s) < n \/ base = 0
    BY <2>1
  <2>2. CASE ~(Len(s) < n \/ base = 0)
    <3>1. 50 * (pick - base) \in Int
      BY <1>3
    <3>2. (50 * (pick - base)) \div base \in Int
      BY <1>3, <2>2, <3>1, DivIsInt
    <3>3. \A x \in Int : 100 + Within(x, -20, 30) \in Nat
      BY DEF Within, Larger, Smaller
    <3> QED BY <2>2, <3>2, <3>3
  <2> QED BY <2>1, <2>2
<1>6. stack \in Nat /\ GateScore(s) \in Nat
  <2>1. GateScore(s) \in Score /\ Score \subseteq Nat
    BY GateScoreRange DEF Score
  <2>2. stack \in Nat
    OBVIOUS
  <2> QED BY <2>1, <2>2
<1> HIDE DEF factor, stack
<1>7. GateScore(s) * factor * stack \in Nat
  BY <1>5, <1>6
<1>8. (GateScore(s) * factor * stack) \div 10000 \in Nat
  BY <1>7, DivIsInt
<1>9. \A x \in Nat : Smaller(100, x) \in Score
  BY DEF Smaller, Score
<1> QED BY <1>4, <1>8, <1>9

(* The quality is a score; no average divides before it has begun.         *)
LEMMA QualityRange ==
  ASSUME NEW s \in Seq(EngineBars), s # <<>>
  PROVE  StructureQuality(s) \in Score
<1> DEFINE I       == Past(s, Lengths.prior)
           val     == [i \in I |-> (1000 * Off(s[i].close, s[i].ema[50])) \div s[i].ema[50]]
           dev     == SumFunction(val) \div Cardinality(I)
           respect == IF \E i \in I : s[i].ema[50] = 0 THEN 50 ELSE Within(100 - dev, 0, 100)
           clean   == IF Stack(s) \in {"bullish", "bearish"} THEN 100 ELSE 40
<1>1. /\ IsFiniteSet(I) /\ I \subseteq 1..Len(s) /\ Cardinality(I) \in Nat \ {0}
  <2>1. Lengths.prior \in Nat \ {0}
    BY LengthFacts DEF WindowNames
  <2>2. IsFiniteSet(I) /\ I \subseteq 1..Len(s) /\ Len(s) \in I
    BY <2>1, PastFacts
  <2>3. I # {}
    BY <2>2
  <2> HIDE DEF I
  <2> QED BY <2>2, <2>3, FS_CardinalityType, FS_EmptySet
<1>2. StructureQuality(s) = IF Len(s) < Lengths.leg THEN 0
                            ELSE (40 * clean + 35 * TrendStrength(s) + 25 * respect) \div 100
  BY DEF StructureQuality
<1>3. TrendStrength(s) \in Score
  <2>1. Last(s).adx \in Nat \cup {Missing}
    <3>1. Len(s) \in 1..Len(s)
      OBVIOUS
    <3> QED BY <3>1, BarFacts DEF Last
  <2>2. \A x \in Nat : Smaller(100, (x * 3) \div 2) \in Score
    BY DEF Smaller, Score
  <2>3. 0 \in Score
    BY DEF Score
  <2> QED BY <2>1, <2>2, <2>3 DEF TrendStrength
<1>4. clean \in Score
  BY DEF Score
<1>5. respect \in Score
  <2>1. CASE \E i \in I : s[i].ema[50] = 0
    <3>1. 50 \in Score
      BY DEF Score
    <3> HIDE DEF dev, I
    <3> QED BY <2>1, <3>1
  <2>2. CASE ~\E i \in I : s[i].ema[50] = 0
    <3>1. \A i \in I : val[i] \in Nat
      <4> SUFFICES ASSUME NEW i \in I PROVE val[i] \in Nat
        OBVIOUS
      <4>1. s[i].close \in Nat /\ s[i].ema[50] \in Nat \ {0}
        <5>1. s[i].ema \in [Periods -> Nat] /\ 50 \in Periods /\ s[i].close \in Nat
          BY <1>1, BarFacts DEF Periods
        <5> QED BY <2>2, <5>1
      <4>2. 1000 * Off(s[i].close, s[i].ema[50]) \in Nat
        BY <4>1 DEF Off
      <4> DEFINE x == 1000 * Off(s[i].close, s[i].ema[50])
      <4> HIDE DEF x
      <4>3. x \in Int /\ x >= 0
        BY <4>2 DEF x
      <4>4. x \div s[i].ema[50] \in Nat
        BY <4>1, <4>3, DivIsInt
      <4> QED BY <4>4 DEF x
    <3>2. DOMAIN val = I
      OBVIOUS
    <3> HIDE DEF val, I
    <3>3. SumFunction(val) \in Nat
      BY <1>1, <3>1, <3>2, SumIsNat
    <3>4. dev \in Int
      BY <1>1, <3>3, DivIsInt
    <3> HIDE DEF dev
    <3>5. 100 - dev \in Int
      BY <3>4
    <3> QED BY <2>2, <3>5, WithinRange
  <2> QED BY <2>1, <2>2
<1> HIDE DEF clean, respect
<1>6. \A c \in Score, t \in Score, r \in Score : (40 * c + 35 * t + 25 * r) \div 100 \in Score
  BY DEF Score
<1>7. 0 \in Score
  BY DEF Score
<1> QED BY <1>2, <1>3, <1>4, <1>5, <1>6, <1>7

(* The last swing high is a bar of the chart.                              *)
LEMMA AgeRange ==
  ASSUME NEW s \in Seq(EngineBars)
  PROVE  CorrectionAge(s) \in 0..Len(s)
<1>1. Len(s) \in Nat /\ SwingHighs(s) \subseteq 1..Len(s)
  BY SwingsAreBars
<1>2. SwingHighs(s) # {} => Max(SwingHighs(s)) \in 1..Len(s)
  BY <1>1, MaxIsMember
<1> QED BY <1>1, <1>2 DEF CorrectionAge

(* The retracements of a leg lie within it.                                *)
LEMMA RetracementsWithin ==
  ASSUME NEW high \in Nat, NEW low \in Nat, NEW f \in FibonacciLevels(high, low)
  PROVE  1000 * low < f /\ f < 1000 * high
<1>1. high > low
  BY DEF FibonacciLevels
<1>2. PICK r \in {236, 382, 500, 618, 786} : f = 1000 * high - r * (high - low)
  BY <1>1 DEF FibonacciLevels
<1> QED BY <1>1, <1>2

(* The ends of a leg are bars of the chart.                                *)
LEMMA LegPrices ==
  ASSUME NEW s \in Seq(EngineBars)
  PROVE  Leg(s).high \in Nat /\ Leg(s).low \in Nat /\ Leg(s).validated \in BOOLEAN
<1> DEFINE low == Max(SwingLows(s))
           high == LegHigh(s, low)
<1>1. CASE Leg(s) = NoLeg
  BY <1>1 DEF NoLeg
<1>2. CASE Leg(s) # NoLeg
  <2>1. SwingLows(s) # {} /\ high # 0 /\ ~(low <= high)
    BY <1>2 DEF Leg
  <2>2. /\ Leg(s).high = s[high].high /\ Leg(s).low = s[low].low
        /\ Leg(s).validated \in BOOLEAN
    BY <1>2 DEF Leg
  <2>3. low \in 1..Len(s) /\ Len(s) \in Nat
    BY <2>1, MaxIsMember, SwingsAreBars
  <2> HIDE DEF low
  <2>4. high \in 1..Len(s)
    <3> DEFINE before == SubSeq(s, 1, low - 1)
    <3>1. before \in Seq(EngineBars) /\ Len(before) = low - 1
      BY <2>3, SubSeqProperties
    <3> HIDE DEF before
    <3>2. SwingHighs(before) \subseteq 1..(low - 1)
      BY <3>1, SwingsAreBars
    <3>3. high = IF SwingHighs(before) = {} THEN 0 ELSE Max(SwingHighs(before))
      BY DEF LegHigh, before
    <3>4. high \in 1..(low - 1)
      BY <2>1, <2>3, <3>2, <3>3, MaxIsMember
    <3> HIDE DEF high
    <3> QED BY <2>3, <3>4
  <2> QED BY <2>2, <2>3, <2>4, BarFacts
<1> QED BY <1>1, <1>2

(* Every chart has its scores in range.                                    *)
LEMMA EngineTypeOfChart ==
  ASSUME bars \in Seq(EngineBars)
  PROVE  EngineTypeOK
<1> DEFINE a == AnalyzeTimeframe(bars)
           leg == Leg(bars)
<1> SUFFICES ASSUME bars # <<>>
             PROVE  /\ {a.score, a.probability, a.quality, Consolidation(bars),
                        VolumePattern(bars), Proximity(bars)} \subseteq 0..100
                    /\ a.phase \in {"contracting", "correcting", "trending", "transitioning"}
                    /\ a.age \in 0..Len(bars)
                    /\ {a.falling, a.sequence, a.corrected, Leads(bars), VolumeBuildup(bars)} \subseteq BOOLEAN
                    /\ \A f \in FibonacciLevels(leg.high, leg.low) :
                         1000 * leg.low < f /\ f < 1000 * leg.high
  BY DEF EngineTypeOK
<1>1. /\ a.score = GateScore(bars) /\ a.probability = BreakoutProbability(bars)
      /\ a.quality = StructureQuality(bars) /\ a.phase = Phase(bars)
      /\ a.age = CorrectionAge(bars)
  BY DEF AnalyzeTimeframe
<1>2. {a.score, a.probability, a.quality, Consolidation(bars),
       VolumePattern(bars), Proximity(bars)} \subseteq Score
  BY <1>1, GateScoreRange, ProbabilityRange, QualityRange, ConsolidationFacts,
     VolumePatternFacts, ProximityRange
<1>3. a.phase \in {"contracting", "correcting", "trending", "transitioning"}
  BY <1>1 DEF Phase
<1>4. a.age \in 0..Len(bars)
  BY <1>1, AgeRange
<1>5. a.falling \in BOOLEAN /\ a.sequence \in BOOLEAN /\ a.corrected \in BOOLEAN
  BY LegPrices DEF AnalyzeTimeframe, BounceSequence
<1>6. Leads(bars) \in BOOLEAN /\ VolumeBuildup(bars) \in BOOLEAN
  BY DEF Leads, GateShut, VolumeBuildup
<1>7. \A f \in FibonacciLevels(leg.high, leg.low) :
        1000 * leg.low < f /\ f < 1000 * leg.high
  BY LegPrices, RetracementsWithin
<1> HIDE DEF a, leg
<1> QED BY <1>2, <1>3, <1>4, <1>5, <1>6, <1>7 DEF Score

LEMMA ChartIsTyped == EngineSpec => [](bars \in Seq(EngineBars))
<1>1. EngineInit => bars \in Seq(EngineBars)
  BY EmptySeq DEF EngineInit
<1>2. bars \in Seq(EngineBars) /\ [NextBar]_bars => (bars \in Seq(EngineBars))'
  BY AppendProperties DEF NextBar
<1> QED BY <1>1, <1>2, PTL DEF EngineSpec

(* What the engines call a shut gate is a contraction, on every chart that *)
(* fits the windows (ema_engine.py:96-99, contraction_engine.py:220-225).  *)
(* The weights decide: position and volume alone stay below the threshold, *)
(* and a volume pattern that comes near it has dried up enough to leave a  *)
(* mark on the contraction as well.                                        *)
THEOREM ShutGatesContract == EngineSpec => []ShutGateContracts
BY ChartIsTyped, ShutGateOfChart, PTL

(* No score leaves 0..100, no retracement its leg, whatever the bars.      *)
THEOREM ScoresStayInRange == EngineSpec => []EngineTypeOK
BY ChartIsTyped, EngineTypeOfChart, PTL

(* The two parts together, as the run has them.                            *)
THEOREM BothAreTyped == MCSpec => []MCTypeOK
<1> DEFINE Both == IInv /\ bars \in Seq(EngineBars)
<1>1. MCInit => Both
  <2>1. Init => IInv
    BY InvInductive
  <2> QED BY <2>1, EmptySeq DEF MCInit, EngineInit
<1>2. Both /\ [MCNext]_<<vars, bars, part>> => Both'
  <2> SUFFICES ASSUME Both, [MCNext]_<<vars, bars, part>> PROVE Both'
    OBVIOUS
  <2>1. IInv /\ [Next]_vars => IInv'
    BY InvInductive
  <2>2. CASE part = "rules" /\ Next /\ UNCHANGED <<bars, part>>
    BY <2>1, <2>2
  <2>3. CASE part = "engines" /\ NextBar /\ UNCHANGED <<vars, part>>
    BY <2>1, <2>3, AppendProperties DEF NextBar
  <2>4. CASE UNCHANGED <<vars, bars, part>>
    BY <2>1, <2>4
  <2> QED BY <2>2, <2>3, <2>4 DEF MCNext
<1>3. Both => MCTypeOK
  BY EngineTypeOfChart DEF MCTypeOK, IInv
<1> HIDE DEF Both
<1> QED BY <1>1, <1>2, <1>3, PTL DEF MCSpec
=============================================================================
