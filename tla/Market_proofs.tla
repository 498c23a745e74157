---------------------------- MODULE Market_proofs ----------------------------
(***************************************************************************)
(* How old bars and prices can be, for any life of the files and of the    *)
(* key, any time-outs, and any number of readers, requests and threads;    *)
(* the types of the synchronisation and of all that the program keeps of   *)
(* the market; and who has the flag is_fno.                                *)
(***************************************************************************)
EXTENDS MCMarket, Universe_proofs, FiniteSetTheorems, SequenceTheorems, TLAPS

(***************************************************************************)
(* The bars of a symbol.                                                   *)
(***************************************************************************)
(* What a reader has is no older than the file it comes from may be.       *)
Young(frame, bar) == bar # None => hour - bar <= CacheTTL(FileOf(frame))

AllYoung == \A r \in Readers : \A f \in DOMAIN bars[r] : Young(f, bars[r][f])

(* The readers' lists and frames are functions of the readers, as the type *)
(* invariant leaves open.                                                  *)
DataInv ==
  /\ DOMAIN reading = Readers /\ DOMAIN bars = Readers
  /\ DataTypeOK
  /\ AllYoung

(* The end of a list of timeframes, and what is left of it after a read.   *)
LeftOf(frames, i) == SubSeq(frames, i, Len(frames))

(* What is left of a request after the next timeframe is left of the same  *)
(* request.                                                                *)
LEMMA LeftToRead ==
  ASSUME NEW frames \in Seq(STRING), NEW i \in 1..(Len(frames) + 1), LeftOf(frames, i) # <<>>
  PROVE  /\ i \in DOMAIN frames
         /\ Head(LeftOf(frames, i)) = frames[i]
         /\ Tail(LeftOf(frames, i)) = LeftOf(frames, i + 1)
         /\ i + 1 \in 1..(Len(frames) + 1)
<1>1. Len(frames) \in Nat /\ DOMAIN frames = 1..Len(frames)
  BY LenProperties
<1>2. i <= Len(frames)
  BY <1>1, SubSeqEmpty DEF LeftOf
<1> QED
  BY <1>1, <1>2, HeadTailOfSubSeq DEF LeftOf

(* What a reader reads next is a timeframe that has a file.                *)
LEMMA NextFrame ==
  ASSUME DataTypeOK, NEW r \in Readers, reading[r] # <<>>
  PROVE  /\ Head(reading[r]) \in Frames
         /\ FileOf(Head(reading[r])) \in Files
         /\ \E frames \in Requests : \E i \in 1..(Len(frames) + 1) :
              Tail(reading[r]) = LeftOf(frames, i)
<1>0. PICK frames \in Requests \cup {<<>>} :
        \E i \in 1..(Len(frames) + 1) : reading[r] = LeftOf(frames, i)
  BY DEF DataTypeOK, LeftOf
<1>1. PICK i \in 1..(Len(frames) + 1) : reading[r] = LeftOf(frames, i)
  BY <1>0
<1>2. frames \in Seq(STRING)
  BY DataAssumption, EmptySeq
<1>3. /\ i \in DOMAIN frames /\ i + 1 \in 1..(Len(frames) + 1)
      /\ Head(reading[r]) = frames[i] /\ Tail(reading[r]) = LeftOf(frames, i + 1)
  BY <1>1, <1>2, LeftToRead
<1>4. frames \in Requests
  BY <1>3, <1>1
<1>5. Head(reading[r]) \in Frames
  BY <1>3, <1>4 DEF Frames
<1> QED
  BY <1>3, <1>4, <1>5 DEF FileOf, Files

(* What reading one timeframe does, for bars that are young enough.        *)
LEMMA KeepStep ==
  ASSUME DataInv, NEW r \in Readers, reading[r] # <<>>,
         NEW bar \in 0..hour \cup {None}, Keep(r, bar),
         Young(Head(reading[r]), bar),
         barFile' \in [Files -> 0..hour \cup {None}]
  PROVE  DataInv'
<1> DEFINE frame == Head(reading[r])
<1>1. /\ frame \in Frames
      /\ \E frames \in Requests : \E i \in 1..(Len(frames) + 1) :
           Tail(reading[r]) = LeftOf(frames, i)
  BY NextFrame DEF DataInv
<1>2. /\ hour' = hour
      /\ DOMAIN reading' = Readers /\ DOMAIN bars' = Readers
      /\ reading'[r] = Tail(reading[r])
      /\ bars'[r] = [f \in DOMAIN bars[r] \cup {frame} |-> IF f = frame THEN bar ELSE bars[r][f]]
      /\ \A q \in Readers : q # r => reading'[q] = reading[q] /\ bars'[q] = bars[q]
  BY DEF Keep, DataInv
<1>3. \A f \in DOMAIN bars'[r] : bars'[r][f] \in 0..hour \cup {None} /\ Young(f, bars'[r][f])
  BY <1>2 DEF DataInv, DataTypeOK, AllYoung
<1>4. AllYoung'
  BY <1>2, <1>3 DEF DataInv, AllYoung, Young, CacheTTL, FileOf
<1>5. ASSUME NEW q \in Readers
      PROVE  /\ \E frames \in Requests \cup {<<>>} :
                  \E i \in 1..(Len(frames) + 1) : reading'[q] = SubSeq(frames, i, Len(frames))
             /\ DOMAIN bars'[q] \subseteq Frames
             /\ \A f \in DOMAIN bars'[q] : bars'[q][f] \in 0..hour \cup {None}
  <2>1. CASE q = r
    BY <1>1, <1>2, <1>3, <2>1 DEF LeftOf, DataInv, DataTypeOK
  <2>2. CASE q # r
    BY <1>2, <2>2 DEF DataInv, DataTypeOK
  <2> QED
    BY <2>1, <2>2
<1> QED
  BY <1>2, <1>4, <1>5 DEF DataInv, DataTypeOK

LEMMA DataInitial == DataInit => DataInv
<1> SUFFICES ASSUME DataInit PROVE DataInv
  OBVIOUS
<1>1. /\ 0 \in 0..hour \cup {None} /\ None \in 0..hour \cup {None}
      /\ hour \in Hours
  BY DataAssumption DEF DataInit, Hours
<1>2. \A r \in Readers : reading[r] = SubSeq(<<>>, 1, Len(<<>>))
  BY DEF DataInit
<1>3. \A r \in Readers : DOMAIN bars[r] = {}
  BY DEF DataInit, NoBars
<1> QED
  BY <1>1, <1>2, <1>3, EmptySeq DEF DataInit, DataInv, DataTypeOK, AllYoung

(* Every step of a reader or the clock keeps what is known of the files.   *)
LEMMA DataStep == DataInv /\ [DataNext]_dvars => DataInv'
<1> SUFFICES ASSUME DataInv, [DataNext]_dvars PROVE DataInv'
  OBVIOUS
<1>1. CASE HourPasses
  <2>1. /\ hour \in Nat /\ hour' = hour + 1 /\ hour' \in Hours
        /\ \A r \in Readers : bars'[r] = NoBars
        /\ DOMAIN bars' = Readers
        /\ barFile' = barFile /\ reading' = reading
    BY <1>1, DataAssumption DEF HourPasses, DataInv, DataTypeOK, Hours
  <2>2. barFile' \in [Files -> 0..hour' \cup {None}]
    BY <2>1 DEF DataInv, DataTypeOK
  <2>3. \A r \in Readers : DOMAIN bars'[r] = {}
    BY <2>1 DEF NoBars
  <2> QED
    BY <2>1, <2>2, <2>3 DEF DataInv, DataTypeOK, AllYoung
<1>2. ASSUME NEW r \in Readers, Ask(r) PROVE DataInv'
  <2>1. PICK frames \in Requests : reading' = [reading EXCEPT ![r] = frames]
    BY <1>2 DEF Ask
  <2>2. frames = SubSeq(frames, 1, Len(frames)) /\ 1 \in 1..(Len(frames) + 1)
    BY DataAssumption, SubSeqFull, LenProperties
  <2>3. UNCHANGED <<hour, barFile, bars>>
    BY <1>2 DEF Ask
  <2>4. AllYoung'
    BY <2>3 DEF DataInv, AllYoung, Young
  <2>5. DOMAIN reading' = Readers /\ DOMAIN bars' = Readers
    BY <2>1, <2>3 DEF DataInv
  <2>6. ASSUME NEW q \in Readers
        PROVE  \E list \in Requests \cup {<<>>} :
                 \E i \in 1..(Len(list) + 1) : reading'[q] = SubSeq(list, i, Len(list))
    <3>1. CASE q = r
      BY <2>1, <2>2, <3>1 DEF DataInv
    <3>2. CASE q # r
      <4>1. reading'[q] = reading[q]
        BY <2>1, <3>2 DEF DataInv
      <4> QED
        BY <4>1 DEF DataInv, DataTypeOK
    <3> QED
      BY <3>1, <3>2
  <2> QED
    BY <2>3, <2>4, <2>5, <2>6 DEF DataInv, DataTypeOK
<1>3. ASSUME NEW r \in Readers, ReadCached(r) PROVE DataInv'
  <2> DEFINE file == FileOf(Head(reading[r]))
  <2>1. file \in Files /\ reading[r] # <<>>
    BY <1>3, NextFrame DEF ReadCached, DataInv
  <2>2. /\ barFile' = barFile /\ barFile[file] \in 0..hour \cup {None}
        /\ Young(Head(reading[r]), barFile[file]) /\ Keep(r, barFile[file])
    BY <1>3, <2>1 DEF ReadCached, Usable, Young, DataInv, DataTypeOK
  <2> QED
    BY <2>1, <2>2, KeepStep DEF DataInv, DataTypeOK
<1>4. ASSUME NEW r \in Readers, Download(r) PROVE DataInv'
  <2> DEFINE file == FileOf(Head(reading[r]))
  <2>1. /\ hour \in 0..hour /\ hour - hour = 0
        /\ {IntradayTTL, DailyTTL} \subseteq Nat
    BY DataAssumption DEF DataInv, DataTypeOK, Hours
  <2>2. Young(Head(reading[r]), hour) /\ Keep(r, hour) /\ reading[r] # <<>>
    BY <1>4, <2>1 DEF Download, Young, CacheTTL
  <2>3. barFile' \in [Files -> 0..hour \cup {None}]
    BY <1>4, <2>1 DEF Download, Stamp, DataInv, DataTypeOK
  <2> QED
    BY <2>1, <2>2, <2>3, KeepStep
<1>5. ASSUME NEW r \in Readers, DownloadFails(r) PROVE DataInv'
  BY <1>5, KeepStep DEF DownloadFails, Young, DataInv, DataTypeOK
<1>6. CASE UNCHANGED dvars
  BY <1>6 DEF dvars, DataInv, DataTypeOK, AllYoung, Young, CacheTTL, FileOf
<1> QED
  BY <1>1, <1>2, <1>3, <1>4, <1>5, <1>6 DEF DataNext

(* For any requests and lives of the files, and readers that read the      *)
(* symbol at any hour: clocks, files and frames keep their types, and no   *)
(* bars come from hours to come (data_fetcher.py).                         *)
THEOREM BarsAreTyped == DataSpec => []DataTypeOK
<1>1. DataInv => DataTypeOK
  BY DEF DataInv
<1> QED
  BY <1>1, DataInitial, DataStep, PTL DEF DataSpec

(* A day sees one close more at most.                                      *)
LEMMA OneClose ==
  ASSUME NEW h \in Nat, NEW b \in Nat, b <= h, h - b <= DayHours
  PROVE  ClosesBy(h) - ClosesBy(b) <= 1
<1>1. DayHours \in Nat \ {0} /\ ClosingHour \in Nat
  BY DataAssumption
<1>2. ASSUME NEW x \in Nat, NEW y \in Nat, y <= x, x - y <= DayHours
      PROVE  x \div DayHours - y \div DayHours <= 1
  <2> DEFINE p == x \div DayHours
             q == y \div DayHours
  <2>1. /\ p \in Nat /\ q \in Nat
        /\ DayHours * p <= x
        /\ y < DayHours * q + DayHours
    BY <1>1, <1>2
  <2>2. CASE p >= q + 2
    <3> HIDE DEF p, q
    <3>1. DayHours * p >= DayHours * (q + 2)
      BY <1>1, <2>1, <2>2
    <3>2. DayHours * (q + 2) = DayHours * q + DayHours + DayHours
      BY <1>1, <2>1
    <3> QED
      BY <1>1, <1>2, <2>1, <3>1, <3>2
  <2> QED
    BY <2>1, <2>2
<1>3. CASE h < ClosingHour
  BY <1>1, <1>3 DEF ClosesBy
<1>4. CASE h >= ClosingHour /\ b < ClosingHour
  <2>1. h - ClosingHour \in Nat /\ h - ClosingHour < DayHours
    BY <1>1, <1>4
  <2>2. (h - ClosingHour) \div DayHours = 0
    BY <1>1, <2>1
  <2> QED
    BY <1>1, <1>4, <2>2 DEF ClosesBy
<1>5. CASE b >= ClosingHour
  BY <1>1, <1>2, <1>5 DEF ClosesBy
<1> QED
  BY <1>1, <1>3, <1>4, <1>5

(* For any requests, readers at any hour and closes a day apart: daily     *)
(* bars lack one close at most, and the 4h bars a stop comes from are      *)
(* behind the daily ones by the life of an intraday file at most           *)
(* (data_fetcher.py:43-48).                                                *)
THEOREM BarsStayClose == DataSpec => []BarsKeepUp
<1>1. ASSUME DataInv PROVE BarsKeepUp
  <2> SUFFICES ASSUME NEW r \in Readers
               PROVE  /\ Has(r, "1d") => ClosesBy(hour) - ClosesBy(bars[r]["1d"]) <= 1
                      /\ Has(r, "4h") /\ Has(r, "1d")
                           => bars[r]["1d"] - bars[r]["4h"] <= IntradayTTL
    BY DEF BarsKeepUp
  <2>1. \A f \in DOMAIN bars[r] : bars[r][f] # None =>
          /\ bars[r][f] \in 0..hour /\ hour \in Nat
          /\ hour - bars[r][f] <= CacheTTL(FileOf(f))
    BY <1>1 DEF DataInv, DataTypeOK, AllYoung, Young, Hours
  <2>2. CacheTTL(FileOf("1d")) = DailyTTL /\ CacheTTL(FileOf("4h")) = IntradayTTL
    BY DataAssumption DEF CacheTTL, FileOf
  <2>3. {IntradayTTL, DailyTTL, DayHours} \subseteq Nat /\ DailyTTL <= DayHours
    BY DataAssumption
  <2> QED
    BY <2>1, <2>2, <2>3, OneClose DEF Has
<1> QED
  BY <1>1, DataInitial, DataStep, PTL DEF DataSpec

(***************************************************************************)
(* The price of a symbol.                                                  *)
(***************************************************************************)
(* A price that a request still waits for was asked for after the request  *)
(* began to wait, and one that is kept came in time for its request.       *)
Timely ==
  /\ key # NoKey => key.stored < PriceTTL /\ key.age <= key.stored + LongestWait
  /\ \A p \in Polls :
       /\ fetch[p] = "running" /\ poll[p] = "waiting" => fetched[p] <= waited[p]
       /\ quoted[p] < PriceTTL + LongestWait

(* Requests have their own clocks, and the threads that work are finitely  *)
(* many.                                                                   *)
PriceInv ==
  /\ DOMAIN waited = Polls
  /\ IsFiniteSet({p \in Polls : fetch[p] = "running"})
  /\ PriceTypeOK
  /\ Timely

(* Every time-out is finite and there is a longest.                        *)
LEMMA LongestWaitIsLongest ==
  LongestWait \in Nat /\ \A p \in Polls : Timeout[p] <= LongestWait
BY PriceAssumption DEF LongestWait

(* A second makes no price older than the wait for it.                     *)
LEMMA SecondPasses == PriceInv /\ Second => PriceInv'
<1> SUFFICES ASSUME PriceInv, Second PROVE PriceInv'
  OBVIOUS
<1>0. /\ LongestWait \in Nat /\ PriceTTL \in Nat \ {0}
      /\ \A p \in Polls : Timeout[p] \in Nat
  BY LongestWaitIsLongest, PriceAssumption
<1>1. /\ \A p \in Polls : waited'[p] = IF poll[p] = "waiting" THEN waited[p] + 1 ELSE 0
      /\ \A p \in Polls : fetched'[p] = IF fetch[p] = "running" THEN Older(fetched[p]) ELSE 0
      /\ DOMAIN waited' = Polls /\ fetch' = fetch /\ poll' = poll /\ quoted' = quoted
  BY DEF Second
<1>2. \A age \in 0..Oldest : Older(age) \in 0..Oldest /\ Older(age) <= age + 1
  BY <1>0 DEF Older, Oldest
<1>3. /\ key' \in [age : 0..Oldest, stored : 0..PriceTTL]
      /\ key' # NoKey => key'.stored < PriceTTL /\ key'.age <= key'.stored + LongestWait
  <2>1. CASE key.stored + 1 >= PriceTTL
    BY <1>0, <2>1 DEF Second, NoKey, Oldest
  <2>2. CASE key.stored + 1 < PriceTTL
    <3>1. key # NoKey
      BY <1>0, <2>2 DEF NoKey
    <3>2. key' = [age |-> Older(key.age), stored |-> key.stored + 1]
      BY <2>2, <1>0 DEF Second, PriceInv, PriceTypeOK
    <3> QED
      BY <1>0, <1>2, <2>2, <3>1, <3>2 DEF PriceInv, PriceTypeOK, Timely
  <2> QED
    BY <1>0, <2>1, <2>2 DEF PriceInv, PriceTypeOK
<1>4. \A p \in Polls : waited'[p] \in 0..Timeout[p]
  BY <1>0, <1>1 DEF Second, PriceInv, PriceTypeOK
<1>5. fetched' \in [Polls -> 0..Oldest]
  BY <1>0, <1>2 DEF Second, PriceInv, PriceTypeOK, Oldest
<1>6. \A p \in Polls : fetch[p] = "running" /\ poll[p] = "waiting" => fetched'[p] <= waited'[p]
  BY <1>0, <1>1, <1>2 DEF PriceInv, PriceTypeOK, Timely, Oldest
<1> QED
  BY <1>1, <1>3, <1>4, <1>5, <1>6 DEF PriceInv, PriceTypeOK, Timely

(* The threads: one more while one is free, or one less.                   *)
LEMMA ThreadTaken ==
  ASSUME PriceInv, NEW p \in Polls, FetchStarts(p)
  PROVE  /\ IsFiniteSet({q \in Polls : fetch'[q] = "running"})
         /\ Cardinality({q \in Polls : fetch'[q] = "running"}) <= Threads
<1> DEFINE running == {q \in Polls : fetch[q] = "running"}
<1>1. {q \in Polls : fetch'[q] = "running"} = running \cup {p}
  BY DEF FetchStarts, PriceInv, PriceTypeOK
<1>2. IsFiniteSet(running) /\ Cardinality(running) < Threads /\ Threads \in Nat
  BY PriceAssumption DEF FetchStarts, HasThread, Busy, PriceInv
<1>3. /\ IsFiniteSet(running \cup {p})
      /\ Cardinality(running \cup {p}) \in {Cardinality(running), Cardinality(running) + 1}
      /\ Cardinality(running) \in Nat
  BY <1>2, FS_AddElement, FS_CardinalityType
<1> QED
  BY <1>1, <1>2, <1>3

(* A fetch that ends leaves the others their threads.                      *)
LEMMA ThreadKept ==
  ASSUME PriceInv,
         {q \in Polls : fetch'[q] = "running"} \subseteq {q \in Polls : fetch[q] = "running"}
  PROVE  /\ IsFiniteSet({q \in Polls : fetch'[q] = "running"})
         /\ Cardinality({q \in Polls : fetch'[q] = "running"}) <= Threads
<1> DEFINE before == {q \in Polls : fetch[q] = "running"}
           after == {q \in Polls : fetch'[q] = "running"}
<1>1. IsFiniteSet(before) /\ Cardinality(before) <= Threads /\ Threads \in Nat
  BY PriceAssumption DEF PriceInv, PriceTypeOK
<1>2. IsFiniteSet(after) /\ Cardinality(after) <= Cardinality(before)
  BY <1>1, FS_Subset
<1>3. Cardinality(after) \in Nat /\ Cardinality(before) \in Nat
  BY <1>1, <1>2, FS_CardinalityType
<1> QED
  BY <1>1, <1>2, <1>3

LEMMA PriceInitial == PriceInit => PriceInv
<1> SUFFICES ASSUME PriceInit PROVE PriceInv
  OBVIOUS
<1>1. {p \in Polls : fetch[p] = "running"} = {}
  BY DEF PriceInit
<1>2. IsFiniteSet({}) /\ Cardinality({}) = 0
  BY FS_EmptySet
<1>3. LongestWait \in Nat /\ PriceTTL \in Nat \ {0} /\ Threads \in Nat
  BY LongestWaitIsLongest, PriceAssumption
<1>4. key \in [age : 0..Oldest, stored : 0..PriceTTL] /\ 0 \in 0..Oldest
  BY <1>3 DEF PriceInit, NoKey, Oldest
<1>5. \A p \in Polls : 0 \in 0..Timeout[p]
  BY PriceAssumption
<1> QED
  BY <1>1, <1>2, <1>3, <1>4, <1>5 DEF PriceInit, PriceInv, PriceTypeOK, Timely

(* Every step of a request, a thread or the clock keeps what is known of   *)
(* the prices.                                                             *)
LEMMA PriceStep == PriceInv /\ [PriceNext]_pvars => PriceInv'
<1> SUFFICES ASSUME PriceInv, [PriceNext]_pvars PROVE PriceInv'
  OBVIOUS
<1>0. /\ LongestWait \in Nat /\ PriceTTL \in Nat \ {0} /\ Threads \in Nat
      /\ \A p \in Polls : Timeout[p] \in Nat /\ Timeout[p] <= LongestWait
  BY LongestWaitIsLongest, PriceAssumption
<1>1. CASE Second
  BY <1>1, SecondPasses
<1>2. ASSUME NEW p \in Polls, AskPrice(p) PROVE PriceInv'
  <2>1. {q \in Polls : fetch'[q] = "running"} \subseteq {q \in Polls : fetch[q] = "running"}
    BY <1>2 DEF AskPrice, PriceInv, PriceTypeOK
  <2>2. CASE key # NoKey
    <3>1. key.age \in 0..Oldest /\ key.age < PriceTTL + LongestWait
      BY <1>0, <2>2 DEF PriceInv, PriceTypeOK, Timely
    <3> QED
      BY <1>0, <1>2, <2>1, <2>2, <3>1, ThreadKept DEF AskPrice, PriceInv, PriceTypeOK, Timely
  <2>3. CASE key = NoKey
    BY <1>0, <1>2, <2>1, <2>3, ThreadKept DEF AskPrice, PriceInv, PriceTypeOK, Timely, Oldest
  <2> QED
    BY <2>2, <2>3
<1>3. ASSUME NEW p \in Polls, FetchStarts(p) PROVE PriceInv'
  <2>1. /\ IsFiniteSet({q \in Polls : fetch'[q] = "running"})
        /\ Cardinality({q \in Polls : fetch'[q] = "running"}) <= Threads
    BY <1>3, ThreadTaken
  <2>2. /\ fetch' \in [Polls -> {"no", "queued", "running"}]
        /\ fetched' \in [Polls -> 0..Oldest]
        /\ UNCHANGED <<key, poll, waited, quoted>>
    BY <1>0, <1>3 DEF FetchStarts, PriceInv, PriceTypeOK, Oldest
  <2>3. \A q \in Polls : fetch'[q] = "running" /\ poll[q] = "waiting" => fetched'[q] <= waited[q]
    BY <1>0, <1>3 DEF FetchStarts, PriceInv, PriceTypeOK, Timely
  <2> QED
    BY <2>1, <2>2, <2>3 DEF PriceInv, PriceTypeOK, Timely
<1>4. ASSUME NEW p \in Polls, FetchReturns(p) PROVE PriceInv'
  <2>1. {q \in Polls : fetch'[q] = "running"} \subseteq {q \in Polls : fetch[q] = "running"}
    BY <1>4 DEF FetchReturns, PriceInv, PriceTypeOK
  <2>2. PICK age \in 0..fetched[p] :
          /\ Stored(p, age)
          /\ IF poll[p] = "waiting"
             THEN /\ poll' = [poll EXCEPT ![p] = "served"]
                  /\ quoted' = [quoted EXCEPT ![p] = age]
             ELSE UNCHANGED <<poll, quoted>>
    BY <1>4 DEF FetchReturns
  <2>3. age \in 0..Oldest
    BY <1>0 DEF Oldest, PriceInv, PriceTypeOK
  <2>4. poll[p] = "waiting" => age <= LongestWait
    BY <1>0, <1>4 DEF FetchReturns, PriceInv, PriceTypeOK, Timely, Oldest
  <2>5. CASE poll[p] = "waiting"
    BY <1>0, <1>4, <2>1, <2>2, <2>3, <2>4, <2>5, ThreadKept
       DEF FetchReturns, Stored, PriceInv, PriceTypeOK, Timely
  <2>6. CASE poll[p] # "waiting"
    BY <1>0, <1>4, <2>1, <2>2, <2>6, ThreadKept
       DEF FetchReturns, Stored, PriceInv, PriceTypeOK, Timely
  <2> QED
    BY <2>5, <2>6
<1>5. ASSUME NEW p \in Polls, FetchFails(p) \/ GiveUpPoll(p) PROVE PriceInv'
  <2>1. {q \in Polls : fetch'[q] = "running"} \subseteq {q \in Polls : fetch[q] = "running"}
    BY <1>5 DEF FetchFails, GiveUpPoll, PriceInv, PriceTypeOK
  <2> QED
    BY <1>5, <2>1, ThreadKept DEF FetchFails, GiveUpPoll, PriceInv, PriceTypeOK, Timely
<1>6. CASE UNCHANGED pvars
  BY <1>6 DEF pvars, PriceInv, PriceTypeOK, Timely
<1> QED
  BY <1>1, <1>2, <1>3, <1>4, <1>5, <1>6 DEF PriceNext

(* For any time-outs, life of the key, requests and threads: prices, waits *)
(* and fetches keep their types, and no more fetches run than there are    *)
(* threads, those that nobody waits for any more included                  *)
(* (price_service.py:54-110).                                              *)
THEOREM PricesAreTyped == PriceSpec => []PriceTypeOK
<1>1. PriceInv => PriceTypeOK
  BY DEF PriceInv
<1> QED
  BY <1>1, PriceInitial, PriceStep, PTL DEF PriceSpec

(* For any time-outs, life of the key, requests and threads, however long  *)
(* a fetch hangs: no request is answered with a price that is older than   *)
(* the life of the key and the longest time-out, and no such price is kept *)
(* (price_service.py:54-110).                                              *)
THEOREM PricesAreRecent == PriceSpec => []PriceIsRecent
<1>1. PriceInv => PriceIsRecent
  <2>1. LongestWait \in Nat
    BY LongestWaitIsLongest
  <2> QED
    BY <2>1 DEF PriceInv, PriceTypeOK, Timely, PriceIsRecent, Oldest
<1> QED
  BY <1>1, PriceInitial, PriceStep, PTL DEF PriceSpec

(***************************************************************************)
(* The synchronisation of the table.                                       *)
(***************************************************************************)
(* The phase a job goes on with is one of those it has not begun, and the  *)
(* flags are not written before rows are added.                            *)
LEMMA FirstIsNext ==
  ASSUME NEW phases \in SUBSET Phases, phases # {}
  PROVE  /\ First(phases) \in phases
         /\ First(phases) = "index_flags" => phases \cap {"equity", "bse_equity"} = {}
<1> DEFINE Least5(i) == Order[i] \in phases /\ \A k \in 1..(i - 1) : Order[k] \notin phases
<1>1. /\ Order[1] = "equity" /\ Order[2] = "bse_equity" /\ Order[3] = "index_flags"
      /\ Order[4] = "fundamentals" /\ Order[5] = "screener"
  BY DEF Order
<1>2. \/ Order[1] \in phases \/ Order[2] \in phases \/ Order[3] \in phases
      \/ Order[4] \in phases \/ Order[5] \in phases
  BY <1>1 DEF Phases
<1>3. \E i \in 1..5 : Least5(i)
  <2>1. CASE Order[1] \in phases
    <3>1. Least5(1)
      BY <2>1
    <3> QED BY <3>1
  <2>2. CASE Order[1] \notin phases /\ Order[2] \in phases
    <3>1. \A k \in 1..(2 - 1) : k = 1
      OBVIOUS
    <3>2. Least5(2)
      BY <2>2, <3>1
    <3> QED BY <3>2
  <2>3. CASE Order[1] \notin phases /\ Order[2] \notin phases /\ Order[3] \in phases
    <3>1. \A k \in 1..(3 - 1) : k = 1 \/ k = 2
      OBVIOUS
    <3>2. Least5(3)
      BY <2>3, <3>1
    <3> QED BY <3>2
  <2>4. CASE /\ Order[1] \notin phases /\ Order[2] \notin phases /\ Order[3] \notin phases
             /\ Order[4] \in phases
    <3>1. \A k \in 1..(4 - 1) : k = 1 \/ k = 2 \/ k = 3
      OBVIOUS
    <3>2. Least5(4)
      BY <2>4, <3>1
    <3> QED BY <3>2
  <2>5. CASE /\ Order[1] \notin phases /\ Order[2] \notin phases /\ Order[3] \notin phases
             /\ Order[4] \notin phases /\ Order[5] \in phases
    <3>1. \A k \in 1..(5 - 1) : k = 1 \/ k = 2 \/ k = 3 \/ k = 4
      OBVIOUS
    <3>2. Least5(5)
      BY <2>5, <3>1
    <3> QED BY <3>2
  <2> QED BY <1>2, <2>1, <2>2, <2>3, <2>4, <2>5
<1>4. First(phases) = Order[CHOOSE i \in 1..5 : Least5(i)]
  BY DEF First
<1> HIDE DEF Least5
<1>5. PICK i \in 1..5 : Least5(i) /\ First(phases) = Order[i]
  BY <1>3, <1>4
<1>6. ASSUME Order[i] = "index_flags" PROVE phases \cap {"equity", "bse_equity"} = {}
  <2>1. i = 3
    BY <1>1, <1>6
  <2>2. 1 \in 1..(i - 1) /\ 2 \in 1..(i - 1)
    BY <2>1
  <2>3. Order[1] \notin phases /\ Order[2] \notin phases
    BY <1>5, <2>2 DEF Least5
  <2> QED BY <1>1, <2>3
<1> QED BY <1>5, <1>6 DEF Least5

LEMMA SyncInitial == Init => TypeOK
<1> SUFFICES ASSUME Init PROVE TypeOK
  OBVIOUS
<1>1. queue \in Seq(Jobs)
  BY DEF Init
<1> QED BY <1>1, SyncAssumption DEF Init, TypeOK, Jobs, Steps, NoJob, Indexes

(* Every step of a request, a job, the broker or the clock keeps the       *)
(* types.                                                                  *)
LEMMA SyncStep == TypeOK /\ [Next]_vars => TypeOK'
<1> SUFFICES ASSUME TypeOK, [Next]_vars PROVE TypeOK'
  OBVIOUS
<1> USE DEF table, local, redis, env
<1>1. Beat \in Jobs /\ Syncs \subseteq Jobs /\ UserPhases \subseteq SUBSET Phases
  BY SyncAssumption DEF Jobs
<1>2. \A j \in Jobs : Append(queue, j) \in Seq(Jobs)
  BY DEF TypeOK
<1>3. ASSUME NEW j \in Syncs, Trigger(j) PROVE TypeOK'
  <2>1. PICK phases \in SUBSET Phases :
          \/ /\ Dispatch(j, "celery", phases)
             /\ Go(j, "queued")
             /\ queue' = Append(queue, j)
             /\ track' = [track EXCEPT ![j] = "current"]
          \/ /\ Dispatch(j, "direct", phases)
             /\ Go(j, "next")
             /\ UNCHANGED <<queue, track>>
    BY <1>1, <1>3 DEF Trigger
  <2>2. UNCHANGED <<table, redis, env>>
    BY <1>3 DEF Trigger
  <2>3. Dispatch(j, "celery", phases) \/ Dispatch(j, "direct", phases)
    BY <2>1
  <2>4. /\ by' \in [Jobs -> {"celery", "screener", "process", "direct"}]
        /\ asked' \in [Jobs -> SUBSET Phases] /\ todo' \in [Jobs -> SUBSET Phases]
        /\ UNCHANGED <<rows, cols>>
    BY <2>3 DEF TypeOK, Dispatch
  <2>5. pc' \in [Jobs -> Steps]
    <3>1. Go(j, "queued") \/ Go(j, "next")
      BY <2>1
    <3> QED BY <3>1 DEF TypeOK, Go, Steps
  <2>6. queue' \in Seq(Jobs)
    <3>1. queue' = Append(queue, j) \/ queue' = queue
      BY <2>1
    <3> QED BY <1>1, <1>2, <3>1 DEF TypeOK
  <2>7. track' \in [Jobs -> {"idle", "current", "phase"}]
    <3>1. track' = [track EXCEPT ![j] = "current"] \/ track' = track
      BY <2>1
    <3> QED BY <3>1 DEF TypeOK
  <2> QED BY <2>2, <2>4, <2>5, <2>6, <2>7 DEF TypeOK
<1>4. ASSUME NEW j \in Syncs, TrackCurrent(j) PROVE TypeOK'
  BY <1>1, <1>2, <1>4 DEF TypeOK, TrackCurrent
<1>5. ASSUME NEW j \in Syncs, TrackPhase(j) PROVE TypeOK'
  BY <1>1, <1>2, <1>5 DEF TypeOK, TrackPhase
<1>6. ASSUME NEW j \in Syncs, Weekly(j) PROVE TypeOK'
  BY <1>1, <1>2, <1>6 DEF TypeOK, Weekly, Dispatch, Go, Steps, Phases
<1>7. ASSUME NEW j \in Syncs, WeeklyScreener(j) PROVE TypeOK'
  BY <1>1, <1>2, <1>7 DEF TypeOK, WeeklyScreener, Dispatch, Go, Steps, Phases
<1>8. ASSUME NEW j \in Syncs, Internal(j) PROVE TypeOK'
  <2>1. PICK phases \in SUBSET Phases : Dispatch(j, "process", phases)
    BY <1>8 DEF Internal, Phases
  <2>2. Go(j, "next") /\ UNCHANGED <<table, queue, track, redis, env>>
    BY <1>8 DEF Internal
  <2> QED BY <1>1, <2>1, <2>2 DEF TypeOK, Dispatch, Go, Steps
<1>9. ASSUME NEW j \in Jobs, NextPhase(j) PROVE TypeOK'
  <2>1. todo[j] \in SUBSET Phases
    BY DEF TypeOK
  <2>2. todo[j] # {} => First(todo[j]) \in Phases
    BY <2>1, FirstIsNext
  <2>3. CASE todo[j] = {}
    BY <1>9, <2>3 DEF TypeOK, NextPhase, Complete, SetPhase, Finish, Go, Steps
  <2>4. CASE todo[j] # {}
    <3>1. First(todo[j]) \in Steps
      BY <2>2, <2>4 DEF Phases, Steps
    <3>2. todo' = [todo EXCEPT ![j] = todo[j] \ {First(todo[j])}]
      BY <1>9, <2>4 DEF NextPhase
    <3>3. todo' \in [Jobs -> SUBSET Phases]
      BY <2>1, <3>2 DEF TypeOK
    <3>4. pc' = [pc EXCEPT ![j] = First(todo[j])] /\ SetPhase(j, First(todo[j]))
      BY <1>9, <2>4 DEF NextPhase, Go
    <3> HIDE DEF First
    <3> QED BY <1>9, <2>2, <2>4, <3>1, <3>3, <3>4 DEF TypeOK, NextPhase, SetPhase
  <2> QED BY <2>3, <2>4
<1>10. ASSUME NEW j \in Jobs, FetchNse(j) PROVE TypeOK'
  BY <1>1, <1>2, <1>10, SyncAssumption DEF TypeOK, FetchNse, Go, Steps, Listings
<1>11. ASSUME NEW j \in Jobs, FetchBse(j) PROVE TypeOK'
  <2>1. \E list \in SUBSET Listings : rows' = [rows EXCEPT ![j] = list]
    BY <1>11 DEF FetchBse, Listings
  <2>2. Go(j, "dedup") \/ Go(j, "next")
    BY <1>11 DEF FetchBse
  <2>3. UNCHANGED <<table, queue, by, asked, todo, cols, track, redis, env>>
    BY <1>11 DEF FetchBse
  <2> QED BY <2>1, <2>2, <2>3 DEF TypeOK, Go, Steps
<1>12. ASSUME NEW j \in Jobs, Dedup(j) PROVE TypeOK'
  BY <1>1, <1>2, <1>12, SyncAssumption DEF TypeOK, Dedup, Go, Steps, Listings
<1>13. ASSUME NEW j \in Jobs, Upsert(j) PROVE TypeOK'
  <2>1. \/ Go(j, "rejected") /\ UNCHANGED status
        \/ Go(j, "next") /\ status' = [l \in Listings |->
                                        IF l \in rows[j] THEN "pending" ELSE status[l]]
    BY <1>13 DEF Upsert
  <2>2. /\ rows' = [rows EXCEPT ![j] = {}]
        /\ UNCHANGED <<synced, flags, queue, by, asked, todo, cols, track, redis, env>>
    BY <1>13 DEF Upsert
  <2>3. status' \in [Listings -> Statuses \cup {"absent"}]
    BY <2>1 DEF TypeOK, Statuses
  <2>4. pc' \in [Jobs -> Steps]
    BY <2>1 DEF TypeOK, Go, Steps
  <2> QED BY <2>2, <2>3, <2>4 DEF TypeOK
<1>14. ASSUME NEW j \in Jobs, FetchIndexes(j) PROVE TypeOK'
  BY <1>1, <1>2, <1>14, SyncAssumption DEF TypeOK, FetchIndexes, Go, Steps, CsvFiles, Indexes
<1>15. ASSUME NEW j \in Jobs, ResetFlags(j) PROVE TypeOK'
  BY <1>1, <1>2, <1>15, SyncAssumption DEF TypeOK, ResetFlags, Go, Steps
<1>16. ASSUME NEW j \in Jobs, SetFlag(j) PROVE TypeOK'
  BY <1>1, <1>2, <1>16, SyncAssumption DEF TypeOK, SetFlag, Go, Steps, Matching, Indexes
<1>17. ASSUME NEW j \in Jobs, FetchQueue(j) PROVE TypeOK'
  BY <1>1, <1>2, <1>17, SyncAssumption DEF TypeOK, FetchQueue, Go, Steps, SyncQueue
<1>18. ASSUME NEW j \in Jobs, FetchSymbols(j) PROVE TypeOK'
  BY <1>1, <1>2, <1>18, SyncAssumption DEF TypeOK, FetchSymbols, Go, Steps, Present, Listings
<1>19. ASSUME NEW j \in Jobs, Apply(j) PROVE TypeOK'
  BY <1>1, <1>2, <1>19, SyncAssumption DEF TypeOK, Apply, Go, Steps, Outcomes, Statuses
<1>20. ASSUME NEW j \in Jobs, Rejected(j) PROVE TypeOK'
  BY <1>1, <1>2, <1>20, SyncAssumption DEF TypeOK, Rejected, SetPhase, Finish, Go, Steps
<1>21. ASSUME NEW j \in Jobs, Raise(j) PROVE TypeOK'
  <2>1. faults + 1 \in 0..MaxFaults
    BY <1>21, SyncAssumption DEF TypeOK, Raise
  <2>2. \/ Finish(j, TRUE) /\ UNCHANGED queue
        \/ Go(j, "queued") /\ queue' = Append(queue, j) /\ UNCHANGED lapsed
    BY <1>21 DEF Raise
  <2>3. queue' \in Seq(Jobs) /\ pc' \in [Jobs -> Steps] /\ lapsed' \subseteq Jobs
    BY <1>2, <2>2 DEF TypeOK, Finish, Go, Steps
  <2>4. rows' \in [Jobs -> SUBSET Listings] /\ cols' \in [Jobs -> SUBSET Indexes]
    BY <1>21 DEF TypeOK, Raise, Drop
  <2>5. phase' \in Phases \cup {"none", "complete", "failed"}
    BY <1>21 DEF TypeOK, Raise, SetPhase
  <2>6. faults' = faults + 1 /\ UNCHANGED <<table, by, asked, todo, track, current, ages>>
    BY <1>21 DEF Raise
  <2> QED BY <2>1, <2>3, <2>4, <2>5, <2>6 DEF TypeOK
<1>22. ASSUME NEW j \in Jobs, Crash(j) PROVE TypeOK'
  <2>1. faults + 1 \in 0..MaxFaults
    BY <1>22, SyncAssumption DEF TypeOK, Crash
  <2>2. \/ Finish(j, TRUE) /\ UNCHANGED queue
        \/ Go(j, "queued") /\ queue' = Append(queue, j) /\ UNCHANGED lapsed
    BY <1>22 DEF Crash
  <2>3. queue' \in Seq(Jobs) /\ pc' \in [Jobs -> Steps] /\ lapsed' \subseteq Jobs
    BY <1>2, <2>2 DEF TypeOK, Finish, Go, Steps
  <2>4. rows' \in [Jobs -> SUBSET Listings] /\ cols' \in [Jobs -> SUBSET Indexes]
    BY <1>22 DEF TypeOK, Crash, Drop
  <2>5. faults' = faults + 1 /\ UNCHANGED <<table, by, asked, todo, track, redis, ages>>
    BY <1>22 DEF Crash
  <2> QED BY <2>1, <2>3, <2>4, <2>5 DEF TypeOK
<1>23. ASSUME Take PROVE TypeOK'
  <2>1. Head(queue) \in Jobs /\ Tail(queue) \in Seq(Jobs)
    BY <1>23 DEF Take, TypeOK
  <2> QED BY <1>23, <2>1 DEF TypeOK, Take, Go, Steps
<1>24. ASSUME BeatFires PROVE TypeOK'
  BY <1>1, <1>2, <1>24, SyncAssumption DEF TypeOK, BeatFires, Dispatch, Go, Steps, Phases
<1>25. ASSUME SixHours PROVE TypeOK'
  BY <1>1, <1>2, <1>25, SyncAssumption DEF TypeOK, SixHours
<1>26. ASSUME Expire PROVE TypeOK'
  BY <1>1, <1>2, <1>26, SyncAssumption DEF TypeOK, Expire
<1>27. ASSUME UNCHANGED vars PROVE TypeOK'
  BY <1>27 DEF TypeOK, vars
<1> QED
  BY <1>3, <1>4, <1>5, <1>6, <1>7, <1>8, <1>9, <1>10, <1>11, <1>12,
     <1>13, <1>14, <1>15, <1>16, <1>17, <1>18, <1>19, <1>20, <1>21,
     <1>22, <1>23, <1>24, <1>25, <1>26, <1>27
  DEF Next, Request, Track, Step

(* The table, the queue, the jobs and the two keys of Redis keep their     *)
(* types, for any listings, indexes, jobs and faults.                      *)
THEOREM SyncIsTyped == Spec => []TypeOK
BY SyncInitial, SyncStep, PTL DEF Spec

(* Steps before whose end a job may still add rows.                        *)
Adding == {"equity", "bse_equity", "dedup", "upsert", "rejected"}

(* A job that has not written is_fno yet and cannot end before it has      *)
(* without lapsing.                                                        *)
Deciding(j) ==
  /\ asked[j] \cap Membership # {}
  /\ \/ pc[j] = "queued"
     \/ /\ Active(j)
        /\ \/ "index_flags" \notin asked[j]
           \/ "index_flags" \in todo[j]
           \/ pc[j] \in {"index_flags", "reset", "flag"}

(* The order of the phases: rows are added before the flags are written.   *)
InOrder(j) ==
  /\ todo[j] \subseteq asked[j]
  /\ "index_flags" \in asked[j] \ todo[j] => todo[j] \cap {"equity", "bse_equity"} = {}
  /\ pc[j] \in Adding => /\ asked[j] \cap Membership # {}
                         /\ "index_flags" \in asked[j] => "index_flags" \in todo[j]
  /\ pc[j] \in {"index_flags", "reset", "flag"} => "index_flags" \in asked[j]
  /\ pc[j] \in {"reset", "flag"} => "fno" \in cols[j]
  /\ pc[j] = "apply" => rows[j] \subseteq Present

(* Nobody else has the flag, and while a row of the list lacks it, a job   *)
(* will see to it or has failed to.                                        *)
FnoInv ==
  /\ TypeOK
  /\ \A j \in Jobs : InOrder(j)
  /\ flags["fno"] \subseteq Matching("fno")
  /\ \/ flags["fno"] = Matching("fno")
     \/ lapsed # {}
     \/ \E j \in Jobs : Deciding(j)

(* A step of one job that removes no row and resets no flag.               *)
LEMMA OneJob ==
  ASSUME FnoInv, TypeOK', NEW j \in Jobs,
         \A i \in Jobs \ {j} : /\ pc'[i] = pc[i] /\ asked'[i] = asked[i]
                               /\ todo'[i] = todo[i] /\ cols'[i] = cols[i]
                               /\ rows'[i] = rows[i],
         Present' = Present, flags' = flags,
         InOrder(j)', lapsed \subseteq lapsed',
         Deciding(j) => Deciding(j)' \/ lapsed' # {}
  PROVE  FnoInv'
<1>1. \A i \in Jobs \ {j} : InOrder(i)' /\ (Deciding(i) => Deciding(i)')
  BY DEF FnoInv, InOrder, Deciding, Active
<1>2. Matching("fno")' = Matching("fno")
  BY DEF Matching
<1>3. /\ flags'["fno"] \subseteq Matching("fno")'
      /\ flags["fno"] = Matching("fno") => flags'["fno"] = Matching("fno")'
  BY <1>2 DEF FnoInv
<1>4. lapsed # {} => lapsed' # {}
  OBVIOUS
<1>5. ASSUME NEW i \in Jobs, Deciding(i) PROVE lapsed' # {} \/ \E k \in Jobs : Deciding(k)'
  BY <1>1, <1>5
<1> QED BY <1>1, <1>3, <1>4, <1>5 DEF FnoInv

LEMMA FnoInitial == Init => FnoInv
<1> SUFFICES ASSUME Init PROVE FnoInv
  OBVIOUS
<1>1. TypeOK /\ "fno" \in Indexes
  BY SyncInitial, SyncAssumption
<1>2. flags["fno"] = {} /\ Present = {}
  BY <1>1 DEF Init, Present
<1>3. \A j \in Jobs : InOrder(j)
  BY DEF Init, InOrder, Adding
<1> QED BY <1>1, <1>2, <1>3 DEF FnoInv, Matching

(* The end of a job: it lapses if it was still to decide.                  *)
LEMMA EndOfJob ==
  ASSUME FnoInv, NEW j \in Jobs, NEW early \in BOOLEAN, Finish(j, early),
         UNCHANGED <<asked, todo>>,
         early \/ (pc[j] = "next" /\ todo[j] = {})
  PROVE  /\ InOrder(j)' /\ lapsed \subseteq lapsed'
         /\ Deciding(j) => lapsed' # {}
         /\ \A i \in Jobs \ {j} : pc'[i] = pc[i]
<1>1. pc' = [pc EXCEPT ![j] = IF j = Beat THEN "idle" ELSE "ended"]
  BY DEF Finish, Go
<1>2. pc'[j] \in {"idle", "ended"} /\ \A i \in Jobs \ {j} : pc'[i] = pc[i]
  BY <1>1 DEF FnoInv, TypeOK
<1>3. InOrder(j)'
  BY <1>2 DEF FnoInv, InOrder, Adding
<1>4. lapsed \subseteq lapsed'
  BY DEF Finish
<1>5. ASSUME Deciding(j) PROVE lapsed' # {}
  <2>1. asked[j] \cap Membership # {} /\ (early \/ "index_flags" \notin asked[j])
    BY <1>5 DEF Deciding, Active
  <2> QED BY <2>1 DEF Finish
<1> QED BY <1>2, <1>3, <1>4, <1>5

(* Every step of a request, a job, the broker or the clock keeps it.       *)
LEMMA FnoStep == FnoInv /\ [Next]_vars => FnoInv'
<1> SUFFICES ASSUME FnoInv, [Next]_vars PROVE FnoInv'
  OBVIOUS
<1> USE DEF table, local, redis, env
<1>0. TypeOK /\ TypeOK' /\ Syncs \subseteq Jobs /\ Beat \in Jobs
  BY SyncStep DEF FnoInv, Jobs
<1>1. ASSUME NEW j \in Jobs, NEW who, NEW phases \in SUBSET Phases,
             Dispatch(j, who, phases), Go(j, "queued") \/ Go(j, "next"),
             pc[j] = "idle", UNCHANGED <<table, lapsed>>
      PROVE  FnoInv'
  <2>1. /\ pc'[j] \in {"queued", "next"} /\ asked'[j] = phases /\ todo'[j] = phases
        /\ \A i \in Jobs \ {j} : /\ pc'[i] = pc[i] /\ asked'[i] = asked[i]
                                 /\ todo'[i] = todo[i]
        /\ UNCHANGED <<rows, cols>>
    BY <1>0, <1>1 DEF Dispatch, Go, TypeOK
  <2>2. InOrder(j)'
    BY <2>1 DEF InOrder, Adding
  <2>3. ~Deciding(j)
    BY <1>1 DEF Deciding, Active
  <2> QED BY <1>0, <1>1, <2>1, <2>2, <2>3, OneJob DEF Present
<1>2. ASSUME NEW j \in Syncs, Request(j) PROVE FnoInv'
  <2>1. CASE Trigger(j)
    BY <1>0, <1>1, <2>1, SyncAssumption DEF Trigger
  <2>2. CASE Weekly(j)
    BY <1>0, <1>1, <2>2 DEF Weekly, Phases
  <2>3. CASE WeeklyScreener(j)
    BY <1>0, <1>1, <2>3 DEF WeeklyScreener, Phases
  <2>4. CASE Internal(j)
    BY <1>0, <1>1, <2>4 DEF Internal, Phases
  <2> QED BY <1>2, <2>1, <2>2, <2>3, <2>4 DEF Request
<1>3. CASE BeatFires
  BY <1>0, <1>1, <1>3 DEF BeatFires, Phases
<1>4. ASSUME UNCHANGED <<table, lapsed, pc, local>> PROVE FnoInv'
  BY <1>0, <1>4 DEF FnoInv, InOrder, Deciding, Active, Matching, Present
<1>5. ASSUME NEW j \in Syncs, Track(j) PROVE FnoInv'
  BY <1>4, <1>5 DEF Track, TrackCurrent, TrackPhase
<1>6. CASE Take
  <2>1. PICK j \in Jobs : j = Head(queue)
    BY <1>0, <1>6 DEF Take, TypeOK
  <2>2. /\ pc'[j] = "next" /\ todo'[j] = asked[j] /\ asked' = asked
        /\ \A i \in Jobs \ {j} : pc'[i] = pc[i] /\ todo'[i] = todo[i]
        /\ UNCHANGED <<rows, cols, table, lapsed>>
    BY <1>0, <1>6, <2>1 DEF Take, Go, TypeOK
  <2>3. InOrder(j)'
    BY <2>1, <2>2 DEF InOrder, Adding
  <2>4. Deciding(j) => Deciding(j)'
    BY <2>2 DEF Deciding, Active
  <2> QED BY <1>0, <2>1, <2>2, <2>3, <2>4, OneJob DEF Present
<1>7. ASSUME NEW j \in Jobs, NextPhase(j) PROVE FnoInv'
  <2>0. InOrder(j) /\ pc[j] = "next" /\ UNCHANGED <<table, asked, rows, cols>>
    BY <1>7 DEF FnoInv, NextPhase
  <2>1. CASE todo[j] = {}
    BY <1>0, <1>7, <2>0, <2>1, EndOfJob, OneJob DEF NextPhase, Present
  <2>2. CASE todo[j] # {}
    <3> DEFINE f == First(todo[j])
    <3>1. /\ f \in todo[j]
          /\ f = "index_flags" => todo[j] \cap {"equity", "bse_equity"} = {}
      BY <1>0, <2>2, FirstIsNext DEF TypeOK
    <3>2. /\ pc'[j] = f /\ todo'[j] = todo[j] \ {f} /\ lapsed' = lapsed
          /\ \A i \in Jobs \ {j} : pc'[i] = pc[i] /\ todo'[i] = todo[i]
      BY <1>0, <1>7, <2>2 DEF NextPhase, Go, TypeOK
    <3>3. f \in Phases
      BY <1>0, <3>1 DEF TypeOK
    <3> HIDE DEF f
    <3>4. InOrder(j)'
      BY <2>0, <3>1, <3>2, <3>3 DEF InOrder, Adding, Phases, Membership
    <3>5. Deciding(j) => Deciding(j)'
      BY <2>0, <3>1, <3>2, <3>3 DEF Deciding, Active, Phases
    <3> QED BY <1>0, <2>0, <3>2, <3>4, <3>5, OneJob DEF Present
  <2> QED BY <2>1, <2>2
<1>8. ASSUME NEW j \in Jobs, FetchNse(j) \/ FetchBse(j) \/ Dedup(j) PROVE FnoInv'
  <2>1. /\ pc[j] \in {"equity", "bse_equity", "dedup"}
        /\ pc'[j] \in {"upsert", "dedup", "next"}
        /\ \A i \in Jobs \ {j} : pc'[i] = pc[i] /\ rows'[i] = rows[i]
        /\ UNCHANGED <<table, asked, todo, cols, lapsed>>
    BY <1>0, <1>8 DEF FetchNse, FetchBse, Dedup, Go, TypeOK
  <2>2. InOrder(j) /\ InOrder(j)' /\ (Deciding(j) => Deciding(j)')
    BY <2>1 DEF FnoInv, InOrder, Adding, Deciding, Active
  <2> QED BY <1>0, <2>1, <2>2, OneJob DEF Present
<1>9. ASSUME NEW j \in Jobs, Upsert(j) PROVE FnoInv'
  <2>1. /\ pc[j] = "upsert" /\ pc'[j] \in {"rejected", "next"}
        /\ \A i \in Jobs \ {j} : pc'[i] = pc[i] /\ rows'[i] = rows[i]
        /\ UNCHANGED <<flags, asked, todo, cols, lapsed>>
    BY <1>0, <1>9 DEF Upsert, Go, TypeOK
  <2>2. Present \subseteq Present'
    BY <1>0, <1>9 DEF Upsert, Present, TypeOK
  <2>3. InOrder(j) /\ InOrder(j)' /\ Deciding(j)'
    BY <2>1 DEF FnoInv, InOrder, Adding, Deciding, Active
  <2>4. \A i \in Jobs \ {j} : InOrder(i)'
    BY <2>1, <2>2 DEF FnoInv, InOrder
  <2>5. flags'["fno"] \subseteq Matching("fno")'
    BY <2>1, <2>2 DEF FnoInv, Matching
  <2> QED BY <1>0, <2>3, <2>4, <2>5 DEF FnoInv
<1>10. ASSUME NEW j \in Jobs, FetchIndexes(j) PROVE FnoInv'
  <2>1. /\ pc[j] = "index_flags" /\ pc'[j] = "reset" /\ "fno" \in cols'[j]
        /\ \A i \in Jobs \ {j} : pc'[i] = pc[i] /\ cols'[i] = cols[i]
        /\ UNCHANGED <<table, asked, todo, rows, lapsed>>
    BY <1>0, <1>10 DEF FetchIndexes, Go, TypeOK
  <2>2. InOrder(j)' /\ (Deciding(j) => Deciding(j)')
    BY <2>1 DEF FnoInv, InOrder, Adding, Deciding, Active
  <2> QED BY <1>0, <2>1, <2>2, OneJob DEF Present
<1>11. ASSUME NEW j \in Jobs, ResetFlags(j) PROVE FnoInv'
  <2>1. /\ pc[j] = "reset" /\ pc'[j] = "flag" /\ flags'["fno"] = {}
        /\ \A i \in Jobs \ {j} : pc'[i] = pc[i]
        /\ UNCHANGED <<status, asked, todo, rows, cols, lapsed>>
    BY <1>0, <1>11, SyncAssumption DEF ResetFlags, Go, TypeOK
  <2>2. InOrder(j)' /\ Deciding(j)'
    BY <2>1 DEF FnoInv, InOrder, Adding, Deciding, Active, Membership
  <2>3. \A i \in Jobs \ {j} : InOrder(i)'
    BY <2>1 DEF FnoInv, InOrder, Present
  <2> QED BY <1>0, <2>1, <2>2, <2>3 DEF FnoInv
<1>12. ASSUME NEW j \in Jobs, SetFlag(j) PROVE FnoInv'
  <2>0. PICK x \in cols[j] :
          /\ x = "fno" => cols[j] = {"fno"}
          /\ flags' = [flags EXCEPT ![x] = @ \cup Matching(x)]
          /\ cols' = [cols EXCEPT ![j] = @ \ {x}]
          /\ IF x = "fno" THEN Go(j, "next") /\ lapsed' = {} ELSE UNCHANGED <<pc, lapsed>>
    BY <1>12 DEF SetFlag
  <2>1. /\ pc[j] = "flag" /\ InOrder(j)
        /\ UNCHANGED <<status, asked, todo, rows>>
    BY <1>12 DEF SetFlag, FnoInv
  <2>2. /\ cols'[j] = cols[j] \ {x} /\ \A i \in Jobs \ {j} : cols'[i] = cols[i]
        /\ x \in Indexes /\ "fno" \in Indexes
    BY <1>0, <2>0, SyncAssumption DEF TypeOK
  <2>3. CASE x = "fno"
    <3>1. /\ pc'[j] = "next" /\ \A i \in Jobs \ {j} : pc'[i] = pc[i]
          /\ flags'["fno"] = flags["fno"] \cup Matching("fno")
      BY <1>0, <2>0, <2>2, <2>3 DEF Go, TypeOK
    <3>2. flags'["fno"] = Matching("fno")'
      BY <2>1, <3>1 DEF FnoInv, Matching, Present
    <3>3. \A i \in Jobs : InOrder(i)'
      BY <2>1, <2>2, <3>1 DEF FnoInv, InOrder, Adding, Present
    <3> QED BY <1>0, <3>2, <3>3 DEF FnoInv
  <2>4. CASE x # "fno"
    <3>1. flags'["fno"] = flags["fno"] /\ UNCHANGED <<pc, lapsed>>
      BY <1>0, <2>0, <2>2, <2>4 DEF TypeOK
    <3>2. \A i \in Jobs : InOrder(i)' /\ (Deciding(i) => Deciding(i)')
      BY <2>1, <2>2, <2>4, <3>1 DEF FnoInv, InOrder, Deciding, Active, Present
    <3> QED BY <1>0, <2>1, <3>1, <3>2 DEF FnoInv, Matching, Present
  <2> QED BY <2>3, <2>4
<1>13. ASSUME NEW j \in Jobs, FetchQueue(j) \/ FetchSymbols(j) PROVE FnoInv'
  <2>1. /\ pc[j] \in {"fundamentals", "screener"} /\ pc'[j] \in {"next", "apply"}
        /\ \A i \in Jobs \ {j} : pc'[i] = pc[i] /\ rows'[i] = rows[i]
        /\ UNCHANGED <<table, asked, todo, cols, lapsed>>
    BY <1>0, <1>13 DEF FetchQueue, FetchSymbols, Go, TypeOK
  <2>2. rows'[j] \subseteq Present
    <3>1. CASE FetchQueue(j)
      <4>1. \A b \in SyncQueue : b \subseteq Present
        BY DEF SyncQueue, InQueue, Present
      <4> QED BY <1>0, <3>1, <4>1 DEF FetchQueue, TypeOK
    <3>2. CASE FetchSymbols(j)
      BY <1>0, <3>2 DEF FetchSymbols, TypeOK
    <3> QED BY <1>13, <3>1, <3>2
  <2>3. Present' = Present
    BY <2>1 DEF Present
  <2>4. InOrder(j)' /\ (Deciding(j) => Deciding(j)')
    BY <2>1, <2>2, <2>3 DEF FnoInv, InOrder, Adding, Deciding, Active
  <2> QED BY <1>0, <2>1, <2>3, <2>4, OneJob
<1>14. ASSUME NEW j \in Jobs, Apply(j) PROVE FnoInv'
  <2>0. PICK l \in rows[j] :
          /\ \E s \in Outcomes : status' = [status EXCEPT ![l] = s]
          /\ rows' = [rows EXCEPT ![j] = @ \ {l}]
          /\ Go(j, IF rows[j] # {l} THEN "apply"
                   ELSE IF by[j] = "screener" THEN "next" ELSE "fundamentals")
    BY <1>14 DEF Apply
  <2>1. /\ pc[j] = "apply" /\ InOrder(j) /\ pc'[j] \in {"apply", "next", "fundamentals"}
        /\ \A i \in Jobs \ {j} : pc'[i] = pc[i] /\ rows'[i] = rows[i]
        /\ rows'[j] \subseteq rows[j]
        /\ UNCHANGED <<flags, asked, todo, cols, lapsed>>
    BY <1>0, <1>14, <2>0 DEF Apply, Go, TypeOK, FnoInv
  <2>2. l \in Present
    BY <2>1 DEF InOrder
  <2>3. Present' = Present
    BY <1>0, <2>0, <2>2 DEF Present, TypeOK, Outcomes
  <2>4. InOrder(j)' /\ (Deciding(j) => Deciding(j)')
    BY <2>1, <2>3 DEF InOrder, Adding, Deciding, Active
  <2> QED BY <1>0, <2>1, <2>3, <2>4, OneJob
<1>15. ASSUME NEW j \in Jobs, Rejected(j) PROVE FnoInv'
  BY <1>0, <1>15, EndOfJob, OneJob DEF Rejected, Present
<1>16. ASSUME NEW j \in Jobs, Raise(j) \/ Crash(j) PROVE FnoInv'
  <2>1. /\ \/ Finish(j, TRUE)
           \/ Go(j, "queued") /\ UNCHANGED lapsed
        /\ Drop(j) /\ UNCHANGED <<table, asked, todo>>
    BY <1>16 DEF Raise, Crash
  <2>2. \A i \in Jobs \ {j} : rows'[i] = rows[i] /\ cols'[i] = cols[i]
    BY <1>0, <2>1 DEF Drop, TypeOK
  <2>3. CASE Finish(j, TRUE)
    BY <1>0, <2>1, <2>2, <2>3, EndOfJob, OneJob DEF Present
  <2>4. CASE Go(j, "queued") /\ UNCHANGED lapsed
    <3>1. pc'[j] = "queued" /\ \A i \in Jobs \ {j} : pc'[i] = pc[i]
      BY <1>0, <2>4 DEF Go, TypeOK
    <3>2. InOrder(j)' /\ (Deciding(j) => Deciding(j)')
      BY <2>1, <3>1 DEF FnoInv, InOrder, Adding, Deciding
    <3> QED BY <1>0, <2>1, <2>2, <2>4, <3>1, <3>2, OneJob DEF Present
  <2> QED BY <2>1, <2>3, <2>4
<1>17. CASE SixHours
  BY <1>0, <1>17 DEF SixHours, FnoInv, InOrder, Deciding, Active, Matching, Present
<1>18. CASE Expire \/ UNCHANGED vars
  BY <1>4, <1>18 DEF Expire, vars
<1> QED
  BY <1>2, <1>3, <1>5, <1>6, <1>7, <1>8, <1>9, <1>10, <1>11, <1>12, <1>13, <1>14,
     <1>15, <1>16, <1>17, <1>18 DEF Next, Step

(* For any listings, indexes, jobs, exceptions and crashes: when no job    *)
(* that adds rows or resets the columns is under way, and none has lapsed  *)
(* since is_fno was written, exactly the rows of the static list have it   *)
(* (stock_service.py:48-82).                                               *)
THEOREM FnoIsKept == Spec => []FnoStands
<1>1. FnoInv => FnoStands
  BY DEF FnoInv, FnoStands, Deciding, Active, Matching
<1> QED
  BY <1>1, FnoInitial, FnoStep, PTL DEF Spec

(***************************************************************************)
(* All that is kept of the market.                                         *)
(***************************************************************************)
(* The synchronisation, the universe, the bars and the prices keep their   *)
(* types beside each other.                                                *)
THEOREM MarketIsTyped == MCSpec => []MCTypeOK
<1> DEFINE All == TypeOK /\ UniverseTypeOK /\ DataInv /\ PriceInv
<1>1. MCInit => All
  BY SyncInitial, TypeInitial, DataInitial, PriceInitial DEF MCInit
<1>2. All /\ [MCNext]_mc_vars => All'
  <2> SUFFICES ASSUME All, [MCNext]_mc_vars PROVE All'
    OBVIOUS
  <2>1. /\ ([Next]_vars => TypeOK') /\ ([UniverseNext]_uvars => UniverseTypeOK')
        /\ ([DataNext]_dvars => DataInv') /\ ([PriceNext]_pvars => PriceInv')
    BY SyncStep, TypeStep, DataStep, PriceStep
  <2>2. \/ Next /\ UNCHANGED <<uvars, dvars, pvars>>
        \/ UniverseNext /\ UNCHANGED <<vars, dvars, pvars>>
        \/ DataNext /\ UNCHANGED <<vars, uvars, pvars>>
        \/ PriceNext /\ UNCHANGED <<vars, uvars, dvars>>
        \/ UNCHANGED <<vars, uvars, dvars, pvars>>
    BY DEF MCNext, mc_vars
  <2> QED BY <2>1, <2>2
<1>3. All => MCTypeOK
  BY DEF MCTypeOK, DataInv, PriceInv
<1> HIDE DEF All
<1> QED BY <1>1, <1>2, <1>3, PTL DEF MCSpec
=============================================================================
