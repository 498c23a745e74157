------------------------------ MODULE MarketData ------------------------------
(***************************************************************************)
(* The bars of one symbol, as core/scanner/data_fetcher.py downloads them  *)
(* and keeps them, one file for each timeframe. A scan, a chart or the     *)
(* analysis of a stock reads several timeframes one after the other; all   *)
(* of them share the files, whoever downloaded them and at whatever hour.  *)
(*                                                                         *)
(* Bars are known by the hour they were downloaded: that says what the     *)
(* last bar has seen. Reading a symbol takes seconds, so the hours pass    *)
(* between the reads of a symbol. Weekly bars are treated as daily ones    *)
(* are, and the files of two symbols have nothing to do with each other.   *)
(***************************************************************************)
EXTENDS Integers, Sequences, FiniteSets

CONSTANTS
  Readers,      (* requests and scans that fetch the symbol                *)
  Requests,     (* the lists of timeframes they ask for                    *)
  Intraday,     (* _INTRADAY_TFS without 4h, which has no download         *)
  IntradayTTL,  (* _CACHE_TTL_INTRADAY, in hours                           *)
  DailyTTL,     (* _CACHE_TTL_DAILY, in hours                              *)
  DayHours,     (* hours from one close of the market to the next          *)
  ClosingHour,  (* the hour of the first close                             *)
  MaxHours      (* bound: the hours of a behaviour                         *)

Frames == UNION {{asked[i] : i \in DOMAIN asked} : asked \in Requests}
Files  == (Frames \ {"4h"}) \cup {"60m"}

ASSUME DataAssumption ==
  /\ Requests \subseteq Seq(STRING)
  /\ "60m" \in Intraday /\ "4h" \notin Intraday /\ "1d" \notin Intraday
  /\ {IntradayTTL, DailyTTL, ClosingHour, MaxHours} \subseteq Nat
  /\ DayHours \in Nat \ {0}
  /\ DailyTTL <= DayHours  (* 24 hours; the market closes once a day *)

VARIABLES
  hour,
  barFile,  (* file -> the hour its bars were downloaded, or None          *)
  reading,  (* the timeframes a reader has not read yet                    *)
  bars      (* timeframe -> the hour its bars were downloaded, or None for *)
            (* an empty frame; only the timeframes it has read             *)

dvars == <<hour, barFile, reading, bars>>

None  == -1
Hours == 0..MaxHours
NoBars == [f \in {} |-> None]

(* Clocks, files and frames keep their types, and no bars come from hours *)
(* to come.                                                              *)
DataTypeOK ==
  /\ hour \in Hours
  /\ barFile \in [Files -> 0..hour \cup {None}]
  /\ \A r \in Readers :
       /\ \E asked \in Requests \cup {<<>>} :
            \E i \in 1..(Len(asked) + 1) : reading[r] = SubSeq(asked, i, Len(asked))
       /\ DOMAIN bars[r] \subseteq Frames
       /\ \A f \in DOMAIN bars[r] : bars[r][f] \in 0..hour \cup {None}

DataInit ==
  /\ hour = 0
  /\ barFile = [f \in Files |-> None]
  /\ reading = [r \in Readers |-> <<>>]
  /\ bars = [r \in Readers |-> NoBars]

(* An hour in which nobody is reading the symbol; what was read is used up. *)
HourPasses ==
  /\ hour < MaxHours
  /\ \A r \in Readers : reading[r] = <<>>
  /\ hour' = hour + 1
  /\ bars' = [r \in Readers |-> NoBars]
  /\ UNCHANGED <<barFile, reading>>

(* get_multi_timeframe *)
Ask(r) ==
  /\ reading[r] = <<>>
  /\ bars[r] = NoBars
  /\ \E asked \in Requests : reading' = [reading EXCEPT ![r] = asked]
  /\ UNCHANGED <<hour, barFile, bars>>

CacheTTL(file) == IF file \in Intraday THEN IntradayTTL ELSE DailyTTL

(* _read_cache: there is a file, it is young enough and it can be read. *)
Usable(file) == barFile[file] # None /\ hour - barFile[file] <= CacheTTL(file)

(* Mutant: 4h bars are made of daily ones. *)
FileOf_Daily(frame) == IF frame = "4h" THEN "1d" ELSE frame

(* get_ohlcv: 4h is resampled from 60m; its own file is never read. *)
FileOf(frame) == IF frame = "4h" THEN "60m" ELSE frame

Keep(r, bar) ==
  LET frame == Head(reading[r])
  IN /\ reading' = [reading EXCEPT ![r] = Tail(@)]
     /\ bars' = [bars EXCEPT ![r] = [f \in DOMAIN @ \cup {frame} |->
                                       IF f = frame THEN bar ELSE @[f]]]
     /\ UNCHANGED hour

ReadCached(r) ==
  /\ reading[r] # <<>>
  /\ LET file == FileOf(Head(reading[r]))
     IN Usable(file) /\ Keep(r, barFile[file])
  /\ UNCHANGED barFile

(* Mutant: the file is stamped in one time zone and read in another. *)
Stamp_Zone == hour + 1

Stamp == hour

(* The file is absent, old or cannot be read, as one that is being written. *)
Download(r) ==
  /\ reading[r] # <<>>
  /\ LET file == FileOf(Head(reading[r]))
     IN /\ barFile' = [barFile EXCEPT ![file] = Stamp]
        /\ Keep(r, hour)

(* The download is empty or raises: an old file is not taken instead of it, *)
(* and nothing is written.                                                  *)
DownloadFails(r) ==
  /\ reading[r] # <<>>
  /\ Keep(r, None)
  /\ UNCHANGED barFile

DataNext ==
  \/ HourPasses
  \/ \E r \in Readers :
       Ask(r) \/ ReadCached(r) \/ Download(r) \/ DownloadFails(r)

DataSpec == DataInit /\ [][DataNext]_dvars

(***************************************************************************)
(* Properties.                                                             *)
(***************************************************************************)
Has(r, frame) == frame \in DOMAIN bars[r] /\ bars[r][frame] # None

(* The closes of the market up to an hour. *)
ClosesBy(h) == IF h < ClosingHour THEN 0 ELSE 1 + (h - ClosingHour) \div DayHours

(* The bars a signal is made of. Daily bars live for a day from their      *)
(* download (data_fetcher.py:44), not until the next close: bars that a    *)
(* chart drew in the morning serve the scan after the close. They lack     *)
(* that close, but never two of them. The stop of a signal comes from 4h   *)
(* bars, its entry from daily ones (config.py:323-326), and the two were   *)
(* downloaded at different hours: the bars of the stop are never behind    *)
(* those of the entry by more than the hour that intraday bars live.       *)
BarsKeepUp ==
  \A r \in Readers :
    /\ Has(r, "1d") => ClosesBy(hour) - ClosesBy(bars[r]["1d"]) <= 1
    /\ Has(r, "4h") /\ Has(r, "1d") => bars[r]["1d"] - bars[r]["4h"] <= IntradayTTL
=============================================================================
