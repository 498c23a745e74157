# A verification project for GATE scanner

GATE scanner looks for stocks of the NSE that break out of a consolidation
("GATE": trend, consolidation, breakout) and shows them to its users while a
scan is running. This directory holds TLA+ modules that model the program, the
TLC configurations that check them and theorems proved with TLAPS.

- `src/backend/app` is the FastAPI service, its Celery tasks and the analysis
  core; it keeps its data in Postgres and uses Redis for a lock, flags, caches
  and publish/subscribe.
- `src/apps/web` is the Next.js front end with its Redux store.

## Inventory

| Component | State it keeps | Operations | Talks to | What is hard |
|---|---|---|---|---|
| Scan requests (`routers/scans.py`, `routers/internal.py`) | rows of `scans`; the Redis lock `scan:running`; the flags `scan:cancel:{id}` | trigger, stop, scheduled scan | Postgres, Redis, the Celery queue | every statement is an await: a trigger, a stop and a run interleave; keys expire; Redis may fail |
| Scan worker (`tasks/scanner_tasks.py`, `tasks/celery_app.py`) | local `final_status`; the task message | run the pipeline, insert batches, poll the flag, finish | Postgres, Redis, pub/sub | try/except/finally with awaits inside; retries and redelivery; crash |
| Pipeline and its bridge (`services/scan_service.py`, `core/scanner/pipeline.py`, `agents/scanner_agent.py`) | fetch threads, one analysing thread, coroutines on the event loop | fetch, analyse, report each symbol and wait up to 30 s for the report | worker | a callback that outlives its caller; an answer that is lost; closing a generator that owns threads |
| Universe resolution (`services/scan_service.py`, `core/scanner/universe`) | two list files with a lifetime of 24 h | master list, list of NSE, list of BSE, static list | Postgres, NSE, BSE | silent fallbacks; two files of different hours that are filtered against each other |
| Market data (`core/scanner/data_fetcher.py`) | a file of bars per symbol and timeframe | cached or downloaded bars | yfinance | timeframes of one scan come from different hours |
| Signal rules (`core/analysis`, `core/ranking`, `agents`) | none | box, breakout, level tests, signal, targets, risk, classification, scores | pipeline | thresholds and their boundaries; two modules gate one trade on different targets |
| Indicator engines (`core/analysis`) | none | swings, ribbon, correction, trend, phase, gate score | signal rules | windows on young charts, verdicts that change with the day |
| WebSocket hub (`services/ws_manager.py`) | the set of connections, the gauge | connect, disconnect, broadcast, listen | Redis pub/sub, browsers | connections leave during an await; the listener can end |
| Response caches (`routers/scans.py`, `routers/signals.py`, `routers/dashboard.py`) | Redis keys with a lifetime | read, fill, delete | Redis, Postgres, its replica | a fill that races a delete; several statements in one answer |
| Price cache (`services/price_service.py`) | a Redis key per symbol; four threads | read, fetch what is missing | Redis, yfinance | a fetch that outlives its request |
| Browser client (`apps/web/src/store/slices/wsSlice.ts`, `hooks/useWebSocket.ts`, the scanner page, the top bar) | current scan, progress, counters, completion summary, polled statuses | receive events, run, stop, poll | hub, API | late, lost and stale events; timers; two poll fallbacks |
| Stock master sync (`tasks/stock_tasks.py`, `services/stock_service.py`, `queries/stock_master.py`, `tasks/screener_tasks.py`) | `stock_master` rows, the Redis sync status | upsert, index flags, fundamentals, screener queue | Postgres, NSE, yfinance, screener.in | partial failures, concurrent syncs, uniqueness constraints |
| Reporting (`core/reporting`) | files | charts, HTML reports | - | formatting only |

What makes each component correct, in one line:

- *Scan requests and worker*: scans do not overlap while nothing disturbs the lock,
  and none is worked on twice; a finished scan is never pending again;
  `scan.complete` follows the final row; a stopped scan keeps its message; every scan ends, and its end is announced.
- *Pipeline and its bridge*: `signals_found` counts what is stored; a stop is
  obeyed soon; events come in order; nothing is stored or counted once the run is
  over; the run ends.
- *Universe and market data*: listings reach the scan in time and on one feed; the
  bars of a scan lack at most one close and fit together.
- *Signal rules and engines*: a signal is a trade with ordered prices that repays
  its risk, levels are counted as the strategy says, a breakout is sold once, no
  signal is lost on its way to a list, a verdict about the past is not revised,
  better charts rank higher.
- *Hub*: who stays hears everything once and in order, whoever joins or leaves.
- *Caches*: at the end of a scan what was kept of the time before is gone; an
  answer is about one scan; whatever was written late does not last; a price is
  as old as its lifetimes say.
- *Browser client*: it counts only the followed scan's signals, follows a pending
  scan until it is over and lets go of it then, whatever the socket missed.
- *Stock sync*: jobs end, no row waits for ever, the reported status settles,
  index membership survives partial failures, a sync can be repeated.

## Modules

| Module | What it is |
|---|---|
| `ScanLifecycle` | scan requests, schedule, stop, worker, Redis lock and flags, Celery delivery |
| `ScanService` | the abstract specification of what becomes of one scan: it is worked on once at most, and what is over stays over (that scans do not overlap is not part of it) |
| `ScanResults` | what a scan leaves to the others: row, signals, published events, cached answers |
| `ScanStream` | the inside of one run: fetch threads, pipeline thread, event loop, stop request |
| `WsHub` | the WebSocket hub of the API process |
| `ResultCaches` | the requests that read results and keep their answers in Redis |
| `ScanDelivery` | the composition of the last three over `ScanResults` |
| `ScanClient` | one browser: slice, socket hook, page, top bar, and the service as it sees it |
| `StockSync` | the jobs that fill `stock_master` and the status keys about them |
| `Universe` | which tickers a scan covers, and the files of the lists |
| `MarketData` | the files of the bars of one symbol |
| `PriceCache` | the live price of one symbol |
| `GateRange` | the consolidation box, the breakout state and the level tests, as pure operators |
| `SignalRules` | the signal, risk and classification rules over a chart that grows day by day |
| `Scores` | gate strength, confidence and rank of a signal |
| `ChartEngines` | swing points, ribbon, correction, trend, phase and gate score over a chart that grows day by day |
| `MCScan`, `MCClient`, `MCDelivery`, `MCSync`, `MCMarket`, `MCAnalysis` | model values, inputs and instances for TLC |
| `ScanLifecycle_proofs`, `ScanLock_proofs` | theorems about `ScanLifecycle`, and that it implements `ScanService` |
| `ScanStream_proofs`, `ScanDelivery_proofs` | theorems about `ScanStream`, and about `WsHub` and `ResultCaches` next to it |
| `ScanClient_proofs` | theorems about `ScanClient` |
| `Universe_proofs`, `Market_proofs` | theorems about `Universe`, and about `MarketData`, `PriceCache` and `StockSync` |
| `Analysis_proofs` | theorems about `GateRange`, `SignalRules`, `Scores` and `ChartEngines` |

### ScanLifecycle

Each database statement and each Redis command is a step, because each is an
`await`. `req[s]` says where the request that creates scan `s` is
(`trigger_scan`: SET NX, `has_running_scan`, DEL, SET NX, INSERT, `apply_async`),
`stp[s]` where the request that stops it is, and `pc[<<s, k>>]` where the k-th
execution of its task is, with its locals `final`, `left` and `raised`. `row`
is `scans.status`; the value "stopped" is `failed` with the message "Stopped by
user". The three things that expire after 600 s count the same `TTL` ticks: the
lock, the cancel flags, and the window in which `has_running_scan` believes a
pending row. `queue` and `unacked` are Celery's: acknowledged late, redelivered,
retried on connection errors; when the broker is down the task runs inside the
API process. `announced` collects the terminal events of a scan.

What the environment may do is a constant: `Env` is a subset of `EnvEvents`
(a Celery worker, the schedule, stops, expiry, failing Redis, failing lookup,
failing statements, a failing UPDATE in the finally block, killed processes,
repeated tasks). Every run and every theorem says which of these it allows, so that
a property which some of them break is still stated exactly. What the program does
by itself is never an option: a trigger that finds the lock and no pending scan
deletes the lock and sets its own (`scans.py:62-64`) in every environment.

There are two deployments. `docker-compose.yml` starts Celery workers and Beat;
`supervisord.conf`, the one of production, starts neither: there only the internal
routes run scans, and what a trigger sends to the broker is not taken from it. The
difference is "worker" in `Env`.

### ScanStream

`ScanLifecycle` sees a run as a sequence of deliveries next to other scans;
`ScanStream` takes one run apart. `fetch[s]` is the fetch of a symbol in its
thread, `thread` the pipeline thread of `run_scan`, `calls` the coroutines
`on_phase` and `on_batch` that are alive on the event loop, each with the number
of its symbol and the await it stands at (`phase`, `insert`, `copy`, `progress`,
`batch`, `check`), `loop` the position in `_run_scan_async`. `sync_cb` is the pair
`Take` (submit, then wait) and `GiveUp` (the 30 s are over: the coroutine goes
on and nobody hears its answer); `Answer` reaches the thread only if it waits for
this very callback. `Close` is the end of the `with` block of the executor, which
waits for every fetch that was submitted. `overrun` is a history variable: symbols
taken since the cancel flag was set.

A run has one of two event loops. In a Celery task `asyncio.run` makes one, and
cancels the callbacks that are left when the task is over (`Cleanup`). Where the
process of the API runs the scan (`scans.py:82`, `internal.py:48`; the fault
"here") the loop goes on, and a callback that was given up goes on with it. What it
can still do is decided by the pool of the run: `ClosePool` waits for one that is
at its COPY, and refuses the connection to those that come later, which then raise.
A given-up callback that is past its COPY publishes all the same.

Faults are the setup's: the fault "expiry" lets the cancel flag run out, "errors"
lets statements, reports and the ranking (`RankFails`, `pipeline.py:172`) raise. An
UPDATE to `done` that raises (`Raised`) leaves the row pending, because
`final_status` is set before it. The scan is one without an explicit universe.
Bounds: `MaxLate` callbacks are given up, `MaxDeaf` looks at the flag fail.

### WsHub and ResultCaches

`WsHub`: `sock[c]` is the connection as it is, `conns` what the hub believes,
`fan` the sends of the message in flight. `Listen` takes the next message only
when `fan` is quiet, because `listen_redis` awaits `broadcast`, and `broadcast`
awaits every send. A send to a peer that is gone may raise or be swallowed; the
handler of the connection learns of it independently (`Notice`). `inbox` and
`since` are histories of what was sent to a connection and when it joined. The
lock of the registry is never held across an await, so its blocks are steps.

`ResultCaches`: a request looks at Redis, runs one or two statements against the
primary or a replica, and writes its answer back, each a step of its own.
Payloads are reduced to what can go wrong with them: of which scan the total is,
of which scan the page is, how many signals are counted, and (a ghost) whether
the answer was written after the end of the scan.

A `setup` chosen in Init says who takes part and which faults there are, so that
one run asks several small questions rather than one large one.

### ScanClient

The service is what a browser sees of it: the status of a scan, its worker's
steps, a FIFO `wire` of events that is lost when the socket closes. The rest is
the front end: `current`, `scanning`, `streamed` and `summary` are the fields of
`wsSlice`; `timers` the `setTimeout` that clears the counters; `list`, `fetch`
and `stale` the RTK Query cache of the scan list with its tag; `polled` and
`polledTop` the last answers of the two polls; `due` the effects React has still
to run; `trig` and `stp` the two requests the user can start. How RTK Query hooks
behave (the last answer stays when the argument changes) is external to the
repository and modelled from its use.

### StockSync

A job runs its phases in the fixed order of `_sync_async`; each statement and
each download is a step, so that several jobs interleave in one table. Jobs are
requested by a user, by the weekly schedules, by the internal route, or sent by
Beat every 15 minutes. The unique index on `isin` is a second constraint next to
the ON CONFLICT target. Failures: missing CSV files, groups of the BSE list that
fail, a failed row, an exception anywhere (one that comes before the try block
leaves the phase as it was), a killed process.

`lapsed` is a history variable: the jobs that ended without the UPDATE of `is_fno`
although they added rows or reset columns, since that UPDATE was last made. With
it, what a user may expect of the column can be said of any number of jobs.

### Universe, MarketData and PriceCache

`Universe`: `step[s]` walks a scan through `_resolve_universe_from_db`,
`_fetch_all_nse_equity`, `_fetch_all_bse_equity` and the default of
`run_scan`; `nseFile` and `bseFile` are the two files with their ages in hours.
NSE lists and delists (`ListingChanges`) at any step, also between the two
downloads of one scan. `since[c]` counts the hours from the last change of a
company up to `Known`, two lifetimes. `Pooled` says which processes have called
`create_pool`; `BseSymbol` what the API of BSE calls a company. Hours pass only
while nobody resolves, because a resolution takes minutes.

`MarketData`: bars are known by the hour they were downloaded. `Ask` is
`get_multi_timeframe`, `ReadCached`, `Download` and `DownloadFails` the branches
of `get_ohlcv`; 4h bars are made from the file of 60m.

`PriceCache`: a request (`poll`) and its fetch in a thread (`fetch`) are two
things, because `wait_for` ends the first and cannot end the second. Ages are
counted in seconds; a second does not pass over a timer that is due.

### GateRange, SignalRules and Scores

A behaviour is a chart that gets one bar a day. The operators of `GateRange`
translate `range_engine.py` (slices with the same ends); `SignalRules` adds what
the other engines report on a day as one record that may be anything
(`ContextOK`), the gates of `generate_signal`, `measured_move_targets`,
`RiskManagementAgent.build_signal` and `classify`. Prices are integers in a unit
in which every factor of the code (0.5 %, 1.5, 2.618, 8 %) is exact. `Scores`
adds the two numbers a signal is shown and sorted by; charts without data are left
out of its averages, as `multi_timeframe.py:83` does (`data` of a context).

### ChartEngines

What `SignalRules` takes as given is computed here from a chart whose bars carry
the columns of pandas (averages, which are 0 while there are too few bars; ATR,
ADX and the width of the bands, which are `Missing` then, and may be 0): swing
points, the percentile and the trend of the spread of the averages, the nearest
average, the last correction and its verdict, the phase, the gate score with its
six parts, proximity and volume, the breakout probability. Windows are constants
(`Lengths`); scores are whole numbers.

## Runs

| Run | Question | Instance and bounds | Why it is enough |
|---|---|---|---|
| `scan_reruns` | What do row, flag and events respect under every failure, retry and redelivery? Does the scan end? | 1 scan, 2 executions, 1 symbol, TTL 2, all of `Env`, fair | the properties are about one scan; two executions overlap each other and every stop; the safety part is proved for all sizes |
| `scan_lock` | While what does the lock serialise scans? What becomes of a scan whatever happens to its lock? | 2 scans, 1 execution, TTL 2; worker, stops, expiry, failing statements, crashes | a scan and the one that meets its lock, before, in and after its run; a third scan, the schedule and a failing finally block multiply the states and are left to the proofs, which hold for all sizes |
| `lock_stale` | finding | 2 scans, a worker, and nothing fails | - |
| `stop_overwritten` | finding | 1 scan and one stop | - |
| `client_live` | Does the browser let go of what is over? | 1 scan, everything in `Env`, 2 events under way, fair | one followed scan; events, polls, stop and trigger all race |
| `client_two` | Do events, polls and timers of one scan disturb another? | 2 scans, 1 event under way | a stale and a current scan |
| `ui_stuck` | finding | 1 scan and one stop | - |
| `delivery` | Are results stored, counted, announced, passed on and shown as they are? | 14 setups: 1 or 2 symbols with each fault, in a task and on the loop of the API; 2 sockets; 1 socket whose hub goes deaf; 1 or 2 requests for each key, with and without a replica, errors and a stop. `MaxLate` 1, `MaxDeaf` 1 | two symbols make an order, two sockets a fan-out in which one leaves, two requests a race for one key; the parts of a setup that are left out share no state with those that are in it |
| `stock_sync` | What does the program keep of the market? | one of five parts. *sync*: 1 NSE and 2 BSE listings, one requested job and Beat's, 1 fault, six hours pass once. *flags*: 1 NSE listing, two requested jobs for what decides about membership, 1 fault. *universe*: 3 companies, one of them comes and goes, one with a scrip code, 2 scans, one with a pool, lifetime 2 h. *bars*: 2 readers, a scan and a chart, lifetimes 1 h and 3 h (a day of 3 hours), 8 hours. *price*: 2 polls with time-outs 1 and 2, 1 thread, lifetime 2 s | two jobs in one table, two that add rows, reset and set columns in any order, two rows that compete for a batch of one, a listing on both exchanges; two scans that replace each other's files within one lifetime; two closes of the market; a fetch that keeps the only thread while the other poll waits |
| `isin_clash` | finding | 1 NSE and 1 BSE listing, 2 jobs | - |
| `index_lost` | finding | 1 NSE listing, 2 jobs | - |
| `analysis` | Are signals trades, levels counted, signals listed, breakouts sold once? Are engines steady? | one of two parts. *rules*: 5 bars x 11 days' reports, up to 6 days, window of 3 bars. *engines*: charts of up to 6 days from 7 bars, windows of 1 to 5 bars | box, breakout, next day and a re-entry fit, each report fails one gate; a swing, its correction and a shut gate fit, and five values make a percentile of exactly 20 possible |

### What each run shows

| Run | Properties | In words |
|---|---|---|
| `scan_reruns` | `CompleteIsFinal`, `NeverBackToPending` | a completion is published only for a finished row; no rerun reopens a scan |
| | `EveryScanFinishes`, `LockIsFreed` | every scan ends but for the cases named below; a lock that is left behind expires |
| `scan_lock` | `SerialWhileUndisturbed` | two scans do not overlap before one of four things has happened |
| | `NoSilentEnd`, `CancelledIsStopped` | each end is announced, a cancelled run says so |
| | `ImplementsScanService` | a scan is worked on once at most and never after it is over, as in the abstract service |
| `client_live` | `FollowingEnds` | the browser lets go of a scan that is over, whatever the socket missed |
| `client_two` | `ShowsItsScan`, `KeepsShowing` | counts and summaries belong to the scan shown; a pending scan stays on the page unless a failure or the top bar takes it away |
| `delivery` | `FoundIsStored`, `StopIsPrompt`, `EventsInOrder`, `QuietAfterEnd`, `TaskEnds` | the pipeline counts what it stored, obeys a stop, reports in order, writes nothing once it is over, and ends |
| | `NothingSkipped`, `EveryoneHears` | the hub loses no message for a connected client, and delivers in the end |
| | `BustLeavesNothing`, `AnswersAgree`, `FreshForGood` | no old answer is left at completion, answers are of one scan, late ones expire |
| `stock_sync` | `QueueDrains`, `StatusSettles` | the enrichment queue empties, the status tells the end |
| | `FnoStands` | the rows of the static list have `is_fno` unless a job that decides about it is under way or has lapsed |
| | `ListingsArrive`, `OneFeed`, `BarsKeepUp`, `PriceIsRecent` | lists, feeds, bars and prices are never older than the lifetimes of the caches allow |
| `analysis` | `SignalIsTradable`, `LevelTestsAgree`, `SignalIsListed`, `RepeatedSignalsRise` | signals are trades, are listed, and are for new breakouts; tests of a level are counted as defined |
| | `BetterChartsRankHigher`, `ShutGateContracts`, `PastStays` | ranks are monotone, the contraction gate means contraction, the past is not revised |
| `lock_stale` | `OneScanAtATime` | violated: see finding 1 |
| `stop_overwritten` | `StopBeatsDone` | violated: see finding 2 |
| `ui_stuck` | `UIExits` | violated: see finding 3 |
| `isin_clash` | `SafeToRerun` | violated: see finding 4 |
| `index_lost` | `MissingFileKeepsFlags` | violated: see finding 5 |

Four of them need a word more.

- `SerialWhileUndisturbed` is `[]Undisturbed => []OneScanAtATime`. What disturbs the
  lock is named by what the code looks at: `Raced`, a trigger looks at the lock while
  another one is between its SET and its INSERT; `Outlived`, a scan that is stopped or
  out of its pipeline has its DEL ahead while another one is under way; `Overdue`, a
  scan outlasts the window of `has_running_scan`; `Unlocked`, a scan is created by the
  schedule, which does not look at the lock. `lock_stale` shows the first of the four.
- `EveryScanFinishes` excepts what the code leaves pending for good (`LeftPending`): a
  task that could not be sent, a task in a queue that no worker reads, a run that was
  killed or raised before its try block, and one whose UPDATE failed in the finally
  block, or whose UPDATE to `done` did.
- `QuietAfterEnd` says that nothing is stored or counted once the run is over.
  Announcements are another matter: a stop request may still publish, and on the loop
  of the API so may a callback that was given up.
- `FnoStands` is about the one column whose list is always there; what happens to the
  others is finding 5.

`scan_reruns`, `client_live` and `delivery` also check `TypeOK` of their modules,
`stock_sync` and `analysis` the types of all their parts as `MCTypeOK`.

`CHECK_DEADLOCK FALSE` stands where the system really comes to rest or a bound
ends a behaviour: scans, requests, charts and the hours of `MarketData` are finite.

The bounds are named constants of the modules: `MaxRuns`, `Batches`, `TTL`,
`MaxWire`, `MaxFaults`, `MaxAges`, `Workers`, `BatchSize`, `MaxDays`, `EngineDays`,
`MaxLate`, `MaxDeaf`, `MaxHours`; and lifetimes in small units:
`ListTTL`, `IntradayTTL`, `DailyTTL`, `PriceTTL`.

### Fairness

- Workers, requests that were accepted, the broker, Beat, timers, polls, effects
  and the reconnecting socket are weakly fair: an event loop, a Celery worker and
  React schedule what is ready, and `useWebSocket` retries for ever.
- Threads and coroutines of a run are weakly fair (`StreamFairness`): a fetch ends
  by its own time-outs, a callback by the 30 s of the pool and the time-outs of
  Redis. No callback has to be given up.
- The hub's listener, its sends and the handlers of dead connections are weakly
  fair (`HubFairness`): a send ends when the client reads, or when the server's
  ping finds that it is gone. The listener is allowed to end.
- A request that has begun is carried on, entries of Redis expire, the replica
  catches up (`CachesFairness`).
- Time passes (`Tick`) in `scan_reruns`, because Redis expires keys by itself.
- Nobody has to click, trigger, stop, ask or close a socket, no failure has to
  happen, and a crash never has to be repaired by somebody.

Two of these stand for processes that only `docker-compose.yml` starts: the worker
that takes tasks from the queue (`WorkerPick` with "worker" in `Env`, `Take`) and Beat
(`BeatFires`). Production has neither (`supervisord.conf:19-23`, `celery_app.py:41-42`).
There a scan or a sync that was sent to Celery waits for ever, which
`EveryScanFinishes` names as an exception and the comment of `QueueDrains` says. In
the part *flags* of `stock_sync` Beat does not get its turn, so nothing that must
happen is asked of that part.

### Findings

Five runs show where the code does something else than its own text says.

1. `lock_stale`: `trigger_scan` takes the lock before it inserts the row. A second
   trigger between the two finds a lock without a pending scan, deletes it as
   stale, and both scans run (`routers/scans.py:63`).
2. `stop_overwritten`: the cancel flag is read once; a stop between that read and
   the UPDATE is overwritten with `done` (`tasks/scanner_tasks.py:174`).
3. `ui_stuck`: late progress of a stopped scan brings the scanning state back and
   neither poll ends it (`wsSlice.ts:86`).
4. `isin_clash`: a company that BSE listed first and NSE lists later breaks the
   equity phase of every further sync (`queries/stock_master.py:61`).
5. `index_lost`: `reset_index_flags` clears every membership column before those
   indexes are written whose file could be downloaded, so a missing file costs an
   index all its members (`services/stock_service.py:62`), where
   `stock_master_sync.py:142` says that its flags are preserved.

More about the lock: it has no owner, so each of the four conditions of
`SerialWhileUndisturbed` is needed, and so is that Redis answers, that the lookup
does not raise and that no task is repeated: TLC finds two scans at the same time as
soon as one of them is given up. Most of these traces need two scans. `Outlived` and
repeated tasks need a third: a run, or the second run of a scan, deletes the lock of
its successor, and the third trigger finds none.

Other places where code and text part, each visible in the module named:

- `ScanLifecycle`: production has no Celery worker ("Tasks now run directly
  in-process via FastAPI BackgroundTasks", `supervisord.conf:21`), but `trigger_scan`
  and `trigger_sync` send their task to the broker first and run it in the process
  of the API only when that raises (`scans.py:75-82`). While the broker accepts
  tasks, a triggered scan stays pending, and its lock refuses the next triggers until
  it expires. And under any deployment a scan stays pending for good when its process
  is killed, when a pool or the INSERT fails before the try block, or when the UPDATE to
  `done` raises: `final_status` says `done` already, so the finally block writes
  nothing (`scanner_tasks.py:172`, `:219`).
- `SignalRules`: INVESTMENT is presented as a list (`classifier.py:6`,
  `core/config.py:243`), but a signal is never put on it: its rule needs monthly bars,
  which a scan does not fetch. `SignalIsListed` asserts this.
- `StockSync`: nothing ever writes the `sync_status` 'delisted' that
  `get_master_universe` excludes.
- `Universe`: "the scanner always scans the complete master list"
  (`scan_service.py:43`), but in a Celery worker nobody calls `create_pool`, and
  the scan takes the downloaded lists instead. "Never silently falls back to a
  Nifty-filtered subset" (`scan_service.py:70`), but a list file that cannot be
  read ends in exactly that (`Unreadable`, `PipelineDefault`). Where the API of
  BSE sends `scrip_cd`, the dual listings are filtered by comparing numbers with
  symbols (`nse_universe.py:505`). A download with failed groups is kept for the
  day.
- `MarketData`: daily bars "change only EOD" (`data_fetcher.py:44`), but their
  24 hours count from the download: a scan after the close may use the bars that a
  chart drew in the morning. The files of 4h bars are written and never read.
- `WsHub`: "one slow client no longer blocks the whole fan-out"
  (`ws_manager.py:69`); it does not block the fan-out, but the next event waits for
  it. The gauge falls below the number of connections when a send fails and the
  handler of the same client returns too. When the connection to Redis drops, the
  listener ends for good.
- `ResultCaches`: `dashboard:stats` is deleted after `scan.complete` was published,
  and a request that read the database before the end may fill any of the keys
  after it: clients that refetch on the event can see the previous scan until the
  entry expires. A list may have the total of one scan and the page of the next.
- `PriceCache`: four fetches that hang leave no thread for anybody
  (`price_service.py`); every later poll times out.
- `Scores`: `alignment_pct` counts the charts on the dominant side, whichever it
  is; a second bearish chart raises the rank of a buy.

## Theorems

All are proved with TLAPS, for every value of the constants that satisfies the
named assumptions, without axioms. Every invariant and every action property
that a passing run checks is the subject of one, and so is the refinement.

| Theorem | Property | Conditions |
|---|---|---|
| **`ScanLifecycle_proofs`** | | |
| `TypeCorrect` | `TypeOK` | any environment |
| `CompleteAfterWrite` | `CompleteIsFinal` | any environment |
| `FlagAfterMark` | `FlaggedIsMarked` (no run: a step to the next ones) | any environment |
| `PendingIsLeftForGood` | `NeverBackToPending` (action) | any environment |
| **`ScanLock_proofs`** | | |
| `CancelKeepsMessage` | `CancelledIsStopped` | no repeated task |
| `CompleteIsNotFailed` | `NoBareFailureAfterComplete` (no run) | no repeated task |
| `EndIsAnnounced` | `NoSilentEnd` | Redis answers |
| `EndIsFinal` | `EndedIsFinal` (no run) | the UPDATE of the finally block works (the formula excepts an UPDATE to `done` that raised) |
| `LockSerialises` | `SerialWhileUndisturbed` | no repeated task, Redis answers, the lookup does not raise, TTL of two ticks or more |
| `Refinement` | `ImplementsScanService` | no repeated task |
| **`ScanStream_proofs`** | | |
| `RunIsConsistent` | `RunInv` (no run: the inductive invariant) | all faults |
| `RunIsTyped` | `StreamTypeOK`, a part of `TypeOK` | all faults |
| `WhatIsFoundIsStored` | `FoundIsStored` | all faults |
| `StopsAreObeyed` | `StopIsPrompt` | all faults |
| `ClientsAreToldInOrder` | `EventsInOrder` | all faults |
| `NobodyWritesAfterTheEnd` | `QuietAfterEnd` (action) | all faults, either event loop |
| **`ScanDelivery_proofs`** | | |
| `HubIsTyped`, `CachesAreTyped`, `DeliveryIsTyped` | `TypeOK` and its parts | all faults |
| `NobodyMissesAMessage` | `NothingSkipped` | all faults |
| `NothingOldIsLeft` | `BustLeavesNothing` | all faults |
| `AnswersAreWhole` | `AnswersAgree` | all faults |
| **`ScanClient_proofs`** | | |
| `TypeCorrect` | `TypeOK` | any environment |
| `ScansAreNotMixed` | `ShowsItsScan` | any environment |
| `PendingStaysShown` | `KeepsShowing` (action) | any environment |
| **`Universe_proofs`** | | |
| `TypeCorrect` | `UniverseTypeOK`, a part of `MCTypeOK` | failing downloads, unreadable files |
| `ListingsArriveInTime` | `ListingsArrive` | failing downloads, unreadable files |
| `FeedsSettle` | `OneFeed` | failing downloads, unreadable files |
| **`Market_proofs`** | | |
| `BarsAreTyped`, `PricesAreTyped`, `SyncIsTyped`, `MarketIsTyped` | `MCTypeOK` and its parts | - |
| `BarsStayClose` | `BarsKeepUp` | daily files live for a day at most |
| `PricesAreRecent` | `PriceIsRecent` | - |
| `FnoIsKept` | `FnoStands` | all faults |
| **`Analysis_proofs`** | | |
| `TypeCorrect`, `ScoresStayInRange`, `BothAreTyped` | `MCTypeOK` and its parts | - |
| `TradableSignals` | `SignalIsTradable` | - |
| `ListedSignals` | `SignalIsListed` | - |
| `RisingSignals` | `RepeatedSignalsRise` (action) | - |
| `LevelTestsCounted` | `LevelTestsAgree` | - |
| `BetterChartsCount` | `BetterChartsRankHigher` | - |
| `PastIsNotRevised` | `PastStays` (action) | - |
| `ShutGatesContract` | `ShutGateContracts` | - |

The assumptions beyond the types of the constants, and what justifies them: a
universe is finite (`SetupAssumption`); `daily` files live 24 hours and the market
closes once a day, so `DailyTTL <= DayHours` (`DataAssumption`); there are two
time-outs, so one of them is the longest (`PriceAssumption`); an average over many
bars has begun only when those over fewer have, and the windows of the volumes
are ordered as they are in the code (`EngineAssumption`); a context has the fields of
the report it stands for, daily data among them, and charts without data have no
opinion (`ContextOK`). A tick is the unit in which 600 s are counted, so the trigger's
INSERT can come in the tick after its SET; with a TTL of one tick the lock would be
gone by then, hence `TTL > 1` in `LockSerialises`.

### How the scan theorems are argued

None of the properties is inductive.

- `EarlyInv`: a request that has not inserted its row has left no other trace (no
  task, no execution, no stop). Without it an INSERT could overwrite a final row.
- `SettledInv` adds: a set flag, a stop beyond its mark and a run that is about to
  publish all presuppose a settled row, and settled rows stay settled.
- `OnceInv`: without repeated tasks a scan has at most one execution that is not
  idle, and none while its task waits or is still to be sent. From here the
  `e[1]`-th row belongs to one run.
- `CancelInv`: a flagged scan is stopped, or its run is past the point of no
  return (`Late`); a cancelled run has nothing left to write.
- `ToldInv`: a flag was set by a stop that has announced itself or is about to;
  `BareInv`: whoever wrote `failed` or published `scan.complete` is over.
- `SerialInv`: `InHand(s)` is a scan from the SET of its lock until its pipeline is
  left. While nothing has disturbed the lock, the scan in hand has it for as long as
  its row counts as recent (`HandHasLock`), no two scans are in hand, and a trigger
  that is about to delete the lock still finds no scan. Whoever deletes the lock does
  so while nobody is in hand (`NoneInHand`), so a step changes the lock and the hand
  in one of few ways (`LockCourse`, `HandStep`). It is an invariant only as long as
  `Undisturbed` holds: the proof is of `Spec /\ []Undisturbed => []ShortInv`.
- `FinalInv`: a run beyond its finally block found or wrote a final row.
- `RefInv` has `RowInv`, that what has no row has no task, so the phase of the
  abstract service is a function of the row and of where the scan's one run is
  (`PhaseOfRun`). `WorkerStart` is then the service's `Begin`, the step out of the
  pipeline is `End`, a stop ends a scan that works or drops one that waits, an
  execution that dies before its pipeline is `Drop`, and everything else is a stutter.
  The lock does not appear in it: what two scans do to each other's lock is no
  concern of the service, and the refinement holds whatever they do.

### The run, the hub and the caches

`RunInv` is what everything about a run rests on. It says where the event loop and
the pipeline thread expect each other (`Positions`), that two callbacks which are
alive at the same time have different numbers and different symbols
(`Callbacks`), and that found <= stored <= taken (`Numbers`). Without `Callbacks`
two callbacks could insert the same symbol, and one row would be counted twice. On
top of it:

- `Waited` and `Counted`: while no callback was given up there is at most one, and
  it is the one the thread waits for; so the count that the next callback writes
  is exact. `FoundIsStored` follows, and so does `QuietAfterEnd`: when the run is over
  its thread is, a callback that is left was given up, and no callback is at its COPY
  once the pool is closed (`Positions`).
- `Obedient`: a thread that is about to take the next symbol has not used up the
  one symbol that `StopIsPrompt` grants it, as long as the flag stands; before the
  flag is set there is nothing to count.
- `Told` orders every two events (`Before`) and says how far the events of the
  callback that is alive have come, so that its next event may follow all that are
  in the log (`AppendInOrder`, `AnnounceInOrder`).
- `Registered` and `Got`: a connection's inbox is the `Window` of the log from
  where it joined to what the hub has taken, less the message in flight to it.
- `Busted` says of each step of the loop after the UPDATE which of the keys was
  emptied; `AfterTheEnd` is about whoever filled a key since.
- `Agreed` is about entries and about requests under way: what a request has read
  misses nothing that the replica, or the primary, will say later (`Whole`).

`ScanDelivery` composes the three over one state, so each lemma about a part comes
with one that says the others leave that part alone (`OthersLeaveTheRun`,
`RequestsReadOnly`, `RunsOnlyBust`).

### The browser

`ClientInv` adds to the properties that a completion on the wire or in the answer
of a poll is about a scan that is done and stays done (`DoneIsTrue`,
`DoneIsFinal`), and that a summary and a followed scan exclude each other
(`SummaryAlone`). The proof splits the invariant in the service, the slice and the
rest, because a step touches one or two of them; `ReducersStep` treats all reducers
of the slice at once.

The proof of `KeepsShowing` needed its exceptions to be said exactly. Nobody stops
a worker that is about to write `done` when a stop sets the row to `failed`: the
failed event is still under way when the scan is done again, and takes the next
scan off the page. A failed event names no scan that a reducer compares, so the
property excepts such an event at the head of the wire, an answer that failed, and
what the top bar polled last; everything else is shown to keep a pending scan.

### Universe, bars and prices

The universe is proved from `ListsInv`, which says for each copy of a list what it
is right about, with the age it has: the file of NSE about everything that changed
before its download; the set a scan took from it about everything that changed a
lifetime ago; the file of BSE, which was filtered against such a set, about what
changed a lifetime before its own download. Ages and `since` grow together, so an
hour keeps it; a change resets `since` and so makes it vacuous for that company.
A scan that combines its two lists (`Combined`) then has the universe that
`ListingsArrive` and `OneFeed` promise. The two properties need the other's copy
to be only one lifetime behind, hence one lifetime in the first and two in the
second; the comparison in the first conjunct is strict, because NSE may change its
list in the hour of the download.

`BarsKeepUp` follows from `AllYoung` (what a reader holds is no older than its file
may be) and from `OneClose`, that a day contains one close. `PriceIsRecent` needs
`Timely`: a price a request still waits for was asked for after the request began
to wait, and a fetch that its request has left is never stored; a kept price is
then as old as its key plus the longest time-out. That the executor has as many
threads as it has, abandoned fetches included, is a part of `PriceInv`.

### Index membership

`FnoStands` speaks of moments at which no job is under way; `FnoInv` says what holds
in between: nobody outside the list has the flag, and as long as a row of the list
lacks it, a job is under way that has not written the column and cannot end before it
has without lapsing (`Deciding`), or one has lapsed. For this it must be known where
in its phases a job is (`InOrder`): a job adds its rows before it comes to its flags,
so when it writes `is_fno` it has no rows of its own left to add, and those of
another job make that other job a deciding one. That a task which is delivered again
starts from its first phase is needed too: one that went on where it was would end
without having written the column after its reset.

### Rules and engines

The rules are proved from facts about the box: `Least` and `Greatest` show that a
finite set of prices has a smallest and a largest element (by well-foundedness of
`<` on the naturals), hence the box is a box around its bars (`BoxFacts`), hence a
confirmed close is above it and the targets rise (`TargetsRise`); `ListsInReach`
then shows that a tradable signal excludes every reason for IGNORE but the bearish
stack, which `GenerateSignal` excludes.

Three definitions are inductive over data, and the induction theorems of the
library cannot be used. Each is replaced by an argument about the least
counterexample, with `Least`:

- the pass over the bars that counts the tests of a level is a recursive function;
  `PassExists` shows that there is one, `PassKnows` that after bar k it knows
  (`Knows`) the runs that are closed and the one that is open, and `FailedCount`
  that its counter is then the number of failed runs. `LevelTestsAgree` compares
  exactly these two;
- sums over bars are folds: `SumExists` shows that the fold's function exists on
  all subsets of a finite set, `SumIsNat` that a sum of natural numbers is one;
- the greatest value on a stretch of bars and the last swing point (`MaxIsMember`).

`PastStays` is proved from prefixes: windows that lie in the old chart are the same
in the new one (`PrefixParts`), so swing points and the leg are too.
`ShutGateContracts` is arithmetic over the weights: position and volume together
give 37.5 of 45 points, and a volume pattern of 80 has dried up by 60, which
leaves 50 in the base and so something in the consolidation (`ThreeWeights`,
`DriesUp`, `SixWeights`).

### Only model-checked

- Liveness (`EveryScanFinishes`, `LockIsFreed`, `FollowingEnds`, `QueueDrains`,
  `StatusSettles`, `TaskEnds`, `EveryoneHears`, `FreshForGood`):
  fairness and ENABLED are out of the prover's reach.
- The properties of the five findings, which are false.

## What is left out

- Data: signals are counted, not stored; texts decide nothing, and nothing reads
  the tightness of a range. The series that pandas computes (averages, ATR, ADX,
  Bollinger bands) are columns of a bar.
- Times of several scans in one model: `ScanStream`, `WsHub` and `ResultCaches` are
  about one scan and an earlier one that is done. `Universe`, `MarketData` and
  `PriceCache` resolve and read one symbol or one universe at a time; they share no
  state with each other.
- Half-written files: list files and bar files are written in place, and a reader
  in another process can meet one that is not complete. `MarketData` treats it as
  unreadable, `Universe` leaves it out.
- `get_full_universe` with `live` or `include_fno_only`, and `UniverseFilter`:
  nobody in the program calls them.
- The progress counters of the sync, which feed a label; pages of screener.in.
- Stock search and the listing queries with their filters and paging,
  single-stock pages: they read and change no state that another part relies on.
- Reporting, charts, page layout, sizes of pools, and migrations (apart from the
  unique indexes).

## Plan

Done, in this order: `ScanLifecycle` with `ScanService`, `ScanClient`,
`StockSync`, `GateRange` with `SignalRules`, and their theorems; then
`ScanResults` with `ScanStream`, `WsHub`, `ResultCaches` and their composition
`ScanDelivery`; `ChartEngines` and `Scores`; `Universe`, `MarketData`,
`PriceCache`, and the theorems about all of them.

Next:

1. More safety of `StockSync`: `FnoStands` is proved, which job may own which row
   is not stated.
2. Abstract specifications for the hub (a log that each subscriber reads on its
   own) and for a cached answer, with `WsHub` and `ResultCaches` as refinements.
3. A single process of the API that runs all its scans on one event loop, as in
   production: its scans share threads and connections, which `ScanStream` (one run)
   and `ScanLifecycle` (no threads) both leave out.
