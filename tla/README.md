# A verification model of the multi-retailer inventory monitor

TLA+ models, TLC configurations and TLAPS proofs for the backend in `src/backend/app`
(paths below are relative to it) and for the session and the live feed of its dashboard
in `src/frontend/src`. The program watches products on quick-commerce
sites: a monitor process scrapes each watched product, compares it with the last
stored snapshot, stores what changed, publishes the change to Redis and sends a Celery
job per change; workers turn those jobs into Telegram, Discord and e-mail messages; an
API serves a dashboard, which also receives the changes over a WebSocket.

    browser (Playwright) <- providers <- MonitoringService <- Scheduler
                                            |        |
             one AsyncSession, never committed       +--> Redis pub/sub --> WebSocket --> dashboard
                                            |        +--> Celery queue --> NotificationService --> senders
                                            v                                    |
                                        PostgreSQL  <---- API (a session per request)

## 1. Inventory

| Component | State it keeps | Operations | Talks to | What makes it correct |
|---|---|---|---|---|
| Diffing (`application/diffing.py`) | none | `diff_snapshots` | called by the service | the stored baseline and the events stay true to what was scraped, over a long sequence of checks |
| MonitoringService (`application/monitoring_service.py`) and the repositories it writes through | a local per check; rows in the shared session | `check_watch_target`: scrape, `get_latest`, snapshot, events, publish, dispatch, `mark_checked` | providers, database, Redis, Celery | stored events explain stored snapshots; announcements never overtake rows; nothing is marked before it is announced; a stored change is announced |
| Scheduler and process (`monitor/scheduler.py`, `monitor/main.py`) | semaphores, the tick, the session of the process | `tick`, `_run_retailer_group`, `run_forever`, signals | the service | the concurrency limit per retailer; every target checked again and again; history kept |
| Notification worker (`tasks/`, `application/notification_service.py`) | rows of `notification_logs` | `process_event` | database, senders | each event reaches each user once; one user's failure does not harm another |
| Senders (`infrastructure/notifications/`) | none | `send` | HTTP, SMTP | returns true or false, never raises |
| Providers and registry (`infrastructure/providers/`) | browser, context, location | `initialize` (which sets the location), `search_product`, `get_product`, `close` | Playwright | one browser per retailer, recovered when it dies; the right location scraped |
| Watch, product and channel API (`api/routers/`) | rows | create, update, delete of products, watches and channels | database | concurrent creation shares one target; intervals are the minimum; deletes keep references |
| Live events (`api/websocket.py`, `infrastructure/cache/`, `frontend/src/hooks`) | open sockets, subscriptions, the bounded feed | connect, listen, reconnect | Redis, dashboard | a user receives the events of their active watches |
| Authentication (`application/auth_service.py`, `frontend/src/api/client.ts`) | OTP challenges, tokens | request, verify, refresh, logout | database, SMS | a challenge is used once and tried a bounded number of times |
| Analytics (`application/analytics.py`, `api/routers/analytics.py`) | none | `compute_availability_summary`, `price_history` | called by the API | agree with what the checks had seen, also at the edges of the period and at the limit |
| History, logs, settings, retailers | rows | reads, one upsert | database | a page of the history shows what was seen |
| Schema and bootstrap (`infrastructure/db/`, `core/`) | tables, configuration | | | its constraints belong to the components that meet them |
| Dashboard pages | forms | | API | rendering |

The hard behaviours: the checks of a tick are coroutines that interleave at every
`await` **on one shared AsyncSession**; any call of Redis, the database or a scraper may
fail half-way through a check; the process may be stopped at any await; and the
events are published and dispatched before anything is committed. `PROJECT.json` lists
every hazard at its line.

## 2. Modules

| Module | Models | Proofs |
|---|---|---|
| `Diffing` | `diff_snapshots`: the set of event types a scrape fires, and their order | `MonitorProofs` (its first lemmas) |
| `StockFeed` | what the stock alerts of a target promise, with no mention of scrapes or snapshots | |
| `ChangeFeed` | what the history and the jobs promise: numbered changes, each told in order and once, with no mention of sessions or ticks | |
| `CheckStream` | any sequence of completed checks of one target | `CheckStreamProofs` |
| `Monitor` | the monitor process: scheduler, checks, shared session, failures, stop and start | `MonitorProofs`, `MonitorHistoryProofs` |
| `MCMonitor` | constants of the `Monitor` runs | |
| `Notifier` | the notification workers, and what users do to channels meanwhile | `NotifierProofs` |
| `MCNotifier` | constants of the `Notifier` runs | |
| `AnalyticsStream` | the charts of a watch: price history, history and availability summary, read from the rows of `CheckStream` with a check a minute | `CheckStreamProofs` |
| `Provider` | one retail provider: its browser, shared by the checks of its retailer, and the nested retries | `ProviderProofs` |
| `Requests` | an API request, whatever it asks for: it comes in, awaits, and is over | |
| `Auth` | one-time codes of one phone number; extends `Requests` | `AuthProofs` |
| `Api` | products, watches and targets, channels, settings; extends `Auth` | `ApiProofs`, `AuthProofs` (types) |
| `MCApi` | constants of the `Api` run | |
| `Session` | the login of one dashboard tab: token pairs, calls, the interceptors | `LiveFeedProofs` |
| `LiveFeed` | the WebSocket effect, the route, the subscription, the list; extends `Session` | `LiveFeedProofs` |

    Diffing <- CheckStream <- AnalyticsStream          Requests <- Auth <- Api <- MCApi
       ^            |                                  Session <- LiveFeed
    Monitor         +-- implements --> StockFeed       Provider, Notifier: on their own
       +-- implements (one check at a time) --> ChangeFeed

### Diffing and CheckStream

`DiffSnapshots(previous, current)` is the SET of types in the list the code returns. The
order of that list is fixed by the order of the tests, so it is given once, by `Rank`.
Prices, delivery times, stores and variants are members of small sets, since only their
equality (and, for variants, what is new) is tested.

In `CheckStream`, `Check(current)` is the whole of `check_watch_target` when nothing
fails: `stored` is what `get_latest` returns, and it moves only if an event fired
(`BaselineAfter`, lines 99-110). `seen`, `view` and `bell` are observers: the last
scrape, what somebody who follows only the events knows, and the last stock alert.
The baseline is *not* the last scrape: LOW_STOCK to AVAILABLE and the loss of a variant
fire nothing and store nothing.

### Monitor

A check is split at its awaits; `pc[t]` names the await the check of target `t` is at:

| `pc[t]` | in the code | actions that leave it |
|---|---|---|
| `queued` | waiting for the retailer's semaphore | `Acquire` |
| `scrape` | `initialize` / `search_product` | `ScrapeReturns`, `ScrapeEmpty`, `ScrapeFails` |
| `latest`, `latestFlushing` | `get_latest`, and the autoflush before its SELECT | `Autoflush`, `ReadLatest` |
| `snapshot`, `snapshotFlushing` | `snapshot_repo.create`: add, then `flush()` | `CreateSnapshot`, `SnapshotStored` |
| `event`, `eventFlushing` | `event_repo.create`, once per turn of the loop | `CreateEvent`, `EventStored` |
| `announce` | `publish`, and `dispatch` after it with no await in between | `Announce`, `AnnounceFails` |
| `mark`, `markFlushing` | `mark_checked`, and the autoflush before its SELECT | `Autoflush`, `MarkChecked` |
| `done` | returned, or its exception was caught in `_run_retailer_group` | `EndTick` |

`phase` is where `run_forever` is: `sleeping`, `listing` (an autoflush of `list_due`),
`checking` (inside `gather`), `dead` (`list_due` raised: the task is over, `main` still
waits for a signal) and `stopped`.

SQLAlchemy is outside the repository and is modelled from what the code relies on (those
rows of `map` are external):

* `session.add` puts a row in `pending`; `flush` sends it (`inflight`) and, when it
  returns, the rows are in the open transaction (`rows`).
* a SELECT flushes first when there is something pending (autoflush), *except* while a
  flush is running, when it goes on without (`NeedsAutoflush`).
* `flush()` called while another coroutine's flush is running raises "Session is already
  flushing": the added row stays pending and the check is over (`AddButBusy`).
* when a flush ends, every attribute set while it ran is taken as written
  (`EndFlush`: the marks in `pending` are dropped, the added rows are kept).
* an error of the database leaves the session unusable until a rollback. Nothing in the
  process calls one, so from then on every call raises (`DatabaseFails`, `ListDueFails`).
* nothing in the process commits, so leaving `main` rolls the whole run back (`Stop`).

`due[t]` stands for the comparison of `list_due` on the stored `last_checked_at`: it
becomes false when a mark is written and true when the interval elapses
(`IntervalElapses`); `Stop` makes it true, because the mark is rolled back with the rest.
Times are otherwise not modelled. A snapshot's `number` stands for both its id and its
`scraped_at`. Redis subscribers and workers are not in this module: `published` and
`jobs` are the sets of what was handed to them.

### Notifier

A job is `process_detection_event(event_id)`; each worker runs one at a time in a session
of its own, so here the transaction is modelled as such: `written[w]` holds the log rows
only the worker itself sees, `logs` those committed by the one `commit()` at the end.

| `pc[w]` | in the code | actions that leave it |
|---|---|---|
| `idle` | waiting for a job | `Take` |
| `load` | the event, its target and snapshot; `list_by_watch_target` | `EventMissing`, `ListWatches` |
| `users` | the loop over watches: `exists_recent` of the next user; after the last, the commit | `NextUser`, `Commit` |
| `channels` | `list_for_user` | `ListChannels` |
| `send` | `sender.send`, once per channel | `Send`, `SendRaises` |
| `log` | `notification_log_repo.create` | `LogSend`, `LogFails` |

`Crash` leaves any of them. `NextUser` has the three outcomes of `scalar_one_or_none`: no
recent row, one (the user is skipped), several (it raises). An exception ends the job
without a commit and Celery, which acknowledged it when it was taken, does not run it
again (`Abort`). `seen_users` appears as `left`: the watches of users not yet seen. Rows
come in no defined order (no ORDER BY), so watches and channels are taken in any order.

Around it, a watch is created or deactivated at any time, so a listing returns
any subset of the watches of the target; a channel that some log row refers to cannot be deleted
(foreign key); the clock ticks. `started` and `earlier` are observers. Jobs wait from
the start, since a worker may take them at any time and in any order. Channels are not
created during a run.

### Provider

The four provider classes are the same program with other addresses and selectors, so one
module stands for each; `map` spreads its definitions over the four files. `handle` is
`_browser` and `driver` is `_playwright`, each known by the number of its launch. `pc[c]`
is the await a check is at: `starting`, `launching` (`initialize`), `home`, `homeOpen`
(the page on which `initialize` enters the location), `search`, `searchOpen`, `product`, `productOpen` (a page being opened and being
read), `searchWait`, `productWait` (tenacity's waits) and `cancelled`. `initialize` tests
`_browser` before its awaits and assigns after them, so two checks may both launch. An
exception runs the `finally` of the page that is open and goes to the innermost
retry (`ProductFails`), then to the outer one (`SearchRaises`), then to the scheduler
(`Finish`). `BrowserDies` may come between any two steps. `Stop` cancels the checks; each unwinds
on its own while `main` closes the provider in two steps, and a launch that is cancelled may have brought its
browser up. What a page says is not modelled, only how many results a search has.

### Requests, Auth and Api

Each request has a session of its own (`api/deps.py`), committed after a handler that
returned and rolled back after one that raised. PostgreSQL runs it at READ COMMITTED, so
the steps that matter are its reads and its commit:

| `pc[r]` | in the code |
|---|---|
| `check` | the row is loaded and its owner compared |
| `act` | what decides is read: active watches, the target, the setting, the challenges |
| `account` | (verify) the challenge was usable; `mark_consumed` and the user's row |
| `commit`, `create` | the writes, decided together at the commit; `create` inserts a user |

`seen[r]` is what a request remembers of the tables between those steps: the interval of the
target, the number of settings, the challenge. Writes that meet a running one wait for it in PostgreSQL,
so constraints are decided in the order of the commits: `UniqueTarget` (uq_watch_target), `NoAccountYet`
(uq_users_phone), `Unreferenced` and `Unlogged` (foreign keys), and none for settings. A
refused commit leaves nothing. `MonitorMarks` and `MonitorStops` are the row lock of the monitor's
transaction, which ends only with the process; `WorkerLogs` is a log row that refers to a channel.
`CountedThenRolledBack` is the attempt counter: `increment_attempt`, then the exception that rolls it
back. `TimePasses` expires a code and, later, takes it out of the hourly count.

### Session and LiveFeed

`Session` is `authStore.ts`, the interceptors of `client.ts`, the login page and `RequireAuth`.
Token pairs are numbered as issued; `stage` says how far each has expired. Calls are out
at once and answered in any order; a 401 asks for a new pair with the refresh token the store
holds *then* (`AsksAgain`), and the answer is stored whenever it comes (`Refreshed`), whoever is
logged in by then.

`LiveFeed` is `useLiveEvents.ts`, the route of `websocket.py`, `redis_subscriber.py` and
`liveEventsStore.ts`. Each run of the effect has a socket, a timer and a cancelled flag
(`Live`); the cleanup closes the socket, which goes on closing while the next run connects.
`streams` are the handlers of the server, which learn that their client left when they next send.
`wire` is what was sent and not yet received, in order. `wired` is TRUE where the
dependencies of the route resolve: as shipped `get_session` wants a `Request`, which FastAPI does not give
to a WebSocket route, and only the override in its test lets it open. Both cases are run.

### AnalyticsStream

`AnalyticsStream` extends `CheckStream` with time: in every minute there is a check (`Minute`), which
writes its `snapshots` row and its `history` rows as the repositories do; the events of a check
come in the order of the list (`Recorded`, by `Before`) and bear the time of its snapshot. `shelf`
is an observer: what the last scrape up to each minute had shown.

* `PriceHistory` is `price_history`: a point for each snapshot of the period.
* `ListForWatchTarget` is the query of events: those of the period, newest first, at most so many.
  It orders by `created_at` alone, which all events of a check share, so it returns one of several
  sets of rows: the database chooses which events of one check the limit cuts off.
* `GetHistory` is `get_history`: the newest `PageSize` events, each with the snapshot it refers to.
* `AvailabilitySummary` is the endpoint. `Walked` is the loop of `compute_availability_summary`, as
  a recursive function over the rows (the code sorts the events by the time they were
  written at, so the order of the rows is that of the loop), with `Walk` for its body and `UntilTheEnd` for the
  outage still open after it; the reference is the count over `shelf`.

## 3. Runs

| Run | Instance | Checks |
|---|---|---|
| `monitor_faults` | 2 targets of one retailer, 2 at once, 3 observations, 2 snapshots each, every failure, 2 starts | `TypeOK`, `EventsExplainSnapshots`, `AnnouncedIsStored`, `JobsAreInOrder`, `MarkedOnlyWhenAnnounced` |
| `monitor_serial` | 2 targets of one retailer, 1 at a time, 3 snapshots each, failing scrapes, fair | `ImplementsChangeFeed`, `MarksAreKept`, `EveryTargetIsChecked` |
| `monitor_lost_change` | 2 targets of 2 retailers, 1 at a time per retailer, nothing fails | violates `EveryChangeAnnounced` |
| `monitor_history` | nothing fails, the process is stopped | violates `HistoryIsAppendOnly` |
| `monitor_database` | one database error, fair | violates `EveryTargetIsChecked` |
| `notifier_faults` | 2 workers, 2 jobs of one kind, 2 users, 3 watches, 3 channels, 2 clock values, every failure | `TypeOK`, `SentOnce`, `CooldownBetweenJobs`, `LogIsTrue`, `NobodyPassedOver` |
| `notifier_told` | 1 worker, 2 jobs of one kind, nothing fails | violates `EverySubscriberIsTold` |
| `provider` | 2 slots, 3 attempts, up to 2 results, 3 launches per process, every failure, stops and restarts, fair | `TypeOK`, `NoMoreBrowsersThanSlots`, `PagesHaveAnOwner`, `EveryCheckEnds` |
| `provider_crash` | 1 slot, 3 attempts, 1 result, 2 launches per process, fair | violates `CrashedBrowserIsRestarted` |
| `api` | 2 requests at once, 2 users, 3 watches, 3 intervals, 3 codes, 1 code an hour, the monitor and the worker, fair | `TypeOK`, `IntervalWasAsked`, `NeverSlowerThanTheFirstWatch`, `SettingRowsAreFew`, `EndsOrWaitsForTheMonitor`, `HourlyCap`, `FewLoginsPerCode` |
| `dashboard` | 2 users in one tab, 2 calls, 3 token pairs, 2 runs of the effect, 2 events, a list of 2, fair | `TypeOK`, `LoggedOutOnlyByAFailedRefresh`, `TheUserIsWhoLoggedIn`, `FeedIsInOrder`, `FeedComesBack` |
| `analytics` | one target, 2 prices, 1 variant, 6 checks in 6 minutes, 4 events at most in a summary, 3 on a page | `BaselineDrift`, `ReaderIsRight`, `ImplementsStockFeed`, `ChartsAreExact`, `DowntimeIsExact`, `DowntimeIsNeverOverstated` |

What the passing runs show.

* `monitor_faults` is about what survives everything: whatever the interleaving and whatever
  fails, a stored event refers to a stored snapshot and to the one stored just before it,
  and their diff fires it; what was announced is stored (until a rollback takes both back);
  events are announced in order; a target is marked only after all of its events went out.
* `monitor_serial` is what is lost as soon as two checks overlap: with one at a time the monitor
  implements `ChangeFeed`, so each stored change is announced in full, in order and once, before its
  target changes again; every mark is written; and no check keeps the semaphore or the tick for
  ever. `MarksAreKept` says nothing of a mark set during another check's flush, which that flush takes for
  written: such a target is checked once more.
* `notifier_faults` is what remains of once-only notification: a channel gets an event at
  most once; the cooldown holds between jobs that do not overlap, and only between those;
  the log agrees with what was sent for jobs that ended normally; and a job that commits has
  passed nobody over.
* `provider`: checks that launch at once lose browsers, but a process never runs more of them
  than the retailer has slots, and closing leaves fewer, with one slot none; no page outlives
  the call that opened it, through both retries; every check comes back to the scheduler. The bound on
  browsers is weaker than the one browser per retailer of the design, which two launches at once exceed.
* `api`: a target's interval is always that of some watch; a lost update may lengthen it, but never
  beyond what the watch that created the target asked for. A setting has no more rows than requests that
  can run at once, although nothing makes its key unique. A request ends, unless it needs the row the
  monitor holds. The hourly cap and the single use of a code are exceeded only by requests that ran at the same time.
* `dashboard`: only a failing refresh ends a login; the tab shows another user than its tokens are
  for only after a refresh that was answered in another login or after a logout; no event is
  listed twice or out of order; and a feed that can be opened comes back.
* `analytics`: the stored snapshot drifts from the last scrape only in what fires no
  event; who follows the events knows the product; the alerts implement `StockFeed`; the price
  history of any period and any page of the history, drawn as steps, show at every minute what the
  last scrape had found, although most checks store nothing and wherever the page is cut; the summary
  is exact when the period begins in stock, and errs only by missing downtime. A consequence of the
  drift: LOW_STOCK, AVAILABLE, LOW_STOCK gives one alert, since the recovery is not stored
  and the baseline stays LOW_STOCK.

What the five violations show (`findings` in `PROJECT.json`):

1. *monitor_lost_change*: with two checks in a tick, even of different retailers, one calls `flush()` while the
   other's flush runs; the exception is caught and logged, the snapshot row that was added or
   stored stays, the event is never announced, and the next check sees no difference.
2. *monitor_history*: the process never commits; a stop takes back the history.
3. *monitor_database*: after one database error no target is checked again, although
   nothing was stopped.
4. *notifier_told*: a user with two channels has two log rows of one key, and
   `exists_recent` raises on the second event of the kind within the cooldown. The job is
   lost for everybody else, and the rows of users it had already told are rolled back, so that
   they are told again by the next one.
5. *provider_crash*: `initialize` asks whether a browser was ever launched, not whether it still runs, so
   a browser that died is never replaced while the process is up, and every scrape of its retailer fails.
   With `handle \notin browsers` in `NeedsBrowser` the property holds.

### Bounds

`MaxSnapshots` bounds the snapshots taken per target: `WithinBound` then lets a scrape return
only what fires no event, so checks go on, and liveness is checked over infinite
behaviours. Two snapshots give an event with a baseline and a row left over by a failed check
between two others; three (in `monitor_serial`) give a chain. `MaxRuns` = 2 gives one restart, with
what was published before it still out. Two checks at once are enough for every
conflict on the session, as a flush has one owner and the others only find it busy; in
`monitor_serial` the second target waits for the semaphore of the first. Liveness is checked there with
failing scrapes; a check that Redis ends leaves by the same way (`Leave`). The three observations give a first event, two events of one
diff, and no event. Targets of one retailer are symmetric, and symmetry is used only in
`monitor_faults` and `notifier_faults`, which have no liveness property. `MaxSnapshots`, `MaxRuns` and the sets
of constants bound the runs only; the theorems hold for all of them.

`Notifier` needs two jobs of one kind for the cooldown, two workers for their overlap, a user
with two channels for two rows of one key (both rows are committed by one job, so
no third job is needed) and with two watches for `seen_users`, and another user to be passed
over. `MaxTime` bounds the clock. With `Cooldown` = 0 a tick is a whole cooldown: a row is recent exactly
until the next tick, which may come between any two steps of a job. Cooldowns of several ticks,
whose windows overlap, are beyond this run's size. `Deletable` names the one channel that may be deleted.

`Provider`: two slots give every race of `initialize`; three attempts are the code's own; two results make
a page follow a page; `MaxLaunches` = 3 lets a launch fail and two more race. A restart begins the numbering
again, so behaviours go on. `provider_crash` needs one slot, and allows the second launch that never comes.

`Api`: two requests are every conflict of two transactions. `group` bounds a behaviour to the requests of
one group of tables (watches with products, channels, settings, one-time codes), none of whose rows
refers to another's; the requests of one group meet in every order. Three watches with three intervals give a
target created, lowered, and lowered by a stale read. `MaxPerHour` = 1 is passed by the second request;
two attempts and three challenges give an old code, a used one and a new one. The theorems have no such bound,
but keep the grouping.

`LiveFeed`: `focus` says whether a behaviour follows the calls of the tab (two users, two calls, three
pairs: a refresh asked for by one login and answered in the next) or its feed, in which `FeedUsers`,
`FeedPairs` and `FeedCalls` make the session smaller (one user, two pairs, one call) and the refresh token
does not expire. Two runs of the effect overlap in a closing and an opening socket; two events
make an order; `FeedComesBack` asks for nothing once the runs are used up. The list is as long as there are
events, so the run never cuts it; `TheFeedIsInOrder` holds for every length.

`AnalyticsStream`: six minutes hold an outage before the period, one in it and one at its end;
with `Limit` = 4 and `PageSize` = 3 the queries cut, also between the events of one check.

`CHECK_DEADLOCK FALSE` is in the configurations where `Stop` or a dead scheduler is
possible (a process stopped for the last time takes no step), in `Notifier`'s, where all jobs end, and
in `LiveFeed.cfg` and `AnalyticsStream.cfg`, where pairs, runs and minutes are used up.

### Fairness

`FairSpec` assumes weak fairness of the scheduler and of each check, and that time
passes. The code justifies it: everything runs in one asyncio loop, which runs every
ready coroutine; Playwright calls have timeouts and tenacity bounds the retries, so a scrape
ends; Redis, Celery and the database return or raise; and a semaphore is taken by a
check that weak fairness reaches, because those that hold it leave. Failures and `Stop`/`Start` are
not assumed fair: nothing has to fail, and nothing in the repository restarts the monitor (the compose
file has no restart policy).

`Provider` assumes that every await of a check ends, as above; `DriverStarts` is not reached for ever because
`LaunchFails` is a way out of it. `Api` assumes that a request that came in is carried on by uvicorn;
nobody has to send one and the monitor need not stop, which is why `EndsOrWaitsForTheMonitor` has a second case.
`LiveFeed` assumes that React runs an effect whose dependencies changed, that a timer fires, that
an attempt to connect ends, and, with strong fairness, that one which may be accepted
and is tried every three seconds gets through at last. Browsers do not promise the last;
without it nothing can be said of a connection that fails each time.

## 4. Proofs

`tlapm` checks every theorem, for all values of the constants under the named
assumptions. No constant that bounds a run is fixed in them: they hold for any number of targets, workers,
requests, users, checks, pairs and events. The assumptions themselves are listed at the end of this section.

*CheckStream (`CheckStreamProofs`).* `TypeCorrect`; `BaselineDriftIsBounded`; `ReaderIsAlwaysRight`, by
`ReaderKnowsStored`: the view equals the stored snapshot in everything the events
announce, which together with the bounded drift carries over to the last
scrape; `ChecksImplementStockFeed`, the refinement, by `BellIsCurrent`: the bell agrees with
the stock state of the stored snapshot, so that a check is a `Restock`, a `SellOut` or a
stutter of the abstract feed.

*Charts (`CheckStreamProofs`).* `ChartsAreAlwaysExact`. A minute makes a check (`StreamChecks`), so what is
proved of `CheckStream` holds here. `Kept` is inductive over that: the snapshots are in the order of
time; each event bears the time of its snapshot and a stock alert agrees with it; each snapshot has an event;
the last snapshot is the stored one; and at every minute the last snapshot so far has the price
and the stock state of the shelf. The step of the last part is where the baseline matters: a check that stores
nothing leaves the chart at the old snapshot, which is still right because its drift is bounded
(`BaselineDriftIsBounded`) in what no chart shows. `EveryPlaceIsTaken` shows that each place in the list of a check's
events has its event (an injection of a finite set into as many places), and `PagesAreCutByTime` that a
page holds every event that is newer than one it shows, whichever the database chose.

*Summary (`CheckStreamProofs`).* `DowntimeIsAlwaysExact` and `DowntimeIsNeverTooLong`, in four steps.

1. `Told` is inductive over `Kept`: the stock alerts of the history are the changes of the shelf, each told
   once, and the rows are in the order of time. `TheNewChange` is the step: a check fires a stock alert
   when the shelf changes, and only then, because the drift of the baseline leaves the stock state alone.
2. The loop is well defined (`WalksExist`: a walk over some rows can be carried one row on) and each row
   does one step of it (`WalkedRows`). What is proved along the rows is proved of the first row
   where it would fail (`EveryNatural`, from the well-founded order of the naturals).
3. `TellsFrom(page, start)` is what the argument needs of a page: in stock before `start`, and all changes from then on
   are on it. For such a page `Counted` holds at every row (`AlwaysCounted`): the walk has counted the minutes out of
   stock up to the last restock, or up to the beginning of the open outage, since between two alerts the shelf
   does not change (`StaysInStock`, `StaysOut`). So the summary has the downtime from `start` on (`TheWholeDowntime`).
4. A period shown whole that begins in stock is such a page from its first minute; its restocks are in
   bijection with those of the shelf, and each of them closes an outage (`OutagesAreRestocks`). Any other page is one
   from its first sell-out on (`PagesTellFromASellOut`), as it holds whatever is newer than what it shows.

*Monitor (`MonitorProofs`).* The inductive invariant `Control` is `TypeOK` with two conjuncts. `ChecksHoldValues` says
which values a check holds at each await (without it `TypeOK` is not inductive: an event is built from
`FirstType` of a set that must not be empty, and refers to a snapshot that must exist). `FlushHasOwner` says
that the scheduler and the checks never use the session at once and that a flush belongs to the
coroutine waiting for it. From it follows `MonitorTypeCorrect`;
`MonitorHistoryProofs` builds on both.

*History (`MonitorHistoryProofs`).* `EventsAlwaysExplainSnapshots`,
`AnnouncedIsAlwaysStored`, `JobsAreAlwaysInOrder` and `MarkedAlwaysAnnounced` follow from one
inductive invariant, `Inv`. The properties speak of stored rows; the invariant
speaks of all rows the session knows (`Recorded`: stored, being flushed or pending), because
a row left over by a failed check is written later by somebody else's flush. Its argument:

1. `SessionShape`, `NothingLeftOver`: when the checks of a tick start, `list_due` has
   flushed everything, so no row of a target is unsent until its own check adds one. Hence
   the SELECT of `get_latest`, which may skip the autoflush, still finds the newest row.
2. `Numbering`: a new row comes after every row there is, so the newest row exists
   (`LargestNatural`, from the well-founded order of the naturals) and stays unique.
3. `ChecksKnowHistory`: from then on the check's own row and its baseline are the last
   two of the target, and an event row is stored before it is announced.
4. `Progress`: what is left in `todo` and what was announced make up the diff.
5. `Explained`, `AnnouncementsStored`, `JobsOrdered`: the properties themselves, over
   `Recorded`. They survive a rollback because everything is lost at once, and a
   restart because numbers are not reused.

`OthersKept` is the non-interference lemma: a step of one check keeps every other
check's part of the invariant, whatever it does to the shared session.

*One check at a time (`MonitorHistoryProofs`).* A stored change may stay unannounced as soon as two
checks overlap (`monitor_lost_change`), so `SerialChecksAnnounce` and `SerialMarksAreKept` state
`EveryChangeAnnounced` and `MarksAreKept` under `OneAtATime`: one retailer, whose semaphore lets one
check in, and no failure but that of a scrape. `monitor_serial` is an instance of it. `SerialInv` adds two
parts to `Inv`. `Alone`: the session is in use by one coroutine, so nothing is added to it during a
flush and between flushes only marks wait in it; this is what a second check would break.
`EveryoneTold`: each stored snapshot but the one its check is working on has a job for every event of
its diff against the one before it.

*Refinement of `ChangeFeed` (`MonitorHistoryProofs`).* `SerialChecksImplementChangeFeed` proves
`ImplementsChangeFeed` under the same condition. The mapping reads the newest stored snapshot of each target and
its number from `rows`, what is untold from `todo` once the snapshot is stored, and what is told from `jobs`.
`FeedInv` adds two parts to `SerialInv`. `Numbered`: the newest stored number is the number of snapshots taken, or one
less while the newest is being flushed, so no number is skipped. `NotToldYet`: what is left in `todo` has no job. Then
`SnapshotStored` is a `Change` (`ChangeStep`: the baseline the check read several awaits ago is still the newest row, and
the row it stored becomes the newest), `Announce` is a `Tell` (`TellStep`), and every other step leaves what the
feed shows alone (`Still`, `StillFeed`), the creation of a snapshot included (`SnapshotTakenStep`). It
subsumes `SerialChecksAnnounce`, which is kept because the run `monitor_lost_change` violates the same
formula once two checks overlap.

*Notifier (`NotifierProofs`).* `NotifierInv` is inductive. `Control` is `TypeOK` with what a worker holds at each point
of a job, and that a running job has one worker. `RowsAreOfJobs`: rows are the worker's own until they are
committed. `SentIsBehind`: a user whose channel got a message of this job is neither the user at hand with that channel
still to come nor among the users still to come, which is what `seen_users` is for. `RowsMatchMessages`: a
message has its row or is the one in hand. `UserWasQuiet`: the user at hand was not told lately by the jobs before,
which remains true although the clock moves and others commit. `SubscribersAreTracked`: each listed subscriber is still
to come, in hand, had every channel tried, or was told by another job. From it follow
`NotifierTypeCorrect`, `TheLogIsTrue`, `CooldownIsKept`, `EachChannelIsSentOnce` and `NobodyIsPassedOver`.

*Provider.* `Control` adds to `TypeOK` what a check holds at each await. `BrowsersNeverExceedSlots` follows from
`Slots`: the browser the provider holds keeps its place even when it is dead, and every launch
under way needs a slot of its own, so the held one and the launches are never more
than the checks; and a full house at the time of a stop contains a browser that `close` still reaches.
`PagesAlwaysHaveAnOwner` needs `Control` only.

*Api.* `Asked` says that a running request is one of its group and names rows that exist as ids;
`Consistent` holds the tables to each other (`Rows`, and `References` in both directions, which is
why a target is never created without its watch). From them follow `IntervalsAreAsked` and, with `FirstAsked`,
`FirstWatchIsABound`: the interval of the target, and what a request that is about to overwrite it has read of it,
are at most that of the first watch. `SettingRowsStayFew` rests on `RowsToCome`: the rows of the setting together with
the requests that found none and have not committed are at most the requests there can be; `OnlyWritersWrite` says that
the steps of all other requests leave both alone.

*Auth.* `Ledger` counts who is under way. `Numbered`: a challenge that is being created already has
its number to itself, and only stored challenges are verified. `Counted`: a code that logged somebody
in is consumed, so no further request finds it usable, and its logins together with the requests still verifying
it are at most the requests there can be. `Capped`: the recent rows together with the requests that passed the cap and
have not committed stay below the cap plus the other requests. Each step moves one request from one
side of a sum to the other (`OneLess`), or only takes rows out of a count (`RowsAge`).
`LoginsAreFew` and `CapIsNearlyKept` follow for every number of requests. `ApiTypeCorrect`, the type
invariant of the whole `Api`, is proved here because its ranges need the same counting: `InRange` says that the stored
watches and challenges together with the requests that are about to add one stay within the numbers there are, that
their ids are distinct, and that what a request remembers was in the tables when it read it.

*Dashboard (`LiveFeedProofs`).* `Stored`: both tokens come and go together, and a call that is out
was sent with a pair that was issued. `Sockets`: at most one socket is connecting or open, that of
the run that is not cancelled, and its timer is set only while it has none. `Delivered`: what is on the
way to the open socket is newer than everything listed. The last two are inductive together and give
`TheFeedIsInOrder`. `LiveFeedTypeCorrect` needs all of them: `TypeOK` holds the pairs, sockets and handlers to each other
(`Held`), and a socket that is accepted gets a handler of its own only because `Sockets` leaves no other open.

The assumptions on the constants: the marker for "no snapshot" is neither an observation nor a row; finitely many
targets, checks and requests; a semaphore, a number of attempts and intervals of at least one; the markers of
"nobody" and "nothing" are no targets, events, users or channels; every product, watch and channel has
an owner; the cooldown, the limits of the queries and the bounds are numbers; and the two markers of an absent phone number are no users.
Every passing run evaluates those of its module.

Only model-checked:

* liveness (`EveryTargetIsChecked`, `EveryCheckEnds`, `EndsOrWaitsForTheMonitor`, `FeedComesBack`), since
  fairness is out of the prover's reach;
* the five violations, which are counterexamples.

Every other property that a passing run checks is stated by a theorem.

## 5. Not modelled

Within the modelled components:

* Monitor: the scrape is one step there that raises, returns nothing or returns an observation
  (`Provider` has its inside); wording and logs; the target fields no property reads; that a check which raised is
  tried again at the next tick without back-off (its effects are those of any further check).
* Provider: the extraction of fields from a page, with the badge that is not rendered yet and reads as
  AVAILABLE; which location a page shows; `health_check` and `check_availability`, which nothing calls.
* Notifier: the requests of the senders, of which only the result matters; that a failed send is
  logged under the same dedup key as a successful one is in the model, and no property asks for more.
* Api: list and read endpoints; the error middleware, which appends one log row in a session of its own; from
  FastAPI 0.118 on the session of a request commits after the response was sent, which the model, where answer and
  commit are one step, does not tell apart. The tests use SQLite, which does not enforce foreign keys; the model
  is of PostgreSQL.
* Auth: the code, its hash and the signatures of tokens, only whose they are; `_otp_cooldown_seconds` is
  stored and never used.
* LiveFeed: what an event says; a handler whose client left keeps polling Redis until it next sends; inactive
  watches are streamed too, where the docstring of the route says active ones; the list is not cleared at logout.
* AnalyticsStream: percentages and rounding. A minute without a check is one whose check returned nothing.

In the models, but stated by no property:

* a product whose watches were all removed can still not be deleted, since their target refers to it, where
  `products.py` answers "remove its watches first";
* `CountedThenRolledBack`: a wrong code is never counted, since the exception that reports it rolls the count
  back, so the maximum of attempts that `auth_service.py` documents is never reached;
* a setting with two rows can neither be read nor set any more (`OneRowOrNone`), where its port documents
  "create or update"; `SettingRowsAreFew` bounds the rows and does not say that there is one;
* two launches at once leave a browser that nobody closes; `NoMoreBrowsersThanSlots` bounds them and does not exclude them;
* as shipped no feed opens (`wired` is FALSE), and then `FeedComesBack` asks for nothing.

History, logs and retailer endpoints are reads. The schema and the settings of `core/` are data; the constraints
that matter are in the modules of the components that meet them. The pages of the dashboard are rendering and
forms; which of them is shown is in `Session`.

## 6. What could come next

1. `System`: `Monitor` and `Notifier` composed through the jobs: a job whose event is not
   committed finds nothing.
2. Expected violations for the disagreements that section 5 lists as stated by no property.
3. `CooldownBetweenJobs` with a cooldown of several ticks in a run; the theorem has every cooldown already.
