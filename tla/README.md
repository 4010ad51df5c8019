# Observa in TLA+

Observa is a monitoring server in Rust: it samples a machine's metrics, tails
its log, stores both in SQLite, keeps recent items in Redis or in memory, pushes
every event to the browsers that watch `/events`, chains security alerts by
hash, and answers questions with an LLM. This directory holds TLA+ models of its
stateful parts, the TLC configurations that check them, and proofs for TLAPS.

Paths below are relative to `src/crates/`.

- [1. The system](#1-the-system)
- [2. Modules and runs](#2-modules-and-runs)
- [3. Bounds](#3-bounds)
- [4. Fairness](#4-fairness)
- [5. Proofs](#5-proofs)
- [6. Where code and documentation disagree](#6-where-code-and-documentation-disagree)
- [7. What is not modelled](#7-what-is-not-modelled)
- [8. Plan](#8-plan)

To check a run: `tlc -workers 2 -config MCX.cfg MCX.tla` (the module a
configuration belongs to is in the table of section 2). To check a proof:
`tlapm XProofs.tla`.

## 1. The system

One process (`observa-cli/src/main.rs`) starts a metrics collector, a log
ingestor, seven background loops and an axum server, which share one SQLite
pool, one cache, one event bus and one `AppState`. All of it is tokio tasks:
every `.await` is a point where any other task may run.

| Component | Code | State | Operations | Interacts with |
|---|---|---|---|---|
| Security alert chain | `observa-db/src/security.rs` | table `security_alerts`: each row holds its predecessor's hash | `store`, `latest_hash`, `recent`, `filtered`, `verify_chain` | written by the ingestor and the digest, read by the two alert loops and the API |
| Alert delivery | `observa-server/src/background.rs`, `state.rs` | the watermark `last_alert_ts` | alerting loop (30 s), notification loop (30 s), digest | reads the chain, publishes on the bus, posts to a webhook |
| Event bus | `observa-bus/src/lib.rs` | a broadcast ring of 256 events, one position per receiver | `publish`, `subscribe`, `event_stream`, `sse_stream`, clone, drop | written by every producer, read by every `/events` response |
| Rate limiter | `observa-server/src/rate_limit.rs`, `state.rs` | per endpoint: address to (start, count) | `rate_limit_check` | called by the chat handlers and by a middleware |
| Chat | `observa-server/src/chat.rs`, `store.rs`, `observa-db/src/chat.rs` | `chat_sessions`, `chat_messages` | `create`, `ask`, `ask_html`, `stream`, `delete`, listing | stores, LLM or fallback, bus |
| Prompt, token stream | `llm_sanitize.rs`, `observa-llm/src/stream.rs`, `fallback.rs` | the prompt; a line buffer | `clamp_prompt`, `TokenStream::poll_next`, `FallbackResponder::complete` | between chat and the LLM |
| Telemetry pipeline | `observa-collector`, `observa-ingestor/src/reader.rs`, `observa-cache`, `observa-db/src/{metrics,logs}.rs`, `store.rs` | tables `metrics`, `logs`; list of recent items | store, push, trim, publish; recent and window queries; prune | producers and readers run side by side |
| Process lifecycle | `observa-cli/src/main.rs`, `observa-server/src/lib.rs`, `observa-config/src/shutdown.rs` | the shutdown flag, open responses, tasks | bind, accept, signal, drain, raise flag, join with timeout | all tasks |
| Insight digest, health, heartbeat | `background.rs`, `insight.rs`, `api.rs` | the insight, `cpu_pressure_since`, the LLM's health, the heartbeat number | one round each | metrics, LLM, chain, bus |
| AI server poller | `ai_poll.rs` | the results of the last round | one round | bus, dashboard |
| AI server discovery | `observa-collector/src/ai_scanner.rs` | a set of at most 32 tasks | one scan | the collector's snapshot |
| Metric normalisation | `observa-collector/src/normalize.rs` | the counters last seen of every disk and interface | one sample | the collector's snapshot |
| Log search | `observa-db/src/logs.rs`, `store.rs`, `routes/mod.rs` | none of its own | search, page, count | table `logs`, the cache, the pager's links |
| Explanations, acknowledgements, status | `api.rs`, `state.rs` | a cache with a TTL, a list of keys, the heartbeat number | explain, acknowledge, status | LLM, heartbeat loop, browser |
| Chat pages, login | `routes/mod.rs`, `auth.rs` | the browser's cookies, the session and token in each page | open, restore, delete, load messages, log in and out | chat's tables |
| Browser client | `src/assets/js/observa.js` | event streams, toasts, acknowledged keys, saved explanations | reconnect, show, acknowledge, save and restore | `/events`, the API |
| Configuration | `observa-config/src/{config,cli}.rs` | none after start | load | environment, file, flags |
| The rest | pool, sandbox, views | see section 7 | | |

What is hard about each, and what has to hold:

- **Alert chain.** Reading the latest hash and inserting the row are two awaits
  without a transaction, for two writers, with timestamps that arrive in any
  order, while a verification may be under way and somebody may edit the file.
  An empty report must mean an intact chain; an altered row must be reported;
  a report must have a cause.
- **Alert delivery.** Two loops read, use and write one watermark with awaits in
  between, read only the newest 50 alerts, and forget the watermark at a
  restart. An alert must not be passed over.
- **Event bus.** Publishers overwrite the ring under slow readers; streams come
  and go; the channel closes only with the last handle. Nothing may be lost
  without a lag report, nothing reordered, and streams must end.
- **Rate limiter.** The time is taken before the lock: decisions are made with
  old times. No window may let too many through.
- **Chat.** Owner check, history, LLM (for minutes), and two inserts are separate
  awaits; sessions are deleted and created anew in between; clients leave; the
  process dies. An answer must be on record, a reply must have its question,
  messages must be the owner's, and every request must end.
- **Prompt and reply.** The prompt has limits and the question is its last
  message; the reply comes in chunks cut anywhere.
- **Telemetry.** Four sinks, each of which may fail; two error policies; a cache
  that is lost at a restart; queries that look at up to three sources while rows
  are pruned. What was seen on the bus must be found by a query, and a window
  query must keep to its window.
- **Lifecycle.** Drain, flag and timeouts must come in an order that cuts no
  response off and still ends.
- **Digest.** The timer of a pinned CPU lives across rounds whose reads, summary
  and write may fail, and on a clock that may be set. Nobody may be paged
  for a spike, and lasting pressure must be reported in the end.
- **Poller, discovery, sampling.** A round compares itself with the one before.
  Events must add up to what the cache shows; a full task set must lose no
  result; no byte may be counted twice, and a rate must be over the time it took.
- **API and pages.** Handlers give up a lock, await, and take it again; tabs share
  a cookie; pages are read one by one while rows come and go. What is answered
  must belong to who asked, be fresh, and be complete.
- **Browser.** Every `await` lets events, timers and clicks in between. A visible
  page must be connected, a toast must be due, an explanation must stay.

## 2. Modules and runs

| Module | Models | Runs |
|---|---|---|
| `AlertChain`, `AlertChainProofs` | `security.rs` | `MCAlertChain`, `MCAlertChainOrder` |
| `AlertFeed`, `AlertFeedProofs` | the alerting and notification loops | `MCAlertFeed`, `MCAlertFeedLost` |
| `PubSub` | what the bus promises: a bounded queue per subscriber | refined in `MCEventBus` |
| `EventBus`, `EventBusProofs` | the ring behind it | `MCEventBus` |
| `RateLimiter`, `RateLimiterProofs` | one limiter | `MCRateLimiter` |
| `Chat`, `ChatProofs` | the requests on a session | `MCChat`, `MCChatDelete` |
| `Lifecycle` | start and stop | `MCBackground`, `MCLifecycleHangs` |
| `Insight` | the digest's rounds | `MCBackground` |
| `Poller` | `ai_poll.rs` and the LLM's health check | `MCBackground` |
| `Discovery` | `ai_scanner.rs` | `MCBackground` |
| `BackgroundProofs` | about the four above | |
| `TokenStream` | `stream.rs` | `MCHandlers` |
| `Conversation` | prompt, fallback and reply, over `TokenStream` | `MCHandlers` |
| `FallbackAnswers` | `fallback.rs` | `MCHandlers` |
| `ChatPages` | the chat pages and the login of one browser | `MCHandlers` |
| `DashboardApi` | `api.rs` beside the heartbeat loop | `MCHandlers` |
| `AlertToasts` | `observa.js`: streams, toasts, acknowledgements | `MCHandlers` |
| `LogExplanations` | `observa.js`: explanations across refreshes | `MCHandlers` |
| `HandlersProofs` | about `Conversation` with `TokenStream`, `FallbackAnswers`, `ChatPages`, `DashboardApi`, `AlertToasts`, `LogExplanations` | |
| `Telemetry` | producers, sinks, queries, maintenance | `MCTelemetry` |
| `LogPages` | the log page and its pager | `MCTelemetry` |
| `Sampling` | the rates of `normalize.rs` | `MCTelemetry` |
| `TelemetryProofs` | about the three above | |
| `SharedTypes` | enumerations that several modules use | |

`MCBackground`, `MCHandlers` and `MCTelemetry` each check several components in
one run. The components of a run share no variable, so the states one of them
reaches do not depend on the others; the variable `part`, fixed at the start,
says which of them a behaviour is about, and the run explores the union of
their state graphs instead of the product. Each part's next-state relation is
a disjunct of `MCNext`. Components that do share state are in one module:
the two loops over the watermark (`AlertFeed`), the API and the heartbeat loop
over one counter (`DashboardApi`), connections and tasks over the shutdown
(`Lifecycle`), `TokenStream` within `Conversation`.

A definition whose comment begins "Mutant" is a plausible bug in the operation
below it; it belongs to no specification. It is put in the place of that
operation to see that the properties notice.

### AlertChain

`rows` is the table; `inflight` are calls of `store()` between `latest_hash()`
(`ReadLatest`) and the INSERT (`Insert`, `InsertFails`). `verify_chain()` is
`FetchAll`, then one step per row in `(ts, id)` order (`ReportUnlinked`,
`ReportAltered`, `Accept`), then `Return`, or `ScanFails` at a row that cannot be
read; its locals are `snap`, `todo`,
`previous` and `broken`. `Edit` changes a row behind the program's back. A hash
is the list of entries it commits to, that is, SHA-256 without collisions.

`MCAlertChain` checks `EmptyMeansIntact` (an empty report was made of rows that
all carry their own hash and are linked end to end), `AlteredIsReported` (also
behind rows the scan had to skip) and `ReportsHaveACause` (as long as every
insert extended the end of the chain, there is an altered row at or before each
reported one). `MCAlertChainOrder` shows that without that condition a table
nobody touched, with times that are all distinct, is reported broken (section 6).

### AlertFeed

`stored` is the table, `mark` the watermark; `alerting` and `notifying` are the
loops' rounds, each with the alerts it has read and the watermarks it has read
and will write. The three steps of the alerting loop and the four of the
notification loop are the stretches between their awaits. The digest stores and
publishes an alert of its own. `Restart` keeps the table and forgets the rest.

`MCAlertFeed` checks `NoSevereAlertPassedOver`: once the watermark has reached
an alert that arrived in order and that was not crowded out of the newest
`Limit`, it has been published or posted; and `EveryAlertHandled`, the same as a liveness property,
across restarts. The two conditions are the code's limits, not the model's: an
alert with a timestamp older than the watermark is never looked at, nor is one
behind `Limit` newer ones. `MCAlertFeedLost` shows that with the notification
loop the claim fails for alerts below the severity threshold.

### EventBus and PubSub

`PubSub` says what a subscriber may rely on: a queue of its own of at most
`Capacity` events, the oldest dropped when full. `EventBus` is the shared ring
of tokio's broadcast channel as `Bus` uses it, with a position per stream and
with the dormant receiver every `Bus` value keeps. `MCEventBus` checks that the
second implements the first (`ImplementsPubSub`, the queue of a stream being the
part of the ring ahead of it), that what was skipped was counted in a lag report
(`NothingLostQuietly`), that
streams end after the last handle is dropped (`StreamEnds`) and that a
connected stream gets as far as the last event (`CatchesUp`).

### RateLimiter

A request takes the time (`Arrive`), waits for the lock, and is then let through
or turned away with the time it took (`LetThrough`, `TurnAway`). Times before
the start of the window count as no time since, as `duration_since` saturates.
`MCRateLimiter` checks `SlidingBound` and `RefusedForCause`. `WindowBound` (no
window lets more than `Max` through, whatever order the lock is granted in) is
proved. `SlidingBound` is the bound across windows: at most `2 * Max` within any
stretch of one window's length less what a request may wait for the lock. It
cannot do without that last part, as its proof showed: if requests wait two ticks
or more, one that took its time early and is let through late belongs to the
window before, and grants of three windows fit into the length of one.

### Chat

One session, its row and its messages; each request is at one of the awaits of
`ask`, `ask_html` or `stream`. `LookupFails` is an error of the database where the
session is made or its owner looked up. `Disconnect` drops a handler where it is;
`DisconnectStream` leaves the detached task of a stream running; `Delete` and
`Create` come at any time; `Crash` ends everything under way. `cut` remembers
the requests a delete has run under, for which less is promised.

`MCChat` checks `AnsweredIsStored` (an answer 200, and an ask's reply on the bus,
mean both messages are in the table), `RepliesFollowQuestions`,
`MessagesAreTheOwners` and `EveryRequestEnds`, with a database configured.
`MCChatDelete` shows that a refused delete has removed the messages.

### Conversation over TokenStream

The turns of one conversation one after the other, seen from the inside: lengths
of messages instead of texts. `Ask` collects the prompt (system prompt, history,
metric, logs, question; what cannot be read is left out) and clamps it. An `ask`
completes, then stores both messages; a `stream` stores its question first, then
reads tokens. `TokenStream` is `poll_next()`: `Chunk` takes any number of bytes
off the wire and decodes them, `Line` takes a line from the buffer, `Break` is a
transport error, `Rest` the last line at the end of the body. `Conversation`
joins each of them with what `stream_llm_reply()` does with its result.

`MCHandlers` checks `PromptFits` (a prompt that leaves for the LLM is not empty,
nor longer than the limits); `QuestionSentWhileRoom` (the prompt is a
beginning of what was collected, and holds the question exactly when all of it
fits); `FallbackAnswersQuestion` (under the same condition, and if the question
does not begin like a line of metrics or a log, which the fallback skips, it answers
the question, and otherwise an earlier message or a log); and
`ReplyIsWhatWasSent` (however the body is cut, the reply is a beginning of the
tokens sent and all of them if nothing broke, but a character cut in two is
torn).

### Telemetry

One producer (the collector or the ingestor) with one table, one list and the
bus. `Make`, `Store`, `StoreAlert`, `Push`, `Trim` and `Publish` are its sinks in
the code's order; `WriteFails` is an error of one of them, after which the
collector goes on and the ingestor returns. A reader takes the steps of
`read_db_or_cache` and of `recent_metrics_within`. The cache is Redis, memory, or
none, as when it could not be opened: then `NothingToRead` answers with nothing.
`Prune` is the maintenance loop, `Restart` empties the memory cache.

`MCTelemetry` checks `PublishedIsStored`, `PublishedIsReadable` (who has seen an
event on the bus finds it in a query made afterwards, whichever source answers),
`WithinIsRecent` and `ExpiredRowsGo`, in all twelve setups of producer, database
and cache. `PublishedMeansTrimmed` is proved.

### Lifecycle

`server` goes from starting over serving and draining to stopped; `open` are the
responses under way; `task` are the loops; `joining` is how far `main` is. A
response to `/events` ends only with its client, because the connection itself
keeps a `Bus` alive. `Begin` is what stands before a loop: the notifications and the
poller return at once unless they are `equipped` (a webhook, endpoints, an HTTP
client), and the poller does a round before it first asks for the flag. `Wake` is a
loop's head; the ingestor asks for the flag before it waits for a line (`LineComes`).

`MCBackground` checks `TasksOutliveResponses` (while a response is under way no task
has been told to stop, and of those that found what they need none has ended but the
ingestor), `NoResponseIsCut` and, if watchers
leave in the end, `StopsOnceClientsLeave`. `NoWorkAfterFlag` (behind the flag a task
takes up the line it was waiting for or the first round it had not begun, and nothing
else) is proved.
`MCLifecycleHangs` shows that with a watcher who stays the server never returns.

### Insight

A round is `ReadMetrics`, `ReadLogs`, `Judge` (the timer is brought up to date),
`ReadTimer` (with the time as it is by then), `Summarise` or `SummaryFails`, and `Raise`
or `StoreAlertFails`. `rows` are the newest samples, newest first, of which
`metrics.last()` takes the oldest. `pressure` is the age of `cpu_pressure_since`, which
stops growing at `Duration`, the only age the code asks about; `ClockSet` makes it any
other, or negative, which `as u64` turns into a large number. `calm` and `turned`
remember what the properties speak of.

`MCBackground` checks `AlertsHaveACause` (an alert follows from a critical event
among the logs the round read, from `Duration` without one calm sample judged,
or from a clock that, while the timer ran, was set forward, or back behind its start)
and `PressureIsRaised` (a CPU that stays
pinned is reported, and again as long as it stays so).

### Poller

A round is one `Probe` per endpoint, `EndRound` (the cache is read, then
written) and one `Tell` per endpoint, which publishes a change; `CheckHealth` is
the loop of `background.rs` that probes the LLM. `up` is what somebody believes
who saw the first round and has followed the events since. `MCBackground` checks
`EventsTellTheCache`: that is what the cache says, and during an announcement it
is a part of the way there.

### Discovery

`AllTargets` lists the targets: configured endpoints without their API path, the
ports of localhost, and those of the subnet if it is private; `UniqueTargets` are
the places in it at which a target stands for the first time.
`SpawnProbe`, `SpawnWhenFull` (one task is joined to make room) and `Drain` are
`probe_targets`; `ProbeEnds` is a probe of which any set of requests may be
lost. `MCBackground` checks `FoundOnce`: at the end of a round exactly the
targets whose probe found a server are reported, each once, and there were never
more than `MaxProbes` tasks.

### ChatPages

Each tab has a page (a session's id and a token) and at most one request under
way: `verify` or `lookup`, `create` and `read` are its calls of the store. The
cookie is the browser's; what sets it replaces it for all tabs. `LetIn` is the
order in which `auth_middleware` takes its tokens, `AskedBy` whose a question is: the
cookie's, which the browser sends along, before the page's, which the script puts into
the body. `MCHandlers` checks `PagesCarryTheirOwner` (a page has the token of the
session it shows unless that was deleted, so a question asked from it is turned away only
where another page has replaced the cookie) and `ComingBackFindsASession` (who comes back
is shown a session he had, or one made again under his token, and no new one is made).

### DashboardApi

A request is at one of its locks or awaits; the heartbeat loop takes a number
(`TakeBeat`) and publishes it (`PublishBeat`), and so does a status (`TakeStatus`,
`AnswerStatus`), which waits for the insight in between. `MCHandlers` checks
`RepliesAreCurrent` (an explanation is of the message asked about and, from the
cache, less than `FreshFor` old, though concurrent misses store over each other;
who acknowledges an alert finds it in the list, once) and `HeartbeatsGrow`
(heartbeats go out with growing numbers, and a status is not behind one that was out
when it was asked for; it may be behind those that go out while it is read).

### FallbackAnswers

What the fallback does with a prompt: `Heard` is the question it finds,
`Metrics`, `Servers` and `LogsRead` are what it reads back from the text, `Told`
is what it says about a topic. A line of metrics is the sequence of its words,
since the code finds the figures by the words beside them. Servers and processes are
read from every message of a user's, logs and the question too. `MCHandlers` checks
`SnapshotIsTold`: wherever the prompt was cut and whatever lines a user has
pasted before, CPU, memory and processes told are those of the line the server wrote,
and so are the servers, besides those that other messages name; unless the question
begins like such a line itself.

### AlertToasts and LogExplanations

The script of the dashboard. `streams` are the `EventSource`s a page has made,
the last one being the one it knows; `timers` are reconnects to come. A check is
a call of `showAlertToast` that awaits the server's list; `toasts`, `local` and
`server` are the screen, the browser's storage and the server's memory, which a
restart empties. `explained`, `saved` and `asking` are the explanations on the
screen, in the storage and under way.

The browser's storage may throw: then an acknowledgement is not posted, nothing is
saved (`storage` full or blocked) and nothing restored (blocked). `today` is the
browser's clock, by which a saved explanation is young or old; it runs and may be set.

`MCHandlers` checks `VisibleIsConnected` (a page somebody looks at has a stream
or is about to make one), `ToastsAreDue` (no second toast of an alert, none of
an alert acknowledged before its event came) and `ExplanationsStay` (while the storage
works a refresh takes no explanation from a row that stays; and none comes back that
was last on a screen longer ago than it is kept, unless the clock was set back after it
was saved).

### LogPages

A user's walk through the pages: `OpenLogs`, then for each page `CountRows` and
`SelectRows`, or what replaces them (`ShowNewest`, `ShowCached`, `ShowNothing`),
and `FollowNext`. Logs arrive with any timestamp and are pruned at any time.
`MCTelemetry` checks `WalkMissesNothing`: who follows "Next" to the end has seen
what matched at the start and is still in reach. The exceptions in it are the
code's: a query failed, a log came in between a page's total and its rows, or the
first page was smaller than those the links lead to.

### Sampling

`prev` are the counters last seen, by name and with the time of day. `normalize()`
reads the counters of all mounts (`ReadDisks`), measures one after the other
(`MeasureDisk`), each at a time of day of its own, and merges those of equal size;
then the interfaces (`ReadNets`, `MeasureNet`). Traffic, time, a clock set either way,
resets and remounts come in between. `moved` and `passed` are what really went through
and what time really passed. `MCTelemetry` checks `RatesAreTrue`: what a name is
measured at is what went through between two readings of its counter, so that no byte is
in two measurements, and in none only if the counter was reset; and the time it is
spread over is that between the readings of the clock, shorter only if it was set back
and longer only if it was set forward. What a merged disk is measured at is shown in no
row.

## 3. Bounds

| Run | Instance | Why it is enough |
|---|---|---|
| `MCAlertChain` | 3 ids, 2 times, 2 contents, 2 writers; 598,000 states | two stores can race and a third can follow; equal times fall back on the id; a row can be skipped with an altered one behind it. The proofs have no bound. |
| `MCAlertFeed` | 3 alerts, times 1 and 2, rounds of 2, 1 restart, both settings; 226,000 states | one alert can be crowded out, two can share a time, both loops can overlap in every way |
| `MCEventBus` | ring of 2, 4 events of 2 sorts, 2 streams, 2 handles; 67,000 states | the ring goes round twice, a stream lags twice, one stream lags and the other does not |
| `MCRateLimiter` | 2 per window of 2 ticks, delay of 1, 5 requests, 2 ports, time up to 6; 336,000 states up to symmetry | two windows full and one request more, across a boundary, with old times. Requests are only compared, and the run has no liveness property, so symmetry over them is sound. |
| `MCChat` | 2 requests, 2 tokens, 2 deletes; 499,000 states | a delete and a creation by another owner fit between any two awaits of a request |
| `MCHandlers`: Conversation | total 4, single message 2, one log, 2 turns, bodies of 2 lines | history alone can leave no room, a message can be cut, every cut of two lines of two bytes |
| ChatPages | 2 tabs, 3 sessions (one of another browser), 1 failing call | a session is deleted, and one made, between any two calls of the other tab |
| DashboardApi | 2 requests, 2 messages, 1 key, fresh for less than 1 tick, time up to 1, 2 heartbeat numbers | two misses race for the key or bring different answers, an entry goes stale, a heartbeat is published while a status is read |
| AlertToasts | 2 alerts, 1 key kept, 3 streams, 2 checks | the second key pushes the first out, two streams bring the same alert |
| LogExplanations | 2 rows, kept for 1 tick, clock up to 2, storage that works, is full or is blocked | one row stays and one goes; an explanation is fresh, at its limit and too old; the clock is set either way |
| FallbackAnswers | 11 sets of topics, figures 1 and 2, up to two servers; a pasted, a mangled and a headed line, messages that name other servers | every topic alone and in the order of two; all cuts of a prompt. All parts: 2,224,000 states |
| `MCTelemetry`: Telemetry | 2 items, cache and queries of 1, window and retention of 1, time up to 2, 1 restart | a second item pushes the first out of the cache and of the query, and items expire |
| LogPages | 3 logs, pages of 2, or of the 1 a URL asks for, newest 2 and cache of 2 | a walk has two pages, a log falls out of the newest and of the cache |
| Sampling | one interface, one disk and one file system, four mount tables (one empty), 1 byte, 2 ticks, 2 oddities, disks and interfaces one at a time | mounted twice, merged under another's name, away and back, reset, clock set either way. All parts: 1,250,000 states |
| `MCBackground`: Lifecycle | 2 requests, 1 watcher, 3 tasks | the collector, the ingestor, and one of the background loops: it may lack what it needs, and does a first round before it looks at the flag, as the poller does |
| Insight | window of 2, duration of 2, samples below, between and above the thresholds, all modes, 1 fault | the sample judged is not the newest, the timer starts, holds and is cleared |
| Poller | 3 endpoints, one of each kind, every answer | an endpoint changes before, at and behind the one being announced |
| Discovery | 7 unique targets on three addresses, 2 tasks, any requests lost | the set is full while targets are left. All parts: 295,000 states |

Bounds in the modules themselves: `MaxAlerts`, `MaxRestarts`, `MaxEvents`,
`MaxDelay`, `MaxTime`, `MaxDeletes`, `MaxItems`, `MaxTurns`, `MaxLines`,
`MaxFaults`, `MaxSessions`, `MaxFailures`, `MaxBeats`, `MaxStreams`, `MaxChecks`,
`MaxArrivals`, `MaxBytes`, `MaxWall`, `MaxClock`, `MaxOdd`. Each stands in the guard of the
action that counts. Deadlock is not checked where a
bound or the program's end stops the model for good (all runs but the first two
passing ones).

## 4. Fairness

- `AlertFeed`: weak fairness of the alerting loop's three steps. Its ticker
  fires every 30 s, its reads fail now and then but not for ever, and the
  watermark's lock is held for an assignment. Nothing is assumed of the
  notification loop (a webhook may hang for its timeout) or of the digest.
- `EventBus`: weak fairness of a stream's poll, which axum does as long as the
  client is connected. Nothing is assumed of publishers and clients.
- `Chat`: weak fairness of every request's own steps. The LLM answers or runs
  into its timeout; SQLite answers or fails.
- `Telemetry`: time passes, and a DELETE of the maintenance loop succeeds in
  the end. Nothing is assumed of producer and reader.
- `Lifecycle`: bind returns, handlers answer, hyper notices that the last
  response has ended, `main` goes on. Nothing is assumed of the tasks, which is
  why `main` needs its timeouts. `LeavingSpec` adds that watchers leave.

- `Insight`: weak fairness of time and of the steps of a round up to its judgement
  (the loop's interval comes round), and strong fairness of `Summarise` and
  `Raise`: the LLM and the table may fail, but not every time.

In a run of several parts the fairness of a part is assumed of the behaviours
that are about it. `AlertChain`, `RateLimiter`, and the components not named
here are checked for safety only: nothing is assumed of users, browsers, probes
and logs.

## 5. Proofs

All constants are arbitrary within the named assumptions of the modules. Those
say that ids, times and lengths are naturals; that limits the code has as positive
constants are positive (the ring's capacity, a round's `Limit`, a page's size, the
prompt's limits, which moreover do not shrink from system prompt to total); that the
process has a task; that "none" is no token; and from which sets the inputs are taken
(samples, modes, answers, the mounts of a snapshot). The poller's endpoints are told
apart by their places, so none is listed twice. TLC evaluates each assumption.

Every proof has the same plan: an invariant that a step keeps, with one lemma per
action or per group of actions that disturb the same parts, and then what follows
from it. What makes the invariants stronger than the properties is said below.

**AlertChainProofs**: `TypeOK`, `EmptyMeansIntact`, `AlteredIsReported` and
`ReportsHaveACause` hold in every state, for tables of any length and any number
of writers. `IInv` adds four facts.
`IdsInv` (no id twice, in the table or under way) makes `(ts, id)` a strict
total order, so that there is a next row, a newest row and a predecessor.
`ScanInv` (what is scanned lies before what is not) makes the row that a round
looks at the successor of the newest one scanned. `CleanInv` (while nothing is
reported, `previous` is the hash of the newest row scanned and all of them are
linked) is `EmptyMeansIntact` for a scan half done. `OrderInv` (as long as every
insert was orderly the table is linked) is what the cause of a report rests on:
if the first report is of a row that is linked and whose predecessors were all
accepted, that row is altered. The lemmas `LinkedAppend` and `LinkedEdit` say
that a row added at the end, and a change of content that leaves the hashes
alone, keep a table linked.

**AlertFeedProofs**: `NoSevereAlertPassedOver` and `PublishedOnce`, for any
number of alerts and restarts and any size of a round. The invariant compares
alerts with the watermark; between reading the watermark and writing it the
comparison is in the hands of a round. `ReadInv`: what a round has read holds
every alert due that is not newer than all of it, since an alert the query left
out is crowded out (`UnreadIsCrowdedOut`) and one stored later is newer.
`WriteInv`: the watermark the alerting loop is going to write is as good as the
one it read. `PostInv`: an alert due has been handled, is still to be posted, or
is newer than everything that has been and will be posted; that is why the
webhook's order, newest first, does no harm as long as the watermark is written
at the end. `ReachedInv` (no watermark is beyond every alert stored) makes an
alert that arrives in order one that no round has passed. `OnceInv` is
`PublishedOnce` for a round half done; with the notification loop on, which may
take the watermark back, it fails, and so does `PublishedOnce`.

**EventBusProofs**: `NothingLostQuietly`, and that the ring implements `PubSub`
(`RingIsAQueueForEach`), for any capacity and any number of events, handles and
streams. `RingInv` says that the slots hold the last `Capacity` positions, each in
the slot its rest modulo the capacity names; so what a stream finds in the slot of
its own position tells it whether the event is there, gone, or to come (`SlotTells`,
from `SlotDistance`: two positions with one slot are a ring apart). `StreamsInv`
keeps positions between a stream's start and the tail. The refinement maps a
stream's queue to the part of the ring ahead of it. A publish that overwrites what
a slow stream has not read is then the push of a full queue (`PublishPushes`),
`RecvEvent` a delivery and `RecvLagged` a stutter.

**RateLimiterProofs**: `WindowBound`, `SlidingBound` and `RefusedForCause`, for any
number of addresses and requests and any order in which the lock is granted.
`WindowBound` counts grants, the code keeps a counter: `CountInv` says they agree. A
window opened at a time at which grants have already been made would count them anew;
`LatestInv` (an address has no grant in a window later than its present one) and
`PastInv` exclude it. For `SlidingBound`, `ApartInv` says that two windows of an
address start more than a window's length apart, and `DelayInv` that a grant lies in
its window or the wait behind it; so a stretch of the length stated meets two windows
at most (`TwoWindowsAtMost`).

**ChatProofs**: `AnsweredIsStored`, `RepliesFollowQuestions` and
`MessagesAreTheOwners`, for any requests, tokens and deletes. The invariant says of
each stage of a request what is in the table already and what is not: `StoredInv`
(between the two inserts the question, after them both), `OnceInv` (what is going to
be stored is not there yet), `OwnerInv` (once its token was checked, a request is the
owner's, though the check was several awaits ago). Both hold for a request under
which the session was not deleted; `cut` is where the others go. `KindInv` says who
may be at a stage that only streams have. `RepliesFollowQuestions` is inductive only
with `OnceInv`, since a reply must not find an older question in its place.

**TelemetryProofs**: about `Telemetry`, for every setup and limit: `PublishedIsStored`,
`WithinIsRecent`, `PublishedMeansTrimmed` and `PublishedIsReadable`.
`PublishedIsStored` says nothing of an event that is still between its sinks:
`KeptOnTheWay` does, and holds because `dispatch` returns at the first error.
`WithinIsRecent` needs `CutoffIsOld`, since the clock runs between the cutoff and its
use. `PublishedIsReadable` compares what was on the bus when a query began with
what the query answers, which is cut to `Limit`: what is missing must be older than
all of a full answer. `NumbersInv` (the cache is in the order in which items were made,
though they pass through the sinks one after the other) and `StampsInv` (time follows
that order) make a cut list miss only its oldest, and `KeptInv` puts what was published,
or has passed the sink, into the table and the cache as far as retention and limits
allow. `SeenInv` is what a query remembers.

About `Sampling`: `RatesAreTrue`, for any mounts, interfaces and counters. `CountersFit`
says of every name, in the middle of a pass too, that what is remembered, what has been
read and what the kernel counts now are as far apart as what really went through, or
further back if a counter was reset; `ClockFits` says the same of the times, unless the
clock was set. `ReadKeeps` and `RememberKeeps` are the two things a pass does to that,
reading all counters and remembering one; a name may come up twice in a pass, and
`StagesInv` says that it was read. `MeasuredIsTrue` makes a row true when it is measured,
and `MergedIsTrue` says that it stays so under another mount's name (`RowsInv`).

About `LogPages`: `WalkMissesNothing`, for any page size, number of logs and pages, and
any arrivals and deletes. `WalkSettled` says that of the matching logs as far as the
walk has come (`Behind`), all that were due have been seen. An arrival pushes logs to
higher places, so none that was ahead gets behind (`HitsMoveBack`); a DELETE takes
logs from the end and lets no other change its place (`HitsOfPrefix`); and the last page
is the one behind which the total leaves nothing (`LastPage`). What becomes of a log
that arrives between the two queries of a page is the exception `raced`, and the
proof goes through only with it.

**BackgroundProofs**: about `Lifecycle`: `TasksOutliveResponses`, `NoResponseIsCut` and
the action property `NoWorkAfterFlag`, for any number of requests, watchers and tasks.
What keeps a response from being cut is not the flag but that `main` raises it after
the server has returned: `DrainFirst`. `TasksWaitForFlag` says that a task that has
what it needs, and is not the ingestor, ends only at the flag.

About `Insight`: `AlertsHaveACause`. The alert speaks of a timer that has come
through any number of rounds with reads and summaries failing in between; `TimerInv`
says that it is never older than the last calm sample unless the clock was set forward
since it started or back behind its start (`turned`), and `DigestInv` the same of what a
round has read of it.

About `Poller`: `EventsTellTheCache`, which needs little more than `RoundInv` (while a round
is announced, its results are the cache). About `Discovery`: `FoundOnce`. A target
waits, has a task, has a result not yet joined, or is reported, and is never two of
these: `QueueInv`, `TasksInv`, `AnsweredInv`.

**HandlersProofs**: about `ChatPages`: `PagesCarryTheirOwner` and
`ComingBackFindsASession`, for any tabs and sessions. `SessionsInv` says that a session
that was never deleted belongs to the token it was made with; one made again by a
question belongs to the cookie's, which may be another. `ShownInv` is the property for the
pages on the screen, whose token is that of their session unless it was deleted since, and
`LoadsInv` what is known of a page under way at each of its calls while other tabs delete
and make sessions. About `DashboardApi`: `RepliesAreCurrent` and `HeartbeatsGrow`
(`AboutInv`: an entry is of the message it is under, also while it is on its way there;
`KeysInv`: no key is listed twice; `BeatsInv`: the number of a status is none older than
what its client had seen when it asked). About `AlertToasts`:
`VisibleIsConnected` (`StreamsInv`: each failed stream made one timer at most) and
`ToastsAreDue` (`ChecksInv`: what was acknowledged when an event came still is when the
answer does). About `LogExplanations`: `ExplanationsStay` (`AgesInv`: what is saved was on
the screen no longer ago than its time says, unless the clock was set back since).

About `Conversation`: `PromptFits`, `QuestionSentWhileRoom` and
`FallbackAnswersQuestion` (of a question that does not itself begin like a line), for any
limits, history and logs. `PromptInv` says that
while a prompt is needed it is the clamped form of what was collected, in which the system
prompt is first and the question last and nowhere else (`Composed`). The lemmas on
`Clamp` say that it keeps a beginning, that the beginning fits, and when it is all of it.

About its replies: `ReplyIsWhatWasSent`, for any number of lines and any way to cut the
body into chunks. `ReplyInv` says of a stream under way that there is a number of lines
(`k` of `StreamFits`) whose tokens are what has been gathered, and that the buffer
followed by the wire stands where those lines end in the body (`Reads`). A byte in the
buffer is that of the body or a replacement of one that is no text of its own
(`Decoded`): a chunk may end within a character, and then both its halves are lost, the
second when the next chunk is decoded. From there on the proof is about the decoder: up
to the next newline the buffer holds one line and no more (`Decoded` leaves newlines
alone); what is parsed of it is its token, or the torn one if the line is that of the
cut character; and what is left over at the end of a body is a whole line, or the part of
one after which the connection failed. `ConversationTypeCorrect` rests on it: no more is
gathered than was sent, and `Due` (the messages a turn may yet store) bounds the table
by two messages a turn.

About `FallbackAnswers`: `SnapshotIsTold`, for any sets of topics a question may touch.
`FallbackInv` says where the line written is among the messages handed over, that no
line of metrics comes after it and that every other message names only servers of others
(`BehindAt`, `Foreign`), as long as the question does not begin like a line. Then the lines
before it, pasted or not, are overwritten by it (`LastLineCounts`), its servers are told in
their order among those of others (`ServersAreTold`), and the topic has a word in the
question if the question came last (`LastIsHeard`, `TopicHasWord`).

`PublishedOnce`, `WindowBound`, `PublishedMeansTrimmed`, `NoWorkAfterFlag` and the
type invariants are proved and in no run: a run of theirs would check an instance
of what holds for all.

Two means are common to several proofs. The induction theorems of the library take an
operator as a parameter, which the provers cannot instantiate; `SetInduction` is
induction over the naturals for a set, proved from the pigeonhole principle
(`FS_PigeonHole`): a set with 0 in it and closed under successor, but without `n`, would
have its part below `n` mapped injectively into itself without 0. And a function defined
by recursion is used by way of a lemma that there is such a function (`HitsAre`,
`RecursionExists` and `RecursionOnce` for any of them, `FlattenIs` for `FlattenSeq`),
whose cases then follow; `Hits` of `LogPages`, `TokensOf` of `TokenStream`, `Total` of
`Conversation` and `Metrics` of `FallbackAnswers` are written as such functions, and not
with `SelectSeq` or a fold, because the prover knows no definition of the former and an
operator cannot be instantiated in a lemma on the latter.

Only model-checked:

- `EveryAlertHandled`, `StreamEnds`, `CatchesUp`, `EveryRequestEnds`, `ExpiredRowsGo`,
  `StopsOnceClientsLeave` and `PressureIsRaised`: liveness under fairness, and with it
  ENABLED, is beyond this prover.

## 6. Where code and documentation disagree

Shown by a run:

1. `MCAlertChainOrder`. The chain is built in the order of inserts and verified
   in the order of timestamps. The run's one writer stores an alert of time 2 and
   then one of time 1, and the untouched table does not verify. The ingestor can do
   so alone, since it stores the journal's times in the order the lines come
   (`reader.rs:159`). Equal times break the chain too: they are ordered by an id that
   is random.
2. `MCAlertFeedLost`. The notification loop moves the shared watermark past
   alerts it skipped for their severity, if a later one is severe; the alerting
   loop then never publishes them.
3. `MCChatDelete`. `delete_session()` deletes the messages first and the session
   only if the token matches, in one transaction it commits in either case: a
   delete answered 404 has emptied somebody else's conversation.
4. `MCLifecycleHangs`. One open `/events` page keeps the process running after
   SIGTERM: the drain waits for the response, the response for the bus, and the
   connection itself keeps a `Bus`.

Seen while modelling, without a run of its own:

- `clamp_prompt` (`llm_sanitize.rs:129`) keeps a beginning of the prompt, and the
  question is its end: once the stored conversation exceeds 32,768 bytes no
  further question reaches the LLM, and the fallback answers an old message or a
  log. `QuestionSentWhileRoom` and `FallbackAnswersQuestion` say that it
  does, and that the fallback answers it, as long as the prompt has room.
- The fallback looks for logs by the prefix `Recent log [`
  (`fallback.rs:266`), but `format_log` wraps them in `--- BEGIN LOG`
  (`llm_sanitize.rs:81`): it never sees one.
- A character cut by two chunks of the LLM's response is stored and shown as
  replacement characters (`stream.rs:80`).
- The fallback takes the word behind "disks," and "networks," for their number
  (`fallback.rs:135`), which is the next one's: asked for disks it tells the
  number of networks, asked for networks that of processes. A server whose name
  has a dot in it cuts the list of servers, and processes are named only when
  servers follow. A question that begins with `Latest metrics:` or `Recent log [` is
  taken for a line (`fallback.rs:82`): an older message is answered, and figures in
  the former are believed. Servers and processes are read out of any message of a
  user, questions and logs included (`fallback.rs:153`, `fallback.rs:183`).
- Without a database `DbChatStore` keeps no session at all
  (`store.rs:234`), though its comment (`store.rs:150`) says it keeps them
  in memory. `Chat` with `HasDb = FALSE` violates `AnsweredIsStored`.
- With both loops running the watermark can go back: each writes what it
  computed from the value it read, so alerts are published twice.
- `publish` returns the number of receivers including the dormant ones of the
  `Bus` values (`observa-bus/src/lib.rs:48`).
- The limiter's key is address and port (`rate_limit.rs:63`): a client that
  opens a new connection starts a new window, and the map only grows.
- After a database error an empty cache answers `Ok` with nothing
  (`store.rs:132`).
- `search_paginated` (`observa-db/src/logs.rs`) writes a placeholder too many
  behind its ESCAPE, so each text search fails in SQLite and the page is cut from
  the newest 1,000 rows (`LogPages`). A log that comes in between a page's total
  and its rows hides rows from the pager, and so does a page size in the URL,
  which "Next" drops (`log_rows.html:63`).
- A page size of 0 in the configuration divides by zero where pages are counted.
- Reading `/api/status` takes a heartbeat number, which the next heartbeat then
  skips, and the status may be behind heartbeats published while the rest of it is
  read (`api.rs:91`); `verify_alert_chain` reports the number of broken rows as
  the number checked (`api.rs:307`). Requests that miss the explanation cache
  together all ask the LLM (`api.rs:196`).
- The digest judges the oldest of its ten samples (`background.rs:327`). A
  clock set forward ages its timer, so that one high sample pages, and a clock set
  back behind the timer's start makes that age endless (`background.rs:350`).
- The page's script sends the chat token in `X-Owner-Token`, which the middleware
  takes before the login's cookie: with a dashboard token configured the messages
  of a chat page are answered 401. `/logout` is not exempt from the login.
- The answer to the delete button renders a chat page without an owner's token: if a
  session is restored that fails (500), otherwise a session is made whose token no
  cookie keeps. A question from a page whose session is another token's than the
  cookie's is turned away, and one for a session deleted since makes it again under the
  cookie's token: the code takes the cookie first, where the comment at `chat.rs:56`
  prefers the token in the body. A link to somebody else's session costs the browser the
  token it had, while the list beside it is still the old token's.
- The same server is reported twice if it is configured as `localhost` and
  scanned as `127.0.0.1`, or configured without a scheme and with a path.
- Two disks of equal size become one, and a merged disk shows the traffic of the
  first mount under another's name, and the bytes of the other mount nowhere
  (`normalize.rs:61`); a clock set back inflates rates and one set forward deflates
  them (`normalize.rs:167`).
- `wireSse` does not close the stream it replaces: two may be open, and each event
  comes twice. An acknowledgement whose POST is lost is never sent again, and an
  alert acknowledged while its check is under way may be shown once more. With the
  browser's storage full or blocked an acknowledgement is neither kept nor sent
  (`observa.js:562`).
- An explanation that arrives after its panel was refreshed finds its place gone;
  one that is on the screen at every refresh is kept for ever; the pager neither
  saves nor restores. Full or blocked storage loses explanations at a refresh
  (`observa.js:324`, `observa.js:350`), and so does a clock set forward.

## 7. What is not modelled

- Configuration, the database's opening, the sandbox, the lookup of paths and
  ports: each runs once, one statement after the other, and keeps no state.
- The readers of journal and file: what they read is I/O, and what they do with a
  line is `Telemetry`. `run_file` reads the file from its first line after every
  restart and takes a line that is being written for two; there is no position
  it could keep or lose.
- Layout: HTML views, assets, wording, serialisation, the prompt and text of a
  summary.
- Of the browser client: charts, meters, the chat widget, preferences and the
  three-dimensional view, which draw what they are sent.
- Of `normalize.rs`: the fields copied as they are. Of `ai_scanner.rs`: the names
  of models, which count as the hints they give.
- `sanitize_for_prompt` is a change of length; which characters and markers it
  replaces is left out. `strip_reasoning_chain` is a function of a text.
- Growth: the limiter's map and the sessions nobody deletes have no bound in the
  code, so there is none to check. A webhook that fails is not tried again; the
  code promises no delivery.
- tokio's broadcast channel, axum's drain, SQLite, Redis, the kernel's counters
  and the browser's events are modelled from how the code uses them, with the
  failures it handles.

## 8. Plan

All modules of the plan are written but two: the precedence of the
configuration's sources and the file reader, left out for the reasons given in
section 7. Every safety property and action property the passing runs check is also a
theorem. What is left to runs is the liveness listed at the end of section 5.
