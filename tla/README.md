# A TLA+ model of disapyr-link

disapyr-link shares a secret through a link that works once. This directory
holds TLA+ modules that model the parts of it where state, concurrency and
failure meet, TLC configurations that check them on small instances, and proofs
checked by TLAPS. `PROJECT.json` maps every definition to the source lines it
stands for.

## The system

| Part | State | Operations | Meets |
|---|---|---|---|
| secret handlers, service, repository (`internal/handler/handler.go`, `internal/service`, `internal/repository`) | tables `secrets`, `secret_events`; one goroutine per request | create, reveal, best-effort event rows | database, clients |
| expiry worker and `main` (`cmd/server/main.go`) | ticker, process life, connection pool | sweep every 15 min, signals, shutdown, restart | repository, logger |
| database set-up (`internal/db`) | pool, idempotent migrations | `Connect` | everything |
| log handlers (`internal/logger`) | buffered channel, `stopped`, `sync.Once`, table `app_logs` | `Handle`, `Stop`, `run`, `insert`, fan-out | every goroutine that logs |
| rate limiter (`internal/handler/ratelimit.go`) | map of token buckets under a mutex | `clientIP`, `Limit`, `getLimiter`, `cleanup` | in front of the handlers, behind proxies |
| admin page (`internal/handler/admin.go`) | none of its own | statistics, log browser, clear, credentials, origin check | `secret_events`, `app_logs` |
| middleware, configuration | none | headers, probe filter, token masking; environment | |
| browser pages (`web/static/js/crypto.js`) | URL fragment, form, chosen file | create, reveal, copy, download | the HTTP API |

What is hard here: two readers and the sweep race for one row; the database may
commit what its client has given up on; two clocks decide about expiry; the
process may die between a statement, its event row and its answer; the logger's
channel is closed while goroutines still send; the log table is paged through by
two queries while it grows and is cleared; the deferred calls of `main` take down
what others still use; idle buckets are thrown away; the pages keep a key in the
URL, a file in one of two places and a submit handler with six awaits.
`hazards` in `PROJECT.json` lists these places line by line, with the property
that watches each one or the reason why none does yet.

## Modules

| Module | Models |
|---|---|
| `OneTimeSecret` | abstract: a secret is published, then leaves once, to one reader or by expiring |
| `SecretStore` | create, reveal, sweep, crash, shutdown, restart over the two tables |
| `SecretStats` | `querySecretStats` over the event table of `SecretStore` |
| `SecretStoreProofs`, `SecretStatsProofs` | theorems about `SecretStore` and, built on them, about `SecretStats` |
| `DBLogger` | `MultiHandler.Handle`, `DBHandler.Handle`, `Stop`, the writer goroutine |
| `TokenBuckets` | abstract: one token bucket per address, for ever; a request pays from its own client's |
| `RateLimiter` | whose bucket a request is charged to; buckets created on demand, evicted when idle, used outside the lock |
| `RequestPath` | functions: `config.Load`, the probe filter, token masking, the routes, `BasicAuth`, `sameOrigin` |
| `AdminLogs` | extends `RequestPath`: requests of clients, the log browser and `ClearLogs` over `app_logs` |
| `ServerLife` | extends `DBLogger`: start, requests, sweeps, SIGTERM, `Shutdown`, the deferred calls, the end |
| `Pages` | the create and the reveal page of `crypto.js`, with `OneTimeSecret` as the server |
| `RateLimiterProofs`, `DBLoggerProofs`, `ServerLifeProofs`, `AdminLogsProofs`, `PagesProofs` | theorems about the module of that name; `ServerLifeProofs` builds on `DBLoggerProofs` |
| `MC*` | instances for TLC: symmetry and values for the constants |

Operators whose comment begins with "mutant" are plausible bugs, each named in
`PROJECT.json` with the property that must notice it; no specification uses them.

### SecretStore

A secret is named by the request that creates it; payload bytes play no role.
Every request has a goroutine (`pc`) and a statement (`stmt`) that the database
executes on its own time: `CreateSecret` and `RevealSecret` start it,
`ExecInsert` and `ExecDelete` execute it, `StoreRecord`/`FetchRecord`/`NotFound`
are the goroutine going on with the result, `StatementError` is the goroutine
that gets an error instead (broken connection, cancelled context, UNIQUE), after
which the statement may or may not still execute. `Reply` may lose its answer.
Event rows (`RecordEvent`) may be lost, because the code discards the error.
The worker's sweep is split the same way. `Crash` kills every goroutine at any
point; `Shutdown` is SIGTERM (the worker returns, requests under way go on) and
`Exit` the end of `main`; `Restart` runs `Connect` and starts the worker again.

`startedAt` is the statement's `NOW()`, and for a create also `time.Now()` in
`Store`; `AppAhead` is the difference between the two clocks. `Duration` is the
64-bit product `time.Duration(e) * time.Second`, wrap-around included, with
`Second` ticks per second and the range of the type as `DurationLimit`.
All non-200 answers before the database is involved are one status, `"4xx"`;
losing an error answer is not distinguished from delivering it. At most one
sweep abandoned by a worker can still be pending. `took`, `swept` and `known`
record history and are read by no action.

### DBLogger

One action per atomic step of `Handle` (two loads of `stopped`, one `select`),
of `Stop` (store, close, wait for `done` or the timeout) and of the writer. A
send on a closed channel is a panic of the sender, also in a `select` with
`default`. An INSERT that times out (`limbo`) may still commit. Levels are kept
because the fan-out depends on them; attributes are not modelled. A nil pool is
an INSERT that always fails.

What goes to stdout is not kept. `db_handler.go:44` says that stdout always
captures everything: the JSON handler is in front of the database handler, its
level is info or debug (`main.go:37`), and no line of the program logs below info,
so every record that the program makes is on stdout whatever LOG_DB_MIN_LEVEL is.
A Debug line, if one is ever added, would break that under LOG_DB_MIN_LEVEL=debug.
The README of the repository also offers warn and error for LOG_LEVEL, which
`main.go:37` reads as info.

### RateLimiter

`rate.Limiter` is external: a bucket is `tokens` at time `last`. Credits replace
its fractions: a request costs `Cost` = 60 credits and a bucket earns `perMinute`
credits a second, so everything is an integer. A limiter object is named by the
request that allocated it, so that a request can hold one that the map has
forgotten. Two assumptions matter. `MaxStall` bounds how long a goroutine stays
between `getLimiter` and `Allow`, two adjacent statements; the code does not
enforce it, and a goroutine stalled for ten minutes there could indeed spend from
an evicted bucket. And `perMinute * (IdleLimit + 1 - MaxStall) >= burst * Cost`:
a bucket is full again before its entry may be evicted. With `IdleLimit` = 600
and the largest burst in `main.go`, 10, this holds for every `perMinute` of at
least 1, with equality at 1 (for `MaxStall` = 1): the ten minutes cannot be
shortened, or the burst raised, without thought.

`clientIP` decides whose bucket it is. A deployment is the pair of settings and
the number of proxies that are really there; each proxy appends the peer it sees
to the one `X-Forwarded-For` line (`Header`), and the client may send any entries
before that (`Forged`). `DeploymentAssumption` is that the settings are right:
`TRUST_PROXY` if and only if there are proxies, and their number counted (0 and
less count as 1). Under it the chosen entry is the one the outermost proxy wrote,
so the properties are about true clients, not about addresses. A proxy that sends
its entry as a second header line is outside the model: `Header.Get` reads the
first line only.

### RequestPath and AdminLogs

A path is the sequence of its segments, so masking, routing and the probe filter
are what they do to segments; of the probe patterns one of each kind is kept
(prefix, directory, anywhere), and letter case is not modelled. `http.ServeMux` is
external: an unclean path is redirected.

A request arrives and is blocked by the probe filter, refused by the limiter
(possible wherever a rate is configured; when, is `RateLimiter`'s matter), or
served up to its first statement. Every statement of `ServeHealth`, `queryLogs`
and `ClearLogs` is one step. COUNT(*) fails into an empty page with a warning, and
so does a query of rows that cannot be sent (`CountFails`, `RowsFail`); one that
is refused or breaks off later gives the rows it had, without a word
(`RowsCutShort`). A DELETE is executed and reported (`ExecDelete`), or its client
gets an error or is through with its ten seconds (`GiveUpDelete`), and then it is
never executed or at any later time (`LateDelete`). Records that requests and
others log are `pending` until the writer stores or loses them; this is what
`DBLogger` looks like from the table. `Wrap` is `int` arithmetic at the width
`IntLimit`. `walk`, `hit`, `cut`, `told` and `audit` record the history of one
client and are read by no action of the program. `cut` keeps the rows from the
arrival of a clear to its answer, so that what others do in between counts.

`InputAssumption` says what earlier runs may have left in the table (rows with
distinct ids, none from the future) and that a page number is an integer or
something `Atoi` refuses. `LinkAssumption` says where a request shows a token at
all: behind `/s/`, as the routes have it, or anywhere in a path that the mux
redirects. Whoever writes a token into some other path has not followed a link,
and the request line would show it as written.

What paging can overlook is stated by the exceptions in `NothingOverlooked`: rows
that share a timestamp (no tie-breaker in `ORDER BY ts DESC`), a query that failed
or broke off, and
an INSERT between COUNT(*) and the rows of the last page, which moves a row past
the end while "Next" is not shown. All three happen in the model; without one of
the exceptions the run fails. No document promises more, so there is no finding.

Seen on the way:

- After a clear the partial shows the first page of the last 24 hours without a
  level, whatever the filter was.
- `rows.Err()` is never read, in `queryLogs` and in the summary: a negative OFFSET
  or a connection that breaks while rows come looks like a short page, and nothing
  is logged.
- A DELETE that is executed after its client has given up can take the record of
  its own failure ("clear logs failed"), or that of a later clear that succeeded.
  `ClearLeavesTrace` is therefore about clears that succeed, and excepts DELETEs of
  other requests.

### ServerLife

`Loggers` are one goroutine per request, the cleanup worker and `main`; `main` is
the only caller of `Stop`. `phase` is `main`: it connects and logs that, serves,
logs the signal, goes through `srv.Shutdown` (all answered, or ten seconds over,
which it logs) to "server stopped", the deferred `dbHandler.Stop` and the deferred
`pool.Close`, which waits for every connection. A request or a sweep holds a
connection while its statement runs; the writer acquires one for every INSERT and
is refused by a closed pool. A send on the closed channel panics: in a request
`Middleware` recovers it and logs again, in the worker nothing does and the
process dies (`WorkerPanics`), before the log is drained. `os.Exit` (start-up,
`ServerError`) runs no deferred call.

### Pages

The create page is its form (mode, text, `fileInput.files`, `_droppedFile`, the
name on display, the disabled button) and one record per run of the submit
handler, cut at its awaits: reading the file, sealing, the request, the answer.
Two runs overlap when the button is pressed again while a file is read, because
the button is disabled only afterwards. The server is `OneTimeSecret`, which
`SecretStore` implements: it stores or refuses, and the answer may be lost after
either. The reveal page is the fragment of the URL, the local copy of the key and
the panel. The fragment may be right, damaged or missing when the page is opened
(`Open`); it is read at every click, and entering the link again changes it without
loading anything (`Enter`). The key of a submission is named after it; a secret
opens with the key it was sealed with. A reveal is a POST, so only the server
answers it. `Displayed` is what the user sees: the name of a file in file mode, the
text in text mode. Sizes are real numbers of bytes: `Packed`, `Sealed`,
`Base64Len` and the framing of the JSON against `BodyLimit` and `MaxBytes`.

Seen on the way, where no line of the repository promises otherwise:

- Where a script may not assign `fileInput.files` (`canAssign` is false), the drop
  handler keeps the file aside and shows its name, but a file chosen before is
  still in the input and is the one that is sent; and after a failed submission
  `_droppedFile` is gone while its name is still on display, so that the next
  submission sends the hidden text. `SentFileIsShown` is therefore stated for
  browsers that allow the assignment.
- Leaving the chooser without a file empties the input, but `updateFileName`
  returns before it touches the display: the old name stays, and the next
  submission sends the hidden text, if there is one. So does a submission in file
  mode after a refused file. `SentFileIsShown` says that no file is sent but the
  one on display; that a name on display is what is sent does not hold.
- A submission repeated during the reading of the file stores two secrets; the
  link of the first is replaced on the page by that of the second.
- A file that cannot be read ends the handler without a message (the `await` is
  outside the `try` block).
- After a failed reveal the page says "Please try again", but the key has left
  the URL and the next click finds none, and asks for the complete link. That is
  also why `GoneIsTrue` holds: a page that lost the answer cannot ask again by
  clicks alone. If the user enters the link again, it can, and then the gone panel
  ("already viewed") may be due to its own first request; `Gone` says so.
- A damaged key is noticed only after the request: the secret is handed out,
  deleted, and cannot be opened any more.
- A file of exactly `MAX_SECRET_BYTES` passes the page and is refused with 413; a
  text beyond the limit of the body is refused with 400 and "Failed to store".

## Runs

| Run | Shows |
|---|---|
| `store_races` | one secret, two reveals, the sweep, a crash or shutdown, a restart, clocks one tick apart: `OneTimeAccess`, `ServedWithinLifetime`, `AcknowledgedIsKept`, `NotFoundIsTrue` |
| `store_tables` | two secrets that may collide on a token: `EventsHaveCause`, `StatsNeverOvercount`, and `Inductive`, the invariant of the proofs; `SecretStore` implements `OneTimeSecret` |
| `store_sweeps` | `ExpiredIsSwept` under fairness |
| `store_seen` (violated) | the record is deleted before the answer is written; README step 4 says it is deleted after |
| `store_overflow` (violated) | a huge `expires_in` wraps; the acknowledged secret disappears early |
| `logger_handler` | two loggers, two stoppers: `DrainedOnDone`, `AtMostOnce`, `OnlyTheTailIsLost`, `CallersNeverBlock`, `Inductive`; under fairness `StopEndsWriter`, `AcceptedIsAttempted` |
| `logger_closed` (violated) | a send can hit the closed channel between the second check and the send |
| `server_shutdown` | `DrainBeforeClose`, `CleanExitIsComplete`, `LifeInductive`; under fairness `SignalEnds` and `RecordsSurviveShutdown` |
| `limiter_limits` | `SustainedRate` and `RetryAfterSuffices` per client behind any right deployment, `Inductive`; `RateLimiter` implements `TokenBuckets` |
| `admin_logs` | `NothingOverlooked`, `ClearedIsAsTold`, `ClearLeavesTrace`, `AdminIsClosed`, `TokensLeakOnlyThere`, `Inductive` |
| `admin_tokens` (violated) | the limiter's warning stores the token of a link |
| `pages` | `SentFileIsShown`, `LinkOpens`, `GoneIsTrue`, `SeenOnce`, `TooLargeIsSaid`, `ButtonComesBack`, `Inductive` |

`Inductive` and `LifeInductive` are the invariants of the proofs, checked by TLC on
the same instances as the properties they imply, type correctness among
them.

The four violated runs are findings: each property states what the repository
says of itself, and `findings` quotes the line.

Bounds. Two reveals and a sweep are the most that can race for one row in
different ways; a token collision and a sweep of more than one row need two
creates. `MaxTime` = 2 with an effective lifetime of one tick reaches before, at
and after the expiry. The crash bound of 1 puts a crash or a shutdown at every
point of every request. In `DBLogger` two calls of each of two goroutines fill and
overflow a buffer of 2 while Stop is called twice. In `ServerLife` a request and a
sweep make one call each (`MaxLogs`), a request one more when it recovers, and
`main` up to four, on a buffer of 1: every one of them can be dropped, accepted
late or meet the closed channel. The run has the default LOG_DB_MIN_LEVEL, warn,
so that of the lines of `main` only the error reaches the handler; with info the
liveness properties have too many states, and the theorems hold for every level.
In `RateLimiter` the constants make the assumption about eviction an equality;
four requests of two clients reach a refusal, a retry, and a bucket that is
evicted and created again, behind none, one (counted as 0) or two proxies. In
`AdminLogs` a page has two rows and the table three or four, so that a walk has
two pages and a row can move across their border; the windows are 1 to 5 ticks,
and rows are up to 3 old at the start: a clear of what is older than six hours (2
ticks) takes the oldest row and leaves the others, and a tick moves its border
past the next one; `MaxAbandoned` = 1 DELETE of either client can be late at a
time; an `int` of 4 bits wraps at page 4, and one page number lies beyond it. In
`Pages` two submissions overlap and two visits compete, with a small file, a file
of the allowed size, a blocked one, and a text beyond every limit. There the form
is not filled in any more once the last submission has begun (`Editing`), since
nothing reads it after that. Symmetry is used in runs of invariants and of
refinements without fairness, which are symmetric in the sets permuted, and in no
run of a liveness property.

Fairness. `ExpiredIsSwept` assumes that a process told to stop exits
(`srv.Shutdown` has a timeout; `SignalEnds` shows it), that one that is down is
started again (`restart: unless-stopped`), that the ticker fires, that the worker
goes on when it has a result, and that the database, asked for ever, executes a
sweep some day. `logger_handler` assumes that the writer keeps running (an INSERT
has a 3 s timeout) and that a Stop that has set the flag closes the channel; that
callers do not wait is an invariant and needs no fairness. `server_shutdown`
assumes that `main` goes on and its two timers fire, that statements end, and that
the writer goes on; a request may take for ever between its statements, and so
may the worker. A statement that hangs for ever would keep `pool.Close` waiting
(requests have no timeout of their own in the repository's queries), which is
the assumption on `QueryDone` and `SweepEnds`.
Deadlock is checked for `SecretStore`, `AdminLogs` and `Pages`; in the others
loggers and rate-limited requests are finite in number, and the model may stop.

`RetryAfterSuffices` needs a rate that divides 60. The defaults (10, 20, 5) do;
for 7 per minute the header says 8 seconds, after which the bucket holds 56 of
60 credits. No document of the repository promises more, so there is no finding.

## Proofs

Every invariant of the runs is proved for all values of the constants that the
named assumptions allow, but for one, `CallersNeverBlock`. So are both
refinements. The bounds of the runs (numbers of
requests, calls, submissions, records, ticks) are parameters there, not limits.

Each module has one inductive invariant, `Inductive`, a conjunction of named
parts, which TLC checks too. The proof that a step preserves it has one step per
action. The theorems below are then consequences, unless an extra hypothesis is
named.

### SecretStore

From `StoreAssumption` alone:

- `TypeCorrect`, `OneTimeAccessHolds`, `EventsHaveCauseHolds`;
- `ServedWithinLifetimeHolds`, also where a lifetime overflows, because a wrapped
  product is never larger than the true one (`DurationBound`);
- `AcknowledgedIsKeptHolds` and `NotFoundIsTrueHolds` under `NoOverflow`, the
  condition that `store_overflow` shows to be necessary;
- `WaysInAndOutHolds`, an action property, also under `NoOverflow`: a row enters the
  table once, before anybody can have had it, leaves to the one reveal that names its
  token or to a sweep after its lifetime, and no step brings it back;
- `Implementation`: `Spec => OneTimeSecret!Spec` under `AbstractStatus`.

None of the properties is inductive by itself: that a DELETE takes one row needs
`UniqueTokens`; that a sweep or a reveal cannot return a departed secret needs
`Conservation` (a secret has been stored if and only if it is in the table, in a
reader's hands or swept); that an answer is true needs `Protocol`, which ties
answers to statements, and `Matched`, what the statement saw; lifetimes need
`ExpiryStamped` and `SweptExpired`. The refinement then looks at the three actions
that move a secret (`InsertRefines`, `DeleteRefines`, `CleanupRefines`); all others
are stuttering (`Unseen`).

### SecretStats

`StatsNeverOvercountHolds`, from `StoreAssumption`. The sum of a count column is the
number of its units (`Units`): one pair for every row and every number up to its
count. So no induction over the table is needed; each bound is a comparison of
finite sets. The units of the "created" and "retrieved" rows inject into the
requests that caused them. A unit of an "expired" row is sent, by a numbering of
the row's batch, to a secret of that batch, and batches of different rows are
disjoint (`EventsHaveCause`). For the last bound, that departures never exceed the
secrets stored and gone, both maps are joined; their ranges are apart because
nobody takes what was swept (`OneTimeAccess`).

### RateLimiter

From `LimiterAssumption` and `DeploymentAssumption`:

- `ClientIsFound`: `clientIP` applied to the header that the proxies built is the
  true client, for every number of proxies and every forged prefix;
- `TypeCorrect`, `SustainedRateHolds`;
- `RefinesTokenBuckets`: the limiter implements `TokenBuckets` with the level of an
  absent entry read as full. In particular nobody's request is paid from the bucket
  of another client, which is where `ClientIsFound` comes in;
- `RetryAfterSufficesHolds`, under the hypothesis that the rate divides 60.

The invariant says that a request between `getLimiter` and `Allow` still holds the
object in its client's entry (`Holding`: the entry is too young to be evicted), that
entries share no objects and were charged at most `MaxStall` after they were
looked up (`OwnBuckets`): together with the inequality of `LimiterAssumption`, an
entry old enough to be evicted is full, so that evicting it changes no level. That
is the one place where the inequality is used. `Budget` is the invariant behind
the rate (admitted plus left is at most burst plus earned), `Earned` the one behind
Retry-After.

### DBLogger and ServerLife

`DBLoggerProofs`, from `LoggerAssumption`: `TypeCorrect`, `DrainedOnDoneHolds`,
`AtMostOnceHolds`, `OnlyTheTailIsLostHolds`. The
invariant follows a record: the accepted ones are queued, in the writer's hand
or through (`Custody`), each in one place only (`OnePlace`), and a goroutine inside
`Handle` has a record nobody has seen (`Fresh`), which is later than all it sent
before; so the records of one goroutine are in order from the end of the queue to
the table (`InOrder`), and what a death of the process loses is the end of its log.

`ServerLifeProofs`, from `LifeAssumption` in addition. `LogSurvives`: every step of
the process is a step of `DBLogger`, a stuttering one, or `RecoverPanic`, which alone
needs a proof of its own; so the invariant and the promises of the log handler hold
inside the process (`LogPromisesSurvive`). `DrainBeforeCloseHolds`
and `CleanExitIsCompleteHolds` need that nothing has been logged when a start fails
before the handler exists, that only `main` logs before it serves, and that `main`
gets to `pool.Close`, and returns, only after `Stop` has returned
(`MainInOrder`); a `Stop` that reports a drained buffer has left nothing behind, and
then nothing is left for a closed pool to refuse.

### AdminLogs

From `AdminAssumption`, `InputAssumption` and `LinkAssumption`: `TypeCorrect`,
`NothingOverlookedHolds`, `ClearedIsAsToldHolds`, `ClearLeavesTraceHolds`,
`AdminIsClosedHolds`; and `TokensLeakOnlyThereHolds`, if it was so in the table the
program found.

Paging is the difficult one. `Rank` is the number of rows a query puts before a
row. `NotPassed` says that a row of the start that the walk has not shown has a
rank of at least the number of rows already passed. An INSERT only adds rows and
so only raises ranks; clearing and time take the oldest rows, so the rows that
stay lose none of those before them (`RankGrows`, `NotPassedKept`). The next page
shows all rows of the ranks it covers, up to ties (`OnThePageOrLater`). The walk
ends when there is no "Next": then the offset is past the total, which bounds the
rows still there unless an INSERT came in between (`CountHolds`, `LastIsLast`).
`OffsetExact` shows that the `int` product of page and page size does not wrap on
such a walk, although it does for other page numbers. `ClearedIsAsTold` needs that
a row that a clear found never comes back once it is gone, since ids are issued
once and only the writer inserts, and that the border of a window only moves on
(`Clearing`, `Younger`); `ClearLeavesTrace` that the record is logged after the
DELETE of its own request (`Clearing`), and `TokensLeakOnlyThere` that masking
leaves no token in a path behind `/s/` (`MaskHides`).

### Pages

From `PagesAssumption`: `TypeCorrect`, `SentFileIsShownHolds`, `LinkOpensHolds`,
`GoneIsTrueHolds`, `SeenOnceHolds`, `ButtonComesBackHolds`. Where a script may assign
it, the input holds either nothing or the file on display, and nothing is kept
aside (`AsShown`). A visit asks at most once for every time it is given the link,
because the key has left the URL before the request is sent (`AsksOnce`), and shows
only what it was given; a secret that was revealed has one
holder (`Held`); what a submission carries was let through by the page
(`Carried`). `TooLargeIsSaidHolds` is arithmetic on top (`BodyFits`): for every
`MAX_SECRET_BYTES`, the 16384 bytes that the body limit adds are enough for the
header, tag, base64 and JSON of an allowed file whose envelope header has at most
12000 bytes. File names and types have a few hundred; the hypothesis
is needed, since the header counts a third more in base64.

### Only model-checked

- Liveness, which is out of the prover's reach: `ExpiredIsSwept`, `StopEndsWriter`,
  `AcceptedIsAttempted`, `SignalEnds`, `RecordsSurviveShutdown`.
- `CallersNeverBlock`, which says `ENABLED`.

The safety halves of the log handler's liveness are proved: an accepted record is
always queued, in hand or tried (`Custody`), in order (`InOrder`), and none is left
when `main` returns (`CleanExitIsComplete`).

## Not modelled

Left out: the flattening of log attributes (`WithAttrs`, `WithGroup`,
`resolveAttr`), which changes what a row says and never which rows there are; the
printing and redaction of the configuration, which formats text for a terminal;
the SQL of the migrations, which is idempotent and runs before anything else;
copying and downloading on the pages; styles, fonts, visual effects, templates,
vendored htmx and container files, which keep no state; and cryptography itself,
which is the browser's.
