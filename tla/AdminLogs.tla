------------------------------ MODULE AdminLogs ------------------------------
(***************************************************************************)
(* The admin interface over the table app_logs: ServeHealth,               *)
(* ServeHealthLogs and ClearLogs (internal/handler/admin.go), the way of   *)
(* a request to them (RequestPath), and the records that requests and      *)
(* other goroutines log meanwhile.                                         *)
(*                                                                         *)
(* DBLogger is reduced to what app_logs sees of it: a record that was      *)
(* logged is pending until its row is inserted, in any order, or lost.     *)
(* The limiter's verdict is free where there is a limiter; RateLimiter     *)
(* says what it is.  Each SQL statement is one step, which may fail; a     *)
(* DELETE whose client has given up may still be executed later.           *)
(***************************************************************************)
EXTENDS RequestPath, FiniteSets, FiniteSetsExt

CONSTANTS
  Clients,
  Observed,        \* the client whose history is kept; any one stands for all
  Requests,        \* the requests that may arrive
  Environments,    \* environments main may find
  Tables,          \* contents app_logs may have at start
  Elsewhere,       \* levels at which other goroutines log
  pageSize,
  IntLimit,        \* an int is in -IntLimit .. IntLimit - 1
  IntervalLength,  \* duration of an SQL interval
  MaxRecords,      \* bound: ids of records
  MaxTime,         \* bound: last instant
  MaxAbandoned,    \* bound: abandoned DELETEs at a time
  Junk             \* a page parameter that is no number

ASSUME AdminAssumption ==
  /\ Observed \in Clients
  /\ pageSize \in Nat \ {0} /\ IntLimit \in Nat \ {0}
  /\ pageSize <= IntLimit
  /\ MaxRecords \in Nat /\ MaxTime \in Nat /\ MaxAbandoned \in Nat
  /\ \A i \in {"1 hour", "6 hours", "24 hours", "7 days"} : IntervalLength[i] \in Nat
  /\ IntervalLength["1 hour"] < IntervalLength["6 hours"]
  /\ IntervalLength["6 hours"] < IntervalLength["24 hours"]
  /\ IntervalLength["24 hours"] < IntervalLength["7 days"]

\* The rows that earlier runs left, and what a query string may say.
ASSUME InputAssumption ==
  /\ \A table \in Tables :
       /\ IsFiniteSet(table)
       /\ \A row \in table :
            /\ row.id \in 1 .. MaxRecords /\ row.ts \in Int /\ row.ts <= 0
            /\ row.level \in DOMAIN Severity
            /\ \A other \in table : other.id = row.id => other = row
  /\ Elsewhere \subseteq DOMAIN Severity
  /\ Unset \notin Requests
  /\ \A q \in Requests :
       Route(q.method, q.path) = "logs" => q.page \in Int \cup {Junk}

\* A token is what stands behind "/s/": in a request it is nowhere else,
\* unless the path is one that the mux redirects; and no token is one of the
\* two words that the masking knows.
ASSUME LinkAssumption ==
  /\ "" \notin Tokens /\ "[token]" \notin Tokens
  /\ \A q \in Requests :
       /\ q.path \in Seq({q.path[i] : i \in DOMAIN q.path})
       /\ \A i \in DOMAIN q.path :
            q.path[i] \in Tokens => Unclean(q.path) \/ (i = 2 /\ q.path[1] = "s")

NoWalk == [on |-> FALSE]
Nothing == [done |-> FALSE]

VARIABLES
  cfg,       \* the result of Load
  now,
  app_logs,  \* the table: rows [id, ts, level, msg, path]
  pending,   \* records on their way to it
  logged,    \* ids given out
  pc,        \* per client: the statement its request is at, or "idle"
  req,       \* per client: its request
  query,     \* per client: the arguments of queryLogs
  total,     \* per client: what COUNT(*) returned
  abandoned, \* DELETEs that may still be executed: [no, olderThan]
  hit,       \* history: an INSERT came after Observed's COUNT(*)
  walk,      \* history: the pages Observed has walked through
  cut,       \* history: the rows there were when its clear arrived, when that
             \* was, and the rows its DELETE took
  told,      \* history: the window that the answer to its clear names
  audit      \* history: id of the record of its successful clear; 0 if there is
             \* none, or the writer lost it, or another DELETE could take it

request == <<pc, req, query, total>>
history == <<hit, walk, cut, told, audit>>
vars == <<cfg, now, app_logs, pending, logged, abandoned, request, history>>

-----------------------------------------------------------------------------
(* Logging *)

Entry(level, msg, path) == [level |-> level, msg |-> msg, path |-> path]

\* What a handler of the admin interface logs, about an error or a clear.
Warning == Entry("WARN", "other", <<>>)

\* The entries are logged one after the other: those of a level that the
\* database wants become records, numbered in this order.
LogAll(entries) ==
  LET wanted == {i \in DOMAIN entries :
                   Severity[entries[i].level] >= parseLogLevel(cfg.dbMinLevel)}
      Id(i)  == logged + Cardinality({j \in wanted : j <= i})
      new    == {i \in wanted : Id(i) <= MaxRecords}
  IN  /\ pending' = pending \cup
           {[id |-> Id(i), ts |-> now, level |-> entries[i].level,
             msg |-> entries[i].msg, path |-> entries[i].path] : i \in new}
      /\ logged' = logged + Cardinality(new)

Quiet == UNCHANGED <<pending, logged>>

Ids(rows) == {row.id : row \in rows}

\* A secret handler or the cleanup worker logs.
LogElsewhere ==
  /\ logged < MaxRecords
  /\ \E level \in Elsewhere : LogAll(<<Entry(level, "other", <<>>)>>)
  /\ UNCHANGED <<cfg, now, app_logs, abandoned, request, history>>

\* The writer of DBLogger stores a record or loses it.
WriterInsert ==
  \E row \in pending :
    /\ pending' = pending \ {row}
    /\ app_logs' = app_logs \cup {row}
    /\ hit' = (pc[Observed] = "rows")
    /\ UNCHANGED <<cfg, now, logged, abandoned, request, walk, cut, told, audit>>

WriterLose ==
  \E row \in pending :
    /\ pending' = pending \ {row}
    /\ audit' = IF audit = row.id THEN 0 ELSE audit
    /\ UNCHANGED <<cfg, now, app_logs, logged, abandoned, request, hit, walk, cut,
                   told>>

-----------------------------------------------------------------------------
(* The way of a request *)

RequestLine(q) == Entry("INFO", "request", maskTokenInPath(q.path))

\* A new request; the history forgets the client's last clear and a walk that
\* has come to its end.
Arrive(c) ==
  /\ pc[c] = "idle"
  /\ audit' = IF c = Observed THEN 0 ELSE audit
  /\ walk' = IF c = Observed /\ walk.on /\ walk.over THEN NoWalk ELSE walk
  /\ UNCHANGED <<cfg, now, app_logs, abandoned, total, hit, told>>

\* Middleware answers 418.
BlockProbe(c, q) ==
  /\ isProbeRequest(q.path)
  /\ Arrive(c)
  /\ LogAll(<<Entry("WARN", "probe request blocked", q.path)>>)
  /\ UNCHANGED <<pc, req, query, cut>>

\* Limit answers 429, before any credentials are looked at.
Refuse(c, q) ==
  /\ ~isProbeRequest(q.path)
  /\ RateOf(cfg, Route(q.method, q.path)) > 0
  /\ Arrive(c)
  /\ LogAll(<<RequestLine(q), Entry("WARN", "rate limit exceeded", q.path)>>)
  /\ UNCHANGED <<pc, req, query, cut>>

\* mutant: a negative page is let through.
PageOfRaw(p) == IF p = Junk THEN 0 ELSE IF p >= IntLimit THEN IntLimit - 1 ELSE p

\* strconv.Atoi with its error ignored, then the clamp.
PageOf(p) ==
  IF p = Junk \/ p < 0 THEN 0
  ELSE IF p >= IntLimit THEN IntLimit - 1
  ELSE p

FirstPage == [level |-> "", window |-> "24h", page |-> 0]

\* The handler starts: at its first statement, or it answers at once.
Serve(c, q) ==
  LET route   == Route(q.method, q.path)
      trusted == BasicAuth(cfg, q.auth) = 200
  IN
  /\ ~isProbeRequest(q.path)
  /\ Arrive(c)
  /\ LogAll(<<RequestLine(q)>>)
  /\ \/ /\ route = "health" /\ trusted
        /\ pc' = [pc EXCEPT ![c] = "ping"]
        /\ query' = [query EXCEPT ![c] = FirstPage]
     \/ /\ route = "logs" /\ trusted
        /\ pc' = [pc EXCEPT ![c] = "count"]
        /\ query' = [query EXCEPT ![c] =
             [level |-> q.level, window |-> IF q.window = "" THEN "24h" ELSE q.window,
              page |-> PageOf(q.page)]]
     \/ /\ route = "clear" /\ trusted /\ sameOrigin(q)
        /\ pc' = [pc EXCEPT ![c] = "delete"]
        /\ UNCHANGED query
     \/ /\ route = "clear" => ~trusted \/ ~sameOrigin(q)
        /\ route \in {"health", "logs"} => ~trusted
        /\ UNCHANGED <<pc, query>>
  /\ req' = [req EXCEPT ![c] = IF pc'[c] = "idle" THEN Unset ELSE q]
  /\ cut' = IF c = Observed /\ pc'[c] = "delete"
              THEN [done |-> TRUE, at |-> now, found |-> app_logs, taken |-> {}]
              ELSE cut

-----------------------------------------------------------------------------
(* Reading the log *)

\* mutant: the case "6h" is forgotten.
windowToLongInterval(window) ==
  CASE window = "1h" -> "1 hour"
    [] window = "7d" -> "7 days"
    [] OTHER -> "24 hours"

windowToInterval(window) ==
  CASE window = "1h" -> "1 hour"
    [] window = "6h" -> "6 hours"
    [] window = "7d" -> "7 days"
    [] OTHER -> "24 hours"

humanWindow(window) ==
  CASE window = "1h" -> "1 hour"
    [] window = "6h" -> "6 hours"
    [] window = "7d" -> "7 days"
    [] OTHER -> "24 hours"

\* The WHERE clause of both queries of queryLogs.
Matching(q) ==
  {row \in app_logs :
     /\ q.level \in {"", row.level}
     /\ row.ts > now - IntervalLength[windowToInterval(q.window)]}

\* int arithmetic
Wrap(n) == ((n + IntLimit) % (2 * IntLimit)) - IntLimit
Offset(page) == Wrap(page * pageSize)

\* The button "Next" is shown.
HasMore(page, n) == Wrap(Wrap(page + 1) * pageSize) < n

\* mutant: ORDER BY ts, the oldest first.
FirstByAge(A, M) == \A a \in A, b \in M \ A : a.ts <= b.ts

\* ORDER BY ts DESC may put the rows of A before the rest of M.
First(A, M) == \A a \in A, b \in M \ A : a.ts >= b.ts

\* The results LIMIT pageSize OFFSET offset may have; rows of one instant come
\* in any order.
PagesOf(M, offset) ==
  {S \in SUBSET M :
     \E A \in SUBSET (M \ S) :
       /\ Cardinality(A) = Min({offset, Cardinality(M)})
       /\ Cardinality(S) = Min({pageSize, Cardinality(M \ A)})
       /\ First(A, M) /\ First(A \cup S, M)}

\* The statements of ServeHealth before queryLogs, in their order.
AfterProbe == [ping |-> "summary", summary |-> "stats", stats |-> "count"]

\* The ping, queryLogSummary and querySecretStats may each fail, which is
\* logged or (rows.Err() of the summary) not; the page is served all the same.
HealthProbe(c) ==
  /\ pc[c] \in DOMAIN AfterProbe
  /\ pc' = [pc EXCEPT ![c] = AfterProbe[pc[c]]]
  /\ Quiet \/ LogAll(<<Warning>>)
  /\ UNCHANGED <<cfg, now, app_logs, abandoned, req, query, total, history>>

\* The handler ends, and with it its locals.
Return(c) ==
  /\ pc' = [pc EXCEPT ![c] = "idle"]
  /\ req' = [req EXCEPT ![c] = Unset]
  /\ query' = [query EXCEPT ![c] = FirstPage]
  /\ total' = [total EXCEPT ![c] = 0]
  /\ cut' = IF c = Observed THEN Nothing ELSE cut
  /\ told' = IF c = Observed THEN Unset ELSE told

\* The complete answer, with these rows and this total, and what it adds to the
\* walk: which ends without a result if an INSERT came after the last COUNT(*).
Show(c, rows, n) ==
  LET q == query[c]
      last == ~HasMore(q.page, n)
      goes_on == /\ walk.on /\ ~walk.over /\ walk.next = q.page
                 /\ walk.level = q.level /\ walk.window = q.window
                 /\ ~(last /\ hit)
  IN
  /\ Return(c)
  /\ walk' = IF c # Observed THEN walk
             ELSE IF goes_on
               THEN [walk EXCEPT !.seen = @ \cup Ids(rows), !.next = @ + 1,
                                 !.over = last]
               ELSE NoWalk
  /\ hit' = IF c = Observed THEN FALSE ELSE hit

\* An answer that lacks rows; a walk that meets it ends without a result.
ShowPart(c) ==
  /\ Return(c)
  /\ walk' = IF c = Observed THEN NoWalk ELSE walk
  /\ hit' = IF c = Observed THEN FALSE ELSE hit

\* A walk starts at page 0 with the rows that are there.
CountQuery(c) ==
  /\ pc[c] = "count"
  /\ total' = [total EXCEPT ![c] = Cardinality(Matching(query[c]))]
  /\ pc' = [pc EXCEPT ![c] = "rows"]
  /\ walk' = IF c # Observed \/ query[c].page # 0 THEN walk
             ELSE [on |-> TRUE, level |-> query[c].level, window |-> query[c].window,
                   next |-> 0, start |-> Ids(Matching(query[c])), seen |-> {},
                   over |-> FALSE]
  /\ Quiet
  /\ UNCHANGED <<cfg, now, app_logs, abandoned, req, query, hit, cut, told, audit>>

\* The error is logged; the page says that there are no entries.
CountFails(c) ==
  /\ pc[c] = "count"
  /\ LogAll(<<Warning>>)
  /\ ShowPart(c)
  /\ UNCHANGED <<cfg, now, app_logs, abandoned, audit>>

RowsQuery(c) ==
  /\ pc[c] = "rows" /\ Offset(query[c].page) >= 0
  /\ \E rows \in PagesOf(Matching(query[c]), Offset(query[c].page)) :
       Show(c, rows, total[c])
  /\ Quiet
  /\ UNCHANGED <<cfg, now, app_logs, abandoned, audit>>

\* pool.Query returns an error only if the statement cannot be sent.
RowsFail(c) ==
  /\ pc[c] = "rows"
  /\ LogAll(<<Warning>>)
  /\ ShowPart(c)
  /\ UNCHANGED <<cfg, now, app_logs, abandoned, audit>>

\* One that is refused (a negative OFFSET) or breaks off shows in rows.Err(),
\* which nobody reads, and a row that Scan refuses is skipped: some rows of the
\* page, or none, and nothing is logged.
RowsCutShort(c) ==
  /\ pc[c] = "rows"
  /\ ShowPart(c)
  /\ Quiet
  /\ UNCHANGED <<cfg, now, app_logs, abandoned, audit>>

-----------------------------------------------------------------------------
(* Clearing the log *)

\* The rows that the DELETE of a clear request takes.
Doomed(olderThan) ==
  {row \in app_logs :
     \/ olderThan = ""
     \/ row.ts < now - IntervalLength[windowToInterval(olderThan)]}

\* A record that a clear of everything, or of what is older than an hour, may
\* take without being the clear that the record is about.
Excused(olderThan) ==
  \E row \in Doomed(olderThan) :
    row.id = audit /\ (olderThan = "" \/ row.ts < now - IntervalLength["1 hour"])

\* A DELETE of Observed's present clear, or another one, is executed.
Delete(olderThan, own) ==
  /\ app_logs' = app_logs \ Doomed(olderThan)
  /\ cut' = IF own THEN [cut EXCEPT !.taken = Doomed(olderThan)] ELSE cut
  /\ audit' = IF ~own /\ Excused(olderThan) THEN 0 ELSE audit

\* A record is logged about a successful clear.
AuditBy(c) ==
  /\ LogAll(<<Warning>>)
  /\ audit' = IF c # Observed THEN audit
              ELSE IF logged' > logged THEN logged' ELSE 0

\* mutant: the audit record is logged before the statement is sent.
ExecDeleteAudited(c) ==
  /\ pc[c] = "delete"
  /\ \/ /\ audit = 0
        /\ AuditBy(c)
        /\ UNCHANGED <<app_logs, pc, cut>>
     \/ /\ Delete(req[c].olderThan, c = Observed)
        /\ pc' = [pc EXCEPT ![c] = "deleted"]
        /\ Quiet
  /\ UNCHANGED <<cfg, now, abandoned, req, query, total, hit, walk, told>>

\* The statement is executed and the goroutine learns of it.
ExecDelete(c) ==
  /\ pc[c] = "delete"
  /\ Delete(req[c].olderThan, c = Observed)
  /\ pc' = [pc EXCEPT ![c] = "deleted"]
  /\ Quiet
  /\ UNCHANGED <<cfg, now, abandoned, req, query, total, hit, walk, told>>

\* The goroutine gets an error, or its ten seconds are over.  The statement is
\* never executed, or it still will be: before or after the error is logged.
GiveUpDelete(c) ==
  /\ pc[c] = "delete"
  /\ pc' = [pc EXCEPT ![c] = "failed"]
  /\ \/ UNCHANGED abandoned
     \/ \E n \in 1 .. MaxAbandoned :
          /\ \A d \in abandoned : d.no # n
          /\ abandoned' = abandoned \cup {[no |-> n, olderThan |-> req[c].olderThan]}
  /\ Quiet
  /\ UNCHANGED <<cfg, now, app_logs, req, query, total, history>>

LateDelete ==
  \E d \in abandoned :
    /\ abandoned' = abandoned \ {d}
    /\ Delete(d.olderThan, FALSE)
    /\ Quiet
    /\ UNCHANGED <<cfg, now, request, hit, walk, told>>

\* Success: the audit record, then the first page of the last 24 hours with a
\* message.
ClearDone(c) ==
  /\ pc[c] = "deleted"
  /\ AuditBy(c)
  /\ told' = IF c # Observed THEN told
             ELSE IF req[c].olderThan = "" THEN "all"
             ELSE humanWindow(req[c].olderThan)
  /\ query' = [query EXCEPT ![c] = FirstPage]
  /\ pc' = [pc EXCEPT ![c] = "count"]
  /\ UNCHANGED <<cfg, now, app_logs, abandoned, req, total, hit, walk, cut>>

\* 500
ClearFailed(c) ==
  /\ pc[c] = "failed"
  /\ LogAll(<<Warning>>)
  /\ Return(c)
  /\ UNCHANGED <<cfg, now, app_logs, abandoned, hit, walk, audit>>

Tick ==
  /\ now < MaxTime
  /\ now' = now + 1
  /\ UNCHANGED <<cfg, app_logs, pending, logged, abandoned, request, history>>

Init ==
  /\ \E env \in Environments : cfg = Load(env)
  /\ now = 0
  /\ app_logs \in Tables
  /\ pending = {} /\ abandoned = {}
  /\ logged = Max(Ids(app_logs) \cup {0})
  /\ pc = [c \in Clients |-> "idle"]
  /\ req = [c \in Clients |-> Unset]
  /\ query = [c \in Clients |-> FirstPage]
  /\ total = [c \in Clients |-> 0]
  /\ hit = FALSE /\ walk = NoWalk
  /\ cut = Nothing /\ told = Unset /\ audit = 0

Next ==
  \/ \E c \in Clients :
       \/ \E q \in Requests : BlockProbe(c, q) \/ Refuse(c, q) \/ Serve(c, q)
       \/ HealthProbe(c)
       \/ CountQuery(c) \/ CountFails(c)
       \/ RowsQuery(c) \/ RowsFail(c) \/ RowsCutShort(c)
       \/ ExecDelete(c) \/ GiveUpDelete(c) \/ ClearDone(c) \/ ClearFailed(c)
  \/ LateDelete
  \/ LogElsewhere \/ WriterInsert \/ WriterLose
  \/ Tick

Spec == Init /\ [][Next]_vars

-----------------------------------------------------------------------------
(* Properties *)

Statements == {"ping", "summary", "stats", "count", "rows", "delete", "deleted",
               "failed"}

\* Every variable has its type; ids are unique across table and writer.
TypeOK ==
  /\ now \in 0 .. MaxTime /\ logged \in 0 .. MaxRecords
  /\ \A row \in app_logs \cup pending :
       /\ row.id \in 1 .. logged /\ row.ts \in Int /\ row.ts <= now
       /\ row.level \in DOMAIN Severity
       /\ \A other \in app_logs \cup pending : other.id = row.id => other = row
  /\ pc \in [Clients -> Statements \cup {"idle"}]
  /\ req \in [Clients -> Requests \cup {Unset}]
  /\ \A c \in Clients : query[c].page \in 0 .. IntLimit - 1
  /\ total \in [Clients -> 0 .. MaxRecords]
  /\ hit \in BOOLEAN /\ audit \in 0 .. MaxRecords
  /\ \A d, e \in abandoned : d.no \in 1 .. MaxAbandoned /\ (d.no = e.no => d = e)

Tied(row) == \E other \in app_logs : other # row /\ other.ts = row.ts

\* Going from the first page of a filter by "Next" to the one without "Next"
\* shows every row that was there at the beginning and still is, although rows
\* are inserted, cleared and grow too old between the pages: except rows of
\* the same instant as another one, and except when a query failed or an
\* INSERT came between COUNT(*) and the rows of the last page.
NothingOverlooked ==
  walk.on /\ walk.over =>
    \A row \in Matching([level |-> walk.level, window |-> walk.window]) :
      row.id \in walk.start /\ ~Tied(row) => row.id \in walk.seen

\* When the admin is told that the logs, or those older than a window, were
\* cleared, they were: of the rows there were when the admin asked, none of
\* those is there any more, and none younger was taken for it; whatever others
\* insert and clear meanwhile.
ClearedIsAsTold ==
  told # Unset =>
    /\ \A row \in cut.found \cap app_logs :
         told # "all" /\ row.ts >= cut.at - IntervalLength[told]
    /\ \A row \in cut.taken : told = "all" \/ row.ts < now - IntervalLength[told]

\* A clear that succeeds does not wipe out its own trace: the record that it
\* logs is still to be stored or is in the table, unless the writer lost it, a
\* DELETE of another request took everything, or it is older than an hour.
\* (The record of a clear that failed has no such promise: see LateDelete.)
ClearLeavesTrace == audit # 0 => audit \in Ids(app_logs \cup pending)

\* "Both must be non-empty to enable the admin interface": otherwise, and for
\* anybody without the credentials, no statement of the admin handlers runs.
AdminIsClosed ==
  \A c \in Clients :
    pc[c] # "idle" =>
      /\ cfg.adminUser # "" /\ cfg.adminPass # ""
      /\ req[c].auth = <<cfg.adminUser, cfg.adminPass>>

Leaks(row) == \E i \in DOMAIN row.path : row.path[i] \in Tokens

\* maskTokenInPath "to prevent token exposure in database logs": no row of
\* app_logs shows the token of a link.
TokensStayOutOfLogs == \A row \in app_logs : ~Leaks(row)

\* It shows one only where it is known to.
LeakIsKnown(row) ==
  Leaks(row) => \/ row.msg \in {"rate limit exceeded", "probe request blocked"}
                \/ Unclean(row.path)

\* The places where a token does reach the table: the warnings of the limiter
\* and of the probe filter, and paths that the mux will first redirect.
TokensLeakOnlyThere == \A row \in app_logs : LeakIsKnown(row)

\* How many rows a query puts before this one, whatever it does to ties.
Rank(row, q) == Cardinality({other \in Matching(q) : other.ts > row.ts})

\* What the history of Observed's walk through the pages looks like.
Shape ==
  /\ IsFiniteSet(app_logs) /\ app_logs \cap pending = {} /\ DOMAIN query = Clients
  /\ walk.on \in BOOLEAN
  /\ walk.on =>
       /\ walk = [on |-> TRUE, level |-> walk.level, window |-> walk.window,
                  next |-> walk.next, start |-> walk.start, seen |-> walk.seen,
                  over |-> walk.over]
       /\ walk.next \in Nat /\ walk.over \in BOOLEAN
       /\ walk.start \subseteq 1 .. logged /\ walk.start \cap Ids(pending) = {}

\* A row of the start that has not been seen has not been passed by, either:
\* rows that come push it back, rows that go were behind it.
NotPassed ==
  walk.on =>
    /\ walk.next > 0 => (walk.next - 1) * pageSize < IntLimit
    /\ \A row \in Matching(walk) :
         row.id \in walk.start /\ ~Tied(row) =>
           \/ row.id \in walk.seen
           \/ ~walk.over /\ Rank(row, walk) >= walk.next * pageSize

\* Unless an INSERT came, there are no more rows than COUNT(*) returned.
CountHolds ==
  pc[Observed] = "rows" /\ ~hit =>
    Cardinality(Matching(query[Observed])) <= total[Observed]

\* The rows older than the window are gone, and only they were taken.
ClearedOf(olderThan) ==
  LET L == IntervalLength[windowToInterval(olderThan)] IN
  /\ \A row \in cut.found \cap app_logs : olderThan # "" /\ row.ts >= cut.at - L
  /\ \A row \in cut.taken : olderThan = "" \/ row.ts < now - L

\* Where Observed's clear is, and what it knows.  A row that it found never
\* comes back.
Clearing ==
  /\ pc[Observed] \notin {"count", "rows"} => told = Unset
  /\ pc[Observed] \in {"delete", "deleted"} => audit = 0 /\ cut.done
  /\ pc[Observed] = "deleted" => ClearedOf(req[Observed].olderThan)
  /\ told # Unset =>
       cut.done /\ told \in {"all", "1 hour", "6 hours", "24 hours", "7 days"}
  /\ cut.done =>
       /\ cut = [done |-> TRUE, at |-> cut.at, found |-> cut.found, taken |-> cut.taken]
       /\ cut.at \in Int /\ cut.at <= now
       /\ Ids(cut.found) \subseteq 1 .. logged /\ Ids(cut.found) \cap Ids(pending) = {}
       /\ \A row \in cut.found \cup cut.taken : row.ts \in Int

\* The inductive invariant of the proofs: paging and clearing of app_logs with
\* requests of others, INSERTs and the clock between any two statements.
Inductive ==
  /\ TypeOK /\ Shape /\ NotPassed /\ CountHolds /\ Clearing
  /\ ClearedIsAsTold /\ ClearLeavesTrace /\ AdminIsClosed
=============================================================================
