---------------------------- MODULE SecretStore ----------------------------
(***************************************************************************)
(* The life of a secret on the server: handler.CreateSecret and            *)
(* handler.RevealSecret, service.Create / Retrieve, the repository's three *)
(* SQL statements with their best-effort event rows, and the background    *)
(* sweep of cmd/server, over a PostgreSQL database that outlives crashes.  *)
(*                                                                         *)
(* Every HTTP request runs in its own goroutine.  A request sends its      *)
(* statement, the database executes it some time later (or never), and the *)
(* goroutine then sees the result, an error, or is gone: the client may    *)
(* disconnect (which cancels r.Context()), the connection may fail, the    *)
(* process may die.  A statement nobody waits for any more can still       *)
(* commit.  Secrets are named by the request that creates them; payload    *)
(* bytes play no role here.                                                *)
(***************************************************************************)
EXTENDS Integers, FiniteSets

CONSTANTS
  Creates,        \* POST / requests; also the name of the secret each submits
  Reveals,        \* POST /s/{token}/reveal requests
  Tokens,         \* the values generateToken can return
  ExpiresIn,      \* values of "expires_in" that clients send (seconds)
  Second,         \* time.Second, in ticks of the clocks (nanoseconds)
  DurationLimit,  \* time.Duration holds -DurationLimit .. DurationLimit-1 ticks
  AppAhead,       \* app server clock minus database clock (clock skew)
  MaxTime,        \* bound: last instant of the database clock
  MaxCrashes,     \* bound: how often the process dies or is stopped
  Never,          \* SQL NULL in secrets.expires_at
  None            \* no secret, no token

Requests == Creates \cup Reveals

ASSUME StoreAssumption ==
  /\ Creates \cap Reveals = {}
  /\ IsFiniteSet(Creates)
  /\ ExpiresIn \subseteq Int
  /\ Second \in Nat \ {0}
  /\ DurationLimit \in Nat \ {0}
  /\ AppAhead \in Int
  /\ MaxTime \in Nat
  /\ MaxCrashes \in Nat
  /\ Never \notin Int
  /\ None \notin Creates \cup Tokens

VARIABLES
  \* the database
  rows,       \* table secrets: the secrets in it
  events,     \* table secret_events; "by" stands for the row's id
  now,        \* the database clock
  \* one entry per request
  pc,         \* where its goroutine is
  stmt,       \* its INSERT or DELETE, as the database sees it
  startedAt,  \* when the statement started (its NOW(); Store's time.Now())
  resp,       \* the HTTP status; "none": the client has received no payload
  token,      \* creates: the token generated for the secret
  expires,    \* creates: expires_in of the request
  expiresAt,  \* creates: the row's expires_at
  target,     \* reveals: the token in the URL
  took,       \* reveals: the secret its DELETE returned
  known,      \* history, reveals: the secrets acknowledged before it started
  \* the server process and its cleanup goroutine
  up,         \* "up", "draining" (between SIGTERM and exit), "down"
  crashes,    \* how often it died or was stopped
  worker,     \* "off", "wait" (for the ticker), "exec"
  sweep,      \* the sweep's DELETE: "none", "sent", "done"
  sweepAt,    \* NOW() of that DELETE
  batch,      \* the secrets it deleted; the code's n is its cardinality
  swept       \* history: every secret deleted by a sweep

creating == <<token, expires, expiresAt>>
asking   == <<target, known>>
sweeping == <<worker, sweep, sweepAt, batch, swept>>
process  == <<up, crashes>>
vars == <<rows, events, now, pc, stmt, startedAt, resp, creating, asking, took,
          process, sweeping>>

-----------------------------------------------------------------------------
\* time.Duration(e) * time.Second is a signed 64-bit product: it wraps.
Duration(e) ==
  ((e * Second + DurationLimit) % (2 * DurationLimit)) - DurationLimit

\* Store's expiresAt for an expires_in of e, by the app server's clock.
ExpiryOf(e) == IF e > 0 THEN now + AppAhead + Duration(e) ELSE Never

\* expires_at IS NULL OR expires_at > NOW()
Unexpired(c, t) == expiresAt[c] = Never \/ expiresAt[c] > t

\* mutant: the sweep already removes a secret at its very last instant.
ExpiredAtBoundary(c, t) == expiresAt[c] # Never /\ expiresAt[c] <= t

\* expires_at IS NOT NULL AND expires_at < NOW()
Expired(c, t) == expiresAt[c] # Never /\ expiresAt[c] < t

CreatedEvent(c)   == [type |-> "created",   by |-> c, count |-> 1]
RetrievedEvent(v) == [type |-> "retrieved", by |-> v, count |-> 1]
ExpiredEvent(S)   == [type |-> "expired",   by |-> S, count |-> Cardinality(S)]

Init ==
  /\ rows = {} /\ events = {} /\ now = 0
  /\ pc = [r \in Requests |-> "idle"]
  /\ stmt = [r \in Requests |-> "none"]
  /\ startedAt = [r \in Requests |-> 0]
  /\ resp = [r \in Requests |-> "none"]
  /\ token = [c \in Creates |-> None]
  /\ expires = [c \in Creates |-> 0]
  /\ expiresAt = [c \in Creates |-> Never]
  /\ target = [v \in Reveals |-> None]
  /\ took = [v \in Reveals |-> None]
  /\ known = [v \in Reveals |-> {}]
  /\ up = "up" /\ crashes = 0
  /\ worker = "wait" /\ sweep = "none" /\ sweepAt = 0
  /\ batch = {} /\ swept = {}

\* The goroutine of r is over, with an error status for the client.
Fail(r, status) ==
  /\ pc' = [pc EXCEPT ![r] = "done"]
  /\ resp' = [resp EXCEPT ![r] = status]

\* recordEvent: the INSERT's error is discarded, so the row may be missing.
RecordEvent(e) == events' = events \cup {e} \/ UNCHANGED events

-----------------------------------------------------------------------------
(* POST / *)

\* Malformed JSON or base64 (400), too large (413), no token (500): the store
\* is not involved.
RejectCreate(c) ==
  /\ up = "up" /\ pc[c] = "idle"
  /\ Fail(c, "4xx")
  /\ UNCHANGED <<rows, events, now, stmt, startedAt, creating, asking, took,
                 process, sweeping>>

\* The body is fine: generate a token, compute expires_at, send the INSERT.
CreateSecret(c) ==
  /\ up = "up" /\ pc[c] = "idle"
  /\ \E t \in Tokens, e \in ExpiresIn :
       /\ token' = [token EXCEPT ![c] = t]
       /\ expires' = [expires EXCEPT ![c] = e]
       /\ expiresAt' = [expiresAt EXCEPT ![c] = ExpiryOf(e)]
  /\ pc' = [pc EXCEPT ![c] = "exec"]
  /\ stmt' = [stmt EXCEPT ![c] = "sent"]
  /\ startedAt' = [startedAt EXCEPT ![c] = now]
  /\ UNCHANGED <<rows, events, now, resp, asking, took, process, sweeping>>

\* mutant: the token column is not UNIQUE.
ExecInsertDuplicate(c) ==
  /\ stmt[c] = "sent"
  /\ stmt' = [stmt EXCEPT ![c] = "ok"]
  /\ rows' = rows \cup {c}
  /\ UNCHANGED <<events, now, pc, startedAt, resp, creating, asking, took,
                 process, sweeping>>

\* The database executes the INSERT; secrets.token is UNIQUE.
ExecInsert(c) ==
  /\ stmt[c] = "sent"
  /\ IF \E d \in rows : token[d] = token[c]
       THEN /\ stmt' = [stmt EXCEPT ![c] = "error"]
            /\ UNCHANGED rows
       ELSE /\ stmt' = [stmt EXCEPT ![c] = "ok"]
            /\ rows' = rows \cup {c}
  /\ UNCHANGED <<events, now, pc, startedAt, resp, creating, asking, took,
                 process, sweeping>>

\* mutant: Store does not look at the INSERT's error.
StoreRecordUnchecked(c) ==
  /\ pc[c] = "exec" /\ stmt[c] \in {"ok", "error"}
  /\ RecordEvent(CreatedEvent(c))
  /\ pc' = [pc EXCEPT ![c] = "reply"]
  /\ UNCHANGED <<rows, now, stmt, startedAt, resp, creating, asking, took,
                 process, sweeping>>

\* Store has inserted the row and records "created".
StoreRecord(c) ==
  /\ pc[c] = "exec" /\ stmt[c] = "ok"
  /\ RecordEvent(CreatedEvent(c))
  /\ pc' = [pc EXCEPT ![c] = "reply"]
  /\ UNCHANGED <<rows, now, stmt, startedAt, resp, creating, asking, took,
                 process, sweeping>>

-----------------------------------------------------------------------------
(* POST /s/{token}/reveal *)

\* Retrieve sends DELETE ... RETURNING; its NOW() is fixed when it starts.
RevealSecret(v) ==
  /\ up = "up" /\ pc[v] = "idle"
  /\ \E t \in Tokens : target' = [target EXCEPT ![v] = t]
  /\ known' = [known EXCEPT ![v] = {c \in Creates : resp[c] = "200"}]
  /\ pc' = [pc EXCEPT ![v] = "exec"]
  /\ stmt' = [stmt EXCEPT ![v] = "sent"]
  /\ startedAt' = [startedAt EXCEPT ![v] = now]
  /\ UNCHANGED <<rows, events, now, resp, creating, took, process, sweeping>>

\* mutants: the DELETE does not look at expires_at, or takes a NULL for expired.
MatchingAnyAge(v) == {c \in rows : token[c] = target[v]}
MatchingTimed(v) ==
  {c \in rows : token[c] = target[v] /\ expiresAt[c] # Never
                                    /\ expiresAt[c] > startedAt[v]}

\* The rows the DELETE of v applies to.
Matching(v) ==
  {c \in rows : token[c] = target[v] /\ Unexpired(c, startedAt[v])}

\* mutant: SELECT instead of DELETE ... RETURNING.
RemainingAfterSelect(v) == rows

\* What the DELETE leaves in the table.
Remaining(v) == rows \ Matching(v)

\* The database executes the DELETE; QueryRow reads the first row returned.
ExecDelete(v) ==
  /\ stmt[v] = "sent"
  /\ rows' = Remaining(v)
  /\ \/ /\ Matching(v) = {}
        /\ stmt' = [stmt EXCEPT ![v] = "norows"]
        /\ UNCHANGED took
     \/ \E c \in Matching(v) :
          /\ stmt' = [stmt EXCEPT ![v] = "ok"]
          /\ took' = [took EXCEPT ![v] = c]
  /\ UNCHANGED <<events, now, pc, startedAt, resp, creating, asking, process,
                 sweeping>>

\* pgx.ErrNoRows becomes ErrNotFound becomes 404.
NotFound(v) ==
  /\ pc[v] = "exec" /\ stmt[v] = "norows"
  /\ Fail(v, "404")
  /\ UNCHANGED <<rows, events, now, stmt, startedAt, creating, asking, took,
                 process, sweeping>>

\* FetchAndDelete has the row and records "retrieved".
FetchRecord(v) ==
  /\ pc[v] = "exec" /\ stmt[v] = "ok"
  /\ RecordEvent(RetrievedEvent(v))
  /\ pc' = [pc EXCEPT ![v] = "reply"]
  /\ UNCHANGED <<rows, now, stmt, startedAt, resp, creating, asking, took,
                 process, sweeping>>

-----------------------------------------------------------------------------
(* Both kinds of request *)

\* The handler encodes the token, or the payload, as its 200 response, which
\* may be lost on the way (client gone, WriteTimeout).
Reply(r) ==
  /\ pc[r] = "reply"
  /\ pc' = [pc EXCEPT ![r] = "done"]
  /\ \/ resp' = [resp EXCEPT ![r] = "200"]
     \/ UNCHANGED resp
  /\ UNCHANGED <<rows, events, now, stmt, startedAt, creating, asking, took,
                 process, sweeping>>

\* The goroutine gets an error instead of the statement's result: a broken
\* connection, a cancelled context, or the database refused (UNIQUE).  What
\* the database does with a statement already sent is not known.
StatementError(r) ==
  /\ pc[r] = "exec" /\ stmt[r] \in {"sent", "ok", "norows", "error"}
  /\ Fail(r, "500")
  /\ UNCHANGED <<rows, events, now, stmt, startedAt, creating, asking, took,
                 process, sweeping>>

-----------------------------------------------------------------------------
(* The background sweep *)

CleanupTick ==
  /\ worker = "wait"
  /\ worker' = "exec" /\ sweep' = "sent" /\ sweepAt' = now /\ batch' = {}
  /\ UNCHANGED <<rows, events, now, pc, stmt, startedAt, resp, creating, asking,
                 took, process, swept>>

\* DELETE FROM secrets WHERE expires_at IS NOT NULL AND expires_at < NOW()
ExecCleanup ==
  LET S == {c \in rows : Expired(c, sweepAt)} IN
  /\ sweep = "sent"
  /\ sweep' = "done"
  /\ rows' = rows \ S /\ batch' = S /\ swept' = swept \cup S
  /\ UNCHANGED <<events, now, pc, stmt, startedAt, resp, creating, asking, took,
                 process, worker, sweepAt>>

\* mutant: the event is written for an empty sweep too.
CleanupRecordAlways ==
  /\ worker = "exec" /\ sweep = "done"
  /\ worker' = "wait" /\ sweep' = "none" /\ sweepAt' = 0 /\ batch' = {}
  /\ RecordEvent(ExpiredEvent(batch))
  /\ UNCHANGED <<rows, now, pc, stmt, startedAt, resp, creating, asking, took,
                 process, swept>>

\* RowsAffected() = n; if n > 0 record "expired" with that count.
CleanupRecord ==
  /\ worker = "exec" /\ sweep = "done"
  /\ worker' = "wait" /\ sweep' = "none" /\ sweepAt' = 0 /\ batch' = {}
  /\ IF batch = {} THEN UNCHANGED events ELSE RecordEvent(ExpiredEvent(batch))
  /\ UNCHANGED <<rows, now, pc, stmt, startedAt, resp, creating, asking, took,
                 process, swept>>

\* The sweep's statement fails (for the worker): log a warning, wait again.
CleanupError ==
  /\ worker = "exec"
  /\ worker' = "wait"
  /\ UNCHANGED <<rows, events, now, pc, stmt, startedAt, resp, creating, asking,
                 took, process, sweep, sweepAt, batch, swept>>

-----------------------------------------------------------------------------
(* Process and time *)

\* Goroutines vanish; the tables and the statements already sent do not.
Vanish ==
  /\ up' = "down" /\ worker' = "off"
  /\ pc' = [r \in Requests |-> IF pc[r] = "idle" THEN "idle" ELSE "done"]
  /\ UNCHANGED <<rows, events, now, stmt, startedAt, resp, creating, asking,
                 took, sweep, sweepAt, batch, swept>>

\* The process dies.
Crash ==
  /\ up = "up" /\ crashes < MaxCrashes
  /\ crashes' = crashes + 1
  /\ Vanish

\* SIGTERM cancels ctx: the worker returns, abandoning its statement, and
\* srv.Shutdown accepts no new request while those under way continue.
Shutdown ==
  /\ up = "up" /\ crashes < MaxCrashes
  /\ up' = "draining" /\ crashes' = crashes + 1
  /\ worker' = "off"
  /\ UNCHANGED <<rows, events, now, pc, stmt, startedAt, resp, creating, asking,
                 took, sweep, sweepAt, batch, swept>>

\* srv.Shutdown is through, or its 10 s are, and main returns.
Exit ==
  /\ up = "draining"
  /\ UNCHANGED crashes
  /\ Vanish

\* mutant: the worker is not started.
RestartWithoutWorker ==
  /\ up = "down"
  /\ up' = "up"
  /\ UNCHANGED <<rows, events, now, pc, stmt, startedAt, resp, creating, asking,
                 took, crashes, sweeping>>

\* db.Connect runs the idempotent migrations and the worker starts again.
Restart ==
  /\ up = "down"
  /\ up' = "up" /\ worker' = "wait"
  /\ UNCHANGED <<rows, events, now, pc, stmt, startedAt, resp, creating, asking,
                 took, crashes, sweep, sweepAt, batch, swept>>

Tick ==
  /\ now < MaxTime
  /\ now' = now + 1
  /\ UNCHANGED <<rows, events, pc, stmt, startedAt, resp, creating, asking, took,
                 process, sweeping>>

Next ==
  \/ \E c \in Creates :
       RejectCreate(c) \/ CreateSecret(c) \/ ExecInsert(c) \/ StoreRecord(c)
  \/ \E v \in Reveals :
       RevealSecret(v) \/ ExecDelete(v) \/ NotFound(v) \/ FetchRecord(v)
  \/ \E r \in Requests : Reply(r) \/ StatementError(r)
  \/ CleanupTick \/ ExecCleanup \/ CleanupRecord \/ CleanupError
  \/ Crash \/ Shutdown \/ Exit \/ Restart \/ Tick

Spec == Init /\ [][Next]_vars

(* Fairness.  A process told to stop exits (Shutdown has a timeout) and one
   that is down is started again (docker-compose.yml: "restart:
   unless-stopped"), its ticker keeps firing and the worker continues when it
   has its result.  A sweep may fail any number of times, but a database that
   is asked for ever executes one some day.  Nothing is assumed of clients,
   requests, failures or the clock. *)
Fairness ==
  /\ WF_vars(Restart) /\ WF_vars(Exit)
  /\ WF_vars(CleanupTick)
  /\ WF_vars(ExecCleanup)
  /\ WF_vars(CleanupRecord)

FairSpec == Spec /\ Fairness

-----------------------------------------------------------------------------
(* Properties *)

EventRow ==
  [type : {"created"}, by : Creates, count : {1}]
    \cup [type : {"retrieved"}, by : Reveals, count : {1}]
    \cup [type : {"expired"}, by : SUBSET Creates, count : Nat \ {0}]

\* Every variable has its type; in particular a row of secret_events passes
\* the CHECK of migration 003 and never carries a count of zero.
TypeOK ==
  /\ rows \subseteq Creates
  /\ events \subseteq EventRow
  /\ now \in Nat
  /\ pc \in [Requests -> {"idle", "exec", "reply", "done"}]
  /\ stmt \in [Requests -> {"none", "sent", "ok", "norows", "error"}]
  /\ startedAt \in [Requests -> Nat]
  /\ resp \in [Requests -> {"none", "200", "4xx", "404", "500"}]
  /\ token \in [Creates -> Tokens \cup {None}]
  /\ expires \in [Creates -> ExpiresIn \cup {0}]
  /\ expiresAt \in [Creates -> Int \cup {Never}]
  /\ target \in [Reveals -> Tokens \cup {None}]
  /\ took \in [Reveals -> Creates \cup {None}]
  /\ known \in [Reveals -> SUBSET Creates]
  /\ up \in {"up", "draining", "down"} /\ crashes \in Nat
  /\ worker \in {"off", "wait", "exec"}
  /\ sweep \in {"none", "sent", "done"} /\ sweepAt \in Nat
  /\ batch \subseteq Creates /\ swept \subseteq Creates

\* One-time access (README "Fetch and delete are a single atomic database
\* transaction"): two reveals never obtain the same secret, and a secret that
\* was obtained or swept is no longer in the table, whatever statements race,
\* are abandoned by their goroutine, or commit after the process died.
OneTimeAccess ==
  /\ \A v, w \in Reveals : took[v] # None /\ took[v] = took[w] => v = w
  /\ \A v \in Reveals : took[v] \notin rows \cup swept
  /\ rows \cap swept = {}

\* Expired records return 404: whoever obtains a secret named its token, and
\* asked before the lifetime its creator requested was over, by the database
\* clock corrected for the skew of the clock that stamped expires_at.
ServedWithinLifetime ==
  \A v \in Reveals, c \in Creates :
    took[v] = c =>
      /\ token[c] = target[v]
      /\ expires[c] > 0 =>
           startedAt[v] < startedAt[c] + AppAhead + expires[c] * Second

\* Once a client holds the token (200), the secret is in the table until one
\* reveal naming that token obtains it or a sweep removes it after its
\* requested lifetime.  Nothing else, a crash included, makes it disappear.
AcknowledgedIsKept ==
  \A c \in Creates :
    resp[c] = "200" =>
      \/ c \in rows
      \/ \E v \in Reveals : took[v] = c
      \/ /\ c \in swept
         /\ expires[c] > 0
         /\ startedAt[c] + AppAhead + expires[c] * Second < now

\* A 404 is the truth: if the creator had the token before the reveal began
\* and the link is right, then somebody else obtained the secret or its
\* lifetime was over when the answer was given.  No race, crash or sweep makes
\* a live link look dead.
NotFoundIsTrue ==
  \A v \in Reveals : resp[v] = "404" =>
    \A c \in known[v] : token[c] = target[v] =>
      \/ \E w \in Reveals \ {v} : took[w] = c
      \/ /\ expires[c] > 0
         /\ startedAt[c] + AppAhead + expires[c] * Second <= now

\* A row of secret_events is written at most once per request or sweep and only
\* for what really happened in the table: the "created" of a stored secret, the
\* "retrieved" of a reveal that took one, an "expired" whose count is the number
\* of secrets one sweep deleted, no secret being counted by two sweeps.
EventsHaveCause ==
  \A e \in events :
    /\ e.type = "created" => stmt[e.by] = "ok"
    /\ e.type = "retrieved" => took[e.by] # None
    /\ e.type = "expired" =>
         /\ e.by \subseteq swept
         /\ e.count = Cardinality(e.by)
         /\ \A f \in events :
              f.type = "expired" /\ f # e => f.by \cap e.by = {}

\* The abstract life of a secret, read off the tables: the refinement mapping.
AbstractStatus(c) ==
  CASE c \in rows -> IF expiresAt[c] = Never THEN "forever" ELSE "timed"
    [] \E v \in Reveals : took[v] = c -> "revealed"
    [] c \in swept -> "expired"
    [] OTHER -> "unborn"

OTS == INSTANCE OneTimeSecret
         WITH Secrets <- Creates, Readers <- Reveals, holder <- took,
              status <- [c \in Creates |-> AbstractStatus(c)]

\* The server implements the promise of a one-time secret.
ImplementsOneTimeSecret == OTS!Spec

\* README "Background expiry cleanup": an expired secret left in the table is
\* eventually gone from it, through failing sweeps, crashes and restarts.
ExpiredIsSwept ==
  \A c \in Creates : (c \in rows /\ Expired(c, now)) ~> (c \notin rows)

\* README, step 4 of "How it works": the server returns the ciphertext, the
\* browser decrypts it, "and then" the record is deleted; hence a reveal that
\* is over and deleted a secret has handed it to its client.
DeletedOnlyOnceSeen ==
  \A v \in Reveals : pc[v] = "done" /\ took[v] # None => resp[v] = "200"

-----------------------------------------------------------------------------
(* The inductive invariant.  The properties above speak of answers and events;
   what keeps them true is where a secret can be (table, a reader's hands, the
   sweep's history), that tokens are unique among the rows, and that a request
   only reports what its own statement did. *)

\* No expires_in makes the 64-bit product of Store wrap around.
NoOverflow == \A e \in ExpiresIn : e * Second < DurationLimit

\* A secret has been stored if and only if it is in exactly one of three
\* places: the table, the hands of a reader, the past of the sweep.
Taken == {c \in Creates : \E v \in Reveals : took[v] = c}

Conservation ==
  \A c \in Creates : stmt[c] = "ok" <=> c \in rows \cup swept \cup Taken

\* What the UNIQUE constraint maintains: a DELETE matches one row at most.
UniqueTokens == \A c, d \in rows : token[c] = token[d] => c = d

\* A goroutine's progress and its answer follow from its own statement.
Protocol ==
  /\ \A r \in Requests :
       /\ pc[r] = "idle" => stmt[r] = "none" /\ resp[r] = "none"
       /\ pc[r] = "reply" => stmt[r] = "ok"
       /\ resp[r] = "200" => stmt[r] = "ok"
       /\ startedAt[r] <= now
  /\ \A v \in Reveals :
       /\ took[v] # None <=> stmt[v] = "ok"
       /\ resp[v] = "404" => stmt[v] = "norows"
  /\ \A c \in Creates : stmt[c] # "norows"

\* expires_at is what Store computed when the request came in.
ExpiryStamped ==
  \A c \in Creates : stmt[c] # "none" =>
    expiresAt[c] = IF expires[c] > 0
                     THEN startedAt[c] + AppAhead + Duration(expires[c])
                     ELSE Never

\* Who took a secret matched its row; who found nothing had nothing to match.
Matched ==
  \A v \in Reveals :
    /\ \A c \in Creates : took[v] = c =>
         token[c] = target[v] /\ Unexpired(c, startedAt[v])
    /\ \A c \in known[v] : stmt[c] = "ok"
    /\ stmt[v] = "norows" =>
         \A c \in known[v] : token[c] = target[v] =>
           c \in Taken \cup swept \/ ~Unexpired(c, startedAt[v])

\* A sweep removes only what expired before it; its batch is not yet counted.
SweptExpired ==
  /\ sweepAt <= now
  /\ \A c \in swept : Expired(c, now)
  /\ batch \subseteq swept
  /\ \A e \in events : e.type = "expired" => e.by \cap batch = {}

\* All of it; every part needs the others to be preserved.
Inductive ==
  /\ TypeOK
  /\ OneTimeAccess
  /\ EventsHaveCause
  /\ Conservation
  /\ UniqueTokens
  /\ Protocol
  /\ ExpiryStamped
  /\ Matched
  /\ SweptExpired
=============================================================================
