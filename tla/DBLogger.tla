------------------------------ MODULE DBLogger ------------------------------
(***************************************************************************)
(* internal/logger: log calls of concurrent goroutines go through          *)
(* MultiHandler.Handle to stdout and to DBHandler.Handle, which queues the *)
(* record on a buffered channel; one writer goroutine inserts the queued   *)
(* records into app_logs; Stop, called at shutdown, closes the channel and *)
(* waits for the writer.  All handlers derived by WithAttrs and WithGroup  *)
(* share the channel, the stopped flag and the sync.Once modelled here.    *)
(*                                                                         *)
(* A behaviour may be cut off anywhere by the end of the process; the      *)
(* safety properties hold of every prefix.  Attributes are left out.       *)
(***************************************************************************)
EXTENDS Integers, Sequences, Functions

CONSTANTS
  Loggers,     \* goroutines that log
  Stoppers,    \* callers of Stop, on the handler or on one derived from it
  Levels,      \* levels of the records logged
  MinStdout,   \* level of the JSON handler (LOG_LEVEL)
  MinDB,       \* DBHandler.minLevel (LOG_DB_MIN_LEVEL)
  bufferSize,  \* capacity of the channel
  MaxCalls     \* bound: log calls per goroutine

ASSUME LoggerAssumption ==
  /\ Levels \subseteq Int /\ MinStdout \in Int /\ MinDB \in Int
  /\ bufferSize \in Nat \ {0}
  /\ MaxCalls \in Nat

Records == [by : Loggers, n : 1 .. MaxCalls]   \* the n-th call of a goroutine

VARIABLES
  pc,        \* per logger: where it is in DBHandler.Handle, or "idle"
  calls,     \* per logger: how many calls it has made
  stopped,   \* sharedStop.stopped
  once,      \* sharedStop.once: "fresh", "running", "done"
  closed,    \* ss.ch is closed
  queue,     \* the records in ss.ch
  spc,       \* per stopper: where it is in Stop
  writer,    \* the goroutine run: "recv", "insert", "done" (ss.done closed)
  hand,      \* the record it is inserting (a sequence of at most one)
  app_logs,  \* the table, in the order of its ids
  limbo,     \* INSERTs given up by the writer that may still commit
  accepted,  \* history: records the channel accepted
  attempted  \* history: records whose INSERT the writer is through with

calling  == <<pc, calls>>
stopping == <<stopped, once, closed, spc>>
writing  == <<writer, hand, app_logs, limbo, attempted>>
vars == <<calling, stopping, queue, writing, accepted>>

Current(l) == [by |-> l, n |-> calls[l]]

Init ==
  /\ pc = [l \in Loggers |-> "idle"]
  /\ calls = [l \in Loggers |-> 0]
  /\ stopped = FALSE /\ once = "fresh" /\ closed = FALSE
  /\ queue = <<>>
  /\ spc = [s \in Stoppers |-> "idle"]
  /\ writer = "recv" /\ hand = <<>>
  /\ app_logs = <<>> /\ limbo = {}
  /\ accepted = {} /\ attempted = {}

-----------------------------------------------------------------------------
(* A log call *)

\* slog asks Enabled and calls MultiHandler.Handle: each enabled handler gets
\* the record; what the JSON handler writes to stdout is left out.
MultiHandle(l, level) ==
  /\ pc[l] = "idle" /\ calls[l] < MaxCalls
  /\ level >= MinStdout \/ level >= MinDB
  /\ calls' = [calls EXCEPT ![l] = @ + 1]
  /\ pc' = [pc EXCEPT ![l] = IF level >= MinDB THEN "handle" ELSE @]
  /\ UNCHANGED <<stopping, queue, writing, accepted>>

\* First check of stopped, then the record is built.
HandleCheck(l) ==
  /\ pc[l] = "handle"
  /\ pc' = [pc EXCEPT ![l] = IF stopped THEN "idle" ELSE "built"]
  /\ UNCHANGED <<calls, stopping, queue, writing, accepted>>

\* Second check, right before the send.
HandleRecheck(l) ==
  /\ pc[l] = "built"
  /\ pc' = [pc EXCEPT ![l] = IF stopped THEN "idle" ELSE "send"]
  /\ UNCHANGED <<calls, stopping, queue, writing, accepted>>

\* mutants: one record too many in the buffer; a plain send without default.
HandleSendOver(l) ==
  /\ pc[l] = "send"
  /\ pc' = [pc EXCEPT ![l] = IF closed THEN "panicked" ELSE "idle"]
  /\ IF ~closed /\ Len(queue) <= bufferSize
       THEN /\ queue' = Append(queue, Current(l))
            /\ accepted' = accepted \cup {Current(l)}
       ELSE UNCHANGED <<queue, accepted>>
  /\ UNCHANGED <<calls, stopping, writing>>

HandleSendBlocking(l) ==
  /\ pc[l] = "send"
  /\ closed \/ Len(queue) < bufferSize
  /\ pc' = [pc EXCEPT ![l] = IF closed THEN "panicked" ELSE "idle"]
  /\ IF ~closed
       THEN /\ queue' = Append(queue, Current(l))
            /\ accepted' = accepted \cup {Current(l)}
       ELSE UNCHANGED <<queue, accepted>>
  /\ UNCHANGED <<calls, stopping, writing>>

\* select { case ch <- rec: default: }.  A send on a closed channel panics,
\* also in a select; a full buffer drops the record.
HandleSend(l) ==
  /\ pc[l] = "send"
  /\ pc' = [pc EXCEPT ![l] = IF closed THEN "panicked" ELSE "idle"]
  /\ IF ~closed /\ Len(queue) < bufferSize
       THEN /\ queue' = Append(queue, Current(l))
            /\ accepted' = accepted \cup {Current(l)}
       ELSE UNCHANGED <<queue, accepted>>
  /\ UNCHANGED <<calls, stopping, writing>>

-----------------------------------------------------------------------------
(* Stop *)

\* once.Do: the first caller runs the function, the others wait for its end.
StopFirst(s) ==
  /\ spc[s] = "idle" /\ once = "fresh"
  /\ once' = "running"
  /\ stopped' = TRUE
  /\ spc' = [spc EXCEPT ![s] = "closing"]
  /\ UNCHANGED <<calling, closed, queue, writing, accepted>>

\* mutant: the channel is not closed.
StopWithoutClose(s) ==
  /\ spc[s] = "closing"
  /\ once' = "done"
  /\ spc' = [spc EXCEPT ![s] = "waiting"]
  /\ UNCHANGED <<calling, stopped, closed, queue, writing, accepted>>

StopClose(s) ==
  /\ spc[s] = "closing"
  /\ closed' = TRUE
  /\ once' = "done"
  /\ spc' = [spc EXCEPT ![s] = "waiting"]
  /\ UNCHANGED <<calling, stopped, queue, writing, accepted>>

StopAgain(s) ==
  /\ spc[s] = "idle" /\ once = "done"
  /\ spc' = [spc EXCEPT ![s] = "waiting"]
  /\ UNCHANGED <<calling, stopped, once, closed, queue, writing, accepted>>

\* The writer's end arrives before drainTimeout.
StopDrained(s) ==
  /\ spc[s] = "waiting" /\ writer = "done"
  /\ spc' = [spc EXCEPT ![s] = "drained"]
  /\ UNCHANGED <<calling, stopped, once, closed, queue, writing, accepted>>

StopTimeout(s) ==
  /\ spc[s] = "waiting"
  /\ spc' = [spc EXCEPT ![s] = "timedout"]
  /\ UNCHANGED <<calling, stopped, once, closed, queue, writing, accepted>>

-----------------------------------------------------------------------------
(* The writer goroutine *)

\* for rec := range h.ss.ch
Receive ==
  /\ writer = "recv" /\ queue # <<>>
  /\ writer' = "insert"
  /\ hand' = <<Head(queue)>>
  /\ queue' = Tail(queue)
  /\ UNCHANGED <<calling, stopping, app_logs, limbo, accepted, attempted>>

\* mutant: an INSERT whose outcome is unknown is tried again.
InsertRetry ==
  /\ writer = "insert"
  /\ \/ /\ app_logs' = app_logs \o hand
        /\ attempted' = attempted \cup {hand[1]}
        /\ writer' = "recv" /\ hand' = <<>>
        /\ UNCHANGED limbo
     \/ /\ limbo' = limbo \cup {hand[1]}
        /\ UNCHANGED <<app_logs, attempted, writer, hand>>
  /\ UNCHANGED <<calling, stopping, queue, accepted>>

\* mutant: a record whose INSERT failed goes to the end of the queue.
InsertRequeue ==
  /\ writer = "insert"
  /\ \/ /\ app_logs' = app_logs \o hand
        /\ attempted' = attempted \cup {hand[1]}
        /\ UNCHANGED queue
     \/ /\ ~closed /\ Len(queue) < bufferSize
        /\ queue' = Append(queue, hand[1])
        /\ UNCHANGED <<app_logs, attempted>>
  /\ writer' = "recv" /\ hand' = <<>>
  /\ UNCHANGED <<calling, stopping, limbo, accepted>>

\* insert: the row is stored, or is not, or the 3 s timeout strikes and nobody
\* knows.  The result is ignored and the loop goes on.
Insert ==
  /\ writer = "insert"
  /\ \/ app_logs' = app_logs \o hand /\ UNCHANGED limbo
     \/ UNCHANGED <<app_logs, limbo>>
     \/ limbo' = limbo \cup {hand[1]} /\ UNCHANGED app_logs
  /\ attempted' = attempted \cup {hand[1]}
  /\ writer' = "recv" /\ hand' = <<>>
  /\ UNCHANGED <<calling, stopping, queue, accepted>>

\* The database commits an INSERT after the writer gave up on it.
LateCommit ==
  \E rec \in limbo :
    /\ app_logs' = Append(app_logs, rec)
    /\ limbo' = limbo \ {rec}
    /\ UNCHANGED <<calling, stopping, queue, writer, hand, attempted, accepted>>

\* mutant: run looks at the flag instead of ranging over the channel.
WriterExitOnFlag ==
  /\ writer = "recv" /\ stopped
  /\ writer' = "done"
  /\ UNCHANGED <<calling, stopping, queue, hand, app_logs, limbo, attempted, accepted>>

\* The channel is closed and empty: run returns and closes done.
WriterExit ==
  /\ writer = "recv" /\ queue = <<>> /\ closed
  /\ writer' = "done"
  /\ UNCHANGED <<calling, stopping, queue, hand, app_logs, limbo, attempted, accepted>>

Next ==
  \/ \E l \in Loggers :
       \/ \E level \in Levels : MultiHandle(l, level)
       \/ HandleCheck(l) \/ HandleRecheck(l) \/ HandleSend(l)
  \/ \E s \in Stoppers :
       StopFirst(s) \/ StopClose(s) \/ StopAgain(s) \/ StopDrained(s)
         \/ StopTimeout(s)
  \/ Receive \/ Insert \/ LateCommit \/ WriterExit

Spec == Init /\ [][Next]_vars

\* The writer keeps running (an INSERT ends by its 3 s timeout at the latest),
\* and a Stop that has set the flag goes on to close the channel.
WriterFairness ==
  /\ WF_vars(Receive) /\ WF_vars(Insert) /\ WF_vars(WriterExit)
  /\ \A s \in Stoppers : WF_vars(StopClose(s))

WriterSpec == Spec /\ WriterFairness

-----------------------------------------------------------------------------
(* Properties *)

\* Every variable has its type; the queue never exceeds the buffer.
TypeOK ==
  /\ pc \in [Loggers -> {"idle", "handle", "built", "send", "panicked"}]
  /\ calls \in [Loggers -> 0 .. MaxCalls]
  /\ stopped \in BOOLEAN /\ closed \in BOOLEAN
  /\ once \in {"fresh", "running", "done"}
  /\ queue \in Seq(Records) /\ Len(queue) <= bufferSize
  /\ spc \in [Stoppers -> {"idle", "closing", "waiting", "drained", "timedout"}]
  /\ writer \in {"recv", "insert", "done"}
  /\ hand \in Seq(Records) /\ Len(hand) <= 1
  /\ app_logs \in Seq(Records)
  /\ limbo \subseteq Records
  /\ accepted \subseteq Records /\ attempted \subseteq Records

\* "Call Stop() on graceful shutdown to drain the buffer": when a Stop returns
\* because the writer is done, every record that was ever accepted has been
\* tried, and no goroutine, however late, can add another one.
DrainedOnDone ==
  (\E s \in Stoppers : spc[s] = "drained") => attempted = accepted

\* A record reaches app_logs at most once, however inserts time out.
AtMostOnce ==
  \A i, j \in DOMAIN app_logs : app_logs[i] = app_logs[j] => i = j

\* When the process dies or Stop gives up waiting, the accepted records that
\* were never offered to the database are the end of each goroutine's log: none
\* was passed over for a later one.  (An INSERT that was tried may have failed.)
OnlyTheTailIsLost ==
  \A tried \in attempted, left \in accepted \ attempted :
    tried.by = left.by => tried.n < left.n

\* What the channel accepted is queued, in the writer's hand or through; run
\* ends when all is through and nothing more can come, and Stop reports a
\* drained buffer only then.
Custody ==
  /\ accepted = attempted \cup Range(queue) \cup Range(hand)
  /\ writer = "insert" <=> hand # <<>>
  /\ writer = "done" => closed /\ queue = <<>>
  /\ \A s \in Stoppers : spc[s] = "drained" => writer = "done"

\* A record is in one place: the queue, the writer's hand, or through, and
\* then in the table or in limbo but not in both.
OnePlace ==
  /\ IsInjective(queue) /\ IsInjective(app_logs)
  /\ (attempted \cup Range(hand)) \cap Range(queue) = {}
  /\ attempted \cap Range(hand) = {}
  /\ Range(app_logs) \cup limbo \subseteq attempted
  /\ Range(app_logs) \cap limbo = {}

\* A goroutine inside Handle has a record of its own that no one has seen.
Fresh ==
  /\ \A l \in Loggers :
       pc[l] \in {"handle", "built", "send"} => calls[l] > 0 /\ Current(l) \notin accepted
  /\ \A rec \in accepted : rec.n <= calls[rec.by]

\* Records of one goroutine keep their order on the way through the channel
\* and the writer's hand.
InOrder ==
  /\ \A i, j \in DOMAIN queue :
       i < j /\ queue[i].by = queue[j].by => queue[i].n < queue[j].n
  /\ \A a \in attempted \cup Range(hand), b \in Range(queue) :
       a.by = b.by => a.n < b.n
  /\ \A a \in attempted, b \in Range(hand) : a.by = b.by => a.n < b.n

\* The inductive invariant of the proofs: where every log record is, whatever
\* Handle, Stop, the writer goroutine and the database do to each other.
Inductive == TypeOK /\ Custody /\ OnePlace /\ Fresh /\ InOrder

\* "Check stopped BEFORE any channel send to avoid send-on-closed-channel
\* panic": no log call panics.
NoSendOnClosed == \A l \in Loggers : pc[l] # "panicked"

\* "It never blocks the caller": a goroutine inside Handle can always take its
\* next step, wherever the writer, the database and Stop are.
CallersNeverBlock ==
  \A l \in Loggers :
    pc[l] \in {"handle", "built", "send"} =>
      ENABLED (HandleCheck(l) \/ HandleRecheck(l) \/ HandleSend(l))

\* Stop ends the writer goroutine, once the buffer is drained.
StopEndsWriter == stopped ~> (writer = "done")

\* Accepted records are tried eventually, whoever stops the handler meanwhile.
AcceptedIsAttempted ==
  \A rec \in Records : (rec \in accepted) ~> (rec \in attempted)
=============================================================================
