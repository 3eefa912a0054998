----------------------------- MODULE ServerLife -----------------------------
(***************************************************************************)
(* The life of the process (cmd/server/main.go) around the log handler of  *)
(* DBLogger: start, requests and sweeps that hold database connections and *)
(* log, SIGTERM, srv.Shutdown with its timeout, and the deferred calls of  *)
(* main in their order, dbHandler.Stop and then pool.Close.  The end of    *)
(* the process, wherever it comes from, stops every goroutine.             *)
(*                                                                         *)
(* Loggers are the goroutines of requests, the cleanup worker and main,    *)
(* which is also the only caller of Stop.  The line of the goroutine that  *)
(* listens is like one of a request's; what main logs right before os.Exit *)
(* may die with the process and is left out.                               *)
(***************************************************************************)
EXTENDS DBLogger

CONSTANTS
  worker, main,
  MaxLogs       \* bound: log calls of a request goroutine or of the worker

\* LOG_LEVEL is info or debug; the calls of main, which makes four at most, and
\* the one of RecoverPanic have room in MaxCalls.
ASSUME LifeAssumption ==
  /\ {worker, main} \subseteq Loggers /\ worker # main /\ Stoppers = {main}
  /\ MinStdout <= 0
  /\ MaxLogs \in Nat /\ MaxLogs < MaxCalls /\ 4 <= MaxCalls

VARIABLES
  phase,      \* main: "starting", "connected", "serving", "shutdown", "late" (it
              \* timed out), "stopping" (in Stop), "close", "closing" (in
              \* pool.Close), "ended"
  exit,       \* how it ended: "no", "clean", "error", "panic"
  active,     \* goroutines with a request under way
  conns,      \* goroutines that hold a connection of the pool
  inserting,  \* the writer holds one
  sweeper,    \* the worker: "ticking", "sweeping", "failed", "returned"
  refused     \* history: records whose INSERT a closed pool refused

life == <<phase, exit, active, conns, inserting, sweeper, refused>>
lifeVars == <<vars, life>>

Handlers == Loggers \ {worker, main}
Running == phase # "ended"
Starting == phase \in {"starting", "connected"}     \* no goroutine but main's
Cancelled == ~Starting /\ phase # "serving"         \* ctx is done
PoolClosed == phase \in {"closing", "ended"}

MayLog(l) == calls[l] < MaxLogs

LifeInit ==
  /\ Init
  /\ phase = "starting" /\ exit = "no"
  /\ active = {} /\ conns = {} /\ inserting = FALSE
  /\ sweeper = "ticking"
  /\ refused = {}

End(how) == phase' = "ended" /\ exit' = how

-----------------------------------------------------------------------------
(* main *)

\* -print-config, or a failure to connect or to migrate.
StartFails ==
  /\ phase = "starting"
  /\ End("clean") \/ End("error")
  /\ UNCHANGED <<vars, active, conns, inserting, sweeper, refused>>

\* log.Info and log.Error of main.
Info  == MultiHandle(main, 0)
Error == MultiHandle(main, 8)

\* The pool and the log handler exist: "database connected".
Connect ==
  /\ phase = "starting"
  /\ phase' = "connected"
  /\ Info
  /\ UNCHANGED <<exit, active, conns, inserting, sweeper, refused>>

\* handler.New or NewAdminHandler fails: os.Exit(1), no deferred call runs.
SetupFails ==
  /\ phase = "connected" /\ pc[main] = "idle"
  /\ End("error")
  /\ UNCHANGED <<vars, active, conns, inserting, sweeper, refused>>

Start ==
  /\ phase = "connected" /\ pc[main] = "idle"
  /\ phase' = "serving"
  /\ UNCHANGED <<vars, exit, active, conns, inserting, sweeper, refused>>

\* ListenAndServe fails: os.Exit(1), which runs no deferred call.
ServerError ==
  /\ phase = "serving"
  /\ End("error")
  /\ UNCHANGED <<vars, active, conns, inserting, sweeper, refused>>

\* SIGTERM or SIGINT: ctx is cancelled, "shutting down" is logged, Shutdown
\* closes the listener.
Signal ==
  /\ phase = "serving"
  /\ phase' = "shutdown"
  /\ Info
  /\ UNCHANGED <<exit, active, conns, inserting, sweeper, refused>>

\* mutant: Stop is not deferred.
ShutdownWithoutStop ==
  /\ (phase = "shutdown" /\ active = {}) \/ phase = "late"
  /\ phase' = "close"
  /\ Info
  /\ UNCHANGED <<exit, active, conns, inserting, sweeper, refused>>

\* Every request has been answered, or Shutdown has given up; "server stopped"
\* is logged and main begins to return.
ShutdownDone ==
  /\ (phase = "shutdown" /\ active = {}) \/ phase = "late"
  /\ phase' = "stopping"
  /\ Info
  /\ UNCHANGED <<exit, active, conns, inserting, sweeper, refused>>

\* mutant: Shutdown gets a context without a timeout.
ShutdownForever == FALSE

\* Ten seconds are over, which is logged; requests still under way go on.
ShutdownTimeout ==
  /\ phase = "shutdown" /\ active # {}
  /\ phase' = "late"
  /\ Error
  /\ UNCHANGED <<exit, active, conns, inserting, sweeper, refused>>

\* The deferred dbHandler.Stop.
Stop ==
  /\ phase = "stopping" /\ pc[main] = "idle"
  /\ \/ (StopFirst(main) \/ StopClose(main)) /\ UNCHANGED phase
     \/ (StopDrained(main) \/ StopTimeout(main)) /\ phase' = "close"
  /\ UNCHANGED <<exit, active, conns, inserting, sweeper, refused>>

\* mutant: the two calls are deferred in the other order.
ClosePoolFirst ==
  /\ phase \in {"stopping", "close"}
  /\ phase' = "closing"
  /\ UNCHANGED <<vars, exit, active, conns, inserting, sweeper, refused>>

\* The deferred pool.Close: from now on Acquire fails.
ClosePool ==
  /\ phase = "close"
  /\ phase' = "closing"
  /\ UNCHANGED <<vars, exit, active, conns, inserting, sweeper, refused>>

\* It returns when every connection is back, and so does main.
Exit ==
  /\ phase = "closing" /\ conns = {} /\ ~inserting
  /\ End("clean")
  /\ UNCHANGED <<vars, active, conns, inserting, sweeper, refused>>

-----------------------------------------------------------------------------
(* Requests *)

Accept(h) ==
  /\ phase = "serving" /\ h \notin active
  /\ active' = active \cup {h}
  /\ UNCHANGED <<vars, phase, exit, conns, inserting, sweeper, refused>>

\* A statement of the repository or of the admin page begins and ends.
Query(h) ==
  /\ h \in active \ conns /\ pc[h] = "idle" /\ ~PoolClosed
  /\ conns' = conns \cup {h}
  /\ UNCHANGED <<vars, phase, exit, active, inserting, sweeper, refused>>

QueryDone(h) ==
  /\ h \in active \cap conns /\ Running
  /\ conns' = conns \ {h}
  /\ UNCHANGED <<vars, phase, exit, active, inserting, sweeper, refused>>

LogCall(h) ==
  /\ h \in active \ conns /\ MayLog(h) /\ Running
  /\ \E level \in Levels : MultiHandle(h, level)
  /\ UNCHANGED life

\* mutant: the handler returns with a result set still open.
RespondHolding(h) ==
  /\ h \in active /\ pc[h] = "idle" /\ Running
  /\ active' = active \ {h}
  /\ UNCHANGED <<vars, phase, exit, conns, inserting, sweeper, refused>>

Respond(h) ==
  /\ h \in active \ conns /\ pc[h] = "idle" /\ Running
  /\ active' = active \ {h}
  /\ UNCHANGED <<vars, phase, exit, conns, inserting, sweeper, refused>>

\* Middleware recovers a panic, logs it and answers 500.
RecoverPanic(h) ==
  /\ pc[h] = "panicked" /\ calls[h] < MaxCalls /\ Running
  /\ calls' = [calls EXCEPT ![h] = @ + 1]
  /\ pc' = [pc EXCEPT ![h] = "handle"]
  /\ UNCHANGED <<stopping, queue, writing, accepted, life>>

HandleStep(l) ==
  /\ Running
  /\ HandleCheck(l) \/ HandleRecheck(l) \/ HandleSend(l)
  /\ UNCHANGED life

-----------------------------------------------------------------------------
(* The cleanup worker *)

\* The ticker's case is chosen, also when ctx is done; CleanupExpired then
\* fails at once.
Sweep ==
  /\ sweeper = "ticking" /\ pc[worker] = "idle"
  /\ ~Starting /\ Running
  /\ IF Cancelled
       THEN sweeper' = "failed" /\ UNCHANGED conns
       ELSE sweeper' = "sweeping" /\ conns' = conns \cup {worker}
  /\ UNCHANGED <<vars, phase, exit, active, inserting, refused>>

SweepEnds ==
  /\ sweeper = "sweeping" /\ Running
  /\ sweeper' \in {"ticking", "failed"}
  /\ conns' = conns \ {worker}
  /\ UNCHANGED <<vars, phase, exit, active, inserting, refused>>

\* log.Warn("expired secret cleanup failed")
WarnSweep ==
  /\ sweeper = "failed" /\ MayLog(worker) /\ Running
  /\ MultiHandle(worker, 4)
  /\ sweeper' = "ticking"
  /\ UNCHANGED <<phase, exit, active, conns, inserting, refused>>

WorkerReturns ==
  /\ sweeper = "ticking" /\ Cancelled /\ pc[worker] = "idle" /\ Running
  /\ sweeper' = "returned"
  /\ UNCHANGED <<vars, phase, exit, active, conns, inserting, refused>>

\* Nothing recovers a panic of this goroutine: the process dies.
WorkerPanics ==
  /\ pc[worker] = "panicked" /\ Running
  /\ End("panic")
  /\ UNCHANGED <<vars, active, conns, inserting, sweeper, refused>>

-----------------------------------------------------------------------------
(* The writer of DBLogger and its connection *)

WriterStep ==
  /\ Running
  /\ Receive \/ WriterExit
  /\ UNCHANGED life

Acquire ==
  /\ writer = "insert" /\ ~inserting /\ ~PoolClosed
  /\ inserting' = TRUE
  /\ UNCHANGED <<vars, phase, exit, active, conns, sweeper, refused>>

InsertRow ==
  /\ inserting /\ Running
  /\ Insert
  /\ inserting' = FALSE
  /\ UNCHANGED <<phase, exit, active, conns, sweeper, refused>>

\* pool.Exec on a closed pool
InsertRefused ==
  /\ writer = "insert" /\ ~inserting /\ PoolClosed /\ Running
  /\ refused' = refused \cup {hand[1]}
  /\ attempted' = attempted \cup {hand[1]}
  /\ writer' = "recv" /\ hand' = <<>>
  /\ UNCHANGED <<calling, stopping, queue, app_logs, limbo,
                 accepted, phase, exit, active, conns, inserting, sweeper>>

\* The database does not care whether the process lives.
Late == LateCommit /\ UNCHANGED life

LifeNext ==
  \/ StartFails \/ Connect \/ SetupFails \/ Start \/ ServerError \/ Signal
  \/ ShutdownDone \/ ShutdownTimeout \/ Stop \/ ClosePool \/ Exit
  \/ \E h \in Handlers :
       Accept(h) \/ Query(h) \/ QueryDone(h) \/ LogCall(h) \/ Respond(h)
         \/ RecoverPanic(h)
  \/ \E l \in Loggers : HandleStep(l)
  \/ Sweep \/ SweepEnds \/ WarnSweep \/ WorkerReturns \/ WorkerPanics
  \/ WriterStep \/ Acquire \/ InsertRow \/ InsertRefused \/ Late

\* main goes on and its timers fire, statements end (the writer's by its own
\* timeout), the writer goes on.  Requests may take as long as they like.
LifeFairness ==
  /\ WF_lifeVars(ShutdownDone) /\ WF_lifeVars(ShutdownTimeout)
  /\ WF_lifeVars(HandleStep(main))
  /\ WF_lifeVars(Stop) /\ WF_lifeVars(ClosePool) /\ WF_lifeVars(Exit)
  /\ \A h \in Handlers : WF_lifeVars(QueryDone(h))
  /\ WF_lifeVars(SweepEnds)
  /\ WF_lifeVars(WriterStep) /\ WF_lifeVars(Acquire)
  /\ WF_lifeVars(InsertRow) /\ WF_lifeVars(InsertRefused)

LifeSpec == LifeInit /\ [][LifeNext]_lifeVars /\ LifeFairness

-----------------------------------------------------------------------------
(* Properties *)

\* Every variable has its type; only a request under way or a sweep holds a
\* connection, so that pool.Close does not wait for a goroutine that is gone.
LifeTypeOK ==
  /\ phase \in {"starting", "connected", "serving", "shutdown", "late", "stopping",
                "close", "closing", "ended"}
  /\ exit \in {"no", "clean", "error", "panic"} /\ (exit # "no") = ~Running
  /\ active \subseteq Handlers
  /\ conns \subseteq active \cup {worker}
  /\ worker \in conns <=> sweeper = "sweeping"
  /\ inserting \in BOOLEAN /\ (inserting => writer = "insert")
  /\ sweeper \in {"ticking", "sweeping", "failed", "returned"}
  /\ refused \subseteq attempted

\* "drain buffer on graceful shutdown": the pool is closed after the log has
\* been drained; the writer meets a closed pool only if Stop had given up.
DrainBeforeClose == refused # {} => spc[main] = "timedout"

\* A process that ends with status 0 leaves no log record behind: whatever the
\* channel ever accepted was offered to an open pool, unless Stop gave up.
CleanExitIsComplete ==
  exit = "clean" /\ spc[main] # "timedout" => attempted = accepted /\ refused = {}

\* Nothing but main logs before it serves, and nothing at all before it has
\* connected; main closes the pool, and returns, only after its Stop has
\* returned.
MainInOrder ==
  /\ phase = "starting" => accepted = {} /\ pc[main] = "idle"
  /\ Starting =>
       /\ active = {} /\ sweeper = "ticking"
       /\ \A l \in Loggers \ {main} : pc[l] = "idle"
  /\ phase \in {"close", "closing"} => spc[main] \in {"drained", "timedout"}
  /\ exit = "clean" => accepted = {} \/ spc[main] \in {"drained", "timedout"}

\* The inductive invariant of the proofs: what DBLogger keeps it keeps inside
\* the process, too, and main takes its steps in order.
LifeInductive == Inductive /\ LifeTypeOK /\ DrainBeforeClose /\ MainInOrder

\* SIGTERM ends the process, although a request may never be answered.
SignalEnds == (phase = "shutdown") ~> (phase = "ended")

\* Every record that the channel accepted is offered to an open pool, unless
\* Stop gave up waiting or the process died without running its deferred calls.
RecordsSurviveShutdown ==
  \A rec \in Records :
    (rec \in accepted) ~> \/ rec \in attempted \ refused
                          \/ spc[main] = "timedout"
                          \/ exit \in {"error", "panic"}
=============================================================================
