-------------------------- MODULE ServerLifeProofs --------------------------
(***************************************************************************)
(* Proofs about ServerLife: what the log handler promises survives its     *)
(* composition with requests, the cleanup worker, main and the pool, for   *)
(* any number of request goroutines, any buffer and any number of calls.   *)
(***************************************************************************)
EXTENDS ServerLife, DBLoggerProofs

\* Levels at which main and the worker log.
LEMMA OwnLevels == 0 \in Int /\ 4 \in Int /\ 8 \in Int
OBVIOUS

LEMMA Goroutines ==
  /\ worker \in Loggers /\ main \in Loggers /\ main \in Stoppers
  /\ worker \notin Handlers /\ main \notin Handlers /\ Handlers \subseteq Loggers
BY LifeAssumption DEF Handlers

\* Every step of the process is one of the log handler, or leaves it alone, or
\* is the log call of the recovered panic.
LEMMA LifeIsLogStep ==
  LifeNext => LogStep \/ \E h \in Handlers : RecoverPanic(h)
<1> SUFFICES ASSUME LifeNext PROVE LogStep \/ \E h \in Handlers : RecoverPanic(h)
  OBVIOUS
<1>1. CASE UNCHANGED vars
  BY <1>1 DEF LogStep
<1>2. CASE StartFails \/ SetupFails \/ Start \/ ServerError \/ ClosePool \/ Exit
  BY <1>1, <1>2 DEF StartFails, SetupFails, Start, ServerError, ClosePool, Exit
<1>3. CASE Connect \/ Signal \/ ShutdownDone \/ ShutdownTimeout
  BY <1>3, Goroutines, OwnLevels DEF Connect, Signal, ShutdownDone, ShutdownTimeout,
                                    Info, Error, LogStep
<1>4. CASE Stop
  BY <1>4, Goroutines DEF Stop, LogStep
<1>5. ASSUME NEW h \in Handlers, LogCall(h) PROVE LogStep
  <2>1. PICK level \in Levels : MultiHandle(h, level)
    BY <1>5 DEF LogCall
  <2>2. h \in Loggers /\ level \in Int
    BY Goroutines, LoggerAssumption
  <2> QED
    BY <2>1, <2>2 DEF LogStep
<1>6. ASSUME NEW h \in Handlers, Accept(h) \/ Query(h) \/ QueryDone(h) \/ Respond(h)
      PROVE  LogStep
  BY <1>6 DEF Accept, Query, QueryDone, Respond, LogStep
<1>7. ASSUME NEW l \in Loggers, HandleStep(l) PROVE LogStep
  BY <1>7 DEF HandleStep, LogStep
<1>8. CASE Sweep \/ SweepEnds \/ WorkerReturns \/ WorkerPanics \/ Acquire
  BY <1>1, <1>8 DEF Sweep, SweepEnds, WorkerReturns, WorkerPanics, Acquire
<1>9. CASE WarnSweep
  BY <1>9, Goroutines, OwnLevels DEF WarnSweep, LogStep
<1>10. CASE WriterStep \/ InsertRow \/ Late
  BY <1>10 DEF WriterStep, InsertRow, Late, LogStep
<1>11. CASE InsertRefused
  <2>1. Insert
    BY <1>11 DEF InsertRefused, Insert
  <2> QED
    BY <2>1 DEF LogStep
<1> QED
  BY <1>2, <1>3, <1>4, <1>5, <1>6, <1>7, <1>8, <1>9, <1>10, <1>11 DEF LifeNext

LEMMA RecoverPanicStep ==
  ASSUME Sound, NEW h \in Handlers, RecoverPanic(h)
  PROVE  Sound'
<1>0. h \in Loggers
  BY Goroutines
<1>1. calls[h] + 1 \in 1 .. MaxCalls /\ calls \in [Loggers -> 0 .. MaxCalls]
  BY <1>0, LoggerAssumption DEF Sound, TypeOK, RecoverPanic
<1>2. /\ calls' = [calls EXCEPT ![h] = @ + 1] /\ pc' = [pc EXCEPT ![h] = "handle"]
      /\ UNCHANGED <<stopping, queue, writing, accepted>>
  BY DEF RecoverPanic
<1>3. pc \in [Loggers -> {"idle", "handle", "built", "send", "panicked"}]
  BY DEF Sound, TypeOK
<1>4. /\ pc' \in [Loggers -> {"idle", "handle", "built", "send", "panicked"}]
      /\ \A k \in Loggers \ {h} : pc'[k] = pc[k]
  BY <1>0, <1>2, <1>3
<1>5. /\ calls' \in [Loggers -> 0 .. MaxCalls] /\ calls'[h] = calls[h] + 1
      /\ \A k \in Loggers \ {h} : calls'[k] = calls[k]
  BY <1>0, <1>1, <1>2, LoggerAssumption
<1> QED
  BY <1>0, <1>2, <1>4, <1>5, CallStep

LEMMA LogKept == Inductive /\ [LifeNext]_lifeVars => Inductive'
<1>1. [LifeNext]_lifeVars => LogStep \/ \E h \in Handlers : RecoverPanic(h)
  BY LifeIsLogStep DEF lifeVars, LogStep
<1> QED
  <2>1. ASSUME Inductive, NEW h \in Handlers, RecoverPanic(h) PROVE Inductive'
    <3>1. InOrder'
      BY <2>1 DEF RecoverPanic, writing, Inductive, InOrder
    <3> QED
      BY <2>1, <3>1, RecoverPanicStep DEF Inductive, Sound
  <2> QED
    BY <1>1, <2>1, InductiveStep

\* The log handler keeps its inductive invariant inside the process.
THEOREM LogSurvives == LifeSpec => []Inductive
<1>1. LifeInit => Inductive
  BY InductiveInit DEF LifeInit
<1> QED
  BY <1>1, LogKept, PTL DEF LifeSpec

-----------------------------------------------------------------------------
(* The process *)

LEMMA LifeTypeStep ==
  Inductive /\ LifeTypeOK /\ [LifeNext]_lifeVars => LifeTypeOK'
<1> SUFFICES ASSUME Inductive, LifeTypeOK, [LifeNext]_lifeVars PROVE LifeTypeOK'
  OBVIOUS
<1> USE DEF LifeTypeOK, Running
<1>1. CASE StartFails \/ SetupFails \/ Start \/ ServerError \/ ClosePool \/ Exit
            \/ WorkerPanics
  BY <1>1 DEF StartFails, SetupFails, Start, ServerError, ClosePool, Exit,
              WorkerPanics, End, vars, writing
<1>2. CASE Connect \/ Signal \/ ShutdownDone \/ ShutdownTimeout
  BY <1>2 DEF Connect, Signal, ShutdownDone, ShutdownTimeout, Info, Error, MultiHandle,
              writing
<1>3. CASE Stop
  BY <1>3 DEF Stop, StopFirst, StopClose, StopDrained, StopTimeout, writing
<1>4. ASSUME NEW h \in Handlers, LogCall(h) \/ RecoverPanic(h) PROVE LifeTypeOK'
  BY <1>4 DEF LogCall, RecoverPanic, MultiHandle, writing, life
<1>5. ASSUME NEW h \in Handlers, Accept(h) \/ Query(h) \/ QueryDone(h) \/ Respond(h)
      PROVE  LifeTypeOK'
  <2>1. h # worker
    BY Goroutines
  <2> QED
    BY <1>5, <2>1 DEF Accept, Query, QueryDone, Respond, vars, writing
<1>6. ASSUME NEW l \in Loggers, HandleStep(l) PROVE LifeTypeOK'
  BY <1>6 DEF HandleStep, HandleCheck, HandleRecheck, HandleSend, writing, life
<1>7. CASE Sweep \/ SweepEnds \/ WorkerReturns
  BY <1>7, Goroutines DEF Sweep, SweepEnds, WorkerReturns, vars, writing
<1>8. CASE WarnSweep
  BY <1>8 DEF WarnSweep, MultiHandle, writing
<1>9. CASE WriterStep
  BY <1>9 DEF WriterStep, Receive, WriterExit, life
<1>10. CASE Acquire
  BY <1>10 DEF Acquire, vars, writing
<1>11. CASE InsertRow \/ InsertRefused
  <2>1. inserting' = FALSE /\ UNCHANGED <<phase, exit, active, conns, sweeper>>
    BY <1>11 DEF InsertRow, InsertRefused
  <2>2. refused' \subseteq attempted'
    BY <1>11 DEF InsertRow, Insert, InsertRefused
  <2> QED
    BY <2>1, <2>2
<1>12. CASE Late
  BY <1>12 DEF Late, LateCommit, life
<1>13. CASE UNCHANGED lifeVars
  BY <1>13 DEF lifeVars, life, vars, writing
<1> QED
  BY <1>1, <1>2, <1>3, <1>4, <1>5, <1>6, <1>7, <1>8, <1>9, <1>10, <1>11, <1>12, <1>13
     DEF LifeNext

\* Refused INSERTs: the pool is closed under the writer only after Stop gave up.
LEMMA DrainStep ==
  LifeInductive /\ [LifeNext]_lifeVars => DrainBeforeClose'
<1> SUFFICES ASSUME LifeInductive, [LifeNext]_lifeVars PROVE DrainBeforeClose'
  OBVIOUS
<1>1. main \in Stoppers /\ spc \in [Stoppers -> {"idle", "closing", "waiting", "drained",
                                                  "timedout"}]
  BY Goroutines DEF LifeInductive, Inductive, TypeOK
<1>2. DrainBeforeClose
  BY DEF LifeInductive
<1>3. CASE UNCHANGED <<spc, refused>>
  BY <1>2, <1>3 DEF DrainBeforeClose
<1>4. CASE Stop
  <2>1. refused' = refused /\ spc[main] # "timedout"
    BY <1>4 DEF Stop, StopFirst, StopClose, StopDrained, StopTimeout
  <2> QED
    BY <1>2, <2>1 DEF DrainBeforeClose
<1>5. CASE InsertRefused
  <2>1. phase = "closing" /\ writer = "insert" /\ UNCHANGED spc
    BY <1>5 DEF InsertRefused, PoolClosed, Running, stopping
  <2>2. spc[main] = "timedout"
    BY <1>1, <2>1 DEF LifeInductive, MainInOrder, Inductive, Custody
  <2> QED
    BY <2>1, <2>2 DEF DrainBeforeClose
<1>6. CASE StartFails \/ SetupFails \/ Start \/ ServerError \/ ClosePool \/ Exit
            \/ WorkerPanics \/ Sweep \/ SweepEnds \/ WorkerReturns \/ Acquire
  BY <1>3, <1>6 DEF StartFails, SetupFails, Start, ServerError, ClosePool, Exit,
                    WorkerPanics, Sweep, SweepEnds, WorkerReturns, Acquire, vars, stopping
<1>7. CASE Connect \/ Signal \/ ShutdownDone \/ ShutdownTimeout \/ WarnSweep
  BY <1>3, <1>7 DEF Connect, Signal, ShutdownDone, ShutdownTimeout, WarnSweep, Info, Error,
                    MultiHandle, stopping
<1>8. ASSUME NEW h \in Handlers,
             Accept(h) \/ Query(h) \/ QueryDone(h) \/ LogCall(h) \/ Respond(h)
               \/ RecoverPanic(h)
      PROVE  UNCHANGED <<spc, refused>>
  BY <1>8 DEF Accept, Query, QueryDone, LogCall, Respond, RecoverPanic, MultiHandle, vars,
              stopping, life
<1>9. ASSUME NEW l \in Loggers, HandleStep(l) PROVE UNCHANGED <<spc, refused>>
  BY <1>9 DEF HandleStep, HandleCheck, HandleRecheck, HandleSend, stopping, life
<1>10. CASE WriterStep \/ InsertRow \/ Late \/ UNCHANGED lifeVars
  BY <1>3, <1>10 DEF WriterStep, Receive, WriterExit, InsertRow, Insert, Late, LateCommit,
                     stopping, life, lifeVars, vars
<1> QED
  BY <1>3, <1>4, <1>5, <1>6, <1>7, <1>8, <1>9, <1>10 DEF LifeNext

\* A step that leaves main where it is.
LEMMA OtherStep ==
  ASSUME MainInOrder, UNCHANGED <<phase, exit, spc>>,
         UNCHANGED accepted \/ exit # "clean",
         phase = "starting" => accepted' = accepted /\ pc'[main] = pc[main],
         Starting => /\ UNCHANGED <<active, sweeper>>
                     /\ \A l \in Loggers \ {main} : pc'[l] = pc[l]
  PROVE  MainInOrder'
BY DEF MainInOrder, Starting

LEMMA OrderStep == LifeInductive /\ [LifeNext]_lifeVars => MainInOrder'
<1> SUFFICES ASSUME LifeInductive, [LifeNext]_lifeVars PROVE MainInOrder'
  OBVIOUS
<1>1. main \in Stoppers /\ spc \in [Stoppers -> {"idle", "closing", "waiting", "drained",
                                                  "timedout"}]
  BY Goroutines DEF LifeInductive, Inductive, TypeOK
<1>2. MainInOrder /\ (Running => exit = "no")
  BY DEF LifeInductive, LifeTypeOK
<1>3. CASE SetupFails \/ Start \/ ServerError \/ WorkerPanics
  BY <1>2, <1>3 DEF SetupFails, Start, ServerError, WorkerPanics, End, Running, MainInOrder,
                    Starting
<1>4. CASE StartFails
  BY <1>2, <1>4 DEF StartFails, End, MainInOrder, Starting, vars
<1>5. CASE Connect \/ Signal \/ ShutdownDone \/ ShutdownTimeout
  <2>1. exit' = "no" /\ phase' \in {"connected", "shutdown", "stopping", "late"}
    BY <1>2, <1>5 DEF Connect, Signal, ShutdownDone, ShutdownTimeout, Running
  <2>2. CASE Connect
    <3>1. UNCHANGED <<active, sweeper>> /\ phase = "starting"
      BY <2>2 DEF Connect
    <3>2. \A l \in Loggers \ {main} : pc'[l] = "idle"
      <4>1. \E v \in {"idle", "handle"} : pc' = [pc EXCEPT ![main] = v]
        BY <2>2 DEF Connect, Info, MultiHandle
      <4>2. pc \in [Loggers -> {"idle", "handle", "built", "send", "panicked"}]
        BY DEF LifeInductive, Inductive, TypeOK
      <4> QED
        BY <1>2, <3>1, <4>1, <4>2 DEF MainInOrder, Starting
    <3> QED
      BY <1>2, <2>1, <2>2, <3>1, <3>2 DEF MainInOrder, Starting, Connect
  <2>3. CASE Signal \/ ShutdownDone \/ ShutdownTimeout
    BY <2>1, <2>3 DEF Signal, ShutdownDone, ShutdownTimeout, MainInOrder, Starting
  <2> QED
    BY <1>5, <2>2, <2>3
<1>6. CASE Stop
  <2>1. exit' = "no" /\ phase' \in {"stopping", "close"}
    BY <1>2, <1>6 DEF Stop, Running
  <2>2. phase' = "close" => spc'[main] \in {"drained", "timedout"}
    BY <1>1, <1>6 DEF Stop, StopDrained, StopTimeout
  <2> QED
    BY <2>1, <2>2 DEF MainInOrder, Starting
<1>7. CASE ClosePool
  BY <1>2, <1>7 DEF ClosePool, Running, MainInOrder, Starting, vars, stopping
<1>8. CASE Exit
  BY <1>2, <1>8 DEF Exit, End, MainInOrder, Starting, vars, stopping
<1>9. ASSUME NEW h \in Handlers,
             Accept(h) \/ Query(h) \/ QueryDone(h) \/ LogCall(h) \/ Respond(h)
      PROVE  MainInOrder'
  <2>1. UNCHANGED <<phase, exit, spc, accepted>>
    BY <1>9 DEF Accept, Query, QueryDone, LogCall, Respond, MultiHandle, vars, stopping, life
  <2>2. ~Starting
    BY <1>2, <1>9 DEF Accept, Query, QueryDone, LogCall, Respond, MainInOrder, Starting
  <2> QED
    BY <1>2, <2>1, <2>2, OtherStep DEF Starting
<1>10. ASSUME NEW h \in Handlers, RecoverPanic(h) PROVE MainInOrder'
  <2>1. UNCHANGED <<phase, exit, spc, accepted>>
    BY <1>10 DEF RecoverPanic, stopping, life
  <2>2. ~Starting
    BY <1>2, <1>10, Goroutines DEF RecoverPanic, MainInOrder
  <2> QED
    BY <1>2, <2>1, <2>2, OtherStep DEF Starting
<1>11. ASSUME NEW l \in Loggers, HandleStep(l) PROVE MainInOrder'
  <2>1. UNCHANGED <<phase, exit, spc>> /\ exit # "clean"
    BY <1>2, <1>11 DEF HandleStep, HandleCheck, HandleRecheck, HandleSend, stopping, life
  <2>2. pc[l] # "idle"
    BY <1>11 DEF HandleStep, HandleCheck, HandleRecheck, HandleSend
  <2>3. phase # "starting" /\ (Starting => l = main)
    BY <1>2, <2>2 DEF MainInOrder, Starting
  <2>4. UNCHANGED <<active, sweeper>> /\ \A k \in Loggers \ {l} : pc'[k] = pc[k]
    <3>1. pc \in [Loggers -> {"idle", "handle", "built", "send", "panicked"}]
      BY DEF LifeInductive, Inductive, TypeOK
    <3> QED
      BY <1>11, <3>1 DEF HandleStep, HandleCheck, HandleRecheck, HandleSend, life
  <2> QED
    BY <1>2, <2>1, <2>3, <2>4, OtherStep
<1>12. CASE Sweep \/ SweepEnds \/ WarnSweep \/ WorkerReturns
  <2>1. UNCHANGED <<phase, exit, spc, accepted>>
    BY <1>12 DEF Sweep, SweepEnds, WarnSweep, WorkerReturns, MultiHandle, vars, stopping
  <2>2. ~Starting
    BY <1>2, <1>12 DEF Sweep, SweepEnds, WarnSweep, WorkerReturns, Cancelled, MainInOrder
  <2> QED
    BY <1>2, <2>1, <2>2, OtherStep DEF Starting
<1>13. CASE WriterStep \/ Acquire \/ InsertRow \/ InsertRefused \/ Late \/ UNCHANGED lifeVars
  <2>1. UNCHANGED <<phase, exit, spc, accepted, active, sweeper, pc>>
    BY <1>13 DEF WriterStep, Receive, WriterExit, Acquire, InsertRow, Insert, InsertRefused,
                 Late, LateCommit, lifeVars, life, vars, stopping, calling
  <2> QED
    BY <1>2, <2>1, OtherStep
<1> QED
  BY <1>3, <1>4, <1>5, <1>6, <1>7, <1>8, <1>9, <1>10, <1>11, <1>12, <1>13 DEF LifeNext

LEMMA LifeInductiveStep == LifeInductive /\ [LifeNext]_lifeVars => LifeInductive'
BY LogKept, LifeTypeStep, DrainStep, OrderStep DEF LifeInductive

\* The inductive invariant that TLC checks holds for every instance.
THEOREM LifeInductiveHolds == LifeSpec => []LifeInductive
<1>1. LifeInit => LifeInductive
  <2> SUFFICES ASSUME LifeInit PROVE LifeInductive
    OBVIOUS
  <2>1. Inductive
    BY InductiveInit DEF LifeInit
  <2>2. LifeTypeOK /\ DrainBeforeClose
    BY DEF LifeInit, Init, LifeTypeOK, DrainBeforeClose, Running
  <2>3. MainInOrder
    BY Goroutines DEF LifeInit, Init, MainInOrder, Starting
  <2> QED
    BY <2>1, <2>2, <2>3 DEF LifeInductive
<1> QED
  BY <1>1, LifeInductiveStep, PTL DEF LifeSpec

\* LifeTypeOK: connections are held only by requests under way and by sweeps,
\* so that pool.Close never waits for a goroutine that is gone.
THEOREM LifeTypeCorrect == LifeSpec => []LifeTypeOK
<1>1. LifeInductive => LifeTypeOK
  BY DEF LifeInductive
<1> QED
  BY <1>1, LifeInductiveHolds, PTL

\* DrainBeforeClose: the order of main's deferred calls keeps the writer from
\* meeting a closed pool, unless Stop gave up waiting for it.
THEOREM DrainBeforeCloseHolds == LifeSpec => []DrainBeforeClose
<1>1. LifeInductive => DrainBeforeClose
  BY DEF LifeInductive
<1> QED
  BY <1>1, LifeInductiveHolds, PTL

\* CleanExitIsComplete: main's return, through srv.Shutdown, Stop and pool.Close,
\* leaves no accepted log record untried, unless Stop gave up waiting.
THEOREM CleanExitIsCompleteHolds == LifeSpec => []CleanExitIsComplete
<1>1. LifeInductive => CleanExitIsComplete
  <2> SUFFICES ASSUME LifeInductive, exit = "clean", spc[main] # "timedout"
               PROVE  attempted = accepted /\ refused = {}
    BY DEF CleanExitIsComplete
  <2>1. refused = {}
    BY DEF LifeInductive, DrainBeforeClose
  <2>2. CASE accepted = {}
    BY <2>1, <2>2 DEF LifeInductive, Inductive, Custody
  <2>3. CASE spc[main] = "drained"
    BY <2>1, <2>3, Goroutines, DrainedIsThrough DEF LifeInductive, DrainedOnDone
  <2> QED
    BY <2>2, <2>3 DEF LifeInductive, MainInOrder
<1> QED
  BY <1>1, LifeInductiveHolds, PTL

\* What DBLogger promises holds inside the process: records are stored at
\* most once, a Stop that reports a drained buffer has left none behind, and
\* wherever the process ends it loses no more than the end of a goroutine's log.
THEOREM LogPromisesSurvive ==
  LifeSpec => [](AtMostOnce /\ DrainedOnDone /\ OnlyTheTailIsLost)
<1>1. Inductive => AtMostOnce /\ DrainedOnDone /\ OnlyTheTailIsLost
  BY DrainedIsThrough, LostIsTail DEF Inductive, OnePlace, AtMostOnce, IsInjective
<1> QED
  BY <1>1, LogSurvives, PTL
=============================================================================
