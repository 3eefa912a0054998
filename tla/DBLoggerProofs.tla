--------------------------- MODULE DBLoggerProofs ---------------------------
(***************************************************************************)
(* Proofs about DBLogger, for any number of goroutines that log or stop,   *)
(* any levels, any buffer and any number of calls.                         *)
(***************************************************************************)
EXTENDS DBLogger, SequenceTheorems, TLAPS

-----------------------------------------------------------------------------
(* What is in a sequence *)

LEMMA RangeOne ==
  ASSUME NEW x
  PROVE  Range(<<x>>) = {x} /\ Range(<<>>) = {} /\ IsInjective(<<>>)
BY DEF Range, IsInjective

LEMMA RangeAppend ==
  ASSUME NEW S, NEW s \in Seq(S), NEW x \in S
  PROVE  /\ Append(s, x) \in Seq(S) /\ Len(Append(s, x)) = Len(s) + 1
         /\ Range(Append(s, x)) = Range(s) \cup {x}
         /\ IsInjective(s) /\ x \notin Range(s) => IsInjective(Append(s, x))
<1> DEFINE t == Append(s, x)
           n == Len(s)
<1>1. /\ t \in Seq(S) /\ n \in Nat /\ Len(t) = n + 1
      /\ DOMAIN s = 1 .. n /\ DOMAIN t = 1 .. n + 1
      /\ t[n + 1] = x /\ \A i \in 1 .. n : t[i] = s[i]
  BY AppendProperties, LenProperties
<1> HIDE DEF t, n
<1>2. \A i \in 1 .. n + 1 : i \in 1 .. n \/ i = n + 1
  BY <1>1
<1>3. \A i \in 1 .. n : i \in 1 .. n + 1 /\ i # n + 1
  BY <1>1
<1>4. n + 1 \in 1 .. n + 1
  BY <1>1
<1>5. Range(t) = Range(s) \cup {x}
  BY <1>1, <1>2, <1>3, <1>4 DEF Range
<1>6. ASSUME IsInjective(s), x \notin Range(s) PROVE IsInjective(t)
  BY <1>1, <1>2, <1>3, <1>6 DEF Range, IsInjective
<1> QED
  BY <1>1, <1>5, <1>6 DEF t, n

LEMMA RangeHead ==
  ASSUME NEW S, NEW s \in Seq(S), s # <<>>
  PROVE  /\ Head(s) \in S /\ Tail(s) \in Seq(S) /\ Len(Tail(s)) = Len(s) - 1
         /\ Range(s) = {Head(s)} \cup Range(Tail(s))
         /\ IsInjective(s) => IsInjective(Tail(s)) /\ Head(s) \notin Range(Tail(s))
<1> DEFINE t == Tail(s)
           n == Len(t)
<1>1. /\ t \in Seq(S) /\ n \in Nat /\ Len(s) = n + 1
      /\ DOMAIN s = 1 .. n + 1 /\ DOMAIN t = 1 .. n
      /\ s[1] = Head(s) /\ \A i \in 1 .. n : t[i] = s[i + 1]
  BY HeadTailProperties, LenProperties
<1>2. 1 \in 1 .. n + 1 /\ \A i \in 1 .. n : i + 1 \in 1 .. n + 1 /\ i + 1 # 1
  BY <1>1
<1>3. \A i \in 1 .. n + 1 : i = 1 \/ (i - 1 \in 1 .. n /\ (i - 1) + 1 = i)
  BY <1>1
<1>4. Head(s) \in S
  BY <1>1, <1>2, ElementOfSeq
<1> HIDE DEF t, n
<1>5. Range(s) = {Head(s)} \cup Range(t)
  <2>1. ASSUME NEW i \in 1 .. n + 1 PROVE s[i] \in {Head(s)} \cup Range(t)
    <3>1. CASE i = 1
      BY <1>1, <3>1
    <3>2. CASE i # 1
      <4>1. i - 1 \in 1 .. n /\ t[i - 1] = s[i]
        BY <1>1, <1>3, <3>2
      <4> QED
        BY <1>1, <4>1 DEF Range
    <3> QED
      BY <3>1, <3>2
  <2>2. ASSUME NEW i \in 1 .. n PROVE t[i] \in Range(s)
    BY <1>1, <1>2 DEF Range
  <2>3. Head(s) \in Range(s)
    BY <1>1, <1>2 DEF Range
  <2> QED
    BY <1>1, <2>1, <2>2, <2>3 DEF Range
<1>6. ASSUME IsInjective(s) PROVE IsInjective(t) /\ Head(s) \notin Range(t)
  <2>1. ASSUME NEW i \in 1 .. n, NEW j \in 1 .. n, t[i] = t[j] PROVE i = j
    <3>1. i + 1 = j + 1
      BY <1>1, <1>2, <1>6, <2>1 DEF IsInjective
    <3> QED
      BY <1>1, <3>1
  <2>2. ASSUME NEW i \in 1 .. n PROVE t[i] # Head(s)
    BY <1>1, <1>2, <1>6 DEF IsInjective
  <2> QED
    BY <1>1, <2>1, <2>2 DEF Range, IsInjective
<1>7. Len(t) = Len(s) - 1
  BY <1>1 DEF n
<1> QED
  BY <1>1, <1>4, <1>5, <1>6, <1>7 DEF t

-----------------------------------------------------------------------------
(* The inductive invariant *)

\* What the goroutines of internal/logger may do, at any level of the record.
LogStep ==
  \/ \E l \in Loggers :
       \/ \E level \in Int : MultiHandle(l, level)
       \/ HandleCheck(l) \/ HandleRecheck(l) \/ HandleSend(l)
  \/ \E s \in Stoppers :
       StopFirst(s) \/ StopClose(s) \/ StopAgain(s) \/ StopDrained(s)
         \/ StopTimeout(s)
  \/ Receive \/ Insert \/ LateCommit \/ WriterExit
  \/ UNCHANGED vars

LEMMA NextIsLogStep == [Next]_vars => LogStep
BY LoggerAssumption DEF Next, LogStep

\* All but the order of the records.
Sound == TypeOK /\ Custody /\ OnePlace /\ Fresh

LEMMA SoundInit == Init => Sound
<1> SUFFICES ASSUME Init PROVE Sound
  OBVIOUS
<1>1. Range(<<>>) = {} /\ IsInjective(<<>>)
  BY RangeOne
<1>2. TypeOK
  <2>1. <<>> \in Seq(Records) /\ Len(<<>>) = 0
    OBVIOUS
  <2>2. queue \in Seq(Records) /\ hand \in Seq(Records) /\ app_logs \in Seq(Records)
    BY <2>1 DEF Init
  <2>3. Len(queue) <= bufferSize /\ Len(hand) <= 1
    BY <2>1, LoggerAssumption DEF Init
  <2>4. calls \in [Loggers -> 0 .. MaxCalls]
    BY LoggerAssumption DEF Init
  <2> QED
    BY <2>2, <2>3, <2>4 DEF Init, TypeOK
<1>3. Custody /\ OnePlace /\ Fresh
  BY <1>1 DEF Init, Custody, OnePlace, Fresh
<1> QED
  BY <1>2, <1>3 DEF Sound

\* A goroutine that enters or leaves Handle without sending.
LEMMA CallStep ==
  ASSUME Sound, NEW l \in Loggers,
         UNCHANGED <<stopping, queue, writing, accepted>>,
         pc' \in [Loggers -> {"idle", "handle", "built", "send", "panicked"}],
         calls' \in [Loggers -> 0 .. MaxCalls],
         \A k \in Loggers \ {l} : pc'[k] = pc[k] /\ calls'[k] = calls[k],
         \/ calls'[l] = calls[l] + 1
         \/ calls'[l] = calls[l]
              /\ (pc[l] \in {"handle", "built", "send"} \/ pc'[l] \in {"idle", "panicked"})
  PROVE  Sound'
<1> USE DEF stopping, writing
<1>1. TypeOK'
  BY DEF Sound, TypeOK
<1>2. Custody' /\ OnePlace'
  BY DEF Sound, Custody, OnePlace
<1>3. Fresh'
  <2>1. \A k \in Loggers : calls[k] \in Nat /\ calls'[k] \in Nat /\ calls'[k] >= calls[k]
    <3>1. MaxCalls \in Nat /\ calls \in [Loggers -> 0 .. MaxCalls]
      BY LoggerAssumption DEF Sound, TypeOK
    <3>2. ASSUME NEW k \in Loggers PROVE calls[k] \in Nat /\ calls'[k] \in Nat
      BY <3>1
    <3>3. ASSUME NEW k \in Loggers PROVE calls'[k] = calls[k] \/ calls'[k] = calls[k] + 1
      BY Zenon
    <3> QED
      BY <3>2, <3>3
  <2>2. \A rec \in accepted : rec.by \in Loggers /\ rec.n \in Nat /\ rec.n <= calls[rec.by]
    BY DEF Sound, TypeOK, Fresh, Records
  <2>3. \A rec \in accepted' : rec.n <= calls'[rec.by]
    BY <2>1, <2>2
  <2>4. ASSUME NEW k \in Loggers, pc'[k] \in {"handle", "built", "send"}
        PROVE  calls'[k] > 0 /\ [by |-> k, n |-> calls'[k]] \notin accepted
    <3>1. CASE calls'[k] = calls[k] + 1
      BY <2>1, <2>2, <3>1
    <3>2. CASE calls'[k] = calls[k] /\ pc[k] \in {"handle", "built", "send"}
      BY <3>2 DEF Sound, Fresh, Current
    <3> QED
      BY <2>4, <3>1, <3>2
  <2> QED
    BY <2>3, <2>4 DEF Fresh, Current
<1> QED
  BY <1>1, <1>2, <1>3 DEF Sound

LEMMA MultiHandleStep ==
  ASSUME Sound, NEW l \in Loggers, NEW level \in Int, MultiHandle(l, level)
  PROVE  Sound'
<1>1. calls[l] + 1 \in 1 .. MaxCalls /\ calls \in [Loggers -> 0 .. MaxCalls]
  BY LoggerAssumption DEF Sound, TypeOK, MultiHandle
<1>2. /\ calls' = [calls EXCEPT ![l] = @ + 1]
      /\ \E v \in {"idle", "handle"} : pc' = [pc EXCEPT ![l] = v]
      /\ UNCHANGED <<stopping, queue, writing, accepted>>
  BY DEF MultiHandle
<1>3. pc \in [Loggers -> {"idle", "handle", "built", "send", "panicked"}]
  BY DEF Sound, TypeOK
<1>4. /\ pc' \in [Loggers -> {"idle", "handle", "built", "send", "panicked"}]
      /\ \A k \in Loggers \ {l} : pc'[k] = pc[k]
  BY <1>2, <1>3
<1>5. /\ calls' \in [Loggers -> 0 .. MaxCalls] /\ calls'[l] = calls[l] + 1
      /\ \A k \in Loggers \ {l} : calls'[k] = calls[k]
  BY <1>1, <1>2, LoggerAssumption
<1> QED
  BY <1>2, <1>4, <1>5, CallStep

LEMMA HandleCheckStep ==
  ASSUME Sound, NEW l \in Loggers, HandleCheck(l) \/ HandleRecheck(l)
  PROVE  Sound'
<1>1. /\ pc[l] \in {"handle", "built"}
      /\ \E v \in {"idle", "built", "send"} : pc' = [pc EXCEPT ![l] = v]
      /\ UNCHANGED <<calls, stopping, queue, writing, accepted>>
  BY DEF HandleCheck, HandleRecheck
<1>2. /\ pc \in [Loggers -> {"idle", "handle", "built", "send", "panicked"}]
      /\ calls \in [Loggers -> 0 .. MaxCalls]
  BY DEF Sound, TypeOK
<1>3. /\ pc' \in [Loggers -> {"idle", "handle", "built", "send", "panicked"}]
      /\ \A k \in Loggers \ {l} : pc'[k] = pc[k]
  BY <1>1, <1>2
<1> QED
  BY <1>1, <1>2, <1>3, CallStep

LEMMA HandleSendStep ==
  ASSUME Sound, NEW l \in Loggers, HandleSend(l)
  PROVE  Sound'
<1> DEFINE rec == Current(l)
<1> USE DEF stopping, writing
<1>1. /\ pc[l] = "send"
      /\ \E v \in {"idle", "panicked"} : pc' = [pc EXCEPT ![l] = v]
      /\ UNCHANGED <<calls, stopping, writing>>
  BY DEF HandleSend
<1>2. CASE UNCHANGED <<queue, accepted>>
  <2>1. /\ pc \in [Loggers -> {"idle", "handle", "built", "send", "panicked"}]
        /\ calls \in [Loggers -> 0 .. MaxCalls]
    BY DEF Sound, TypeOK
  <2>2. /\ pc' \in [Loggers -> {"idle", "handle", "built", "send", "panicked"}]
        /\ \A k \in Loggers \ {l} : pc'[k] = pc[k]
    BY <1>1, <2>1
  <2> QED
    BY <1>1, <1>2, <2>1, <2>2, CallStep
<1>3. CASE /\ ~closed /\ Len(queue) < bufferSize
           /\ queue' = Append(queue, rec) /\ accepted' = accepted \cup {rec}
           /\ pc' = [pc EXCEPT ![l] = "idle"]
  <2>1. rec \in Records /\ rec \notin accepted /\ rec.by = l /\ rec.n = calls[l]
    BY <1>1 DEF Sound, Fresh, TypeOK, Records, Current
  <2>2. /\ queue \in Seq(Records) /\ accepted \subseteq Records
        /\ pc \in [Loggers -> {"idle", "handle", "built", "send", "panicked"}]
        /\ calls \in [Loggers -> 0 .. MaxCalls]
    BY DEF Sound, TypeOK
  <2>3. accepted = attempted \cup Range(queue) \cup Range(hand)
    BY DEF Sound, Custody
  <2> HIDE DEF rec
  <2>4. /\ queue' \in Seq(Records) /\ Len(queue') = Len(queue) + 1
        /\ Range(queue') = Range(queue) \cup {rec}
        /\ IsInjective(queue) => IsInjective(queue')
    BY <1>3, <2>1, <2>2, <2>3, RangeAppend
  <2>5. TypeOK'
    <3>1. Len(queue') <= bufferSize
      BY <1>3, <2>2, <2>4, LenProperties, LoggerAssumption
    <3>2. accepted' \subseteq Records
      BY <1>3, <2>1, <2>2
    <3>3. pc' \in [Loggers -> {"idle", "handle", "built", "send", "panicked"}]
      BY <1>3, <2>2
    <3> QED
      BY <1>1, <2>4, <3>1, <3>2, <3>3 DEF Sound, TypeOK
  <2>6. Custody'
    <3>1. writer # "done"
      BY <1>3 DEF Sound, Custody
    <3> QED
      BY <1>1, <1>3, <2>3, <2>4, <3>1 DEF Sound, Custody
  <2>7. OnePlace'
    BY <1>1, <2>1, <2>3, <2>4 DEF Sound, OnePlace
  <2>8. Fresh'
    <3>1. ASSUME NEW k \in Loggers, pc'[k] \in {"handle", "built", "send"}
          PROVE  calls'[k] > 0 /\ [by |-> k, n |-> calls'[k]] \notin accepted'
      <4>1. k # l /\ pc'[k] = pc[k]
        BY <1>3, <2>2, <3>1
      <4> QED
        BY <1>1, <1>3, <2>1, <3>1, <4>1 DEF Sound, Fresh, Current
    <3>2. rec.n <= calls[rec.by]
      BY <2>1, <2>2
    <3> QED
      BY <1>1, <1>3, <3>1, <3>2 DEF Sound, Fresh, Current
  <2> QED
    BY <2>5, <2>6, <2>7, <2>8 DEF Sound
<1> QED
  BY <1>2, <1>3 DEF HandleSend

\* No step of Stop touches a record; only the end of the writer drains.
LEMMA StopStep ==
  ASSUME Sound, NEW s \in Stoppers,
         StopFirst(s) \/ StopClose(s) \/ StopAgain(s) \/ StopDrained(s) \/ StopTimeout(s)
  PROVE  Sound'
<1> USE DEF calling, writing
<1>1. UNCHANGED <<calling, queue, writing, accepted>>
  BY DEF StopFirst, StopClose, StopAgain, StopDrained, StopTimeout
<1>2. /\ closed => closed'
      /\ stopped' \in BOOLEAN /\ closed' \in BOOLEAN
      /\ once' \in {"fresh", "running", "done"}
  BY DEF Sound, TypeOK, StopFirst, StopClose, StopAgain, StopDrained, StopTimeout
<1>3. \/ \E v \in {"closing", "waiting", "timedout"} : spc' = [spc EXCEPT ![s] = v]
      \/ spc' = [spc EXCEPT ![s] = "drained"] /\ writer = "done"
  BY DEF StopFirst, StopClose, StopAgain, StopDrained, StopTimeout
<1>4. TypeOK'
  BY <1>1, <1>2, <1>3 DEF Sound, TypeOK
<1>5. Custody'
  <2>1. ASSUME NEW k \in Stoppers, spc'[k] = "drained" PROVE writer = "done"
    BY <1>3, <2>1 DEF Sound, TypeOK, Custody
  <2> QED
    BY <1>1, <1>2, <2>1 DEF Sound, Custody
<1>6. OnePlace' /\ Fresh'
  BY <1>1 DEF Sound, OnePlace, Fresh, Current
<1> QED
  BY <1>4, <1>5, <1>6 DEF Sound

LEMMA ReceiveStep == ASSUME Sound, Receive PROVE Sound'
<1> USE DEF calling, stopping
<1> DEFINE rec == Head(queue)
<1>1. /\ writer = "recv" /\ queue # <<>> /\ writer' = "insert" /\ hand' = <<rec>>
      /\ queue' = Tail(queue)
      /\ UNCHANGED <<calling, stopping, app_logs, limbo, accepted, attempted>>
  BY DEF Receive
<1>2. /\ queue \in Seq(Records) /\ hand = <<>> /\ Range(hand) = {}
  BY <1>1, RangeOne DEF Sound, TypeOK, Custody
<1>3. /\ rec \in Records /\ queue' \in Seq(Records) /\ Len(queue') = Len(queue) - 1
      /\ Range(queue) = {rec} \cup Range(queue')
      /\ IsInjective(queue) => IsInjective(queue') /\ rec \notin Range(queue')
  BY <1>1, <1>2, RangeHead
<1> HIDE DEF rec
<1>4. hand' \in Seq(Records) /\ Len(hand') = 1 /\ hand' # <<>> /\ Range(hand') = {rec}
  BY <1>1, <1>3, RangeOne
<1>5. TypeOK'
  <2>1. Len(queue') <= bufferSize
    BY <1>2, <1>3, LenProperties, LoggerAssumption DEF Sound, TypeOK
  <2> QED
    BY <1>1, <1>3, <1>4, <2>1 DEF Sound, TypeOK
<1>6. Custody'
  BY <1>1, <1>2, <1>3, <1>4 DEF Sound, Custody
<1>7. OnePlace'
  BY <1>1, <1>2, <1>3, <1>4 DEF Sound, OnePlace
<1>8. Fresh'
  BY <1>1 DEF Sound, Fresh, Current
<1> QED
  BY <1>5, <1>6, <1>7, <1>8 DEF Sound

LEMMA InsertStep == ASSUME Sound, Insert PROVE Sound'
<1> USE DEF calling, stopping
<1> DEFINE rec == hand[1]
<1>1. /\ writer = "insert" /\ writer' = "recv" /\ hand' = <<>>
      /\ attempted' = attempted \cup {rec}
      /\ UNCHANGED <<calling, stopping, queue, accepted>>
  BY DEF Insert
<1>2. /\ hand \in Seq(Records) /\ Len(hand) = 1 /\ rec \in Records /\ hand = <<rec>>
      /\ app_logs \in Seq(Records) /\ limbo \subseteq Records /\ attempted \subseteq Records
  <2>1. hand \in Seq(Records) /\ Len(hand) <= 1 /\ hand # <<>>
    BY <1>1 DEF Sound, TypeOK, Custody
  <2>2. Len(hand) = 1
    <3> DEFINE n == Len(hand)
    <3>1. n \in Nat /\ n # 0 /\ n <= 1
      BY <2>1, EmptySeq, LenProperties
    <3> HIDE DEF n
    <3>2. n = 1
      BY <3>1
    <3> QED
      BY <3>2 DEF n
  <2> QED
    BY <2>1, <2>2 DEF Sound, TypeOK
<1> HIDE DEF rec
<1>3. Range(hand) = {rec} /\ Range(hand') = {}
  BY <1>1, <1>2, RangeOne
<1>4. rec \notin attempted /\ rec \notin Range(app_logs) /\ rec \notin limbo
  BY <1>3 DEF Sound, OnePlace
<1>5. \/ /\ limbo' = limbo /\ app_logs' \in Seq(Records) /\ IsInjective(app_logs')
         /\ Range(app_logs') = Range(app_logs) \cup {rec}
      \/ /\ app_logs' = app_logs
         /\ limbo' = limbo \/ limbo' = limbo \cup {rec}
  <2>1. CASE app_logs' = app_logs \o hand /\ limbo' = limbo
    <3>1. app_logs \o <<rec>> = Append(app_logs, rec)
      BY <1>2
    <3>2. IsInjective(app_logs)
      BY DEF Sound, OnePlace
    <3>3. app_logs' = Append(app_logs, rec)
      BY <1>2, <2>1, <3>1
    <3>4. /\ Append(app_logs, rec) \in Seq(Records)
          /\ Range(Append(app_logs, rec)) = Range(app_logs) \cup {rec}
          /\ IsInjective(Append(app_logs, rec))
      BY <1>2, <1>4, <3>2, RangeAppend
    <3> QED
      BY <2>1, <3>3, <3>4
  <2> QED
    BY <2>1 DEF Insert, rec
<1>6. TypeOK'
  <2>1. app_logs' \in Seq(Records) /\ limbo' \subseteq Records
    BY <1>2, <1>5
  <2>2. attempted' \subseteq Records
    BY <1>1, <1>2
  <2>3. <<>> \in Seq(Records) /\ Len(<<>>) <= 1
    OBVIOUS
  <2> QED
    BY <1>1, <2>1, <2>2, <2>3 DEF Sound, TypeOK
<1>7. Custody'
  BY <1>1, <1>3 DEF Sound, Custody
<1>8. OnePlace'
  <2>1. IsInjective(queue') /\ IsInjective(app_logs')
    BY <1>1, <1>5 DEF Sound, OnePlace
  <2> QED
    BY <1>1, <1>3, <1>4, <1>5, <2>1 DEF Sound, OnePlace
<1>9. Fresh'
  BY <1>1 DEF Sound, Fresh, Current
<1> QED
  BY <1>6, <1>7, <1>8, <1>9 DEF Sound

LEMMA LateCommitStep == ASSUME Sound, LateCommit PROVE Sound'
<1> USE DEF calling, stopping
<1>1. PICK rec \in limbo :
        /\ app_logs' = Append(app_logs, rec)
        /\ limbo' = limbo \ {rec}
        /\ UNCHANGED <<calling, stopping, queue, writer, hand, attempted, accepted>>
  BY DEF LateCommit
<1>2. rec \in Records /\ app_logs \in Seq(Records) /\ rec \notin Range(app_logs)
      /\ IsInjective(app_logs)
  BY DEF Sound, TypeOK, OnePlace
<1>3. /\ app_logs' \in Seq(Records) /\ IsInjective(app_logs')
      /\ Range(app_logs') = Range(app_logs) \cup {rec}
  BY <1>1, <1>2, RangeAppend
<1>4. TypeOK'
  BY <1>1, <1>3 DEF Sound, TypeOK
<1>5. Custody' /\ Fresh'
  BY <1>1 DEF Sound, Custody, Fresh, Current
<1>6. OnePlace'
  BY <1>1, <1>3 DEF Sound, OnePlace
<1> QED
  BY <1>4, <1>5, <1>6 DEF Sound

LEMMA WriterExitStep == ASSUME Sound, WriterExit PROVE Sound'
BY DEF Sound, TypeOK, Custody, OnePlace, Fresh, Current, WriterExit, calling, stopping

LEMMA SoundStep == Sound /\ LogStep => Sound'
<1> SUFFICES ASSUME Sound, LogStep PROVE Sound'
  OBVIOUS
<1>1. CASE UNCHANGED vars
  BY <1>1 DEF Sound, TypeOK, Custody, OnePlace, Fresh, Current, vars, calling,
              stopping, writing
<1> QED
  BY <1>1, MultiHandleStep, HandleCheckStep, HandleSendStep, StopStep, ReceiveStep,
     InsertStep, LateCommitStep, WriterExitStep DEF LogStep

-----------------------------------------------------------------------------
(* The order of the records *)

\* What orders two records of one goroutine.
LEMMA SeqOrderAppend ==
  ASSUME NEW s \in Seq(Records), NEW x \in Records,
         \A i, j \in DOMAIN s : i < j /\ s[i].by = s[j].by => s[i].n < s[j].n,
         \A a \in Range(s) : a.by = x.by => a.n < x.n
  PROVE  LET t == Append(s, x) IN
         \A i, j \in DOMAIN t : i < j /\ t[i].by = t[j].by => t[i].n < t[j].n
<1> DEFINE t == Append(s, x)
           n == Len(s)
<1>1. /\ n \in Nat /\ DOMAIN s = 1 .. n /\ DOMAIN t = 1 .. n + 1
      /\ t[n + 1] = x /\ \A i \in 1 .. n : t[i] = s[i]
  BY AppendProperties, LenProperties
<1> HIDE DEF t, n
<1>2. ASSUME NEW i \in 1 .. n + 1, NEW j \in 1 .. n + 1, i < j, t[i].by = t[j].by
      PROVE  t[i].n < t[j].n
  <2>1. i \in 1 .. n /\ (j \in 1 .. n \/ j = n + 1)
    BY <1>1, <1>2
  <2>2. CASE j \in 1 .. n
    BY <1>1, <1>2, <2>1, <2>2
  <2>3. CASE j = n + 1
    <3>1. t[i] \in Range(s) /\ t[j] = x
      BY <1>1, <2>1, <2>3 DEF Range
    <3> QED
      BY <1>2, <3>1
  <2> QED
    BY <2>1, <2>2, <2>3
<1> QED
  BY <1>1, <1>2 DEF t

LEMMA SeqOrderTail ==
  ASSUME NEW s \in Seq(Records), s # <<>>,
         \A i, j \in DOMAIN s : i < j /\ s[i].by = s[j].by => s[i].n < s[j].n
  PROVE  LET t == Tail(s) IN
         /\ \A i, j \in DOMAIN t : i < j /\ t[i].by = t[j].by => t[i].n < t[j].n
         /\ \A b \in Range(t) : Head(s).by = b.by => Head(s).n < b.n
<1> DEFINE t == Tail(s)
           n == Len(t)
<1>1. /\ n \in Nat /\ DOMAIN s = 1 .. n + 1 /\ DOMAIN t = 1 .. n
      /\ s[1] = Head(s) /\ \A i \in 1 .. n : t[i] = s[i + 1]
  BY HeadTailProperties, LenProperties
<1> HIDE DEF t, n
<1>2. ASSUME NEW i \in 1 .. n, NEW j \in 1 .. n, i < j, t[i].by = t[j].by
      PROVE  t[i].n < t[j].n
  <2>1. i + 1 \in 1 .. n + 1 /\ j + 1 \in 1 .. n + 1 /\ i + 1 < j + 1
    BY <1>1, <1>2
  <2> QED
    BY <1>1, <1>2, <2>1
<1>3. ASSUME NEW j \in 1 .. n, Head(s).by = t[j].by PROVE Head(s).n < t[j].n
  <2>1. 1 \in 1 .. n + 1 /\ j + 1 \in 1 .. n + 1 /\ 1 < j + 1
    BY <1>1
  <2> QED
    BY <1>1, <1>3, <2>1
<1> QED
  BY <1>1, <1>2, <1>3 DEF Range, t

\* The record a goroutine sends is later than all it sent before.
LEMMA SendInOrder ==
  ASSUME Sound, InOrder, NEW l \in Loggers, HandleSend(l)
  PROVE  InOrder'
<1> DEFINE rec == Current(l)
<1>1. CASE UNCHANGED queue
  BY <1>1 DEF HandleSend, writing, InOrder
<1>2. CASE queue' = Append(queue, rec) /\ UNCHANGED writing
  <2>1. rec \in Records /\ rec \notin accepted /\ rec.by = l /\ rec.n = calls[l]
    BY DEF HandleSend, Sound, Fresh, TypeOK, Records, Current
  <2>2. ASSUME NEW a \in accepted, a.by = rec.by PROVE a.n < rec.n
    <3>1. a \in Records /\ a.n <= calls[l] /\ a.by = l
      BY <2>1, <2>2 DEF Sound, TypeOK, Fresh
    <3>2. a = [by |-> a.by, n |-> a.n] /\ a.n \in Int /\ calls[l] \in Int
      BY <3>1, LoggerAssumption DEF Records, Sound, TypeOK
    <3>3. a.n # calls[l]
      BY <2>1, <3>1, <3>2 DEF Current
    <3> QED
      BY <2>1, <3>1, <3>2, <3>3
  <2>3. queue \in Seq(Records) /\ accepted = attempted \cup Range(queue) \cup Range(hand)
    BY DEF Sound, TypeOK, Custody
  <2> HIDE DEF rec
  <2>4. Range(queue') = Range(queue) \cup {rec}
    BY <1>2, <2>1, <2>3, RangeAppend
  <2>5. \A i, j \in DOMAIN queue' :
          i < j /\ queue'[i].by = queue'[j].by => queue'[i].n < queue'[j].n
    <3>1. \A a \in Range(queue) : a.by = rec.by => a.n < rec.n
      BY <2>2, <2>3
    <3> QED
      BY <1>2, <2>1, <2>3, <3>1, SeqOrderAppend DEF InOrder
  <2> QED
    BY <1>2, <2>2, <2>3, <2>4, <2>5 DEF InOrder, writing
<1> QED
  BY <1>1, <1>2 DEF HandleSend

\* The writer takes the first record of the queue, ...
LEMMA ReceiveInOrder == ASSUME Sound, InOrder, Receive PROVE InOrder'
<1> DEFINE rec == Head(queue)
<1>1. /\ queue \in Seq(Records) /\ queue # <<>> /\ queue' = Tail(queue)
      /\ hand' = <<rec>> /\ attempted' = attempted
  BY DEF Receive, Sound, TypeOK
<1>2. Range(queue) = {rec} \cup Range(queue')
  BY <1>1, RangeHead
<1>3. /\ \A i, j \in DOMAIN queue' :
           i < j /\ queue'[i].by = queue'[j].by => queue'[i].n < queue'[j].n
      /\ \A b \in Range(queue') : rec.by = b.by => rec.n < b.n
  BY <1>1, SeqOrderTail DEF InOrder
<1> HIDE DEF rec
<1>4. Range(hand') = {rec}
  BY <1>1, RangeOne
<1> QED
  BY <1>1, <1>2, <1>3, <1>4 DEF InOrder

\* ... and is through with it before it takes the next.
LEMMA InsertInOrder == ASSUME Sound, InOrder, Insert PROVE InOrder'
<1> DEFINE rec == hand[1]
<1>1. /\ queue' = queue /\ hand' = <<>> /\ attempted' = attempted \cup {rec}
      /\ writer = "insert"
  BY DEF Insert
<1>2. rec \in Range(hand)
  <2>1. hand \in Seq(Records) /\ hand # <<>>
    BY <1>1 DEF Sound, TypeOK, Custody
  <2>2. 1 \in DOMAIN hand
    BY <2>1, EmptySeq, LenProperties
  <2> QED
    BY <2>2 DEF Range
<1> HIDE DEF rec
<1>3. Range(hand') = {}
  BY <1>1, RangeOne
<1> QED
  BY <1>1, <1>2, <1>3 DEF InOrder

LEMMA InOrderStep == Sound /\ InOrder /\ LogStep => InOrder'
<1> SUFFICES ASSUME Sound, InOrder, LogStep PROVE InOrder'
  OBVIOUS
<1>1. CASE UNCHANGED <<queue, hand, attempted>>
  BY <1>1 DEF InOrder
<1>2. CASE \E l \in Loggers, level \in Int : MultiHandle(l, level)
  BY <1>1, <1>2 DEF MultiHandle, writing
<1>3. CASE \E l \in Loggers : HandleCheck(l) \/ HandleRecheck(l)
  BY <1>1, <1>3 DEF HandleCheck, HandleRecheck, writing
<1>4. CASE \E s \in Stoppers : StopFirst(s) \/ StopClose(s) \/ StopAgain(s)
                                \/ StopDrained(s) \/ StopTimeout(s)
  BY <1>1, <1>4 DEF StopFirst, StopClose, StopAgain, StopDrained, StopTimeout, writing
<1>5. CASE LateCommit \/ WriterExit \/ UNCHANGED vars
  BY <1>1, <1>5 DEF LateCommit, WriterExit, vars, writing
<1> QED
  BY <1>2, <1>3, <1>4, <1>5, SendInOrder, ReceiveInOrder, InsertInOrder DEF LogStep

LEMMA InductiveIsSound == Inductive <=> Sound /\ InOrder
BY DEF Inductive, Sound

LEMMA InductiveInit == Init => Inductive
<1>1. ASSUME Init PROVE InOrder
  <2>1. queue = <<>> /\ attempted = {} /\ Range(queue) = {} /\ Range(hand) = {}
    BY <1>1, RangeOne DEF Init
  <2>2. DOMAIN queue = {}
    BY <2>1
  <2> QED
    BY <2>1, <2>2 DEF InOrder
<1> QED
  BY <1>1, SoundInit, InductiveIsSound

LEMMA InductiveStep == Inductive /\ LogStep => Inductive'
BY SoundStep, InOrderStep, InductiveIsSound DEF Inductive, Sound

-----------------------------------------------------------------------------
(* Theorems *)

\* The inductive invariant that TLC checks holds for every instance.
THEOREM InductiveHolds == Spec => []Inductive
BY InductiveInit, InductiveStep, NextIsLogStep, PTL DEF Spec

\* TypeOK: in particular the channel never holds more than its buffer.
THEOREM TypeCorrect == Spec => []TypeOK
<1>1. Inductive => TypeOK
  BY DEF Inductive
<1> QED
  BY <1>1, InductiveHolds, PTL

LEMMA DrainedIsThrough == Inductive => DrainedOnDone
<1> SUFFICES ASSUME Inductive, \E s \in Stoppers : spc[s] = "drained"
             PROVE  attempted = accepted
  BY DEF DrainedOnDone
<1>1. queue = <<>> /\ hand = <<>>
  BY DEF Inductive, Custody
<1> QED
  BY <1>1, RangeOne DEF Inductive, Custody

\* DrainedOnDone: a Stop that returns because the writer is done leaves no
\* accepted record behind, however log calls and other Stops race it.
THEOREM DrainedOnDoneHolds == Spec => []DrainedOnDone
BY DrainedIsThrough, InductiveHolds, PTL

\* AtMostOnce: no record is stored twice, although an INSERT on which the
\* writer gave up may commit at any later time.
THEOREM AtMostOnceHolds == Spec => []AtMostOnce
<1>1. Inductive => AtMostOnce
  BY DEF Inductive, OnePlace, AtMostOnce, IsInjective
<1> QED
  BY <1>1, InductiveHolds, PTL

LEMMA LostIsTail == Inductive => OnlyTheTailIsLost
<1> SUFFICES ASSUME Inductive, NEW tried \in attempted, NEW left \in accepted \ attempted,
                    tried.by = left.by
             PROVE  tried.n < left.n
  BY DEF OnlyTheTailIsLost
<1>1. left \in Range(queue) \/ left \in Range(hand)
  BY DEF Inductive, Custody
<1> QED
  BY <1>1 DEF Inductive, InOrder

\* OnlyTheTailIsLost: what is not yet through when the process dies or Stop
\* gives up is the end of each goroutine's accepted records.
THEOREM OnlyTheTailIsLostHolds == Spec => []OnlyTheTailIsLost
BY LostIsTail, InductiveHolds, PTL
=============================================================================
