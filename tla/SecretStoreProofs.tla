------------------------- MODULE SecretStoreProofs -------------------------
(***************************************************************************)
(* Proofs about SecretStore, for any number of requests, tokens and        *)
(* lifetimes, any clock skew, any time bound and any number of crashes.    *)
(***************************************************************************)
EXTENDS SecretStore, FiniteSetTheorems, TLAPS

-----------------------------------------------------------------------------
(* Arithmetic of expires_in *)

\* A product below 2^63 is not changed by the conversion to time.Duration.
LEMMA DurationExact ==
  ASSUME NEW e \in Int, e > 0, e * Second < DurationLimit
  PROVE  Duration(e) = e * Second
<1> DEFINE x == e * Second
<1>1. x \in Nat
  BY StoreAssumption
<1>2. x + DurationLimit \in 0 .. (2 * DurationLimit - 1)
  BY <1>1, StoreAssumption
<1> HIDE DEF x
<1>3. (x + DurationLimit) % (2 * DurationLimit) = x + DurationLimit
  BY <1>1, <1>2, StoreAssumption
<1>4. ((x + DurationLimit) % (2 * DurationLimit)) - DurationLimit = x
  BY <1>1, <1>3, StoreAssumption
<1> QED
  BY <1>4 DEF Duration, x

\* A product that wraps never becomes longer than what was asked for.
LEMMA DurationBound ==
  ASSUME NEW e \in Int, e > 0
  PROVE  Duration(e) \in Int /\ Duration(e) <= e * Second
<1> DEFINE x == e * Second
<1>1. x \in Nat
  BY StoreAssumption
<1> HIDE DEF x
<1>2. /\ (x + DurationLimit) % (2 * DurationLimit) \in Nat
      /\ (x + DurationLimit) % (2 * DurationLimit) <= x + DurationLimit
  BY <1>1, StoreAssumption
<1>3. /\ ((x + DurationLimit) % (2 * DurationLimit)) - DurationLimit \in Int
      /\ ((x + DurationLimit) % (2 * DurationLimit)) - DurationLimit <= x
  BY <1>1, <1>2, StoreAssumption
<1> QED
  BY <1>3 DEF Duration, x

-----------------------------------------------------------------------------
(* Type correctness *)

\* A batch that is not empty is counted as at least one.
LEMMA BatchCount ==
  ASSUME NEW S \in SUBSET Creates, S # {}
  PROVE  IsFiniteSet(S) /\ Cardinality(S) \in Nat \ {0}
<1>1. IsFiniteSet(S)
  BY FS_Subset, StoreAssumption
<1> QED
  BY <1>1, FS_CardinalityType, FS_EmptySet

\* The rows recordEvent inserts are rows of secret_events.
LEMMA EventTypes ==
  /\ \A c \in Creates : CreatedEvent(c) \in EventRow
  /\ \A v \in Reveals : RetrievedEvent(v) \in EventRow
  /\ \A S \in SUBSET Creates : S # {} => ExpiredEvent(S) \in EventRow
<1>1. \A c \in Creates : CreatedEvent(c) \in EventRow
  BY DEF CreatedEvent, EventRow
<1>2. \A v \in Reveals : RetrievedEvent(v) \in EventRow
  BY DEF RetrievedEvent, EventRow
<1>3. ASSUME NEW S \in SUBSET Creates, S # {}
      PROVE  ExpiredEvent(S) \in EventRow
  BY <1>3, BatchCount DEF ExpiredEvent, EventRow
<1> QED
  BY <1>1, <1>2, <1>3

\* Every lifetime yields a time or NULL.
LEMMA ExpiryType ==
  ASSUME NEW e \in ExpiresIn, now \in Nat
  PROVE  ExpiryOf(e) \in Int \cup {Never}
<1>1. CASE e > 0
  BY <1>1, DurationBound, StoreAssumption DEF ExpiryOf
<1>2. CASE ~(e > 0)
  BY <1>2 DEF ExpiryOf
<1> QED
  BY <1>1, <1>2

LEMMA TypeInit == Init => TypeOK
BY StoreAssumption DEF Init, TypeOK, Requests

LEMMA TypeStep == TypeOK /\ [Next]_vars => TypeOK'
<1> SUFFICES ASSUME TypeOK, [Next]_vars PROVE TypeOK'
  OBVIOUS
<1> USE DEF TypeOK, creating, asking, sweeping, process, Requests
<1>1. ASSUME NEW c \in Creates, RejectCreate(c) PROVE TypeOK'
  BY <1>1 DEF RejectCreate, Fail
<1>2. ASSUME NEW c \in Creates, CreateSecret(c) PROVE TypeOK'
  <2>1. PICK t \in Tokens, e \in ExpiresIn :
          /\ token' = [token EXCEPT ![c] = t]
          /\ expires' = [expires EXCEPT ![c] = e]
          /\ expiresAt' = [expiresAt EXCEPT ![c] = ExpiryOf(e)]
    BY <1>2 DEF CreateSecret
  <2>2. ExpiryOf(e) \in Int \cup {Never}
    BY ExpiryType
  <2> QED
    BY <1>2, <2>1, <2>2 DEF CreateSecret
<1>3. ASSUME NEW c \in Creates, ExecInsert(c) PROVE TypeOK'
  BY <1>3 DEF ExecInsert
<1>4. ASSUME NEW c \in Creates, StoreRecord(c) PROVE TypeOK'
  BY <1>4, EventTypes DEF StoreRecord, RecordEvent
<1>5. ASSUME NEW v \in Reveals, RevealSecret(v) PROVE TypeOK'
  BY <1>5 DEF RevealSecret
<1>6. ASSUME NEW v \in Reveals, ExecDelete(v) PROVE TypeOK'
  BY <1>6 DEF ExecDelete, Remaining, Matching
<1>7. ASSUME NEW v \in Reveals, NotFound(v) PROVE TypeOK'
  BY <1>7 DEF NotFound, Fail
<1>8. ASSUME NEW v \in Reveals, FetchRecord(v) PROVE TypeOK'
  BY <1>8, EventTypes DEF FetchRecord, RecordEvent
<1>9. ASSUME NEW r \in Requests, Reply(r) PROVE TypeOK'
  BY <1>9 DEF Reply
<1>10. ASSUME NEW r \in Requests, StatementError(r) PROVE TypeOK'
  BY <1>10 DEF StatementError, Fail
<1>11. CASE CleanupTick
  BY <1>11 DEF CleanupTick
<1>12. CASE ExecCleanup
  BY <1>12 DEF ExecCleanup
<1>13. CASE CleanupRecord
  BY <1>13, EventTypes DEF CleanupRecord, RecordEvent
<1>14. CASE CleanupError
  BY <1>14 DEF CleanupError
<1>15. CASE Crash
  BY <1>15 DEF Crash, Vanish
<1>16. CASE Shutdown
  BY <1>16 DEF Shutdown
<1>17. CASE Exit
  BY <1>17 DEF Exit, Vanish
<1>18. CASE Restart
  BY <1>18 DEF Restart
<1>19. CASE Tick
  BY <1>19 DEF Tick
<1>20. CASE UNCHANGED vars
  BY <1>20 DEF vars
<1> QED
  BY <1>1, <1>2, <1>3, <1>4, <1>5, <1>6, <1>7, <1>8, <1>9, <1>10, <1>11,
     <1>12, <1>13, <1>14, <1>15, <1>16, <1>17, <1>18, <1>19, <1>20 DEF Next

\* The variables keep their types, whatever the number of requests: the rows
\* written to secret_events satisfy the table's CHECK and count something.
THEOREM TypeCorrect == Spec => []TypeOK
BY TypeInit, TypeStep, PTL DEF Spec

-----------------------------------------------------------------------------
(* The inductive invariant *)

LEMMA InductiveInit == Init => Inductive
BY TypeInit, StoreAssumption
   DEF Init, Inductive, Requests, OneTimeAccess, EventsHaveCause,
       Conservation, Taken, UniqueTokens, Protocol, ExpiryStamped, Matched,
       SweptExpired

\* What the "by" of an event row names.
LEMMA EventBy ==
  ASSUME TypeOK, NEW e \in events
  PROVE  /\ e.type = "created" => e.by \in Creates
         /\ e.type = "retrieved" => e.by \in Reveals
         /\ e.type = "expired" => e.by \subseteq Creates
<1>1. e \in EventRow
  BY DEF TypeOK
<1>2. CASE e \in [type : {"created"}, by : Creates, count : {1}]
  BY <1>2
<1>3. CASE e \in [type : {"retrieved"}, by : Reveals, count : {1}]
  BY <1>3
<1>4. CASE e \in [type : {"expired"}, by : SUBSET Creates, count : Nat \ {0}]
  BY <1>4
<1> QED
  BY <1>1, <1>2, <1>3, <1>4 DEF EventRow

\* One step per action; the parts of the invariant that the action can disturb
\* come first, the others follow because their variables do not change.
LEMMA InductiveStep == Inductive /\ [Next]_vars => Inductive'
<1> SUFFICES ASSUME Inductive, [Next]_vars PROVE Inductive'
  OBVIOUS
<1> USE DEF Inductive, creating, asking, sweeping, process, Requests
<1>0. TypeOK /\ TypeOK'
  BY TypeStep
<1>1. ASSUME NEW c \in Creates, RejectCreate(c) PROVE Inductive'
  <2>1. Protocol'
    BY <1>0, <1>1, StoreAssumption DEF RejectCreate, Fail, Protocol, TypeOK
  <2> QED
    BY <1>0, <1>1, <2>1
       DEF RejectCreate, Fail, OneTimeAccess, EventsHaveCause, Conservation,
              Taken, UniqueTokens, ExpiryStamped, Matched, Unexpired,
              SweptExpired, Expired
<1>2. ASSUME NEW c \in Creates, CreateSecret(c) PROVE Inductive'
  <2>0. c \notin rows \cup swept \cup Taken
    BY <1>0, <1>2 DEF CreateSecret, Protocol, Conservation, TypeOK
  <2>1. EventsHaveCause'
    BY <1>0, <1>2, EventBy, StoreAssumption
       DEF CreateSecret, Protocol, EventsHaveCause, TypeOK
  <2>2. Conservation'
    BY <1>0, <1>2, <2>0, StoreAssumption
       DEF CreateSecret, Conservation, Taken, TypeOK
  <2>3. UniqueTokens'
    BY <1>0, <1>2, <2>0 DEF CreateSecret, UniqueTokens, TypeOK
  <2>4. Protocol'
    BY <1>0, <1>2, StoreAssumption DEF CreateSecret, Protocol, TypeOK
  <2>5. ExpiryStamped'
    <3>1. PICK e \in ExpiresIn :
            /\ expires' = [expires EXCEPT ![c] = e]
            /\ expiresAt' = [expiresAt EXCEPT ![c] = ExpiryOf(e)]
      BY <1>2 DEF CreateSecret
    <3>2. /\ startedAt' = [startedAt EXCEPT ![c] = now]
          /\ stmt' = [stmt EXCEPT ![c] = "sent"]
      BY <1>2 DEF CreateSecret
    <3>3. ASSUME NEW d \in Creates, stmt'[d] # "none"
          PROVE  expiresAt'[d] = IF expires'[d] > 0
                   THEN startedAt'[d] + AppAhead + Duration(expires'[d])
                   ELSE Never
      <4>1. CASE d = c
        BY <1>0, <3>1, <3>2, <4>1 DEF TypeOK, ExpiryOf
      <4>2. CASE d # c
        BY <1>0, <3>1, <3>2, <3>3, <4>2 DEF TypeOK, ExpiryStamped
      <4> QED
        BY <4>1, <4>2
    <3> QED
      BY <3>3 DEF ExpiryStamped, Duration
  <2>6. Matched'
    BY <1>0, <1>2, <2>0, StoreAssumption
       DEF CreateSecret, Matched, Protocol, Taken, Unexpired, TypeOK
  <2>7. SweptExpired'
    BY <1>0, <1>2, <2>0 DEF CreateSecret, SweptExpired, Expired, TypeOK
  <2> QED
    BY <1>0, <1>2, <2>1, <2>2, <2>3, <2>4, <2>5, <2>6, <2>7
       DEF CreateSecret, OneTimeAccess
<1>3. ASSUME NEW c \in Creates, ExecInsert(c) PROVE Inductive'
  <2>1. OneTimeAccess'
    BY <1>0, <1>3, StoreAssumption
       DEF ExecInsert, OneTimeAccess, Conservation, Taken, TypeOK
  <2>2. EventsHaveCause'
    BY <1>0, <1>3, EventBy, StoreAssumption
       DEF ExecInsert, EventsHaveCause, TypeOK
  <2>3. Conservation'
    BY <1>0, <1>3, StoreAssumption
       DEF ExecInsert, Conservation, Taken, OneTimeAccess, TypeOK
  <2>4. UniqueTokens'
    BY <1>0, <1>3 DEF ExecInsert, UniqueTokens, TypeOK
  <2>5. Protocol'
    BY <1>0, <1>3, StoreAssumption DEF ExecInsert, Protocol, TypeOK
  <2>6. ExpiryStamped'
    BY <1>0, <1>3, StoreAssumption DEF ExecInsert, ExpiryStamped, TypeOK
  <2>7. Matched'
    BY <1>0, <1>3, StoreAssumption
       DEF ExecInsert, Matched, Taken, Unexpired, Protocol, TypeOK
  <2> QED
    BY <1>0, <1>3, <2>1, <2>2, <2>3, <2>4, <2>5, <2>6, <2>7
       DEF ExecInsert, SweptExpired, Expired
<1>4. ASSUME NEW c \in Creates, StoreRecord(c) PROVE Inductive'
  <2>1. EventsHaveCause'
    BY <1>0, <1>4, EventBy, StoreAssumption
       DEF StoreRecord, RecordEvent, CreatedEvent, EventsHaveCause, TypeOK
  <2>2. Protocol'
    BY <1>0, <1>4, StoreAssumption
       DEF StoreRecord, RecordEvent, CreatedEvent, Protocol, TypeOK
  <2>3. SweptExpired'
    BY <1>0, <1>4
       DEF StoreRecord, RecordEvent, CreatedEvent, SweptExpired, Expired,
              TypeOK
  <2> QED
    BY <1>0, <1>4, <2>1, <2>2, <2>3
       DEF StoreRecord, RecordEvent, CreatedEvent, OneTimeAccess,
              Conservation, Taken, UniqueTokens, ExpiryStamped, Matched,
              Unexpired
<1>5. ASSUME NEW v \in Reveals, RevealSecret(v) PROVE Inductive'
  <2>1. EventsHaveCause'
    BY <1>0, <1>5, EventBy, StoreAssumption
       DEF RevealSecret, EventsHaveCause, Protocol, TypeOK
  <2>2. Conservation'
    BY <1>0, <1>5, StoreAssumption
       DEF RevealSecret, Conservation, Taken, TypeOK
  <2>3. Protocol'
    BY <1>0, <1>5, StoreAssumption DEF RevealSecret, Protocol, TypeOK
  <2>4. ExpiryStamped'
    BY <1>0, <1>5, StoreAssumption DEF RevealSecret, ExpiryStamped, TypeOK
  <2>5. Matched'
    BY <1>0, <1>5, StoreAssumption
       DEF RevealSecret, Matched, Taken, Unexpired, Protocol, TypeOK
  <2> QED
    BY <1>0, <1>5, <2>1, <2>2, <2>3, <2>4, <2>5
       DEF RevealSecret, OneTimeAccess, UniqueTokens, SweptExpired, Expired
<1>6. ASSUME NEW v \in Reveals, ExecDelete(v) PROVE Inductive'
  <2>1. OneTimeAccess'
    BY <1>0, <1>6, StoreAssumption
       DEF ExecDelete, Remaining, Matching, OneTimeAccess, Protocol,
              Conservation, Taken, TypeOK
  <2>2. EventsHaveCause'
    BY <1>0, <1>6, EventBy, StoreAssumption
       DEF ExecDelete, Remaining, Matching, EventsHaveCause, Protocol, TypeOK
  <2>3. Conservation'
    BY <1>0, <1>6, StoreAssumption
       DEF ExecDelete, Remaining, Matching, Conservation, Taken, UniqueTokens,
              Protocol, OneTimeAccess, TypeOK
  <2>4. UniqueTokens'
    BY <1>0, <1>6 DEF ExecDelete, Remaining, Matching, UniqueTokens, TypeOK
  <2>5. Protocol'
    BY <1>0, <1>6, StoreAssumption
       DEF ExecDelete, Remaining, Matching, Protocol, TypeOK
  <2>6. ExpiryStamped'
    BY <1>0, <1>6, StoreAssumption
       DEF ExecDelete, Remaining, Matching, ExpiryStamped, TypeOK
  <2>7. Matched'
    BY <1>0, <1>6, StoreAssumption
       DEF ExecDelete, Remaining, Matching, Matched, Taken, Unexpired,
              Conservation, Protocol, TypeOK
  <2> QED
    BY <1>0, <1>6, <2>1, <2>2, <2>3, <2>4, <2>5, <2>6, <2>7
       DEF ExecDelete, Remaining, Matching, SweptExpired, Expired
<1>7. ASSUME NEW v \in Reveals, NotFound(v) PROVE Inductive'
  <2>1. Protocol'
    BY <1>0, <1>7, StoreAssumption DEF NotFound, Fail, Protocol, TypeOK
  <2>2. Matched'
    BY <1>0, <1>7, StoreAssumption
       DEF NotFound, Fail, Matched, Taken, Unexpired, TypeOK
  <2> QED
    BY <1>0, <1>7, <2>1, <2>2
       DEF NotFound, Fail, OneTimeAccess, EventsHaveCause, Conservation,
              Taken, UniqueTokens, ExpiryStamped, SweptExpired, Expired
<1>8. ASSUME NEW v \in Reveals, FetchRecord(v) PROVE Inductive'
  <2>1. EventsHaveCause'
    BY <1>0, <1>8, EventBy, StoreAssumption
       DEF FetchRecord, RecordEvent, RetrievedEvent, EventsHaveCause,
              Protocol, TypeOK
  <2>2. Protocol'
    BY <1>0, <1>8, StoreAssumption
       DEF FetchRecord, RecordEvent, RetrievedEvent, Protocol, TypeOK
  <2>3. SweptExpired'
    BY <1>0, <1>8
       DEF FetchRecord, RecordEvent, RetrievedEvent, SweptExpired, Expired,
              TypeOK
  <2> QED
    BY <1>0, <1>8, <2>1, <2>2, <2>3
       DEF FetchRecord, RecordEvent, RetrievedEvent, OneTimeAccess,
              Conservation, Taken, UniqueTokens, ExpiryStamped, Matched,
              Unexpired
<1>9. ASSUME NEW r \in Requests, Reply(r) PROVE Inductive'
  <2>1. Protocol'
    BY <1>0, <1>9, StoreAssumption DEF Reply, Protocol, TypeOK
  <2> QED
    BY <1>0, <1>9, <2>1
       DEF Reply, OneTimeAccess, EventsHaveCause, Conservation, Taken,
              UniqueTokens, ExpiryStamped, Matched, Unexpired, SweptExpired,
              Expired
<1>10. ASSUME NEW r \in Requests, StatementError(r) PROVE Inductive'
  <2>1. Protocol'
    BY <1>0, <1>10, StoreAssumption DEF StatementError, Fail, Protocol, TypeOK
  <2> QED
    BY <1>0, <1>10, <2>1
       DEF StatementError, Fail, OneTimeAccess, EventsHaveCause, Conservation,
              Taken, UniqueTokens, ExpiryStamped, Matched, Unexpired,
              SweptExpired, Expired
<1>11. CASE CleanupTick
  <2>1. SweptExpired'
    BY <1>0, <1>11 DEF CleanupTick, SweptExpired, Expired, TypeOK
  <2> QED
    BY <1>0, <1>11, <2>1
       DEF CleanupTick, OneTimeAccess, EventsHaveCause, Conservation, Taken,
              UniqueTokens, Protocol, ExpiryStamped, Matched, Unexpired
<1>12. CASE ExecCleanup
  <2>1. OneTimeAccess'
    BY <1>0, <1>12, StoreAssumption DEF ExecCleanup, OneTimeAccess, TypeOK
  <2>2. EventsHaveCause'
    BY <1>0, <1>12, EventBy, StoreAssumption
       DEF ExecCleanup, EventsHaveCause, TypeOK
  <2>3. Conservation'
    BY <1>0, <1>12, StoreAssumption
       DEF ExecCleanup, Conservation, Taken, TypeOK
  <2>4. UniqueTokens'
    BY <1>0, <1>12 DEF ExecCleanup, UniqueTokens, TypeOK
  <2>5. Matched'
    BY <1>0, <1>12, StoreAssumption
       DEF ExecCleanup, Matched, Taken, Unexpired, TypeOK
  <2>6. SweptExpired'
    BY <1>0, <1>12
       DEF ExecCleanup, SweptExpired, Expired, EventsHaveCause, OneTimeAccess,
              TypeOK
  <2> QED
    BY <1>0, <1>12, <2>1, <2>2, <2>3, <2>4, <2>5, <2>6
       DEF ExecCleanup, Protocol, ExpiryStamped
<1>13. CASE CleanupRecord
  <2>1. EventsHaveCause'
    BY <1>0, <1>13, EventBy, StoreAssumption
       DEF CleanupRecord, RecordEvent, ExpiredEvent, EventsHaveCause,
              SweptExpired, TypeOK
  <2>2. SweptExpired'
    BY <1>0, <1>13
       DEF CleanupRecord, RecordEvent, ExpiredEvent, SweptExpired, Expired,
              TypeOK
  <2> QED
    BY <1>0, <1>13, <2>1, <2>2
       DEF CleanupRecord, RecordEvent, ExpiredEvent, OneTimeAccess,
              Conservation, Taken, UniqueTokens, Protocol, ExpiryStamped,
              Matched, Unexpired
<1>14. CASE CleanupError
  BY <1>0, <1>14
     DEF CleanupError, OneTimeAccess, EventsHaveCause, Conservation, Taken,
            UniqueTokens, Protocol, ExpiryStamped, Matched, Unexpired,
            SweptExpired, Expired
<1>15. CASE Crash
  <2>1. Protocol'
    BY <1>0, <1>15, StoreAssumption DEF Crash, Vanish, Protocol, TypeOK
  <2> QED
    BY <1>0, <1>15, <2>1
       DEF Crash, Vanish, OneTimeAccess, EventsHaveCause, Conservation, Taken,
              UniqueTokens, ExpiryStamped, Matched, Unexpired, SweptExpired,
              Expired
<1>16. CASE Shutdown
  BY <1>0, <1>16
     DEF Shutdown, OneTimeAccess, EventsHaveCause, Conservation, Taken,
            UniqueTokens, Protocol, ExpiryStamped, Matched, Unexpired,
            SweptExpired, Expired
<1>17. CASE Exit
  <2>1. Protocol'
    BY <1>0, <1>17, StoreAssumption DEF Exit, Vanish, Protocol, TypeOK
  <2> QED
    BY <1>0, <1>17, <2>1
       DEF Exit, Vanish, OneTimeAccess, EventsHaveCause, Conservation, Taken,
              UniqueTokens, ExpiryStamped, Matched, Unexpired, SweptExpired,
              Expired
<1>18. CASE Restart
  BY <1>0, <1>18
     DEF Restart, OneTimeAccess, EventsHaveCause, Conservation, Taken,
            UniqueTokens, Protocol, ExpiryStamped, Matched, Unexpired,
            SweptExpired, Expired
<1>19. CASE Tick
  <2>1. Protocol'
    BY <1>0, <1>19, StoreAssumption DEF Tick, Protocol, TypeOK
  <2>2. SweptExpired'
    BY <1>0, <1>19 DEF Tick, SweptExpired, Expired, TypeOK
  <2> QED
    BY <1>0, <1>19, <2>1, <2>2
       DEF Tick, OneTimeAccess, EventsHaveCause, Conservation, Taken,
              UniqueTokens, ExpiryStamped, Matched, Unexpired
<1>20. CASE UNCHANGED vars
  BY <1>0, <1>20
     DEF vars, OneTimeAccess, EventsHaveCause, Conservation, Taken,
            UniqueTokens, Protocol, ExpiryStamped, Matched, Unexpired,
            SweptExpired, Expired
<1> QED
  BY <1>1, <1>2, <1>3, <1>4, <1>5, <1>6, <1>7, <1>8, <1>9, <1>10, <1>11,
     <1>12, <1>13, <1>14, <1>15, <1>16, <1>17, <1>18, <1>19, <1>20 DEF Next

\* The invariant holds in every state of every behaviour.
THEOREM InductiveHolds == Spec => []Inductive
BY InductiveInit, InductiveStep, PTL DEF Spec

-----------------------------------------------------------------------------
(* What follows *)

\* No two reveals obtain the same secret, and what was obtained or swept is
\* gone from the table, for any number of racing requests and crashes.
THEOREM OneTimeAccessHolds == Spec => []OneTimeAccess
<1>1. Inductive => OneTimeAccess
  BY DEF Inductive
<1> QED
  BY <1>1, InductiveHolds, PTL

\* secret_events never records what did not happen in the secrets table.
THEOREM EventsHaveCauseHolds == Spec => []EventsHaveCause
<1>1. Inductive => EventsHaveCause
  BY DEF Inductive
<1> QED
  BY <1>1, InductiveHolds, PTL

\* A lifetime that a stored secret was given, as the row has it.
LEMMA StampedExpiry ==
  ASSUME Inductive, NEW c \in Creates, stmt[c] = "ok"
  PROVE  /\ expires[c] \in Int /\ startedAt[c] \in Int
         /\ expires[c] > 0 =>
              /\ expiresAt[c] # Never
              /\ expiresAt[c] = startedAt[c] + AppAhead + Duration(expires[c])
         /\ ~(expires[c] > 0) => expiresAt[c] = Never
<1>1. TypeOK /\ ExpiryStamped
  BY DEF Inductive
<1>2. expires[c] \in Int /\ startedAt[c] \in Int
  <2>1. \A e \in ExpiresIn \cup {0} : e \in Int
    BY StoreAssumption
  <2>2. expires[c] \in ExpiresIn \cup {0} /\ startedAt[c] \in Nat
    BY <1>1 DEF TypeOK, Requests
  <2>3. expires[c] \in Int
    BY <2>1, <2>2, Zenon
  <2> QED
    BY <2>2, <2>3
<1>3. expires[c] > 0 => startedAt[c] + AppAhead + Duration(expires[c]) \in Int
  BY <1>2, DurationBound, StoreAssumption
<1> QED
  BY <1>1, <1>2, <1>3, StoreAssumption DEF ExpiryStamped

\* A reveal obtains only the secret its link names, and asked for it within
\* the requested lifetime, even where the 64-bit product overflows.
THEOREM ServedWithinLifetimeHolds == Spec => []ServedWithinLifetime
<1>1. ASSUME Inductive PROVE ServedWithinLifetime
  <2> SUFFICES ASSUME NEW v \in Reveals, NEW c \in Creates, took[v] = c
               PROVE  /\ token[c] = target[v]
                      /\ expires[c] > 0 => startedAt[v]
                           < startedAt[c] + AppAhead + expires[c] * Second
    BY DEF ServedWithinLifetime
  <2>1. token[c] = target[v] /\ Unexpired(c, startedAt[v])
    BY <1>1 DEF Inductive, Matched
  <2>2. stmt[c] = "ok"
    BY <1>1 DEF Inductive, Conservation, Taken
  <2>3. startedAt[v] \in Int
    BY <1>1 DEF Inductive, TypeOK, Requests
  <2>4. ASSUME expires[c] > 0
        PROVE  startedAt[v] < startedAt[c] + AppAhead + expires[c] * Second
    <3>1. startedAt[v] < startedAt[c] + AppAhead + Duration(expires[c])
      BY <1>1, <2>1, <2>2, <2>4, StampedExpiry DEF Unexpired
    <3>2. Duration(expires[c]) \in Int
          /\ Duration(expires[c]) <= expires[c] * Second
      BY <1>1, <2>2, <2>4, StampedExpiry, DurationBound
    <3>3. expires[c] * Second \in Int
      BY <1>1, <2>2, StampedExpiry, StoreAssumption
    <3> QED
      BY <1>1, <2>2, <2>3, <3>1, <3>2, <3>3, StampedExpiry, StoreAssumption
  <2> QED
    BY <2>1, <2>4
<1> QED
  BY <1>1, InductiveHolds, PTL

\* Without overflow, expires_at is exactly what the client asked for.
LEMMA ExactExpiry ==
  ASSUME NoOverflow, Inductive, NEW c \in Creates, stmt[c] = "ok",
         expiresAt[c] # Never
  PROVE  /\ expires[c] > 0
         /\ expiresAt[c] = startedAt[c] + AppAhead + expires[c] * Second
<1>1. expires[c] > 0
  BY StampedExpiry
<1>2. expires[c] \in ExpiresIn
  BY <1>1 DEF Inductive, TypeOK
<1> QED
  BY <1>1, <1>2, StampedExpiry, DurationExact, StoreAssumption DEF NoOverflow

\* An acknowledged secret stays until it is revealed or its lifetime is over,
\* provided that no expires_in overflows time.Duration (the overflow run
\* shows that the condition is needed).
THEOREM AcknowledgedIsKeptHolds ==
  ASSUME NoOverflow PROVE Spec => []AcknowledgedIsKept
<1>1. ASSUME Inductive PROVE AcknowledgedIsKept
  <2> SUFFICES ASSUME NEW c \in Creates, resp[c] = "200", c \notin rows,
                      ~\E v \in Reveals : took[v] = c
               PROVE  /\ c \in swept
                      /\ expires[c] > 0
                      /\ startedAt[c] + AppAhead + expires[c] * Second < now
    BY DEF AcknowledgedIsKept
  <2>1. stmt[c] = "ok"
    BY <1>1 DEF Inductive, Protocol, Requests
  <2>2. c \in swept
    BY <1>1, <2>1 DEF Inductive, Conservation, Taken
  <2>3. expiresAt[c] # Never /\ expiresAt[c] < now
    BY <1>1, <2>2 DEF Inductive, SweptExpired, Expired
  <2> QED
    BY <1>1, <2>1, <2>2, <2>3, ExactExpiry
<1> QED
  BY <1>1, InductiveHolds, PTL

\* Under the same condition, a 404 for a link that was handed out means that
\* somebody else opened it or that its lifetime is over.
THEOREM NotFoundIsTrueHolds ==
  ASSUME NoOverflow PROVE Spec => []NotFoundIsTrue
<1>1. ASSUME Inductive PROVE NotFoundIsTrue
  <2> SUFFICES ASSUME NEW v \in Reveals, resp[v] = "404",
                      NEW c \in known[v], token[c] = target[v],
                      ~\E w \in Reveals \ {v} : took[w] = c
               PROVE  /\ expires[c] > 0
                      /\ startedAt[c] + AppAhead + expires[c] * Second <= now
    BY DEF NotFoundIsTrue
  <2>1. c \in Creates
    BY <1>1 DEF Inductive, TypeOK
  <2>2. stmt[c] = "ok" /\ stmt[v] = "norows"
    BY <1>1 DEF Inductive, Matched, Protocol
  <2>3. c \notin Taken
    BY <1>1, <2>1, <2>2, StoreAssumption DEF Inductive, Protocol, Taken
  <2>4. startedAt[v] <= now /\ startedAt[v] \in Int /\ now \in Int
    BY <1>1 DEF Inductive, Protocol, TypeOK, Requests
  <2>5. expiresAt[c] # Never /\ expiresAt[c] <= now
    <3>1. CASE c \in swept
      BY <1>1, <2>1, <2>4, <3>1 DEF Inductive, SweptExpired, Expired, TypeOK
    <3>2. CASE ~Unexpired(c, startedAt[v])
      BY <1>1, <2>1, <2>4, <3>2 DEF Inductive, Unexpired, TypeOK
    <3> QED
      BY <1>1, <2>2, <2>3, <3>1, <3>2 DEF Inductive, Matched
  <2> QED
    BY <1>1, <2>1, <2>2, <2>5, ExactExpiry
<1> QED
  BY <1>1, InductiveHolds, PTL
-----------------------------------------------------------------------------
(* The ways into the table and out of it *)

\* A row enters once, before anybody can have had it, and leaves to the one
\* reveal that names its token, or to a sweep after its lifetime; no step, not
\* even the late commit of a dead process, brings it back.
WaysInAndOut ==
  \A c \in Creates :
    /\ c \in rows' \ rows => stmt[c] # "ok" /\ c \notin swept' \cup Taken'
    /\ c \in rows \ rows' =>
         \/ \E v \in Reveals :
              /\ took[v] = None /\ took'[v] = c /\ target[v] = token[c]
              /\ c \notin swept'
              /\ \A w \in Reveals \ {v} : took'[w] # c
         \/ /\ c \in swept' /\ c \notin Taken'
            /\ expires[c] > 0
            /\ startedAt[c] + AppAhead + expires[c] * Second < now

LEMMA WaysInAndOutStep ==
  ASSUME NoOverflow
  PROVE  Inductive /\ [Next]_vars => WaysInAndOut
<1> SUFFICES ASSUME Inductive, [Next]_vars, NEW c \in Creates
             PROVE  /\ c \in rows' \ rows => stmt[c] # "ok" /\ c \notin swept' \cup Taken'
                    /\ c \in rows \ rows' =>
                         \/ \E v \in Reveals :
                              /\ took[v] = None /\ took'[v] = c /\ target[v] = token[c]
                              /\ c \notin swept'
                              /\ \A w \in Reveals \ {v} : took'[w] # c
                         \/ /\ c \in swept' /\ c \notin Taken'
                            /\ expires[c] > 0
                            /\ startedAt[c] + AppAhead + expires[c] * Second < now
  BY DEF WaysInAndOut
<1> USE DEF creating, asking, sweeping, process
<1>0. Inductive'
  BY InductiveStep
<1>1. OneTimeAccess /\ OneTimeAccess' /\ Conservation
  BY <1>0 DEF Inductive
<1>2. c \notin rows' \/ c \notin swept' \cup Taken'
  BY <1>1 DEF OneTimeAccess, Taken
<1>3. CASE rows' = rows
  BY <1>3
<1>4. ASSUME NEW d \in Creates, ExecInsert(d)
      PROVE  rows \subseteq rows' /\ rows' \subseteq rows \cup {d} /\ stmt[d] # "ok"
  BY <1>4 DEF ExecInsert
<1>5. ASSUME NEW v \in Reveals, ExecDelete(v), c \in rows \ rows'
      PROVE  /\ took[v] = None /\ took'[v] = c /\ target[v] = token[c]
             /\ c \notin swept' /\ \A w \in Reveals \ {v} : took'[w] # c
  <2>1. stmt[v] = "sent" /\ rows' = Remaining(v) /\ swept' = swept
    BY <1>5 DEF ExecDelete
  <2>2. c \in Matching(v) /\ token[c] = target[v]
    BY <1>5, <2>1 DEF Remaining, Matching
  <2>3. Matching(v) \subseteq rows /\ \A d \in Matching(v) : token[d] = target[v]
    BY DEF Matching
  <2>4. \A d \in Matching(v) : d = c
    BY <2>2, <2>3 DEF Inductive, UniqueTokens
  <2>5. took' = [took EXCEPT ![v] = c]
    BY <1>5, <2>2, <2>4 DEF ExecDelete
  <2>6. took'[v] = c
    BY <2>5 DEF Inductive, TypeOK
  <2>7. took[v] = None
    BY <2>1 DEF Inductive, Protocol
  <2>8. c \notin swept
    BY <1>1, <1>5 DEF OneTimeAccess
  <2>9. ASSUME NEW w \in Reveals \ {v} PROVE took'[w] # c
    BY <1>1, <2>6, StoreAssumption DEF OneTimeAccess
  <2> QED
    BY <2>1, <2>2, <2>6, <2>7, <2>8, <2>9
<1>6. ASSUME ExecCleanup, c \in rows \ rows'
      PROVE  /\ c \in swept' /\ c \notin Taken' /\ expires[c] > 0
             /\ startedAt[c] + AppAhead + expires[c] * Second < now
  <2>1. c \in swept' /\ now' = now /\ expiresAt' = expiresAt /\ expires' = expires
        /\ startedAt' = startedAt /\ stmt' = stmt
    BY <1>6 DEF ExecCleanup
  <2>2. c \notin Taken'
    BY <1>1, <2>1 DEF OneTimeAccess, Taken
  <2>3. expiresAt[c] # Never /\ expiresAt[c] < now
    BY <1>0, <2>1 DEF Inductive, SweptExpired, Expired
  <2>4. stmt[c] = "ok"
    BY <1>1, <1>6 DEF Conservation
  <2> QED
    BY <2>1, <2>2, <2>3, <2>4, ExactExpiry
<1>7. ASSUME ExecCleanup PROVE rows' \subseteq rows
  BY <1>7 DEF ExecCleanup
<1>8. ASSUME NEW v \in Reveals, ExecDelete(v) PROVE rows' \subseteq rows
  BY <1>8 DEF ExecDelete, Remaining
<1>9. \/ rows' = rows
      \/ \E d \in Creates : ExecInsert(d)
      \/ \E v \in Reveals : ExecDelete(v)
      \/ ExecCleanup
  BY DEF Next, RejectCreate, CreateSecret, StoreRecord, RevealSecret, NotFound, FetchRecord,
         Reply, StatementError, CleanupTick, CleanupRecord, CleanupError, Crash, Shutdown,
         Exit, Vanish, Restart, Tick, vars
<1> QED
  BY <1>2, <1>3, <1>4, <1>5, <1>6, <1>7, <1>8, <1>9

\* Every step of the server, the database and the sweep keeps to these ways,
\* provided that no expires_in overflows time.Duration.
THEOREM WaysInAndOutHolds ==
  ASSUME NoOverflow PROVE Spec => [][WaysInAndOut]_vars
BY WaysInAndOutStep, InductiveHolds, PTL DEF Spec

-----------------------------------------------------------------------------
(* SecretStore implements OneTimeSecret *)

\* The three places a secret can be in, and their abstract names.
LEMMA StatusOf ==
  ASSUME Inductive, NEW c \in Creates
  PROVE  /\ c \in rows => AbstractStatus(c) =
              IF expiresAt[c] = Never THEN "forever" ELSE "timed"
         /\ c \in Taken => AbstractStatus(c) = "revealed"
         /\ c \in swept => AbstractStatus(c) = "expired"
         /\ c \notin rows \cup swept \cup Taken => AbstractStatus(c) = "unborn"
BY DEF Inductive, OneTimeAccess, AbstractStatus, Taken

LEMMA RefineInit == Init => OTS!Init
<1> SUFFICES ASSUME Init PROVE OTS!Init
  OBVIOUS
<1>1. ASSUME NEW c \in Creates PROVE AbstractStatus(c) = "unborn"
  <2>1. c \notin rows \cup swept \cup Taken
    BY StoreAssumption DEF Init, Taken
  <2> QED
    BY <2>1, InductiveInit, StatusOf
<1> QED
  BY <1>1 DEF OTS!Init, Init

\* A step that moves no secret is not seen by the abstract specification.
LEMMA Unseen ==
  ASSUME rows' = rows, took' = took, swept' = swept,
         \A c \in rows : expiresAt'[c] = expiresAt[c]
  PROVE  UNCHANGED OTS!vars
<1>1. ASSUME NEW c \in Creates PROVE AbstractStatus(c)' = AbstractStatus(c)
  BY DEF AbstractStatus
<1> QED
  BY <1>1 DEF OTS!vars

\* An INSERT that succeeds publishes its secret.
LEMMA InsertRefines ==
  ASSUME Inductive, NEW c \in Creates, ExecInsert(c)
  PROVE  OTS!Next \/ UNCHANGED OTS!vars
<1> USE DEF creating, asking, sweeping, process
<1>1. CASE \E d \in rows : token[d] = token[c]
  BY <1>1, Unseen DEF ExecInsert
<1>2. CASE ~\E d \in rows : token[d] = token[c]
  <2>1. /\ rows' = rows \cup {c}
        /\ took' = took /\ swept' = swept /\ expiresAt' = expiresAt
        /\ stmt[c] = "sent"
    BY <1>2 DEF ExecInsert
  <2>2. c \notin rows \cup swept \cup Taken /\ AbstractStatus(c) = "unborn"
    BY <2>1, StatusOf DEF Inductive, Conservation
  <2> DEFINE kind == IF expiresAt[c] = Never THEN "forever" ELSE "timed"
  <2>3. AbstractStatus(c)' = kind
    BY <2>1, <2>2 DEF AbstractStatus, Taken
  <2>4. ASSUME NEW d \in Creates, d # c
        PROVE  AbstractStatus(d)' = AbstractStatus(d)
    BY <2>1, <2>4 DEF AbstractStatus
  <2>5. kind \in OTS!Published
    BY DEF OTS!Published
  <2> HIDE DEF kind
  <2>6. OTS!Publish(c, kind)
    BY <2>1, <2>2, <2>3, <2>4 DEF OTS!Publish
  <2> QED
    BY <2>5, <2>6 DEF OTS!Next
<1> QED
  BY <1>1, <1>2

\* A DELETE that returns a row reveals exactly that secret: because tokens are
\* unique among the rows, nothing else leaves the table with it.
LEMMA DeleteRefines ==
  ASSUME Inductive, NEW v \in Reveals, ExecDelete(v)
  PROVE  OTS!Next \/ UNCHANGED OTS!vars
<1> USE DEF creating, asking, sweeping, process
<1>1. CASE Matching(v) = {}
  BY <1>1, Unseen DEF ExecDelete, Remaining
<1>2. CASE Matching(v) # {}
  <2>1. PICK c \in Matching(v) : took' = [took EXCEPT ![v] = c]
    BY <1>2 DEF ExecDelete
  <2>2. c \in rows /\ c \in Creates /\ Matching(v) = {c}
    BY <2>1 DEF Matching, Inductive, UniqueTokens, TypeOK
  <2>3. /\ rows' = rows \ {c} /\ swept' = swept /\ expiresAt' = expiresAt
        /\ stmt[v] = "sent"
    BY <2>2 DEF ExecDelete, Remaining
  <2>4. took[v] = None /\ took \in [Reveals -> Creates \cup {None}]
    BY <2>3 DEF Inductive, Protocol, TypeOK
  <2>5. c \in Taken'
    BY <2>1, <2>2, <2>4 DEF Taken
  <2>6. AbstractStatus(c) \in OTS!Published
    BY <2>2, StatusOf DEF OTS!Published
  <2>7. AbstractStatus(c)' = "revealed"
    BY <2>2, <2>3, <2>5 DEF AbstractStatus, Taken, Inductive, OneTimeAccess
  <2>8. ASSUME NEW d \in Creates, d # c
        PROVE  AbstractStatus(d)' = AbstractStatus(d)
    <3>1. (\E w \in Reveals : took'[w] = d) <=> (\E w \in Reveals : took[w] = d)
      BY <2>1, <2>4, <2>8, StoreAssumption
    <3> QED
      BY <2>3, <2>8, <3>1 DEF AbstractStatus
  <2>9. OTS!Reveal(c, v)
    BY <2>1, <2>2, <2>4, <2>6, <2>7, <2>8 DEF OTS!Reveal
  <2> QED
    BY <2>2, <2>9 DEF OTS!Next
<1> QED
  BY <1>1, <1>2

\* A sweep gives up a set of secrets, all of which had a lifetime.
LEMMA CleanupRefines ==
  ASSUME Inductive, ExecCleanup
  PROVE  OTS!Next
<1> USE DEF creating, asking, sweeping, process
<1> DEFINE S == {c \in rows : Expired(c, sweepAt)}
<1>1. S \in SUBSET Creates
  BY DEF Inductive, TypeOK
<1>2. /\ rows' = rows \ S /\ swept' = swept \cup S
      /\ took' = took /\ expiresAt' = expiresAt
  BY DEF ExecCleanup
<1>3. ASSUME NEW c \in S PROVE AbstractStatus(c) = "timed"
  BY <1>1, StatusOf DEF Expired
<1>4. ASSUME NEW c \in S PROVE AbstractStatus(c)' = "expired"
  <2>1. c \notin Taken
    BY <1>1 DEF Inductive, OneTimeAccess, Taken
  <2> QED
    BY <1>1, <1>2, <2>1 DEF AbstractStatus, Taken
<1>5. ASSUME NEW c \in Creates \ S PROVE AbstractStatus(c)' = AbstractStatus(c)
  <2>1. c \in rows' <=> c \in rows
    BY <1>2
  <2>2. c \in swept' <=> c \in swept
    BY <1>2
  <2> QED
    BY <1>2, <2>1, <2>2 DEF AbstractStatus
<1> HIDE DEF S
<1>6. OTS!Expire(S)
  BY <1>1, <1>2, <1>3, <1>4, <1>5 DEF OTS!Expire
<1> QED
  BY <1>1, <1>6 DEF OTS!Next

LEMMA RefineStep ==
  Inductive /\ [Next]_vars => [OTS!Next]_(OTS!vars)
<1> SUFFICES ASSUME Inductive, [Next]_vars
             PROVE  OTS!Next \/ UNCHANGED OTS!vars
  OBVIOUS
<1> USE DEF creating, asking, sweeping, process
<1>1. ASSUME NEW c \in Creates,
             RejectCreate(c) \/ CreateSecret(c) \/ StoreRecord(c)
      PROVE  UNCHANGED OTS!vars
  <2>1. CASE RejectCreate(c) \/ StoreRecord(c)
    BY <2>1, Unseen DEF RejectCreate, StoreRecord
  <2>2. CASE CreateSecret(c)
    <3>1. c \notin rows
      BY <2>2 DEF CreateSecret, Inductive, Protocol, Conservation, Requests
    <3>2. \A d \in rows : expiresAt'[d] = expiresAt[d]
      BY <2>2, <3>1 DEF CreateSecret, Inductive, TypeOK
    <3> QED
      BY <2>2, <3>2, Unseen DEF CreateSecret
  <2> QED
    BY <1>1, <2>1, <2>2
<1>2. ASSUME NEW c \in Creates, ExecInsert(c)
      PROVE  OTS!Next \/ UNCHANGED OTS!vars
  BY <1>2, InsertRefines
<1>3. ASSUME NEW v \in Reveals,
             RevealSecret(v) \/ NotFound(v) \/ FetchRecord(v)
      PROVE  UNCHANGED OTS!vars
  BY <1>3, Unseen DEF RevealSecret, NotFound, FetchRecord
<1>4. ASSUME NEW v \in Reveals, ExecDelete(v)
      PROVE  OTS!Next \/ UNCHANGED OTS!vars
  BY <1>4, DeleteRefines
<1>5. ASSUME NEW r \in Requests, Reply(r) \/ StatementError(r)
      PROVE  UNCHANGED OTS!vars
  BY <1>5, Unseen DEF Reply, StatementError
<1>6. CASE CleanupTick \/ CleanupRecord \/ CleanupError
  BY <1>6, Unseen DEF CleanupTick, CleanupRecord, CleanupError
<1>7. CASE ExecCleanup
  BY <1>7, CleanupRefines
<1>8. CASE Crash \/ Shutdown \/ Exit \/ Restart \/ Tick
  BY <1>8, Unseen DEF Crash, Shutdown, Exit, Vanish, Restart, Tick
<1>9. CASE UNCHANGED vars
  BY <1>9, Unseen DEF vars
<1> QED
  BY <1>1, <1>2, <1>3, <1>4, <1>5, <1>6, <1>7, <1>8, <1>9 DEF Next

\* Whatever races, fails or crashes, the server behaves like a one-time secret.
THEOREM Implementation == Spec => ImplementsOneTimeSecret
BY RefineInit, RefineStep, InductiveHolds, PTL
   DEF Spec, ImplementsOneTimeSecret, OTS!Spec
=============================================================================
