-------------------------- MODULE AdminLogsProofs --------------------------
(***************************************************************************)
(* Proofs about AdminLogs, for any clients, requests, tables, page size    *)
(* and width of an int.                                                    *)
(***************************************************************************)
EXTENDS AdminLogs, FiniteSetTheorems, TLAPS

-----------------------------------------------------------------------------
(* Numbers *)

LEMMA Sizes ==
  /\ pageSize \in Nat \ {0} /\ IntLimit \in Nat \ {0} /\ pageSize <= IntLimit
  /\ MaxRecords \in Nat /\ MaxTime \in Nat /\ Observed \in Clients
BY AdminAssumption

\* Bounded sets of naturals have a maximum.
LEMMA MaxOfBounded ==
  ASSUME NEW M \in Nat, NEW S \in SUBSET (0 .. M), S # {}
  PROVE  Max(S) \in S /\ \A y \in S : Max(S) >= y
<1> DEFINE Over(x) == {y \in S : y > x}
           T == {Over(x) : x \in S}
<1>1. IsFiniteSet(S)
  BY FS_Interval, FS_Subset, 0 \in Int, M \in Int
<1>2. T \subseteq FiniteSubsetsOf(S) /\ T # {}
  <2>1. \A x \in S : Over(x) \in SUBSET S /\ IsFiniteSet(Over(x))
    BY <1>1, FS_Subset
  <2> QED
    BY <2>1 DEF FiniteSubsetsOf
<1>3. PICK t \in T : \A u \in T : ~ (<<u, t>> \in StrictSubsetOrdering(S))
  BY <1>2, WFMin, FS_StrictSubsetOrderingWellFounded
<1>4. PICK x \in S : t = Over(x)
  OBVIOUS
<1>5. ASSUME NEW y \in S, y > x PROVE FALSE
  <2>1. Over(y) \subseteq Over(x) /\ y \in Over(x) /\ y \notin Over(y)
    <3>1. x \in Int /\ y \in Int /\ \A z \in S : z \in Int
      OBVIOUS
    <3>2. y \in Over(x)
      BY <1>5
    <3>3. \A z \in S : z > y => z > x
      BY <1>5, <3>1
    <3>4. Over(y) \subseteq Over(x)
      BY <3>3
    <3>5. y \notin Over(y)
      BY <3>1
    <3> QED
      BY <3>2, <3>4, <3>5
  <2>3. Over(y) \in T
    OBVIOUS
  <2>2. <<Over(y), Over(x)>> \in StrictSubsetOrdering(S)
    <3>1. Over(y) \in SUBSET S /\ Over(x) \in SUBSET S /\ Over(y) # Over(x)
      BY <2>1
    <3> HIDE DEF Over
    <3> QED
      BY <2>1, <3>1 DEF StrictSubsetOrdering
  <2> QED
    BY <2>2, <2>3, <1>3, <1>4
<1>6. \A y \in S : x >= y
  BY <1>5
<1> QED
  BY <1>6 DEF Max

LEMMA Decompose ==
  ASSUME NEW n \in Int, NEW m \in Nat \ {0}
  PROVE  n = m * (n \div m) + (n % m) /\ n % m \in 0 .. m - 1 /\ n \div m \in Int
OBVIOUS

LEMMA ModBelow ==
  ASSUME NEW n \in Nat, NEW m \in Nat \ {0}, n < m
  PROVE  n % m = n
<1>1. n = m * (n \div m) + (n % m) /\ n % m \in 0 .. m - 1 /\ n \div m \in Int
  BY Decompose
<1>2. n \div m = 0
  BY <1>1
<1> QED
  BY <1>1, <1>2

LEMMA ModOnce ==
  ASSUME NEW n \in Nat, NEW m \in Nat \ {0}, m <= n, n < 2 * m
  PROVE  n % m = n - m
<1>1. n = m * (n \div m) + (n % m) /\ n % m \in 0 .. m - 1 /\ n \div m \in Int
  BY Decompose
<1>2. n \div m = 1
  BY <1>1
<1> QED
  BY <1>1, <1>2

\* int arithmetic is arithmetic inside the range, and negative just above it.
LEMMA WrapInside ==
  ASSUME NEW n \in Int, - IntLimit <= n, n < IntLimit
  PROVE  Wrap(n) = n
<1>1. n + IntLimit \in Nat /\ 2 * IntLimit \in Nat \ {0} /\ n + IntLimit < 2 * IntLimit
  BY Sizes
<1>2. (n + IntLimit) % (2 * IntLimit) = n + IntLimit
  BY <1>1, ModBelow
<1> QED
  BY <1>2, Sizes DEF Wrap

LEMMA WrapAbove ==
  ASSUME NEW n \in Int, IntLimit <= n, n < 3 * IntLimit
  PROVE  Wrap(n) = n - 2 * IntLimit
<1>1. n + IntLimit \in Nat /\ 2 * IntLimit \in Nat \ {0}
      /\ 2 * IntLimit <= n + IntLimit /\ n + IntLimit < 2 * (2 * IntLimit)
  BY Sizes, IntLimit <= n, n < 3 * IntLimit
<1> DEFINE k == n + IntLimit
           m == 2 * IntLimit
<1>2. k % m = k - m
  <2> HIDE DEF k, m
  <2>1. k \in Nat /\ m \in Nat \ {0} /\ m <= k /\ k < 2 * m
    BY <1>1 DEF k, m
  <2> QED
    BY <2>1, ModOnce
<1> QED
  BY <1>2, Sizes DEF Wrap

Upto(W, i) == {j \in W : j <= i}

\* The ids that consecutive records get: rising, without a gap, within the
\* bound.
LEMMA Numbering ==
  ASSUME NEW n \in Nat, NEW W \in SUBSET (1 .. n),
         NEW base \in Nat, NEW bound \in Nat, base <= bound,
         NEW num, \A i \in W : num[i] = Cardinality(Upto(W, i)),
         NEW new \in SUBSET W, \A i \in W : i \in new <=> base + num[i] <= bound
  PROVE  /\ Cardinality(new) \in Nat /\ base + Cardinality(new) <= bound
         /\ \A i \in W : num[i] \in Nat
         /\ \A i \in new : num[i] \in 1 .. Cardinality(new)
         /\ \A i, k \in W : num[i] = num[k] => i = k
<1> DEFINE Below(i) == {j \in W : j <= i}
<1>1. IsFiniteSet(W)
  BY FS_Interval, FS_Subset, 1 \in Int, n \in Int
<1>2. IsFiniteSet(new) /\ Cardinality(new) \in Nat
  BY <1>1, FS_Subset, FS_CardinalityType, new \in SUBSET W
<1>3. \A i \in W : IsFiniteSet(Below(i)) /\ Cardinality(Below(i)) \in Nat
  BY <1>1, FS_Subset, FS_CardinalityType, \A i \in W : Below(i) \in SUBSET W
<1>a. \A i \in W : i \in Int /\ Below(i) \in SUBSET W
  OBVIOUS
<1>b. \A i, j \in W : j \in Below(i) <=> j <= i
  OBVIOUS
<1>c. \A i : i \in new <=> i \in W /\ base + Cardinality(Below(i)) <= bound
  BY DEF Upto
<1>d. \A i \in W : num[i] = Cardinality(Below(i))
  BY DEF Upto
<1> HIDE DEF Below
<1>4. ASSUME NEW i \in W, NEW k \in W, i < k
      PROVE  Cardinality(Below(i)) < Cardinality(Below(k))
  <2>1. Below(i) \in SUBSET Below(k) /\ k \in Below(k) /\ k \notin Below(i)
    <3>1. \A j \in W : j <= i => j <= k
      BY <1>4, <1>a
    <3>2. k <= k /\ ~ (k <= i)
      BY <1>4, <1>a
    <3> QED
      BY <1>a, <1>b, <3>1, <3>2
  <2>2. Cardinality(Below(i)) <= Cardinality(Below(k))
        /\ Cardinality(Below(i)) # Cardinality(Below(k))
    BY <2>1, <1>3, FS_Subset
  <2> QED
    BY <2>2, <1>3
<1>5. \A i, k \in W : Cardinality(Below(i)) = Cardinality(Below(k)) => i = k
  BY <1>3, <1>4, <1>a
<1>6. ASSUME NEW i \in new PROVE Cardinality(Below(i)) \in 1 .. Cardinality(new)
  <2>1. Below(i) \subseteq new
    <3>2. i \in W /\ base + Cardinality(Below(i)) <= bound
      BY <1>c
    <3>1. SUFFICES ASSUME NEW j \in Below(i)
                   PROVE  j \in W /\ base + Cardinality(Below(j)) <= bound
      BY <1>c
    <3>3. j \in W /\ (j = i \/ j < i)
      <4>1. j \in W /\ j <= i
        BY <3>2, <1>a, <1>b
      <4> QED
        BY <4>1, <3>2, <1>a
    <3>4. Cardinality(Below(j)) <= Cardinality(Below(i))
      BY <1>4, <1>3, <3>2, <3>3
    <3> QED
      BY <3>2, <3>3, <3>4, <1>3
  <2>2. Cardinality(Below(i)) <= Cardinality(new)
    BY <2>1, <1>2, FS_Subset
  <2>3. Cardinality(Below(i)) # 0
    BY <1>3, <1>a, <1>b, <1>c, FS_EmptySet
  <2> QED
    BY <1>2, <1>3, <1>c, <2>2, <2>3
<1>7. base + Cardinality(new) <= bound
  <2> DEFINE f == [i \in new |-> Cardinality(Below(i))]
  <2>1. f \in Injection(new, 1 .. (bound - base))
    <3>1. \A i \in new : Cardinality(Below(i)) \in 1 .. (bound - base)
      <4>1. SUFFICES ASSUME NEW i \in new
                     PROVE  Cardinality(Below(i)) \in 1 .. (bound - base)
        OBVIOUS
      <4>2. Cardinality(Below(i)) \in 1 .. Cardinality(new)
        BY <1>6
      <4>3. base + Cardinality(Below(i)) <= bound
        BY <1>c
      <4> QED
        BY <4>2, <4>3, <1>2
    <3> QED
      BY <3>1, <1>5, <1>c DEF Injection, IsInjective
  <2>2. Cardinality(1 .. (bound - base)) = bound - base
        /\ IsFiniteSet(1 .. (bound - base))
    <3>1. 1 \in Int /\ bound - base \in Int /\ bound - base >= 0
      OBVIOUS
    <3> QED
      BY <3>1, FS_Interval
  <2>3. Cardinality(new) <= bound - base
    BY <2>1, <2>2, FS_Injection
  <2> QED
    BY <2>3, <1>2
<1> QED
  BY <1>2, <1>3, <1>5, <1>6, <1>7, <1>c, <1>d

-----------------------------------------------------------------------------
(* Rows and their ids *)

\* The part of TypeOK about rows.
RowsOK ==
  /\ now \in 0 .. MaxTime /\ logged \in 0 .. MaxRecords
  /\ \A row \in app_logs \cup pending :
       /\ row.id \in 1 .. logged /\ row.ts \in Int /\ row.ts <= now
       /\ row.level \in DOMAIN Severity
       /\ \A other \in app_logs \cup pending : other.id = row.id => other = row

\* What logging does: new records with new ids.
Logging ==
  /\ logged' \in logged .. MaxRecords /\ pending \subseteq pending'
  /\ \A row \in pending' \ pending :
       /\ row.id \in logged + 1 .. logged' /\ row.ts = now
       /\ row.level \in DOMAIN Severity
       /\ \A other \in pending' \ pending : other.id = row.id => other = row

LEMMA LogAllLogs ==
  ASSUME logged \in 0 .. MaxRecords, NEW n \in Nat, NEW entries,
         DOMAIN entries = 1 .. n,
         \A i \in 1 .. n : entries[i].level \in DOMAIN Severity,
         LogAll(entries)
  PROVE  /\ Logging
         /\ \A row \in pending' \ pending : \E i \in 1 .. n :
              row.msg = entries[i].msg /\ row.path = entries[i].path
         /\ n = 1 /\ logged' > logged => logged' \in Ids(pending')
<1> DEFINE W == {i \in 1 .. n : Severity[entries[i].level] >= parseLogLevel(cfg.dbMinLevel)}
           num == [i \in W |-> Cardinality(Upto(W, i))]
           Id(i) == logged + num[i]
           new == {i \in W : Id(i) <= MaxRecords}
           Rec(i) == [id |-> Id(i), ts |-> now, level |-> entries[i].level,
                      msg |-> entries[i].msg, path |-> entries[i].path]
<1>1. pending' = pending \cup {Rec(i) : i \in new} /\ logged' = logged + Cardinality(new)
  <2> DEFINE Num(i) == logged + Cardinality({j \in W : j <= i})
             some == {i \in W : Num(i) <= MaxRecords}
  <2>1. /\ pending' = pending \cup
             {[id |-> Num(i), ts |-> now, level |-> entries[i].level,
               msg |-> entries[i].msg, path |-> entries[i].path] : i \in some}
        /\ logged' = logged + Cardinality(some)
    BY DEF LogAll
  <2>2. \A i \in W : Num(i) = Id(i)
    BY DEF Upto
  <2>3. some = new
    BY <2>2
  <2>4. \A i \in new : Num(i) = Id(i)
    BY <2>2
  <2> HIDE DEF W, num, new, some, Num
  <2> QED
    BY <2>1, <2>3, <2>4
<1>2. /\ Cardinality(new) \in Nat /\ logged + Cardinality(new) <= MaxRecords
      /\ \A i \in W : num[i] \in Nat
      /\ \A i \in new : num[i] \in 1 .. Cardinality(new)
      /\ \A i, k \in W : num[i] = num[k] => i = k
  <2>1. W \in SUBSET (1 .. n) /\ logged \in Nat /\ MaxRecords \in Nat /\ logged <= MaxRecords
    BY Sizes
  <2>2. new \in SUBSET W /\ \A i \in W : i \in new <=> logged + num[i] <= MaxRecords
    OBVIOUS
  <2>3. \A i \in W : num[i] = Cardinality(Upto(W, i))
    OBVIOUS
  <2> HIDE DEF W, new, num
  <2> QED
    BY <2>1, <2>2, <2>3, Numbering, ZenonT(60)
<1>3. W \subseteq 1 .. n /\ new \subseteq W /\ logged \in Nat
  BY Sizes
<1>4. \A i \in new : /\ Rec(i).id = logged + num[i] /\ Rec(i).ts = now
                     /\ Rec(i).level = entries[i].level /\ Rec(i).msg = entries[i].msg
                     /\ Rec(i).path = entries[i].path
  OBVIOUS
<1>7. n = 1 /\ logged' > logged => logged' \in Ids(pending')
  <2>1. SUFFICES ASSUME n = 1, logged' > logged PROVE logged' \in Ids(pending')
    OBVIOUS
  <2>2. PICK i : i \in new
    <3> HIDE DEF W, num, new, Rec
    <3>1. logged' = logged + Cardinality(new) /\ Cardinality(new) \in Nat /\ logged \in Nat
      BY <1>1, <1>2, <1>3, Zenon
    <3>2. Cardinality(new) # 0
      BY <2>1, <3>1
    <3> QED
      BY <3>2, FS_EmptySet
  <2>3. new = {1} /\ i = 1
    BY <2>1, <2>2, <1>3
  <2>4. Cardinality(new) = 1
    BY <2>3, FS_Singleton
  <2> HIDE DEF W, num, new, Rec
  <2>5. num[i] = 1
    <3>1. num[i] \in 1 .. Cardinality(new)
      BY <1>2, <2>2, Zenon
    <3> QED
      BY <2>4, <3>1
  <2>6. Rec(i) \in pending' /\ Rec(i).id = logged'
    BY <1>1, <2>2, <2>4, <2>5, <1>4
  <2> QED
    BY <2>6 DEF Ids
<1> HIDE DEF W, num, new, Rec
<1>5. Logging
  <2>1. logged' \in logged .. MaxRecords /\ pending \subseteq pending'
    BY <1>1, <1>2, <1>3, Sizes
  <2>2. ASSUME NEW row \in pending' \ pending
        PROVE  /\ row.id \in logged + 1 .. logged' /\ row.ts = now
               /\ row.level \in DOMAIN Severity
               /\ \A other \in pending' \ pending : other.id = row.id => other = row
    <3>1. PICK i \in new : row = Rec(i)
      BY <1>1
    <3>2. row.id \in logged + 1 .. logged'
      <4>1. /\ logged \in Nat /\ Cardinality(new) \in Nat /\ num[i] \in 1 .. Cardinality(new)
            /\ logged' = logged + Cardinality(new)
        BY <1>1, <1>2, <1>3, Zenon
      <4>2. row.id = logged + num[i]
        BY <3>1, <1>4, Zenon
      <4> QED
        BY <4>1, <4>2
    <3>3. row.ts = now /\ row.level \in DOMAIN Severity
      BY <3>1, <1>3, <1>4
    <3>4. ASSUME NEW other \in pending' \ pending, other.id = row.id PROVE other = row
      <4>1. PICK k \in new : other = Rec(k)
        BY <1>1
      <4>2. logged + num[i] = logged + num[k] /\ i \in W /\ k \in W
        BY <3>1, <4>1, <3>4, <1>3, <1>4
      <4>3. num[i] \in Nat /\ num[k] \in Nat /\ logged \in Nat
        BY <4>2, <1>2, <1>3, Zenon
      <4>4. num[i] = num[k]
        BY <4>2, <4>3
      <4> QED
        BY <4>2, <4>4, <1>2, <3>1, <4>1
    <3> QED
      BY <3>2, <3>3, <3>4
  <2> QED
    BY <2>1, <2>2 DEF Logging
<1>6. \A row \in pending' \ pending : \E i \in 1 .. n :
        row.msg = entries[i].msg /\ row.path = entries[i].path
  BY <1>1, <1>3, <1>4
<1> QED
  BY <1>5, <1>6, <1>7

LEMMA QuietLogs ==
  ASSUME logged \in 0 .. MaxRecords, Quiet
  PROVE  Logging /\ pending' = pending /\ logged' = logged
BY Sizes DEF Quiet, Logging

\* Ids stay unique as records are logged and rows deleted, and time goes by.
LEMMA RowsStep ==
  ASSUME RowsOK, Logging, app_logs' \subseteq app_logs, now' \in now .. MaxTime
  PROVE  RowsOK'
<1>0. now \in 0 .. MaxTime /\ logged \in 0 .. MaxRecords
  BY DEF RowsOK
<1>1. now' \in 0 .. MaxTime /\ logged' \in 0 .. MaxRecords /\ logged <= logged' /\ now <= now'
  BY <1>0, Sizes DEF Logging
<1>2. ASSUME NEW row \in (app_logs \cup pending)'
      PROVE  \/ /\ row \in app_logs \cup pending /\ row.id \in 1 .. logged
             \/ /\ row \in pending' \ pending /\ row.id \in logged + 1 .. logged'
  BY DEF RowsOK, Logging
<1>3. ASSUME NEW row \in (app_logs \cup pending)'
      PROVE  /\ row.id \in 1 .. logged' /\ row.ts \in Int /\ row.ts <= now'
             /\ row.level \in DOMAIN Severity
  <2>1. CASE row \in app_logs \cup pending
    <3>1. /\ row.id \in 1 .. logged /\ row.ts \in Int /\ row.ts <= now
          /\ row.level \in DOMAIN Severity
      BY <2>1 DEF RowsOK
    <3> QED
      BY <3>1, <1>0, <1>1
  <2>2. CASE row \in pending' \ pending
    <3>1. row.id \in logged + 1 .. logged' /\ row.ts = now /\ row.level \in DOMAIN Severity
      BY <2>2 DEF Logging
    <3> QED
      BY <3>1, <1>0, <1>1
  <2> QED
    BY <1>2, <2>1, <2>2
<1>4. ASSUME NEW row \in (app_logs \cup pending)', NEW other \in (app_logs \cup pending)',
             other.id = row.id
      PROVE  other = row
  <2>1. CASE row \in app_logs \cup pending /\ other \in app_logs \cup pending
    BY <2>1, <1>4 DEF RowsOK
  <2>2. CASE row \in pending' \ pending /\ other \in pending' \ pending
    BY <2>2, <1>4 DEF Logging
  <2>3. ~ (row.id \in 1 .. logged /\ row.id \in logged + 1 .. logged')
    BY <1>0
  <2> QED
    BY <1>2, <1>4, <2>1, <2>2, <2>3
<1> QED
  BY <1>1, <1>3, <1>4 DEF RowsOK

\* What an action does to table and records, seen from outside.
LEMMA EntryLevels ==
  /\ \A msg, path : Entry("WARN", msg, path).level \in DOMAIN Severity
  /\ \A q : RequestLine(q).level \in DOMAIN Severity
  /\ \A level \in Elsewhere : \A msg, path : Entry(level, msg, path).level \in DOMAIN Severity
BY InputAssumption DEF Entry, RequestLine, Severity

LEMMA LogOne ==
  ASSUME logged \in 0 .. MaxRecords, NEW e, e.level \in DOMAIN Severity, LogAll(<<e>>)
  PROVE  /\ Logging
         /\ \A row \in pending' \ pending : row.msg = e.msg /\ row.path = e.path
         /\ logged' > logged => logged' \in Ids(pending')
<1> DEFINE es == <<e>>
<1>1. DOMAIN es = 1 .. 1 /\ es[1] = e /\ \A i \in 1 .. 1 : es[i] = e
  OBVIOUS
<1>2. LogAll(es) /\ 1 \in Nat /\ \A i \in 1 .. 1 : es[i].level \in DOMAIN Severity
  BY <1>1
<1> HIDE DEF es
<1>3. /\ Logging
      /\ \A row \in pending' \ pending : \E i \in 1 .. 1 :
           row.msg = es[i].msg /\ row.path = es[i].path
      /\ logged' > logged => logged' \in Ids(pending')
  BY <1>1, <1>2, LogAllLogs
<1> QED
  BY <1>1, <1>3

LEMMA LogTwo ==
  ASSUME logged \in 0 .. MaxRecords, NEW d, d.level \in DOMAIN Severity,
         NEW e, e.level \in DOMAIN Severity, LogAll(<<d, e>>)
  PROVE  /\ Logging
         /\ \A row \in pending' \ pending : \/ row.msg = d.msg /\ row.path = d.path
                                            \/ row.msg = e.msg /\ row.path = e.path
<1> DEFINE es == <<d, e>>
           n == 2
<1>0. n \in Nat /\ DOMAIN es = 1 .. n /\ LogAll(es)
  OBVIOUS
<1>1. \A i \in 1 .. n : es[i] = d \/ es[i] = e
  OBVIOUS
<1> HIDE DEF es, n
<1>2. \A i \in 1 .. n : es[i].level \in DOMAIN Severity
  BY <1>1
<1>3. /\ Logging
      /\ \A row \in pending' \ pending : \E i \in 1 .. n :
           row.msg = es[i].msg /\ row.path = es[i].path
  BY <1>0, <1>2, LogAllLogs
<1> QED
  BY <1>1, <1>3

LEMMA LogWarning ==
  ASSUME logged \in 0 .. MaxRecords, LogAll(<<Warning>>)
  PROVE  /\ Logging /\ \A row \in pending' \ pending : row.path = <<>>
         /\ logged' > logged => logged' \in Ids(pending')
<1>1. Warning.level \in DOMAIN Severity /\ Warning.path = <<>>
  BY EntryLevels DEF Warning, Entry
<1> QED
  BY <1>1, LogOne

\* Every action but those of the writer.
Outside ==
  \/ \E c \in Clients :
       \/ \E q \in Requests : BlockProbe(c, q) \/ Refuse(c, q) \/ Serve(c, q)
       \/ HealthProbe(c)
       \/ CountQuery(c) \/ CountFails(c)
       \/ RowsQuery(c) \/ RowsFail(c) \/ RowsCutShort(c)
       \/ ExecDelete(c) \/ GiveUpDelete(c) \/ ClearDone(c) \/ ClearFailed(c)
  \/ LateDelete
  \/ LogElsewhere \/ Tick

LEMMA OutsideStep ==
  ASSUME RowsOK, Outside
  PROVE  /\ Logging /\ app_logs' \subseteq app_logs /\ now' \in now .. MaxTime
         /\ cfg' = cfg
<1>0. logged \in 0 .. MaxRecords /\ now \in 0 .. MaxTime
  BY DEF RowsOK
<1>1. now \in now .. MaxTime
  BY <1>0, Sizes
<1>2. ASSUME NEW c \in Clients, NEW q \in Requests, BlockProbe(c, q)
      PROVE  Logging /\ UNCHANGED <<app_logs, now, cfg>>
  BY <1>0, <1>2, LogOne, EntryLevels DEF BlockProbe, Arrive
<1>3. ASSUME NEW c \in Clients, NEW q \in Requests, Refuse(c, q)
      PROVE  Logging /\ UNCHANGED <<app_logs, now, cfg>>
  BY <1>0, <1>3, LogTwo, EntryLevels DEF Refuse, Arrive
<1>4. ASSUME NEW c \in Clients, NEW q \in Requests, Serve(c, q)
      PROVE  Logging /\ UNCHANGED <<app_logs, now, cfg>>
  BY <1>0, <1>4, LogOne, EntryLevels DEF Serve, Arrive
<1>5. ASSUME NEW c \in Clients, HealthProbe(c)
      PROVE  Logging /\ UNCHANGED <<app_logs, now, cfg>>
  BY <1>0, <1>5, LogWarning, QuietLogs DEF HealthProbe
<1>6. ASSUME NEW c \in Clients,
             CountQuery(c) \/ RowsQuery(c) \/ RowsCutShort(c) \/ GiveUpDelete(c)
      PROVE  Logging /\ UNCHANGED <<app_logs, now, cfg>>
  BY <1>0, <1>6, QuietLogs DEF CountQuery, RowsQuery, RowsCutShort, GiveUpDelete
<1>7. ASSUME NEW c \in Clients, CountFails(c) \/ RowsFail(c)
      PROVE  Logging /\ UNCHANGED <<app_logs, now, cfg>>
  BY <1>0, <1>7, LogWarning DEF CountFails, RowsFail
<1>8. ASSUME (\E c \in Clients : ExecDelete(c)) \/ LateDelete
      PROVE  Logging /\ app_logs' \subseteq app_logs /\ UNCHANGED <<now, cfg>>
  BY <1>0, <1>8, QuietLogs DEF ExecDelete, LateDelete, Delete
<1>9. ASSUME NEW c \in Clients, ClearDone(c) \/ ClearFailed(c)
      PROVE  Logging /\ UNCHANGED <<app_logs, now, cfg>>
  BY <1>0, <1>9, LogWarning DEF ClearDone, ClearFailed, AuditBy
<1>10. ASSUME LogElsewhere PROVE Logging /\ UNCHANGED <<app_logs, now, cfg>>
  BY <1>0, <1>10, LogOne, EntryLevels DEF LogElsewhere
<1>11. ASSUME Tick PROVE Logging /\ app_logs' = app_logs /\ now' \in now .. MaxTime /\ cfg' = cfg
  <2>1. Logging
    BY <1>0, <1>11, QuietLogs DEF Tick, Quiet
  <2> QED
    BY <1>0, <1>11, <2>1, Sizes DEF Tick
<1> QED
  BY <1>1, <1>2, <1>3, <1>4, <1>5, <1>6, <1>7, <1>8, <1>9, <1>10, <1>11 DEF Outside

LEMMA WriterStep ==
  ASSUME RowsOK, WriterInsert \/ WriterLose
  PROVE  RowsOK' /\ pending' \subseteq pending /\ logged' = logged /\ cfg' = cfg
BY DEF RowsOK, WriterInsert, WriterLose

LEMMA NextSplit == Next <=> Outside \/ WriterInsert \/ WriterLose
BY DEF Next, Outside

LEMMA RowsNext ==
  ASSUME RowsOK, Next
  PROVE  RowsOK' /\ cfg' = cfg
BY NextSplit, OutsideStep, RowsStep, WriterStep

\* No query finds more rows than there are ids.
LEMMA RowsCounted ==
  ASSUME RowsOK, IsFiniteSet(app_logs), NEW S \in SUBSET app_logs
  PROVE  IsFiniteSet(S) /\ Cardinality(S) \in 0 .. MaxRecords
<1> DEFINE f == [row \in S |-> row.id]
<1>1. IsFiniteSet(S) /\ Cardinality(S) \in Nat
  BY FS_Subset, FS_CardinalityType
<1>2. logged \in Int /\ logged >= 0 /\ logged <= MaxRecords /\ 1 \in Int
  BY Sizes DEF RowsOK
<1>3. f \in Injection(S, 1 .. logged)
  <2>1. \A row \in S : row.id \in 1 .. logged
                       /\ \A other \in S : other.id = row.id => other = row
    BY DEF RowsOK
  <2> QED
    BY <2>1 DEF Injection, IsInjective
<1>4. IsFiniteSet(1 .. logged) /\ Cardinality(1 .. logged) = logged
  BY <1>2, FS_Interval
<1>5. Cardinality(S) <= logged
  BY <1>3, <1>4, FS_Injection
<1> QED
  BY <1>1, <1>2, <1>5, Sizes

-----------------------------------------------------------------------------
(* The clients *)

\* The part of TypeOK about clients.
AbandonedOK ==
  \A d, e \in abandoned : d.no \in 1 .. MaxAbandoned /\ (d.no = e.no => d = e)

ClientsOK ==
  /\ pc \in [Clients -> Statements \cup {"idle"}]
  /\ req \in [Clients -> Requests \cup {Unset}]
  /\ DOMAIN query = Clients /\ \A c \in Clients : query[c].page \in 0 .. IntLimit - 1
  /\ total \in [Clients -> 0 .. MaxRecords]
  /\ hit \in BOOLEAN /\ audit \in 0 .. MaxRecords
  /\ AbandonedOK

\* What Shape says of the table, and of the walk.
TableOK == IsFiniteSet(app_logs) /\ app_logs \cap pending = {}

WalkOK ==
  /\ walk.on \in BOOLEAN
  /\ walk.on =>
       /\ walk = [on |-> TRUE, level |-> walk.level, window |-> walk.window,
                  next |-> walk.next, start |-> walk.start, seen |-> walk.seen,
                  over |-> walk.over]
       /\ walk.next \in Nat /\ walk.over \in BOOLEAN
       /\ walk.start \subseteq 1 .. logged /\ walk.start \cap Ids(pending) = {}

LEMMA Parts ==
  TypeOK /\ Shape <=> RowsOK /\ ClientsOK /\ TableOK /\ WalkOK
BY DEF TypeOK, Shape, RowsOK, ClientsOK, AbandonedOK, TableOK, WalkOK

LEMMA PageInRange ==
  ASSUME NEW p \in Int \cup {Junk} PROVE PageOf(p) \in 0 .. IntLimit - 1
<1>1. CASE p = Junk
  BY <1>1, Sizes DEF PageOf
<1>2. CASE p # Junk /\ p < 0
  BY <1>2, Sizes DEF PageOf
<1>3. CASE p # Junk /\ ~ (p < 0) /\ p >= IntLimit
  BY <1>3, Sizes DEF PageOf
<1>4. CASE p # Junk /\ ~ (p < 0) /\ ~ (p >= IntLimit)
  BY <1>4, Sizes DEF PageOf
<1> QED
  BY <1>1, <1>2, <1>3, <1>4

LEMMA ReturnClients ==
  ASSUME ClientsOK, NEW c \in Clients, Return(c)
  PROVE  /\ pc' \in [Clients -> Statements \cup {"idle"}]
         /\ req' \in [Clients -> Requests \cup {Unset}]
         /\ DOMAIN query' = Clients /\ \A d \in Clients : query'[d].page \in 0 .. IntLimit - 1
         /\ total' \in [Clients -> 0 .. MaxRecords]
<1>1. FirstPage.page = 0 /\ 0 \in 0 .. IntLimit - 1 /\ 0 \in 0 .. MaxRecords
  BY Sizes DEF FirstPage
<1>2. query' = [query EXCEPT ![c] = FirstPage] /\ DOMAIN query = Clients
  BY DEF Return, ClientsOK
<1>3. DOMAIN query' = Clients /\ \A d \in Clients : query'[d] \in {query[d], FirstPage}
  BY <1>2
<1> QED
  BY <1>1, <1>3 DEF ClientsOK, Return

LEMMA AuditInRange ==
  ASSUME Logging, RowsOK, audit \in 0 .. MaxRecords,
         audit' = audit \/ audit' = 0 \/ audit' = logged'
  PROVE  audit' \in 0 .. MaxRecords
BY Sizes DEF Logging, RowsOK

LEMMA ServeClients ==
  ASSUME ClientsOK, NEW c \in Clients, NEW q \in Requests, Serve(c, q)
  PROVE  /\ pc' \in [Clients -> Statements \cup {"idle"}]
         /\ req' \in [Clients -> Requests \cup {Unset}]
         /\ DOMAIN query' = Clients /\ \A d \in Clients : query'[d].page \in 0 .. IntLimit - 1
<1>1. pc' \in [Clients -> Statements \cup {"idle"}]
  <2>1. pc' \in {pc, [pc EXCEPT ![c] = "ping"], [pc EXCEPT ![c] = "count"],
                 [pc EXCEPT ![c] = "delete"]}
    BY DEF Serve
  <2>2. pc \in [Clients -> Statements \cup {"idle"}]
        /\ {"ping", "count", "delete"} \subseteq Statements
    BY DEF ClientsOK, Statements
  <2> HIDE DEF Statements
  <2> QED
    BY <2>1, <2>2
<1>2. req' \in [Clients -> Requests \cup {Unset}]
  BY DEF ClientsOK, Serve
<1>3. PICK v : /\ v.page \in 0 .. IntLimit - 1
               /\ query' = query \/ query' = [query EXCEPT ![c] = v]
  <2>1. FirstPage.page \in 0 .. IntLimit - 1
    BY Sizes DEF FirstPage
  <2>2. CASE query' \in {query, [query EXCEPT ![c] = FirstPage]}
    BY <2>1, <2>2
  <2>3. CASE Route(q.method, q.path) = "logs" /\ query' = [query EXCEPT ![c] =
             [level |-> q.level, window |-> IF q.window = "" THEN "24h" ELSE q.window,
              page |-> PageOf(q.page)]]
    <3> DEFINE v == [level |-> q.level, window |-> IF q.window = "" THEN "24h" ELSE q.window,
                     page |-> PageOf(q.page)]
    <3>1. v.page = PageOf(q.page)
      OBVIOUS
    <3>2. q.page \in Int \cup {Junk}
      BY <2>3, InputAssumption
    <3>3. v.page \in 0 .. IntLimit - 1 /\ query' = [query EXCEPT ![c] = v]
      BY <2>3, <3>1, <3>2, PageInRange
    <3> HIDE DEF v
    <3> QED
      BY <3>3
  <2> QED
    BY <2>2, <2>3 DEF Serve
<1>4. DOMAIN query = Clients /\ \A d \in Clients : query[d].page \in 0 .. IntLimit - 1
  BY DEF ClientsOK
<1>5. DOMAIN query' = Clients /\ \A d \in Clients : query'[d] \in {query[d], v}
  BY <1>3, <1>4
<1> QED
  BY <1>1, <1>2, <1>3, <1>4, <1>5

LEMMA AbandonedNext ==
  ASSUME AbandonedOK, Next
  PROVE  AbandonedOK'
<1>1. ASSUME NEW c \in Clients, GiveUpDelete(c) PROVE AbandonedOK'
  <2>1. CASE abandoned' = abandoned
    BY <2>1 DEF AbandonedOK
  <2>2. ASSUME NEW n \in 1 .. MaxAbandoned, \A d \in abandoned : d.no # n,
               abandoned' = abandoned \cup {[no |-> n, olderThan |-> req[c].olderThan]}
        PROVE  AbandonedOK'
    <3> DEFINE new == [no |-> n, olderThan |-> req[c].olderThan]
    <3>1. new.no = n /\ abandoned' = abandoned \cup {new}
      BY <2>2
    <3> HIDE DEF new
    <3> QED
      BY <2>2, <3>1 DEF AbandonedOK
  <2> QED
    BY <1>1, <2>1, <2>2 DEF GiveUpDelete
<1>2. CASE LateDelete
  BY <1>2 DEF LateDelete, AbandonedOK
<1>3. ASSUME Next, ~LateDelete, \A c \in Clients : ~GiveUpDelete(c)
      PROVE  abandoned' = abandoned
  BY <1>3 DEF Next, BlockProbe, Refuse, Serve, Arrive, HealthProbe, CountQuery,
              CountFails, RowsQuery, RowsFail, RowsCutShort, ExecDelete, ClearDone,
              ClearFailed, LogElsewhere, WriterInsert, WriterLose, Tick
<1> QED
  BY <1>1, <1>2, <1>3 DEF AbandonedOK

LEMMA ClientsNext ==
  ASSUME RowsOK, ClientsOK, IsFiniteSet(app_logs), Next
  PROVE  ClientsOK'
<1>0. /\ pc \in [Clients -> Statements \cup {"idle"}]
      /\ req \in [Clients -> Requests \cup {Unset}]
      /\ DOMAIN query = Clients /\ \A c \in Clients : query[c].page \in 0 .. IntLimit - 1
      /\ total \in [Clients -> 0 .. MaxRecords]
      /\ hit \in BOOLEAN /\ audit \in 0 .. MaxRecords
  BY DEF ClientsOK
<1>a. 0 \in 0 .. MaxRecords
  BY Sizes
<1>b. AbandonedOK'
  BY AbandonedNext DEF ClientsOK
<1> USE <1>b
<1>1. ASSUME NEW c \in Clients, NEW q \in Requests,
             BlockProbe(c, q) \/ Refuse(c, q)
      PROVE  ClientsOK'
  BY <1>0, <1>1, <1>a DEF ClientsOK, BlockProbe, Refuse, Arrive
<1>2. ASSUME NEW c \in Clients, NEW q \in Requests, Serve(c, q) PROVE ClientsOK'
  <2>1. hit' = hit /\ total' = total /\ audit' \in {0, audit}
    BY <1>2 DEF Serve, Arrive
  <2> QED
    BY <1>0, <1>2, <1>a, <2>1, ServeClients DEF ClientsOK
<1>3. ASSUME NEW c \in Clients, HealthProbe(c) PROVE ClientsOK'
  BY <1>0, <1>3 DEF ClientsOK, HealthProbe, AfterProbe, history, Statements
<1>4. ASSUME NEW c \in Clients, CountQuery(c) PROVE ClientsOK'
  <2>1. Cardinality(Matching(query[c])) \in 0 .. MaxRecords
    <3>1. Matching(query[c]) \in SUBSET app_logs
      BY DEF Matching
    <3> QED
      BY <3>1, RowsCounted
  <2> QED
    BY <1>0, <1>4, <2>1 DEF ClientsOK, CountQuery, Statements
<1>5. ASSUME NEW c \in Clients,
             CountFails(c) \/ RowsQuery(c) \/ RowsFail(c) \/ RowsCutShort(c)
      PROVE  ClientsOK'
  <2>1. Return(c) /\ hit' \in {FALSE, hit} /\ audit' = audit
    BY <1>5 DEF CountFails, RowsQuery, RowsFail, RowsCutShort, Show, ShowPart
  <2> QED
    BY <1>0, <2>1, ReturnClients DEF ClientsOK
<1>6. ASSUME NEW c \in Clients, ExecDelete(c) \/ GiveUpDelete(c) PROVE ClientsOK'
  <2>1. audit' \in {0, audit} /\ UNCHANGED <<req, query, total, hit>>
    BY <1>6 DEF ExecDelete, GiveUpDelete, Delete, history
  <2>2. pc' \in [Clients -> Statements \cup {"idle"}]
    BY <1>0, <1>6 DEF ExecDelete, GiveUpDelete, Statements
  <2> QED
    BY <1>0, <1>a, <2>1, <2>2 DEF ClientsOK
<1>11. CASE LateDelete
  <2>1. audit' \in {0, audit} /\ UNCHANGED <<pc, req, query, total, hit>>
    BY <1>11 DEF LateDelete, Delete, request
  <2> QED
    BY <1>0, <1>a, <2>1 DEF ClientsOK
<1>7. ASSUME NEW c \in Clients, ClearDone(c) PROVE ClientsOK'
  <2>1. Logging
    BY <1>7, OutsideStep DEF Outside
  <2>2. audit' \in 0 .. MaxRecords
    BY <1>0, <1>7, <2>1, AuditInRange DEF ClearDone, AuditBy
  <2>3. pc' \in [Clients -> Statements \cup {"idle"}]
    BY <1>0, <1>7 DEF ClearDone, Statements
  <2>4. query' = [query EXCEPT ![c] = FirstPage] /\ UNCHANGED <<req, total, hit>>
    BY <1>7 DEF ClearDone
  <2>5. FirstPage.page \in 0 .. IntLimit - 1
    BY Sizes DEF FirstPage
  <2>6. DOMAIN query' = Clients /\ \A d \in Clients : query'[d].page \in 0 .. IntLimit - 1
    <3>1. DOMAIN query' = Clients /\ \A d \in Clients : query'[d] \in {query[d], FirstPage}
      BY <1>0, <2>4
    <3> QED
      BY <1>0, <2>5, <3>1
  <2> QED
    BY <1>0, <2>2, <2>3, <2>4, <2>6 DEF ClientsOK
<1>8. ASSUME NEW c \in Clients, ClearFailed(c) PROVE ClientsOK'
  BY <1>0, <1>8, ReturnClients DEF ClientsOK, ClearFailed
<1>9. ASSUME LogElsewhere \/ Tick PROVE ClientsOK'
  BY <1>0, <1>9 DEF ClientsOK, LogElsewhere, Tick, request, history
<1>10. ASSUME WriterInsert \/ WriterLose PROVE ClientsOK'
  <2>1. audit' \in {0, audit} /\ hit' \in BOOLEAN /\ UNCHANGED request
    BY <1>0, <1>10 DEF WriterInsert, WriterLose
  <2> QED
    BY <1>0, <1>a, <2>1 DEF ClientsOK, request
<1> QED
  BY <1>1, <1>2, <1>3, <1>4, <1>5, <1>6, <1>7, <1>8, <1>9, <1>10, <1>11 DEF Next

-----------------------------------------------------------------------------
(* The history of the walk *)

LEMMA TableNext ==
  ASSUME RowsOK, TableOK, Next
  PROVE  TableOK'
<1>0. IsFiniteSet(app_logs) /\ app_logs \cap pending = {} /\ logged \in Nat
  BY Sizes DEF TableOK, RowsOK
<1>1. CASE Outside
  <2>1. Logging /\ app_logs' \subseteq app_logs
    BY <1>1, OutsideStep
  <2>2. IsFiniteSet(app_logs')
    BY <1>0, <2>1, FS_Subset
  <2>3. ASSUME NEW row \in pending', row \in app_logs PROVE FALSE
    <3>1. row.id \in 1 .. logged
      BY <2>3 DEF RowsOK
    <3>2. row.id \in logged + 1 .. logged'
      BY <1>0, <2>1, <2>3 DEF Logging
    <3> QED
      BY <1>0, <3>1, <3>2
  <2> QED
    BY <2>1, <2>2, <2>3 DEF TableOK
<1>2. CASE WriterInsert
  <2>1. PICK row \in pending : app_logs' = app_logs \cup {row} /\ pending' = pending \ {row}
    BY <1>2 DEF WriterInsert
  <2>2. IsFiniteSet(app_logs')
    BY <1>0, <2>1, FS_AddElement
  <2> QED
    BY <1>0, <2>1, <2>2 DEF TableOK
<1>3. CASE WriterLose
  BY <1>3 DEF WriterLose, TableOK
<1> QED
  BY <1>1, <1>2, <1>3, NextSplit

\* An id that the walk starts with never comes back as a new record.
LEMMA StartStays ==
  ASSUME RowsOK, NEW start, start \subseteq 1 .. logged, start \cap Ids(pending) = {},
         Next
  PROVE  start \subseteq 1 .. logged' /\ start \cap Ids(pending') = {}
<1>0. logged \in Nat
  BY Sizes DEF RowsOK
<1>1. CASE Outside
  <2>1. Logging
    BY <1>1, OutsideStep
  <2>2. start \subseteq 1 .. logged'
    BY <1>0, <2>1, Sizes DEF Logging
  <2>3. ASSUME NEW row \in pending', row.id \in start PROVE FALSE
    <3>1. CASE row \in pending
      BY <3>1, <2>3 DEF Ids
    <3>2. CASE row \notin pending
      <4>1. row.id \in logged + 1 .. logged' /\ row.id \in 1 .. logged
        BY <3>2, <2>1, <2>3 DEF Logging
      <4> QED
        BY <4>1, <1>0
    <3> QED
      BY <3>1, <3>2
  <2> QED
    BY <2>2, <2>3 DEF Ids
<1>2. CASE WriterInsert \/ WriterLose
  BY <1>2, WriterStep DEF Ids
<1> QED
  BY <1>1, <1>2, NextSplit

\* The fields of a walk after another page.
LEMMA WalkFields ==
  ASSUME WalkOK, walk.on, NEW rows, NEW last,
         walk' = [walk EXCEPT !.seen = @ \cup rows, !.next = @ + 1,
                              !.over = last]
  PROVE  walk' = [on |-> TRUE, level |-> walk.level, window |-> walk.window,
                  next |-> walk.next + 1, start |-> walk.start,
                  seen |-> walk.seen \cup rows, over |-> last]
<1> DEFINE lv == walk.level  wi == walk.window  ne == walk.next  st == walk.start
           se == walk.seen   ov == walk.over
<1>1. walk = [on |-> TRUE, level |-> lv, window |-> wi, next |-> ne, start |-> st,
              seen |-> se, over |-> ov]
  BY DEF WalkOK
<1>2. walk' = [walk EXCEPT !.seen = se \cup rows, !.next = ne + 1,
                           !.over = last]
  OBVIOUS
<1> HIDE DEF lv, wi, ne, st, se, ov
<1>3. walk' = [on |-> TRUE, level |-> lv, window |-> wi, next |-> ne + 1, start |-> st,
               seen |-> se \cup rows, over |-> last]
  BY <1>1, <1>2
<1> QED
  BY <1>3 DEF lv, wi, ne, st, se, ov

LEMMA WalkKept ==
  ASSUME RowsOK, WalkOK, Next, walk' = walk
  PROVE  WalkOK'
<1>1. CASE ~ walk.on
  BY <1>1 DEF WalkOK
<1>2. CASE walk.on
  <2>1. walk.start \subseteq 1 .. logged' /\ walk.start \cap Ids(pending') = {}
    BY <1>2, StartStays DEF WalkOK
  <2>2. Ids(pending)' = Ids(pending')
    BY DEF Ids
  <2> QED
    BY <1>2, <2>1, <2>2 DEF WalkOK
<1> QED
  BY <1>1, <1>2 DEF WalkOK

LEMMA NoWalkOK ==
  ASSUME walk' = NoWalk PROVE WalkOK'
<1>1. walk'.on = FALSE
  BY DEF NoWalk
<1> QED
  BY <1>1 DEF WalkOK

\* What Show does to the walk.
GoesOn(q) == /\ walk.on /\ ~walk.over /\ walk.next = q.page
             /\ walk.level = q.level /\ walk.window = q.window

LEMMA Advance ==
  ASSUME WalkOK, NEW c, NEW rows, NEW n,
         Show(c, rows, n), walk' # walk, walk' # NoWalk
  PROVE  /\ c = Observed /\ GoesOn(query[c]) /\ (HasMore(query[c].page, n) \/ ~hit)
         /\ walk' = [on |-> TRUE, level |-> walk'.level, window |-> walk'.window,
                     next |-> walk'.next, start |-> walk'.start, seen |-> walk'.seen,
                     over |-> walk'.over]
         /\ walk'.on = TRUE /\ walk'.level = walk.level /\ walk'.window = walk.window
         /\ walk'.next = walk.next + 1 /\ walk'.start = walk.start
         /\ walk'.seen = walk.seen \cup Ids(rows)
         /\ walk'.over = ~HasMore(query[c].page, n)
<1> DEFINE last == ~HasMore(query[c].page, n)
<1>1. /\ c = Observed /\ GoesOn(query[c]) /\ ~(last /\ hit)
      /\ walk' = [walk EXCEPT !.seen = @ \cup Ids(rows), !.next = @ + 1,
                              !.over = last]
  BY DEF Show, GoesOn
<1> HIDE DEF last
<1>2. walk' = [on |-> TRUE, level |-> walk.level, window |-> walk.window,
               next |-> walk.next + 1, start |-> walk.start,
               seen |-> walk.seen \cup Ids(rows), over |-> last]
  BY <1>1, WalkFields DEF GoesOn
<1>3. /\ walk'.on = TRUE /\ walk'.level = walk.level /\ walk'.window = walk.window
      /\ walk'.next = walk.next + 1 /\ walk'.start = walk.start
      /\ walk'.seen = walk.seen \cup Ids(rows) /\ walk'.over = last
  BY <1>2
<1>4. walk' = [on |-> TRUE, level |-> walk'.level, window |-> walk'.window,
               next |-> walk'.next, start |-> walk'.start, seen |-> walk'.seen,
               over |-> walk'.over]
  BY <1>2, <1>3
<1> QED
  BY <1>1, <1>3, <1>4 DEF last

LEMMA WalkNext ==
  ASSUME RowsOK, TableOK, ClientsOK, WalkOK, Next
  PROVE  WalkOK'
<1>1. CASE walk' = walk
  BY <1>1, WalkKept
<1>2. CASE walk' = NoWalk
  BY <1>2, NoWalkOK
<1>3. ASSUME NEW c \in Clients, CountQuery(c), walk' # walk PROVE WalkOK'
  <2> DEFINE q == query[c]
             start == Ids(Matching(q))
  <2>1. walk' = [on |-> TRUE, level |-> q.level, window |-> q.window,
                 next |-> 0, start |-> start, seen |-> {}, over |-> FALSE]
    BY <1>3 DEF CountQuery
  <2>2. start \subseteq 1 .. logged /\ start \cap Ids(pending) = {}
    <3>1. start \subseteq 1 .. logged
      BY DEF RowsOK, Matching, Ids
    <3>2. ASSUME NEW row \in app_logs, NEW other \in pending PROVE row.id # other.id
      BY DEF RowsOK, TableOK
    <3> QED
      BY <3>1, <3>2 DEF Ids, Matching
  <2>3. pending' = pending /\ logged' = logged
    BY <1>3 DEF CountQuery, Quiet
  <2>4. Ids(pending)' = Ids(pending)
    BY <2>3 DEF Ids
  <2> HIDE DEF q, start
  <2> QED
    BY <2>1, <2>2, <2>3, <2>4 DEF WalkOK
<1>4. ASSUME NEW c \in Clients, NEW rows, NEW n,
             Show(c, rows, n), walk' # walk, walk' # NoWalk
      PROVE  WalkOK'
  <2>1. /\ GoesOn(query[c])
        /\ walk' = [on |-> TRUE, level |-> walk'.level, window |-> walk'.window,
                    next |-> walk'.next, start |-> walk'.start, seen |-> walk'.seen,
                    over |-> walk'.over]
        /\ walk'.on = TRUE /\ walk'.next = walk.next + 1 /\ walk'.start = walk.start
        /\ walk'.over \in BOOLEAN
    BY <1>4, Advance
  <2>2. walk.on
    BY <2>1 DEF GoesOn
  <2>4. walk.next \in Nat
        /\ walk.start \subseteq 1 .. logged' /\ walk.start \cap Ids(pending') = {}
    BY <2>2, StartStays DEF WalkOK
  <2>5. walk'.next \in Nat
    BY <2>1, <2>4
  <2>6. walk'.start \subseteq 1 .. logged' /\ walk'.start \cap Ids(pending)' = {}
    BY <2>1, <2>4 DEF Ids
  <2> QED
    BY <2>1, <2>5, <2>6 DEF WalkOK
<1>5. \/ walk' = walk \/ walk' = NoWalk
      \/ \E c \in Clients : CountQuery(c)
      \/ \E c \in Clients : \E rows, n : Show(c, rows, n)
  <2>1. ASSUME NEW c \in Clients, RowsQuery(c)
        PROVE  \E rows, n : Show(c, rows, n)
    BY <2>1, Zenon DEF RowsQuery
  <2>5. ASSUME NEW c \in Clients, CountFails(c) \/ RowsFail(c) \/ RowsCutShort(c)
        PROVE  walk' \in {walk, NoWalk}
    BY <2>5 DEF CountFails, RowsFail, RowsCutShort, ShowPart
  <2>2. ASSUME NEW c \in Clients, NEW q \in Requests,
               BlockProbe(c, q) \/ Refuse(c, q) \/ Serve(c, q)
        PROVE  walk' \in {walk, NoWalk}
    BY <2>2 DEF BlockProbe, Refuse, Serve, Arrive
  <2>3. ASSUME NEW c \in Clients,
               \/ HealthProbe(c) \/ ExecDelete(c) \/ GiveUpDelete(c)
               \/ ClearDone(c) \/ ClearFailed(c)
        PROVE  walk' = walk
    BY <2>3 DEF HealthProbe, ExecDelete, GiveUpDelete, ClearDone, ClearFailed, history
  <2>4. ASSUME LateDelete \/ LogElsewhere \/ WriterInsert \/ WriterLose \/ Tick
        PROVE  walk' = walk
    BY <2>4 DEF LateDelete, LogElsewhere, WriterInsert, WriterLose, Tick, history
  <2> QED
    BY <2>1, <2>2, <2>3, <2>4, <2>5 DEF Next
<1> QED
  BY <1>1, <1>2, <1>3, <1>4, <1>5

-----------------------------------------------------------------------------
(* Nothing is overlooked *)

\* The operators of the queries, as functions of the table T and the time t.
LevelFits(q, row) == q.level \in {"", row.level}
MatchIn(T, t, q) ==
  {row \in T : /\ LevelFits(q, row)
               /\ row.ts > t - IntervalLength[windowToInterval(q.window)]}
AboveIn(T, t, row, q) == {other \in MatchIn(T, t, q) : other.ts > row.ts}
TiedIn(T, row) == \E other \in T : other # row /\ other.ts = row.ts

NotPassedIn(T, t, w) ==
  w.on =>
    /\ w.next > 0 => (w.next - 1) * pageSize < IntLimit
    /\ \A row \in MatchIn(T, t, w) :
         row.id \in w.start /\ ~TiedIn(T, row) =>
           \/ row.id \in w.seen
           \/ ~w.over /\ Cardinality(AboveIn(T, t, row, w)) >= w.next * pageSize

LEMMA InTermsOfTable ==
  /\ NotPassed <=> NotPassedIn(app_logs, now, walk)
  /\ NotPassed' <=> NotPassedIn(app_logs', now', walk')
  /\ \A q : Matching(q) = MatchIn(app_logs, now, q)
<1>1. NotPassed <=> NotPassedIn(app_logs, now, walk)
  BY DEF NotPassed, NotPassedIn, Matching, MatchIn, LevelFits, Tied, TiedIn, Rank, AboveIn
<1>2. NotPassed' <=> NotPassedIn(app_logs', now', walk')
  BY DEF NotPassed, NotPassedIn, Matching, MatchIn, LevelFits, Tied, TiedIn, Rank, AboveIn
<1>3. \A q : Matching(q) = MatchIn(app_logs, now, q)
  BY DEF Matching, MatchIn, LevelFits
<1> QED
  BY <1>1, <1>2, <1>3

LEMMA IntervalIsNat ==
  \A window : IntervalLength[windowToInterval(window)] \in Nat
BY AdminAssumption DEF windowToInterval

LEMMA Later ==
  ASSUME NEW a \in Int, NEW b \in Int, NEW t \in Int, NEW u \in Int, NEW L \in Nat,
         t <= u, b >= a, a > u - L
  PROVE  b > t - L /\ b > u - L
OBVIOUS

\* Rows that come push a row back; a row goes, by a DELETE or with time, only
\* together with everything as old or older.
LEMMA RankGrows ==
  ASSUME NEW T, IsFiniteSet(T), NEW U, IsFiniteSet(U),
         \A r \in T \cup U : r.ts \in Int,
         NEW t \in Int, NEW u \in Int, t <= u,
         NEW w, NEW row \in MatchIn(U, u, w), row \in T, ~TiedIn(U, row),
         \A r \in T : r.ts >= row.ts => r \in U
  PROVE  /\ row \in MatchIn(T, t, w) /\ ~TiedIn(T, row)
         /\ Cardinality(AboveIn(T, t, row, w)) \in Nat
         /\ Cardinality(AboveIn(U, u, row, w)) \in Nat
         /\ Cardinality(AboveIn(T, t, row, w)) <= Cardinality(AboveIn(U, u, row, w))
<1> DEFINE L == IntervalLength[windowToInterval(w.window)]
<1>0. L \in Nat
  BY IntervalIsNat
<1>1. row \in U /\ row.ts \in Int /\ LevelFits(w, row) /\ row.ts > u - L
  BY DEF MatchIn
<1>2. row \in MatchIn(T, t, w)
  <2>1. row.ts > t - L
    BY <1>0, <1>1, Later
  <2> QED
    BY <1>1, <2>1 DEF MatchIn
<1>3. ~TiedIn(T, row)
  <2>1. SUFFICES ASSUME NEW other \in T, other # row, other.ts = row.ts PROVE FALSE
    BY DEF TiedIn
  <2>2. other \in U
    BY <1>1, <2>1
  <2> QED
    BY <2>1, <2>2 DEF TiedIn
<1>4. AboveIn(T, t, row, w) \subseteq AboveIn(U, u, row, w)
  <2>1. SUFFICES ASSUME NEW other \in T, LevelFits(w, other), other.ts > row.ts
                 PROVE  other \in AboveIn(U, u, row, w)
    BY DEF AboveIn, MatchIn
  <2>2. other.ts \in Int
    OBVIOUS
  <2>3. other.ts >= row.ts
    BY <1>1, <2>1, <2>2
  <2>4. other \in U /\ other.ts > u - L
    BY <1>0, <1>1, <2>2, <2>3, Later
  <2> QED
    BY <2>1, <2>4 DEF AboveIn, MatchIn
<1>5. AboveIn(T, t, row, w) \in SUBSET T /\ AboveIn(U, u, row, w) \in SUBSET U
  BY DEF AboveIn, MatchIn
<1>6. IsFiniteSet(AboveIn(T, t, row, w)) /\ IsFiniteSet(AboveIn(U, u, row, w))
  BY <1>5, FS_Subset
<1> QED
  BY <1>2, <1>3, <1>4, <1>6, FS_Subset, FS_CardinalityType

LEMMA NotPassedKept ==
  ASSUME NEW T, IsFiniteSet(T), NEW U, IsFiniteSet(U),
         \A r \in T \cup U : r.ts \in Int,
         NEW t \in Int, NEW u \in Int, t <= u, NEW w, w.next \in Nat,
         NotPassedIn(T, t, w),
         \A r \in U : r.id \in w.start => r \in T,
         \A r \in U \cap T, o \in T : o.ts >= r.ts => o \in U
  PROVE  NotPassedIn(U, u, w)
<1>1. SUFFICES ASSUME w.on, NEW row \in MatchIn(U, u, w),
                      row.id \in w.start, ~TiedIn(U, row), row.id \notin w.seen
               PROVE  ~w.over /\ Cardinality(AboveIn(U, u, row, w)) >= w.next * pageSize
  BY DEF NotPassedIn
<1>2. row \in U /\ row \in T
  BY <1>1 DEF MatchIn
<1>3. /\ row \in MatchIn(T, t, w) /\ ~TiedIn(T, row)
      /\ Cardinality(AboveIn(T, t, row, w)) \in Nat
      /\ Cardinality(AboveIn(U, u, row, w)) \in Nat
      /\ Cardinality(AboveIn(T, t, row, w)) <= Cardinality(AboveIn(U, u, row, w))
  BY <1>1, <1>2, RankGrows
<1>4. ~w.over /\ Cardinality(AboveIn(T, t, row, w)) >= w.next * pageSize
  BY <1>1, <1>3 DEF NotPassedIn
<1>5. w.next * pageSize \in Int
  BY Sizes
<1> QED
  BY <1>3, <1>4, <1>5

LEMMA MinOfTwo ==
  ASSUME NEW a \in Int, NEW b \in Int
  PROVE  Min({a, b}) = IF a <= b THEN a ELSE b
<1> DEFINE m == IF a <= b THEN a ELSE b
<1>1. m \in {a, b} /\ \A y \in {a, b} : m <= y
  OBVIOUS
<1>2. \A x \in {a, b} : (\A y \in {a, b} : x <= y) => x = m
  OBVIOUS
<1> QED
  BY <1>1, <1>2 DEF Min

\* A row that OFFSET does not skip is on the page, or a whole page more is
\* before it.
LEMMA OnThePageOrLater ==
  ASSUME NEW M, IsFiniteSet(M), \A r \in M : r.ts \in Int,
         NEW offset \in Nat, NEW S \in PagesOf(M, offset),
         NEW row \in M, row \notin S, \A r \in M : r.ts = row.ts => r = row,
         NEW above, above = {r \in M : r.ts > row.ts}, Cardinality(above) >= offset
  PROVE  /\ Cardinality(above) \in Nat /\ Cardinality(M) \in Nat
         /\ Cardinality(above) < Cardinality(M)
         /\ Cardinality(above) >= offset + pageSize
<1>1. PICK A \in SUBSET (M \ S) :
        /\ Cardinality(A) = Min({offset, Cardinality(M)})
        /\ Cardinality(S) = Min({pageSize, Cardinality(M \ A)})
        /\ First(A, M) /\ First(A \cup S, M)
  BY DEF PagesOf
<1>2. S \in SUBSET M /\ A \in SUBSET M /\ M \ A \in SUBSET M /\ above \in SUBSET M
  BY DEF PagesOf
<1>3. /\ IsFiniteSet(S) /\ IsFiniteSet(A) /\ IsFiniteSet(M \ A) /\ IsFiniteSet(above)
      /\ Cardinality(S) \in Nat /\ Cardinality(A) \in Nat /\ Cardinality(M \ A) \in Nat
      /\ Cardinality(above) \in Nat /\ Cardinality(M) \in Nat
  BY <1>2, FS_Subset, FS_CardinalityType
<1>a. row \notin above /\ row.ts \in Int
  OBVIOUS
<1>4. Cardinality(above) < Cardinality(M)
  <2>1. Cardinality(above) <= Cardinality(M) /\ Cardinality(above) # Cardinality(M)
    BY <1>2, <1>3, <1>a, FS_Subset
  <2> QED
    BY <1>3, <2>1
<1>5. Cardinality(A) <= offset /\ (Cardinality(A) = offset \/ Cardinality(A) = Cardinality(M))
  <2>1. Cardinality(A) = IF offset <= Cardinality(M) THEN offset ELSE Cardinality(M)
    BY <1>1, <1>3, MinOfTwo
  <2> QED
    BY <1>3, <2>1
<1>6. Cardinality(S) = pageSize \/ Cardinality(S) = Cardinality(M \ A)
  <2> DEFINE k == Cardinality(M \ A)
  <2>0. k \in Int /\ pageSize \in Int
    BY <1>3, Sizes
  <2> HIDE DEF k
  <2>1. Min({pageSize, k}) = IF pageSize <= k THEN pageSize ELSE k
    BY <2>0, MinOfTwo
  <2>2. Cardinality(S) = Min({pageSize, k})
    BY <1>1 DEF k
  <2> QED
    BY <2>1, <2>2 DEF k
<1>7. row \notin A
  <2>1. SUFFICES ASSUME row \in A PROVE FALSE
    OBVIOUS
  <2>2. above \subseteq A
    <3>1. SUFFICES ASSUME NEW r \in M, r.ts > row.ts, r \notin A PROVE FALSE
      OBVIOUS
    <3>2. row.ts >= r.ts
      BY <1>1, <2>1, <3>1 DEF First
    <3> QED
      BY <1>a, <3>1, <3>2
  <2>3. Cardinality(above) <= Cardinality(A) /\ Cardinality(above) # Cardinality(A)
    BY <1>3, <1>a, <2>1, <2>2, FS_Subset
  <2> QED
    BY <1>3, <1>5, <2>3
<1>8. Cardinality(A) = offset
  <2>1. Cardinality(A) # Cardinality(M)
    BY <1>2, <1>7, FS_Subset
  <2> QED
    BY <1>5, <2>1
<1>9. Cardinality(S) = pageSize
  <2>1. S \in SUBSET (M \ A) /\ row \in M \ A
    BY <1>2, <1>7
  <2>2. Cardinality(S) # Cardinality(M \ A)
    BY <1>3, <2>1, FS_Subset
  <2> QED
    BY <1>6, <2>2
<1>10. A \cup S \in SUBSET above
  <2>1. SUFFICES ASSUME NEW a \in A \cup S PROVE a \in M /\ a.ts > row.ts
    OBVIOUS
  <2>2. a \in M /\ row \in M \ (A \cup S) /\ a # row
    BY <1>2, <1>7
  <2>3. a.ts >= row.ts
    BY <1>1, <2>2 DEF First
  <2>4. a.ts # row.ts /\ a.ts \in Int
    BY <2>2
  <2> QED
    BY <1>a, <2>2, <2>3, <2>4
<1>11. Cardinality(A \cup S) = offset + pageSize
  <2>1. A \cap S = {}
    OBVIOUS
  <2>2. Cardinality(A \cup S) = Cardinality(A) + Cardinality(S) - Cardinality(A \cap S)
    BY <1>3, FS_Union
  <2>3. Cardinality(A \cap S) = 0
    BY <2>1, FS_EmptySet
  <2> QED
    BY <1>3, <1>8, <1>9, <2>2, <2>3, Sizes
<1>12. Cardinality(A \cup S) <= Cardinality(above)
  BY <1>3, <1>10, FS_Subset
<1> QED
  BY <1>3, <1>4, <1>11, <1>12, Sizes

\* The arithmetic of pages, for a page whose predecessor is in range.
LEMMA NextTimesSize ==
  ASSUME NEW p \in Nat
  PROVE  /\ p * pageSize \in Nat /\ (p + 1) * pageSize = p * pageSize + pageSize
         /\ (p - 1) * pageSize = p * pageSize - pageSize
         /\ p = 0 => p * pageSize = 0
BY Sizes

LEMMA TimesGrows ==
  ASSUME NEW p \in Nat, NEW s \in Nat, s >= 2
  PROVE  p * s >= 2 * p
<1>1. p * s = p * (s - 2) + 2 * p
  OBVIOUS
<1>2. p * (s - 2) >= 0
  OBVIOUS
<1> QED
  BY <1>1, <1>2

LEMMA OffsetExact ==
  ASSUME NEW page \in 0 .. IntLimit - 1,
         page > 0 => (page - 1) * pageSize < IntLimit, Offset(page) >= 0
  PROVE  page * pageSize < IntLimit /\ Offset(page) = page * pageSize
<1> DEFINE n == page * pageSize
<1>1. page \in Nat
  OBVIOUS
<1>2. n \in Nat /\ (page - 1) * pageSize = n - pageSize /\ (page = 0 => n = 0)
  BY <1>1, NextTimesSize
<1>3. n < 2 * IntLimit
  <2>1. CASE page = 0
    BY <1>2, <2>1, Sizes
  <2>2. CASE page > 0
    BY <1>2, <2>2, Sizes
  <2> QED
    BY <1>1, <2>1, <2>2
<1>4. Offset(page) = Wrap(n)
  BY DEF Offset
<1> HIDE DEF n
<1>5. n < IntLimit
  <2>1. SUFFICES ASSUME IntLimit <= n PROVE FALSE
    BY <1>2, Sizes
  <2>2. Wrap(n) = n - 2 * IntLimit
    BY <1>2, <1>3, <2>1, WrapAbove, Sizes
  <2> QED
    BY <1>2, <1>3, <1>4, <2>2, Sizes
<1>6. Wrap(n) = n
  BY <1>2, <1>5, WrapInside, Sizes
<1> QED
  BY <1>4, <1>5, <1>6 DEF n

\* Without "Next" there is nothing behind this page.
LEMMA LastIsLast ==
  ASSUME NEW page \in 0 .. IntLimit - 1, page * pageSize < IntLimit,
         NEW n \in Nat, ~HasMore(page, n)
  PROVE  n <= (page + 1) * pageSize
<1> DEFINE k == page * pageSize
<1>1. page \in Nat /\ k \in Nat /\ (page + 1) * pageSize = k + pageSize
  BY NextTimesSize
<1>2. CASE page + 1 < IntLimit
  <2>1. Wrap(page + 1) = page + 1
    BY <1>1, <1>2, WrapInside, Sizes
  <2>2. Wrap(k + pageSize) >= n
    <3>1. Wrap((page + 1) * pageSize) = Wrap(k + pageSize)
      BY <1>1
    <3>2. Wrap(k + pageSize) \in Int
      BY <1>1, Sizes, Decompose DEF Wrap
    <3> QED
      BY <2>1, <3>1, <3>2 DEF HasMore
  <2>3. CASE k + pageSize < IntLimit
    <3>1. Wrap(k + pageSize) = k + pageSize
      BY <1>1, <2>3, WrapInside, Sizes
    <3> QED
      BY <1>1, <2>2, <3>1
  <2>4. CASE k + pageSize >= IntLimit
    <3>1. Wrap(k + pageSize) = k + pageSize - 2 * IntLimit
      BY <1>1, <2>4, WrapAbove, Sizes
    <3> QED
      BY <1>1, <2>2, <3>1, Sizes
  <2> QED
    BY <1>1, <2>3, <2>4, Sizes
<1>3. CASE page + 1 = IntLimit
  <2>1. Wrap(page + 1) = - IntLimit
    BY <1>3, WrapAbove, Sizes
  <2>2. pageSize = 1
    <3>1. CASE page = 0
      BY <1>3, <3>1, Sizes
    <3>2. CASE page > 0 /\ pageSize >= 2
      <4>1. page * pageSize >= 2 * page
        BY <1>1, <3>2, TimesGrows, Sizes
      <4> QED
        BY <1>1, <1>3, <3>2, <4>1
    <3> QED
      BY <1>1, <3>1, <3>2, Sizes
  <2>3. Wrap(page + 1) * pageSize = - IntLimit
    BY <2>1, <2>2, Sizes
  <2>4. Wrap(- IntLimit) = - IntLimit
    BY WrapInside, Sizes
  <2> QED
    BY <2>3, <2>4, Sizes DEF HasMore
<1> QED
  BY <1>1, <1>2, <1>3, Sizes

\* The table grows, or loses what is older than some instant.
LEMMA TableChange ==
  ASSUME RowsOK, Next
  PROVE  /\ now \in Int /\ now' \in Int /\ now <= now'
         /\ \A r \in app_logs' : r \in app_logs \/ r \in pending
         /\ \A r \in app_logs' \cap app_logs, o \in app_logs : o.ts >= r.ts => o \in app_logs'
<1>0. RowsOK' /\ now \in Int /\ now' \in Int
  <2>1. RowsOK'
    BY RowsNext
  <2> QED
    BY <2>1 DEF RowsOK
<1>1. CASE Outside
  <2>1. app_logs' \subseteq app_logs /\ now' \in now .. MaxTime
    BY <1>1, OutsideStep
  <2>2. \/ app_logs' = app_logs
        \/ \E old : app_logs' = app_logs \ Doomed(old)
    <3>1. ASSUME NEW c \in Clients, ExecDelete(c)
          PROVE  app_logs' = app_logs \ Doomed(req[c].olderThan)
      BY <3>1 DEF ExecDelete, Delete
    <3>2. ASSUME LateDelete PROVE \E old : app_logs' = app_logs \ Doomed(old)
      BY <3>2 DEF LateDelete, Delete
    <3>3. ASSUME ~LateDelete, \A c \in Clients : ~ExecDelete(c)
          PROVE  app_logs' = app_logs
      BY <1>1, <3>3 DEF Outside, BlockProbe, Refuse, Serve, Arrive, HealthProbe,
                  CountQuery, CountFails, RowsQuery, RowsFail, RowsCutShort,
                  GiveUpDelete, ClearDone, ClearFailed, LogElsewhere, Tick
    <3> QED
      BY <3>1, <3>2, <3>3
  <2>3. ASSUME NEW old, app_logs' = app_logs \ Doomed(old),
               NEW r \in app_logs' \cap app_logs, NEW o \in app_logs, o.ts >= r.ts
        PROVE  o \in app_logs'
    <3> DEFINE L == IntervalLength[windowToInterval(old)]
    <3>1. L \in Nat /\ r.ts \in Int /\ o.ts \in Int
      BY IntervalIsNat DEF RowsOK
    <3>2. old # "" /\ ~ (r.ts < now - L)
      BY <2>3 DEF Doomed
    <3>3. ~ (o.ts < now - L)
      <4>1. ~ (r.ts < now - L) /\ o.ts >= r.ts
        BY <2>3, <3>2
      <4> HIDE DEF L
      <4> QED
        BY <1>0, <3>1, <4>1
    <3> QED
      BY <2>3, <3>2, <3>3 DEF Doomed
  <2> QED
    BY <1>0, <2>1, <2>2, <2>3
<1>2. CASE WriterInsert
  BY <1>0, <1>2 DEF WriterInsert
<1>3. CASE WriterLose
  BY <1>0, <1>3 DEF WriterLose
<1> QED
  BY <1>1, <1>2, <1>3, NextSplit

LEMMA NotPassedIdle ==
  ASSUME RowsOK, TableOK, WalkOK, NotPassed, Next, walk' = walk
  PROVE  NotPassed'
<1>1. CASE ~walk.on
  BY <1>1 DEF NotPassed
<1>2. CASE walk.on
  <2> DEFINE U == app_logs'
             u == now'
             w == walk
  <2>0. RowsOK' /\ TableOK'
    BY RowsNext, TableNext
  <2>1. IsFiniteSet(app_logs) /\ IsFiniteSet(U)
    BY <2>0 DEF TableOK
  <2>2. \A r \in app_logs \cup U : r.ts \in Int
    BY <2>0 DEF RowsOK
  <2>3. now \in Int /\ u \in Int /\ now <= u
    BY TableChange
  <2>4. w.next \in Nat /\ NotPassedIn(app_logs, now, w)
    BY <1>2, InTermsOfTable DEF WalkOK
  <2>5. \A r \in U : r.id \in w.start => r \in app_logs
    <3>1. \A r \in U : r \in app_logs \/ r \in pending
      BY TableChange
    <3>2. \A r \in pending : r.id \notin walk.start
      BY <1>2 DEF WalkOK, Ids
    <3> QED
      BY <3>1, <3>2
  <2>6. \A r \in U \cap app_logs, o \in app_logs : o.ts >= r.ts => o \in U
    BY TableChange
  <2> HIDE DEF U, u, w
  <2>7. NotPassedIn(U, u, w)
    BY <2>1, <2>2, <2>3, <2>4, <2>5, <2>6, NotPassedKept
  <2> QED
    BY <2>7, InTermsOfTable DEF U, u, w
<1> QED
  BY <1>1, <1>2 DEF WalkOK

LEMMA NotPassedCount ==
  ASSUME RowsOK, TableOK, NEW c \in Clients, CountQuery(c), walk' # walk
  PROVE  NotPassed'
<1> DEFINE w == walk'
<1>1. w.on /\ w.next = 0 /\ w.over = FALSE
  BY DEF CountQuery
<1>2. UNCHANGED <<app_logs, now>>
  BY DEF CountQuery
<1> HIDE DEF w
<1>3. ASSUME NEW row \in MatchIn(app_logs, now, w)
      PROVE  Cardinality(AboveIn(app_logs, now, row, w)) >= w.next * pageSize
  <2>1. AboveIn(app_logs, now, row, w) \in SUBSET app_logs
    BY DEF AboveIn, MatchIn
  <2>2. Cardinality(AboveIn(app_logs, now, row, w)) \in Nat
    BY <2>1, FS_Subset, FS_CardinalityType DEF TableOK
  <2>3. w.next * pageSize = 0
    BY <1>1, Sizes
  <2> QED
    BY <2>2, <2>3
<1>4. NotPassedIn(app_logs, now, w)
  <2>1. ~ (w.next > 0)
    BY <1>1
  <2> QED
    BY <1>1, <1>3, <2>1 DEF NotPassedIn
<1> QED
  BY <1>2, <1>4, InTermsOfTable DEF w

LEMMA SameFilter ==
  ASSUME NEW T, NEW t, NEW q, NEW w, w.level = q.level, w.window = q.window
  PROVE  MatchIn(T, t, w) = MatchIn(T, t, q)
         /\ \A row : AboveIn(T, t, row, w) = AboveIn(T, t, row, q)
<1>1. MatchIn(T, t, w) = MatchIn(T, t, q)
  BY DEF MatchIn, LevelFits
<1> QED
  BY <1>1 DEF AboveIn

\* Another page: a row of the start that is not on it is on a later one, and
\* there is a later one.
LEMMA NotPassedPage ==
  ASSUME RowsOK, TableOK, ClientsOK, WalkOK, NotPassed, CountHolds,
         NEW rows, RowsQuery(Observed),
         rows \in PagesOf(Matching(query[Observed]), Offset(query[Observed].page)),
         Show(Observed, rows, total[Observed]),
         walk' # walk, walk' # NoWalk
  PROVE  NotPassed'
<1> DEFINE q == query[Observed]
           M == MatchIn(app_logs, now, walk)
           page == walk.next
           n == total[Observed]
           w == walk'
<1>1. /\ GoesOn(q)
      /\ w.on = TRUE /\ w.level = walk.level /\ w.window = walk.window
      /\ w.next = walk.next + 1 /\ w.start = walk.start
      /\ w.seen = walk.seen \cup Ids(rows)
      /\ w.over = ~HasMore(q.page, n)
      /\ HasMore(q.page, n) \/ ~hit
  BY Advance
<1>2. walk.on /\ ~walk.over /\ walk.next = q.page /\ walk.level = q.level /\ walk.window = q.window
  BY <1>1 DEF GoesOn
<1>3. M = Matching(q)
  BY <1>2, SameFilter, InTermsOfTable
<1>4. q.page \in 0 .. IntLimit - 1 /\ page = q.page /\ n \in Nat /\ Observed \in Clients
  BY <1>2, Sizes DEF ClientsOK
<1>5. UNCHANGED <<app_logs, now>> /\ Offset(page) >= 0 /\ pc[Observed] = "rows"
  BY <1>2 DEF RowsQuery
<1>6. SUFFICES NotPassedIn(app_logs, now, w)
  BY <1>5, InTermsOfTable
<1>7. HasMore(page, n) \/ ~hit
  BY <1>1, <1>2
<1>8. /\ page > 0 => (page - 1) * pageSize < IntLimit
      /\ \A row \in M : row.id \in walk.start /\ ~TiedIn(app_logs, row) =>
           \/ row.id \in walk.seen
           \/ Cardinality(AboveIn(app_logs, now, row, walk)) >= page * pageSize
  BY <1>2, InTermsOfTable DEF NotPassedIn
<1>9. page * pageSize < IntLimit /\ Offset(page) = page * pageSize
  BY <1>4, <1>5, <1>8, OffsetExact
<1>10. /\ page * pageSize \in Nat /\ (page + 1) * pageSize = page * pageSize + pageSize
       /\ w.next = page + 1 /\ w.next - 1 = page
  <2>1. page \in Nat
    BY <1>4
  <2> QED
    BY <1>1, <2>1, NextTimesSize
<1>11. IsFiniteSet(M) /\ \A r \in M : r.ts \in Int
  <2>1. M \in SUBSET app_logs
    BY DEF MatchIn
  <2> QED
    BY <2>1, FS_Subset DEF TableOK, RowsOK
<1>12. rows \in PagesOf(M, page * pageSize)
  BY <1>2, <1>3, <1>9
<1>13. ASSUME NEW row \in M, row.id \in walk.start, ~TiedIn(app_logs, row),
              row.id \notin w.seen
       PROVE  HasMore(page, n)
              /\ Cardinality(AboveIn(app_logs, now, row, walk)) >= w.next * pageSize
  <2> DEFINE above == AboveIn(app_logs, now, row, walk)
  <2>1. row \notin rows /\ row.id \notin walk.seen
    BY <1>1, <1>13 DEF Ids
  <2>2. Cardinality(above) >= page * pageSize
    BY <1>8, <1>13, <2>1
  <2>3. above = {r \in M : r.ts > row.ts} /\ \A r \in M : r.ts = row.ts => r = row
    BY <1>13 DEF AboveIn, TiedIn, MatchIn
  <2> HIDE DEF above, M, page
  <2>4. /\ Cardinality(above) \in Nat /\ Cardinality(M) \in Nat
        /\ Cardinality(above) < Cardinality(M)
        /\ Cardinality(above) >= page * pageSize + pageSize
    BY <1>10, <1>11, <1>12, <1>13, <2>1, <2>2, <2>3, OnThePageOrLater
  <2>5. HasMore(page, n)
    <3>1. SUFFICES ASSUME ~HasMore(page, n) PROVE FALSE
      OBVIOUS
    <3>2. n <= page * pageSize + pageSize
      BY <1>4, <1>9, <1>10, <3>1, LastIsLast DEF page
    <3>3. Cardinality(M) <= n
      BY <1>3, <1>5, <1>7, <3>1 DEF CountHolds
    <3> HIDE DEF n
    <3> QED
      BY <1>4, <1>10, <2>4, <3>2, <3>3, Sizes
  <2> QED
    BY <1>10, <2>4, <2>5 DEF above
<1>14. MatchIn(app_logs, now, w) = M
       /\ \A row : AboveIn(app_logs, now, row, w) = AboveIn(app_logs, now, row, walk)
  BY <1>1, SameFilter
<1>15. w.over = ~HasMore(page, n)
  BY <1>1, <1>2
<1> HIDE DEF w, M
<1> QED
  BY <1>1, <1>9, <1>10, <1>13, <1>14, <1>15 DEF NotPassedIn

LEMMA NotPassedNext ==
  ASSUME RowsOK, TableOK, ClientsOK, WalkOK, NotPassed, CountHolds, Next
  PROVE  NotPassed'
<1>1. CASE walk' = walk
  BY <1>1, NotPassedIdle
<1>2. ASSUME walk'.on = FALSE PROVE NotPassed'
  BY <1>2 DEF NotPassed
<1>3. CASE walk' = NoWalk
  BY <1>2, <1>3 DEF NoWalk
<1>4. ASSUME NEW c \in Clients, CountQuery(c), walk' # walk PROVE NotPassed'
  BY <1>4, NotPassedCount
<1>6. ASSUME NEW c \in Clients, RowsQuery(c), walk' # walk, walk' # NoWalk
      PROVE  NotPassed'
  <2>1. PICK rows \in PagesOf(Matching(query[c]), Offset(query[c].page)) :
          Show(c, rows, total[c])
    BY <1>6 DEF RowsQuery
  <2>2. c = Observed
    BY <1>6, <2>1, Advance
  <2> QED
    BY <1>6, <2>1, <2>2, NotPassedPage
<1>7. \/ walk' = walk \/ walk' = NoWalk
      \/ \E c \in Clients : CountQuery(c) \/ RowsQuery(c)
  <2>4. ASSUME NEW c \in Clients, CountFails(c) \/ RowsFail(c) \/ RowsCutShort(c)
        PROVE  walk' \in {walk, NoWalk}
    BY <2>4 DEF CountFails, RowsFail, RowsCutShort, ShowPart
  <2>1. ASSUME NEW c \in Clients, NEW q \in Requests,
               BlockProbe(c, q) \/ Refuse(c, q) \/ Serve(c, q)
        PROVE  walk' \in {walk, NoWalk}
    BY <2>1 DEF BlockProbe, Refuse, Serve, Arrive
  <2>2. ASSUME NEW c \in Clients,
               \/ HealthProbe(c) \/ ExecDelete(c) \/ GiveUpDelete(c)
               \/ ClearDone(c) \/ ClearFailed(c)
        PROVE  walk' = walk
    BY <2>2 DEF HealthProbe, ExecDelete, GiveUpDelete, ClearDone, ClearFailed, history
  <2>3. ASSUME LateDelete \/ LogElsewhere \/ WriterInsert \/ WriterLose \/ Tick
        PROVE  walk' = walk
    BY <2>3 DEF LateDelete, LogElsewhere, WriterInsert, WriterLose, Tick, history
  <2> QED
    BY <2>1, <2>2, <2>3, <2>4 DEF Next
<1> QED
  BY <1>1, <1>3, <1>4, <1>6, <1>7

\* Without an INSERT the rows of a query only become fewer.
LEMMA CountKept ==
  ASSUME RowsOK, RowsOK', TableOK, app_logs' \subseteq app_logs, now' \in now .. MaxTime,
         NEW q, NEW n \in Int, Cardinality(Matching(q)) <= n
  PROVE  Cardinality(MatchIn(app_logs', now', q)) <= n
<1> DEFINE L == IntervalLength[windowToInterval(q.window)]
<1>1. L \in Nat /\ now \in Int /\ now' \in Int /\ now <= now'
  BY IntervalIsNat DEF RowsOK
<1>2. ASSUME NEW row \in app_logs', row.ts > now' - L PROVE row.ts > now - L
  <2>1. row.ts \in Int
    BY DEF RowsOK
  <2> HIDE DEF L
  <2> QED
    BY <1>1, <1>2, <2>1
<1>3. MatchIn(app_logs', now', q) \in SUBSET Matching(q)
  BY <1>2, InTermsOfTable DEF MatchIn
<1>4. Matching(q) \in SUBSET app_logs
  BY DEF Matching
<1>5. IsFiniteSet(Matching(q)) /\ IsFiniteSet(MatchIn(app_logs', now', q))
  BY <1>3, <1>4, FS_Subset DEF TableOK
<1>6. /\ Cardinality(MatchIn(app_logs', now', q)) <= Cardinality(Matching(q))
      /\ Cardinality(Matching(q)) \in Nat /\ Cardinality(MatchIn(app_logs', now', q)) \in Nat
  BY <1>3, <1>5, FS_Subset, FS_CardinalityType
<1> QED
  BY <1>6

LEMMA CountHoldsNext ==
  ASSUME RowsOK, TableOK, ClientsOK, CountHolds, Next
  PROVE  CountHolds'
<1> DEFINE O == Observed
<1>0. O \in Clients /\ RowsOK' /\ ClientsOK'
  BY Sizes, RowsNext, ClientsNext DEF TableOK
<1>a. pc \in [Clients -> Statements \cup {"idle"}] /\ DOMAIN query = Clients
      /\ total \in [Clients -> 0 .. MaxRecords] /\ total[O] \in Int /\ hit \in BOOLEAN
  BY <1>0 DEF ClientsOK
<1>1. SUFFICES ASSUME pc'[O] = "rows", ~hit'
               PROVE  Cardinality(MatchIn(app_logs', now', query'[O])) <= total'[O]
  <2>1. Matching(query[O])' = MatchIn(app_logs', now', query'[O])
    BY DEF Matching, MatchIn, LevelFits
  <2> QED
    BY <1>1, <2>1 DEF CountHolds
<1>2. CASE Outside /\ pc[O] = "rows" /\ hit' = hit /\ query'[O] = query[O] /\ total'[O] = total[O]
  <2>1. Cardinality(Matching(query[O])) <= total[O]
    BY <1>1, <1>2 DEF CountHolds
  <2> QED
    BY <1>0, <1>2, <1>a, <2>1, OutsideStep, CountKept
<1>3. CASE CountQuery(O)
  <2>1. total'[O] = Cardinality(Matching(query[O])) /\ UNCHANGED <<app_logs, now, query>>
    BY <1>0, <1>3, <1>a DEF CountQuery
  <2>2. Matching(query[O]) \in SUBSET app_logs
    BY DEF Matching
  <2>3. Cardinality(Matching(query[O])) \in Nat
    BY <2>2, FS_Subset, FS_CardinalityType DEF TableOK
  <2> QED
    BY <2>1, <2>3, InTermsOfTable
<1>4. CASE WriterInsert
  BY <1>1, <1>4, <1>a DEF WriterInsert, request
<1>5. CASE WriterLose
  <2>1. UNCHANGED <<app_logs, now, hit, pc, query, total>>
    BY <1>5 DEF WriterLose, request
  <2> QED
    BY <1>1, <2>1, InTermsOfTable DEF CountHolds
<1>6. ASSUME Outside, ~CountQuery(O)
      PROVE  pc[O] = "rows" /\ hit' = hit /\ query'[O] = query[O] /\ total'[O] = total[O]
  <2>1. ASSUME NEW c \in Clients, NEW q \in Requests, BlockProbe(c, q) \/ Refuse(c, q)
        PROVE  UNCHANGED <<pc, hit, query, total>>
    BY <2>1 DEF BlockProbe, Refuse, Arrive
  <2>2. ASSUME NEW c \in Clients, NEW q \in Requests, Serve(c, q)
        PROVE  /\ UNCHANGED <<hit, total>> /\ c # O /\ pc[O] = pc'[O]
               /\ query'[O] = query[O]
    <3>1. pc' \in {pc, [pc EXCEPT ![c] = "ping"], [pc EXCEPT ![c] = "count"],
                   [pc EXCEPT ![c] = "delete"]}
          /\ UNCHANGED <<hit, total>> /\ pc[c] = "idle"
      BY <2>2 DEF Serve, Arrive
    <3>2. \E v : query' = query \/ query' = [query EXCEPT ![c] = v]
      BY <2>2, Zenon DEF Serve
    <3>3. c # O
      BY <1>0, <1>1, <1>a, <3>1
    <3> QED
      BY <1>0, <1>a, <3>1, <3>2, <3>3
  <2>3. ASSUME NEW c \in Clients, HealthProbe(c) \/ ExecDelete(c) \/ GiveUpDelete(c)
        PROVE  UNCHANGED <<hit, total, query>> /\ pc[O] = "rows"
    BY <1>0, <1>1, <1>a, <2>3 DEF HealthProbe, AfterProbe, ExecDelete, GiveUpDelete, history
  <2>4. ASSUME NEW c \in Clients, CountQuery(c)
        PROVE  /\ UNCHANGED <<hit, query>> /\ pc[O] = "rows" /\ total'[O] = total[O]
    BY <1>0, <1>1, <1>6, <1>a, <2>4 DEF CountQuery
  <2>5. ASSUME NEW c \in Clients,
               \/ CountFails(c) \/ RowsQuery(c) \/ RowsFail(c) \/ RowsCutShort(c)
               \/ ClearFailed(c)
        PROVE  /\ hit' = hit /\ query'[O] = query[O] /\ pc[O] = "rows" /\ total'[O] = total[O]
    <3>1. Return(c) /\ (c # O => hit' = hit)
      BY <2>5 DEF CountFails, RowsQuery, RowsFail, RowsCutShort, ClearFailed, Show, ShowPart
    <3> QED
      BY <1>0, <1>1, <1>a, <3>1 DEF Return
  <2>6. ASSUME NEW c \in Clients, ClearDone(c)
        PROVE  /\ UNCHANGED <<hit, total>> /\ query'[O] = query[O] /\ pc[O] = "rows"
    BY <1>0, <1>1, <1>a, <2>6 DEF ClearDone
  <2>7. ASSUME LateDelete \/ LogElsewhere \/ Tick PROVE UNCHANGED <<pc, hit, query, total>>
    BY <2>7 DEF LateDelete, LogElsewhere, Tick, request, history
  <2> QED
    BY <1>1, <1>6, <2>1, <2>2, <2>3, <2>4, <2>5, <2>6, <2>7 DEF Outside
<1> QED
  BY <1>2, <1>3, <1>4, <1>5, <1>6, NextSplit

-----------------------------------------------------------------------------
(* Clearing *)

ClearInv == Clearing /\ ClearedIsAsTold

\* What the history of a clear looks like.
CutOK ==
  cut.done =>
    /\ cut = [done |-> TRUE, at |-> cut.at, found |-> cut.found, taken |-> cut.taken]
    /\ cut.at \in Int /\ cut.at <= now
    /\ Ids(cut.found) \subseteq 1 .. logged /\ Ids(cut.found) \cap Ids(pending) = {}
    /\ \A row \in cut.found \cup cut.taken : row.ts \in Int

\* A row that was found and is not there never comes back.
LEMMA FoundStays ==
  ASSUME RowsOK, CutOK, cut.done, Next
  PROVE  /\ cut.found \cap app_logs' \subseteq cut.found \cap app_logs
         /\ Ids(cut.found) \subseteq 1 .. logged' /\ Ids(cut.found) \cap Ids(pending') = {}
<1>1. Ids(cut.found) \subseteq 1 .. logged /\ Ids(cut.found) \cap Ids(pending) = {}
  BY DEF CutOK
<1>2. \A row \in cut.found : row \notin pending
  BY <1>1 DEF Ids
<1>3. \A row \in app_logs' : row \in app_logs \/ row \in pending
  BY TableChange
<1> QED
  BY <1>1, <1>2, <1>3, StartStays

LEMMA CutKept ==
  ASSUME RowsOK, CutOK, Next, cut' = cut
  PROVE  CutOK'
<1>1. CASE cut.done
  <2>1. Ids(cut.found) \subseteq 1 .. logged' /\ Ids(cut.found) \cap Ids(pending') = {}
    BY <1>1, FoundStays
  <2>2. now \in Int /\ now' \in Int /\ now <= now'
    BY TableChange
  <2>3. /\ cut = [done |-> TRUE, at |-> cut.at, found |-> cut.found, taken |-> cut.taken]
        /\ cut.at \in Int /\ cut.at <= now
        /\ \A row \in cut.found \cup cut.taken : row.ts \in Int
    BY <1>1 DEF CutOK
  <2>4. cut.at <= now'
    BY <2>2, <2>3
  <2> QED
    BY <2>1, <2>3, <2>4 DEF CutOK, Ids
<1>2. CASE ~cut.done
  BY <1>2 DEF CutOK
<1> QED
  BY <1>1, <1>2

LEMMA IntervalsOrdered ==
  /\ \A window : windowToInterval(window)
                   \in {"1 hour", "6 hours", "24 hours", "7 days"}
  /\ \A window : humanWindow(window) = windowToInterval(window)
  /\ \A window : humanWindow(window) # "all"
  /\ \A window : IntervalLength["1 hour"] <= IntervalLength[windowToInterval(window)]
  /\ IntervalLength["1 hour"] \in Nat
<1>1. \A window : windowToInterval(window)
                    \in {"1 hour", "6 hours", "24 hours", "7 days"}
  BY DEF windowToInterval
<1>2. /\ \A window : humanWindow(window) = windowToInterval(window)
      /\ \A window : humanWindow(window) # "all"
  BY DEF humanWindow, windowToInterval
<1>3. \A i \in {"1 hour", "6 hours", "24 hours", "7 days"} :
        IntervalLength["1 hour"] <= IntervalLength[i] /\ IntervalLength[i] \in Nat
  <2> DEFINE a == IntervalLength["1 hour"]
             b == IntervalLength["6 hours"]
             c == IntervalLength["24 hours"]
             d == IntervalLength["7 days"]
  <2>1. a \in Nat /\ b \in Nat /\ c \in Nat /\ d \in Nat /\ a < b /\ b < c /\ c < d
    BY AdminAssumption
  <2>2. a <= a /\ a <= b /\ a <= c /\ a <= d
    <3> HIDE DEF a, b, c, d
    <3> QED
      BY <2>1
  <2> QED
    BY <2>1, <2>2
<1> QED
  BY <1>1, <1>2, <1>3

\* ClearedOf and ClearedIsAsTold as functions of the table T, the time t and
\* the history k of the clear.
ClearedIn(T, t, k, old) ==
  LET L == IntervalLength[windowToInterval(old)] IN
  /\ \A row \in k.found \cap T : old # "" /\ row.ts >= k.at - L
  /\ \A row \in k.taken : old = "" \/ row.ts < t - L

ToldIn(T, t, k, window) ==
  /\ \A row \in k.found \cap T :
       window # "all" /\ row.ts >= k.at - IntervalLength[window]
  /\ \A row \in k.taken : window = "all" \/ row.ts < t - IntervalLength[window]

LEMMA ClearInTerms ==
  /\ Clearing <=>
       /\ pc[Observed] \notin {"count", "rows"} => told = Unset
       /\ pc[Observed] \in {"delete", "deleted"} => audit = 0 /\ cut.done
       /\ pc[Observed] = "deleted" => ClearedIn(app_logs, now, cut, req[Observed].olderThan)
       /\ told # Unset =>
            cut.done /\ told \in {"all", "1 hour", "6 hours", "24 hours", "7 days"}
       /\ CutOK
  /\ Clearing' <=>
       /\ pc'[Observed] \notin {"count", "rows"} => told' = Unset
       /\ pc'[Observed] \in {"delete", "deleted"} => audit' = 0 /\ cut'.done
       /\ pc'[Observed] = "deleted" =>
            ClearedIn(app_logs', now', cut', req'[Observed].olderThan)
       /\ told' # Unset =>
            cut'.done /\ told' \in {"all", "1 hour", "6 hours", "24 hours", "7 days"}
       /\ CutOK'
  /\ ClearedIsAsTold <=> (told # Unset => ToldIn(app_logs, now, cut, told))
  /\ ClearedIsAsTold' <=> (told' # Unset => ToldIn(app_logs', now', cut', told'))
<1>1. /\ ClearedOf(req[Observed].olderThan)
           <=> ClearedIn(app_logs, now, cut, req[Observed].olderThan)
      /\ ClearedOf(req[Observed].olderThan)'
           <=> ClearedIn(app_logs', now', cut', req'[Observed].olderThan)
  BY DEF ClearedOf, ClearedIn
<1>2. /\ ClearedIsAsTold <=> (told # Unset => ToldIn(app_logs, now, cut, told))
      /\ ClearedIsAsTold' <=> (told' # Unset => ToldIn(app_logs', now', cut', told'))
  BY DEF ClearedIsAsTold, ToldIn
<1> QED
  BY <1>1, <1>2 DEF Clearing, CutOK

\* What has been cleared stays so.
LEMMA ClearedStays ==
  ASSUME RowsOK, CutOK, cut.done, Next
  PROVE  /\ \A old : ClearedIn(app_logs, now, cut, old) => ClearedIn(app_logs', now', cut, old)
         /\ \A window \in {"all", "1 hour", "6 hours", "24 hours", "7 days"} :
              ToldIn(app_logs, now, cut, window) => ToldIn(app_logs', now', cut, window)
<1>1. now \in Int /\ now' \in Int /\ now <= now'
  BY TableChange
<1>2. \A row \in cut.taken : row.ts \in Int
  BY DEF CutOK
<1>3. \A row \in cut.found \cap app_logs' : row \in cut.found \cap app_logs
  BY FoundStays
<1>4. \A L \in Nat : \A row \in cut.taken : row.ts < now - L => row.ts < now' - L
  BY <1>1, <1>2
<1>5. \A old : IntervalLength[windowToInterval(old)] \in Nat
  BY IntervalIsNat
<1>6. \A window \in {"1 hour", "6 hours", "24 hours", "7 days"} : IntervalLength[window] \in Nat
  BY AdminAssumption
<1>7. ASSUME NEW old, ClearedIn(app_logs, now, cut, old)
      PROVE  ClearedIn(app_logs', now', cut, old)
  BY <1>3, <1>4, <1>5, <1>7 DEF ClearedIn
<1>8. ASSUME NEW window \in {"all", "1 hour", "6 hours", "24 hours", "7 days"},
             ToldIn(app_logs, now, cut, window)
      PROVE  ToldIn(app_logs', now', cut, window)
  <2>1. CASE window = "all"
    BY <1>3, <1>8, <2>1 DEF ToldIn
  <2>2. CASE window # "all"
    <3>1. IntervalLength[window] \in Nat
      BY <1>6, <2>2
    <3> QED
      BY <1>3, <1>4, <1>8, <2>2, <3>1 DEF ToldIn
  <2> QED
    BY <2>1, <2>2
<1> QED
  BY <1>7, <1>8

\* A step that does not concern Observed's clear, or ends it.
LEMMA ClearFrame ==
  ASSUME RowsOK, ClearInv, Next, UNCHANGED <<cut, told>>, audit' \in {0, audit},
         \/ pc'[Observed] = pc[Observed] /\ req'[Observed] = req[Observed]
         \/ /\ pc'[Observed] \notin {"delete", "deleted"}
            /\ pc'[Observed] \in {"count", "rows"} \/ told = Unset
  PROVE  ClearInv'
<1>0. Clearing /\ ClearedIsAsTold
  BY DEF ClearInv
<1>1. CutOK /\ CutOK'
  BY <1>0, ClearInTerms, CutKept
<1>2. ASSUME pc'[Observed] = "deleted"
      PROVE  ClearedIn(app_logs', now', cut', req'[Observed].olderThan)
  <2>1. pc[Observed] = "deleted" /\ req'[Observed] = req[Observed]
    BY <1>2
  <2>2. cut.done /\ ClearedIn(app_logs, now, cut, req[Observed].olderThan)
    BY <1>0, <2>1, ClearInTerms
  <2> QED
    BY <1>1, <2>1, <2>2, ClearedStays
<1>3. ASSUME told' # Unset
      PROVE  /\ cut'.done /\ told' \in {"all", "1 hour", "6 hours", "24 hours", "7 days"}
             /\ ToldIn(app_logs', now', cut', told')
  <2>1. /\ cut.done /\ told \in {"all", "1 hour", "6 hours", "24 hours", "7 days"}
        /\ ToldIn(app_logs, now, cut, told)
    BY <1>0, <1>3, ClearInTerms
  <2> QED
    BY <1>1, <2>1, ClearedStays
<1>4. /\ pc'[Observed] \notin {"count", "rows"} => told' = Unset
      /\ pc'[Observed] \in {"delete", "deleted"} => audit' = 0 /\ cut'.done
  BY <1>0, ClearInTerms
<1>5. Clearing'
  BY <1>1, <1>2, <1>3, <1>4, ClearInTerms
<1>6. ClearedIsAsTold'
  BY <1>3, ClearInTerms
<1> QED
  BY <1>5, <1>6 DEF ClearInv

\* The clear is over.
LEMMA ClearOff ==
  ASSUME told' = Unset, cut' = Nothing, pc'[Observed] \notin {"delete", "deleted"}
  PROVE  ClearInv'
<1>1. cut'.done = FALSE
  BY DEF Nothing
<1>2. CutOK'
  BY <1>1 DEF CutOK
<1> QED
  BY <1>2, ClearInTerms DEF ClearInv

\* A clear arrives.
LEMMA ClearStarts ==
  ASSUME RowsOK, TableOK, RowsOK', Next, app_logs' = app_logs, now' = now, told' = Unset,
         cut' = [done |-> TRUE, at |-> now, found |-> app_logs, taken |-> {}],
         audit' = 0, pc'[Observed] = "delete"
  PROVE  ClearInv'
<1>1. /\ cut'.done = TRUE /\ cut'.at = now /\ cut'.found = app_logs /\ cut'.taken = {}
      /\ cut' = [done |-> TRUE, at |-> cut'.at, found |-> cut'.found, taken |-> cut'.taken]
  OBVIOUS
<1>2. Ids(app_logs) \subseteq 1 .. logged /\ Ids(app_logs) \cap Ids(pending) = {}
  <2>1. \A row \in app_logs : row.id \in 1 .. logged
    BY DEF RowsOK
  <2>2. ASSUME NEW row \in app_logs, NEW other \in pending PROVE row.id # other.id
    BY DEF RowsOK, TableOK
  <2> QED
    BY <2>1, <2>2 DEF Ids
<1>3. Ids(app_logs) \subseteq 1 .. logged' /\ Ids(app_logs) \cap Ids(pending') = {}
  BY <1>2, StartStays
<1>4. now \in Int /\ now <= now /\ \A row \in app_logs : row.ts \in Int
  BY DEF RowsOK
<1>5. Ids(cut.found)' = Ids(app_logs) /\ Ids(pending)' = Ids(pending')
  BY <1>1 DEF Ids
<1>6. CutOK'
  BY <1>1, <1>3, <1>4, <1>5 DEF CutOK
<1> QED
  BY <1>1, <1>6, ClearInTerms DEF ClearInv

\* The DELETE takes what the window says.
LEMMA DeleteClears ==
  ASSUME RowsOK, CutOK, cut.done, NEW old, app_logs' = app_logs \ Doomed(old),
         cut' = [cut EXCEPT !.taken = Doomed(old)], now' = now, logged' = logged,
         pending' = pending
  PROVE  CutOK' /\ cut'.done /\ ClearedIn(app_logs', now', cut', old)
<1> DEFINE L == IntervalLength[windowToInterval(old)]
           since == cut.at
           found == cut.found
           took == cut.taken
           doomed == Doomed(old)
<1>1. /\ cut = [done |-> TRUE, at |-> since, found |-> found, taken |-> took]
      /\ since \in Int /\ since <= now /\ \A row \in found : row.ts \in Int
      /\ Ids(found) \subseteq 1 .. logged /\ Ids(found) \cap Ids(pending) = {}
  BY DEF CutOK
<1>2. cut' = [cut EXCEPT !.taken = doomed]
  OBVIOUS
<1>3. doomed \subseteq app_logs /\ \A row \in doomed : old = "" \/ row.ts < now - L
  BY DEF Doomed
<1>4. \A row \in app_logs \ doomed : old # "" /\ ~ (row.ts < now - L)
  BY DEF Doomed
<1>5. L \in Nat /\ now \in Int /\ \A row \in app_logs : row.ts \in Int
  BY IntervalIsNat DEF RowsOK
<1>6. cut' = [done |-> TRUE, at |-> since, found |-> found, taken |-> doomed]
  <2> HIDE DEF since, found, took, doomed
  <2> QED
    BY <1>1, <1>2
<1>7. /\ cut'.done = TRUE /\ cut'.at = since /\ cut'.found = found /\ cut'.taken = doomed
      /\ cut' = [done |-> TRUE, at |-> cut'.at, found |-> cut'.found, taken |-> cut'.taken]
  <2> HIDE DEF since, found, took, doomed
  <2>1. cut'.done = TRUE /\ cut'.at = since /\ cut'.found = found /\ cut'.taken = doomed
    BY <1>6
  <2> QED
    BY <1>6, <2>1
<1>8. \A row \in app_logs \ doomed : old # "" /\ row.ts >= since - L
  <2>1. since \in Int /\ since <= now
    BY <1>1
  <2> HIDE DEF since, found, took, doomed, L
  <2>2. ASSUME NEW row \in app_logs \ doomed PROVE row.ts >= since - L
    <3>1. row.ts \in Int /\ ~ (row.ts < now - L)
      BY <1>4, <1>5
    <3> QED
      BY <1>5, <2>1, <3>1
  <2> QED
    BY <1>4, <2>2
<1> HIDE DEF since, found, took, doomed
<1>9. CutOK'
  <2>1. Ids(cut.found)' = Ids(found) /\ Ids(pending)' = Ids(pending)
    BY <1>7 DEF Ids
  <2> QED
    BY <1>1, <1>3, <1>5, <1>7, <2>1 DEF CutOK
<1>10. app_logs' = app_logs \ doomed
  BY DEF doomed
<1>11. ClearedIn(app_logs', now', cut', old)
  BY <1>3, <1>7, <1>8, <1>10 DEF ClearedIn
<1> QED
  BY <1>7, <1>9, <1>11

LEMMA ClearNext ==
  ASSUME RowsOK, TableOK, ClientsOK, ClearInv, Next
  PROVE  ClearInv'
<1> DEFINE O == Observed
<1>0. /\ O \in Clients /\ pc \in [Clients -> Statements \cup {"idle"}]
      /\ req \in [Clients -> Requests \cup {Unset}] /\ RowsOK'
      /\ Clearing /\ ClearedIsAsTold /\ CutOK
  BY Sizes, RowsNext, ClearInTerms DEF ClientsOK, ClearInv
<1>1. ASSUME NEW c \in Clients, NEW q \in Requests, BlockProbe(c, q) \/ Refuse(c, q)
      PROVE  ClearInv'
  <2>1. UNCHANGED <<pc, req, cut, told>> /\ audit' \in {0, audit}
    BY <1>1 DEF BlockProbe, Refuse, Arrive
  <2> QED
    BY <2>1, ClearFrame
<1>2. ASSUME NEW c \in Clients, NEW q \in Requests, Serve(c, q) PROVE ClearInv'
  <2>1. /\ pc' \in {pc, [pc EXCEPT ![c] = "ping"], [pc EXCEPT ![c] = "count"],
                    [pc EXCEPT ![c] = "delete"]}
        /\ pc[c] = "idle" /\ UNCHANGED <<app_logs, now, told>>
        /\ audit' = IF c = O THEN 0 ELSE audit
    BY <1>2 DEF Serve, Arrive
  <2>2. cut' = IF c = O /\ pc'[c] = "delete"
                 THEN [done |-> TRUE, at |-> now, found |-> app_logs, taken |-> {}]
                 ELSE cut
    BY <1>2 DEF Serve
  <2>3. CASE c # O
    <3>1. pc'[O] = pc[O]
      BY <1>0, <2>1, <2>3
    <3>2. PICK v : req' = [req EXCEPT ![c] = v]
      BY <1>2, Zenon DEF Serve
    <3>3. req'[O] = req[O]
      BY <1>0, <2>3, <3>2
    <3> QED
      BY <2>1, <2>2, <2>3, <3>1, <3>3, ClearFrame
  <2>4. CASE c = O
    <3>1. told = Unset
      BY <1>0, <2>1, <2>4 DEF Clearing
    <3>2. CASE pc'[O] = "delete"
      <4>1. cut' = [done |-> TRUE, at |-> now, found |-> app_logs, taken |-> {}]
            /\ audit' = 0
        BY <2>1, <2>2, <2>4, <3>2
      <4> QED
        BY <1>0, <2>1, <3>1, <3>2, <4>1, ClearStarts
    <3>3. CASE pc'[O] # "delete"
      <4>1. cut' = cut /\ audit' = 0 /\ pc'[O] \notin {"delete", "deleted"}
        BY <1>0, <2>1, <2>2, <2>4, <3>3
      <4> QED
        BY <2>1, <3>1, <4>1, ClearFrame
    <3> QED
      BY <3>2, <3>3
  <2> QED
    BY <2>3, <2>4
<1>3. ASSUME NEW c \in Clients, HealthProbe(c) \/ CountQuery(c) \/ GiveUpDelete(c)
      PROVE  ClearInv'
  <2>1. /\ pc[c] \in {"ping", "summary", "stats", "count", "delete"}
        /\ \E s \in {"summary", "stats", "count", "rows", "failed"} :
             /\ pc' = [pc EXCEPT ![c] = s]
             /\ s \in {"count", "rows"} \/ pc[c] # "count"
        /\ UNCHANGED <<req, cut, told, audit>>
    BY <1>3 DEF HealthProbe, AfterProbe, CountQuery, GiveUpDelete, history
  <2>2. CASE c # O
    <3>1. pc'[O] = pc[O]
      BY <1>0, <2>1, <2>2
    <3> QED
      BY <2>1, <3>1, ClearFrame
  <2>3. CASE c = O
    <3>1. pc'[O] \notin {"delete", "deleted"} /\ (pc'[O] \in {"count", "rows"} \/ told = Unset)
      BY <1>0, <2>1, <2>3 DEF Clearing
    <3> QED
      BY <2>1, <3>1, ClearFrame
  <2> QED
    BY <2>2, <2>3
<1>5. ASSUME NEW c \in Clients,
             \/ CountFails(c) \/ RowsQuery(c) \/ RowsFail(c) \/ RowsCutShort(c)
             \/ ClearFailed(c)
      PROVE  ClearInv'
  <2>1. Return(c) /\ audit' = audit
    BY <1>5 DEF CountFails, RowsQuery, RowsFail, RowsCutShort, ClearFailed, Show, ShowPart
  <2>2. CASE c # O
    <3>1. pc'[O] = pc[O] /\ req'[O] = req[O] /\ UNCHANGED <<cut, told>>
      BY <1>0, <2>1, <2>2 DEF Return
    <3> QED
      BY <2>1, <2>2, <3>1, ClearFrame
  <2>3. CASE c = O
    <3>1. told' = Unset /\ cut' = Nothing /\ pc'[O] = "idle"
      BY <1>0, <2>1, <2>3 DEF Return
    <3> QED
      BY <3>1, ClearOff
  <2> QED
    BY <2>2, <2>3
<1>6. ASSUME NEW c \in Clients, ExecDelete(c) PROVE ClearInv'
  <2>1. CASE c # O
    <3>1. pc'[O] = pc[O] /\ UNCHANGED <<req, cut, told>> /\ audit' \in {0, audit}
      BY <1>0, <1>6, <2>1 DEF ExecDelete, Delete
    <3> QED
      BY <3>1, ClearFrame
  <2>2. CASE c = O
    <3> DEFINE old == req[O].olderThan
    <3>1. /\ pc[O] = "delete" /\ pc'[O] = "deleted" /\ UNCHANGED <<told, audit, req, now>>
          /\ app_logs' = app_logs \ Doomed(old) /\ cut' = [cut EXCEPT !.taken = Doomed(old)]
          /\ pending' = pending /\ logged' = logged
      BY <1>0, <1>6, <2>2 DEF ExecDelete, Delete, Quiet
    <3>2. told' = Unset /\ audit' = 0 /\ cut.done
      BY <1>0, <3>1 DEF Clearing
    <3>3. CutOK' /\ cut'.done /\ ClearedIn(app_logs', now', cut', old)
      <4> HIDE DEF old
      <4> QED
        BY <1>0, <3>1, <3>2, DeleteClears
    <3>4. req'[O].olderThan = old
      BY <3>1
    <3> QED
      BY <3>1, <3>2, <3>3, <3>4, ClearInTerms DEF ClearInv
  <2> QED
    BY <2>1, <2>2
<1>7. ASSUME NEW c \in Clients, ClearDone(c) PROVE ClearInv'
  <2>1. CASE c # O
    <3>1. pc'[O] = pc[O] /\ UNCHANGED <<req, cut, told, audit>>
      BY <1>0, <1>7, <2>1 DEF ClearDone, AuditBy
    <3> QED
      BY <3>1, ClearFrame
  <2>2. CASE c = O
    <3> DEFINE old == req[O].olderThan
    <3>1. /\ pc[O] = "deleted" /\ pc'[O] = "count" /\ cut' = cut
          /\ told' = IF old = "" THEN "all" ELSE humanWindow(old)
      BY <1>0, <1>7, <2>2 DEF ClearDone
    <3>2. cut.done /\ ClearedIn(app_logs, now, cut, old)
      BY <1>0, <3>1, ClearInTerms
    <3>3. CutOK' /\ ClearedIn(app_logs', now', cut', old)
      BY <1>0, <3>1, <3>2, CutKept, ClearedStays
    <3> HIDE DEF old
    <3>4. /\ humanWindow(old) = windowToInterval(old) /\ humanWindow(old) # "all"
          /\ windowToInterval(old) \in {"1 hour", "6 hours", "24 hours", "7 days"}
      BY IntervalsOrdered
    <3>5. told' \in {"all", "1 hour", "6 hours", "24 hours", "7 days"}
      BY <3>1, <3>4
    <3>6. ToldIn(app_logs', now', cut', told')
      <4>1. CASE old = ""
        BY <3>1, <3>3, <4>1 DEF ToldIn, ClearedIn
      <4>2. CASE old # ""
        <5>1. told' = windowToInterval(old) /\ told' # "all"
          BY <3>1, <3>4, <4>2
        <5> QED
          BY <3>3, <4>2, <5>1 DEF ToldIn, ClearedIn
      <4> QED
        BY <4>1, <4>2
    <3> QED
      BY <3>1, <3>2, <3>3, <3>5, <3>6, ClearInTerms DEF ClearInv
  <2> QED
    BY <2>1, <2>2
<1>8. ASSUME LateDelete \/ LogElsewhere \/ WriterInsert \/ WriterLose \/ Tick
      PROVE  ClearInv'
  <2>1. UNCHANGED <<pc, req, cut, told>> /\ audit' \in {0, audit}
    BY <1>8 DEF LateDelete, Delete, LogElsewhere, WriterInsert, WriterLose, Tick,
                request, history
  <2> QED
    BY <2>1, ClearFrame
<1> QED
  BY <1>1, <1>2, <1>3, <1>5, <1>6, <1>7, <1>8 DEF Next

\* What is younger than a short window is younger than a longer one.
LEMMA Younger ==
  ASSUME NEW t \in Int, NEW n \in Int, NEW short \in Nat, NEW long \in Nat,
         short <= long, ~ (t < n - short)
  PROVE  ~ (t < n - long)
OBVIOUS

\* A DELETE that is not the one of the audited clear leaves the record of that
\* clear, or is excused.
LEMMA TraceDeleted ==
  ASSUME RowsOK, ClearLeavesTrace, NEW old, app_logs' = app_logs \ Doomed(old),
         pending' = pending, audit' = IF Excused(old) THEN 0 ELSE audit
  PROVE  ClearLeavesTrace'
<1>1. SUFFICES ASSUME audit # 0, ~Excused(old), audit' = audit
               PROVE  audit \in Ids(app_logs' \cup pending')
  BY DEF ClearLeavesTrace, Ids
<1>2. PICK row \in app_logs \cup pending : row.id = audit
  BY <1>1 DEF ClearLeavesTrace, Ids
<1>3. row \notin Doomed(old)
  <2>1. SUFFICES ASSUME row \in Doomed(old) PROVE FALSE
    OBVIOUS
  <2> DEFINE L == IntervalLength[windowToInterval(old)]
             h == IntervalLength["1 hour"]
  <2>2. old # "" /\ ~ (row.ts < now - h)
    BY <1>1, <1>2, <2>1 DEF Excused
  <2>3. row.ts < now - L
    BY <2>1, <2>2 DEF Doomed
  <2>4. L \in Nat /\ h \in Nat /\ h <= L
    BY IntervalIsNat, IntervalsOrdered
  <2>5. now \in Int /\ row.ts \in Int
    BY <1>2 DEF RowsOK
  <2> HIDE DEF L, h
  <2>6. ~ (row.ts < now - L)
    BY <2>2, <2>4, <2>5, Younger
  <2> QED
    BY <2>3, <2>6
<1> QED
  BY <1>2, <1>3 DEF Ids

LEMMA TraceNext ==
  ASSUME RowsOK, TableOK, ClientsOK, Clearing, ClearLeavesTrace, Next
  PROVE  ClearLeavesTrace'
<1>0. logged \in 0 .. MaxRecords
  BY DEF RowsOK
<1>1. ASSUME audit' \in {0, audit}, pending \subseteq pending', app_logs \subseteq app_logs'
      PROVE  ClearLeavesTrace'
  BY <1>1 DEF ClearLeavesTrace, Ids
<1>2. ASSUME NEW c \in Clients, NEW q \in Requests,
             BlockProbe(c, q) \/ Refuse(c, q) \/ Serve(c, q)
      PROVE  ClearLeavesTrace'
  <2>1. audit' \in {0, audit} /\ app_logs' = app_logs
    BY <1>2 DEF BlockProbe, Refuse, Serve, Arrive
  <2>2. pending \subseteq pending'
    BY <1>2, OutsideStep DEF Outside, Logging
  <2> QED
    BY <1>1, <2>1, <2>2
<1>3. ASSUME NEW c \in Clients,
             \/ HealthProbe(c) \/ CountQuery(c) \/ CountFails(c) \/ RowsQuery(c)
             \/ RowsFail(c) \/ RowsCutShort(c) \/ GiveUpDelete(c) \/ ClearFailed(c)
      PROVE  ClearLeavesTrace'
  <2>1. audit' = audit /\ app_logs' = app_logs
    BY <1>3 DEF HealthProbe, CountQuery, CountFails, RowsQuery, RowsFail, RowsCutShort,
                GiveUpDelete, ClearFailed, history
  <2>2. pending \subseteq pending'
    BY <1>3, OutsideStep DEF Outside, Logging
  <2> QED
    BY <1>1, <2>1, <2>2
<1>4. ASSUME NEW c \in Clients, ClearDone(c) PROVE ClearLeavesTrace'
  <2>1. app_logs' = app_logs /\ AuditBy(c)
    BY <1>4 DEF ClearDone
  <2>2. Logging /\ (logged' > logged => logged' \in Ids(pending'))
    BY <1>0, <2>1, LogWarning DEF AuditBy
  <2>3. audit' \in {0, audit} \/ (logged' > logged /\ audit' = logged')
    BY <2>1 DEF AuditBy
  <2>4. ASSUME logged' > logged, audit' = logged' PROVE ClearLeavesTrace'
    BY <2>2, <2>4 DEF ClearLeavesTrace, Ids
  <2> QED
    BY <1>1, <2>1, <2>2, <2>3, <2>4 DEF Logging
<1>5. ASSUME NEW c \in Clients, ExecDelete(c) PROVE ClearLeavesTrace'
  <2> DEFINE old == req[c].olderThan
  <2>1. pending' = pending /\ app_logs' = app_logs \ Doomed(old)
        /\ audit' = IF ~(c = Observed) /\ Excused(old) THEN 0 ELSE audit
    BY <1>5 DEF ExecDelete, Delete, Quiet
  <2>2. CASE c = Observed
    <3>1. pc[Observed] = "delete"
      BY <1>5, <2>2 DEF ExecDelete
    <3>2. audit' = 0
      BY <2>1, <2>2, <3>1 DEF Clearing
    <3> QED
      BY <3>2 DEF ClearLeavesTrace
  <2>3. CASE c # Observed
    <3>1. audit' = IF Excused(old) THEN 0 ELSE audit
      BY <2>1, <2>3
    <3> HIDE DEF old
    <3> QED
      BY <2>1, <3>1, TraceDeleted
  <2> QED
    BY <2>2, <2>3
<1>9. CASE LateDelete
  <2>1. PICK d \in abandoned : Delete(d.olderThan, FALSE) /\ Quiet
    BY <1>9 DEF LateDelete
  <2> DEFINE old == d.olderThan
  <2>2. pending' = pending /\ app_logs' = app_logs \ Doomed(old)
        /\ audit' = IF Excused(old) THEN 0 ELSE audit
    BY <2>1 DEF Delete, Quiet
  <2> HIDE DEF old
  <2> QED
    BY <2>2, TraceDeleted
<1>6. ASSUME LogElsewhere \/ Tick PROVE ClearLeavesTrace'
  <2>1. audit' = audit /\ app_logs' = app_logs
    BY <1>6 DEF LogElsewhere, Tick, history
  <2>2. pending \subseteq pending'
    BY <1>6, OutsideStep DEF Outside, Logging
  <2> QED
    BY <1>1, <2>1, <2>2
<1>7. CASE WriterInsert
  BY <1>7 DEF WriterInsert, ClearLeavesTrace, Ids
<1>8. CASE WriterLose
  BY <1>8 DEF WriterLose, ClearLeavesTrace, Ids
<1> QED
  BY <1>2, <1>3, <1>4, <1>5, <1>6, <1>7, <1>8, <1>9 DEF Next

-----------------------------------------------------------------------------
(* Credentials *)

LEMMA ClosedNext ==
  ASSUME RowsOK, ClientsOK, AdminIsClosed, Next
  PROVE  AdminIsClosed'
<1>0. pc \in [Clients -> Statements \cup {"idle"}] /\ req \in [Clients -> Requests \cup {Unset}]
      /\ cfg' = cfg
  BY RowsNext DEF ClientsOK
<1>1. ASSUME \A d \in Clients : pc'[d] # "idle" => pc[d] # "idle" /\ req'[d] = req[d]
      PROVE  AdminIsClosed'
  BY <1>0, <1>1 DEF AdminIsClosed
<1>2. ASSUME NEW c \in Clients, NEW q \in Requests, BlockProbe(c, q) \/ Refuse(c, q)
      PROVE  AdminIsClosed'
  BY <1>1, <1>2 DEF BlockProbe, Refuse
<1>3. ASSUME NEW c \in Clients, NEW q \in Requests, Serve(c, q) PROVE AdminIsClosed'
  <2>1. \/ pc' = pc
        \/ /\ BasicAuth(cfg, q.auth) = 200
           /\ pc' \in {[pc EXCEPT ![c] = "ping"], [pc EXCEPT ![c] = "count"],
                       [pc EXCEPT ![c] = "delete"]}
    BY <1>3 DEF Serve
  <2>2. req' = [req EXCEPT ![c] = IF pc'[c] = "idle" THEN Unset ELSE q] /\ pc[c] = "idle"
    BY <1>3 DEF Serve, Arrive
  <2>3. CASE pc' = pc
    BY <1>0, <1>1, <2>2, <2>3
  <2>4. CASE BasicAuth(cfg, q.auth) = 200 /\ pc'[c] # "idle"
    <3>1. cfg.adminUser # "" /\ cfg.adminPass # "" /\ q.auth = <<cfg.adminUser, cfg.adminPass>>
      <4> DEFINE open == cfg.adminUser = "" \/ cfg.adminPass = ""
                 wrong == q.auth = Unset \/ q.auth # <<cfg.adminUser, cfg.adminPass>>
      <4>1. 200 = IF open THEN 403 ELSE IF wrong THEN 401 ELSE 200
        BY <2>4 DEF BasicAuth
      <4>2. ~open /\ ~wrong
        <5> HIDE DEF open, wrong
        <5> QED
          BY <4>1
      <4> QED
        BY <4>2
    <3>2. req'[c] = q /\ \A d \in Clients \ {c} : req'[d] = req[d] /\ pc'[d] = pc[d]
      BY <1>0, <2>1, <2>2, <2>4
    <3> QED
      BY <1>0, <3>1, <3>2 DEF AdminIsClosed
  <2> QED
    BY <1>0, <2>1, <2>3, <2>4
<1>4. ASSUME NEW c \in Clients,
             \/ HealthProbe(c) \/ CountQuery(c) \/ ExecDelete(c) \/ GiveUpDelete(c)
             \/ ClearDone(c)
      PROVE  AdminIsClosed'
  BY <1>0, <1>1, <1>4 DEF HealthProbe, AfterProbe, CountQuery, ExecDelete, GiveUpDelete,
                          ClearDone
<1>5. ASSUME NEW c \in Clients,
             \/ CountFails(c) \/ RowsQuery(c) \/ RowsFail(c) \/ RowsCutShort(c)
             \/ ClearFailed(c)
      PROVE  AdminIsClosed'
  <2>1. Return(c)
    BY <1>5 DEF CountFails, RowsQuery, RowsFail, RowsCutShort, ClearFailed, Show, ShowPart
  <2> QED
    BY <1>0, <1>1, <2>1 DEF Return
<1>6. ASSUME LateDelete \/ LogElsewhere \/ WriterInsert \/ WriterLose \/ Tick
      PROVE  AdminIsClosed'
  BY <1>1, <1>6 DEF LateDelete, LogElsewhere, WriterInsert, WriterLose, Tick, request
<1> QED
  BY <1>2, <1>3, <1>4, <1>5, <1>6 DEF Next

-----------------------------------------------------------------------------
(* The invariant holds *)

LEMMA InitRows ==
  ASSUME Init
  PROVE  RowsOK /\ TableOK
<1> DEFINE S == Ids(app_logs) \cup {0}
<1>1. app_logs \in Tables /\ pending = {} /\ now = 0 /\ logged = Max(S)
  BY DEF Init
<1>2. /\ IsFiniteSet(app_logs)
      /\ \A row \in app_logs :
           /\ row.id \in 1 .. MaxRecords /\ row.ts \in Int /\ row.ts <= 0
           /\ row.level \in DOMAIN Severity
           /\ \A other \in app_logs : other.id = row.id => other = row
  BY <1>1, InputAssumption
<1>3. S \in SUBSET (0 .. MaxRecords) /\ S # {} /\ MaxRecords \in Nat
  <2>1. \A row \in app_logs : row.id \in 0 .. MaxRecords
    BY <1>2, Sizes
  <2>2. 0 \in 0 .. MaxRecords
    BY Sizes
  <2> QED
    BY <2>1, <2>2, Sizes DEF Ids
<1>4. logged \in S /\ \A y \in S : logged >= y
  <2> HIDE DEF S
  <2> QED
    BY <1>1, <1>3, MaxOfBounded
<1>5. logged \in 0 .. MaxRecords
  BY <1>3, <1>4
<1>6. \A row \in app_logs : row.id \in 1 .. logged
  <2>1. \A row \in app_logs : row.id \in S
    BY DEF Ids
  <2> HIDE DEF S
  <2> QED
    BY <1>2, <1>4, <1>5, <2>1
<1>7. now \in 0 .. MaxTime /\ app_logs \cup pending = app_logs
  BY <1>1, Sizes
<1> QED
  BY <1>1, <1>2, <1>5, <1>6, <1>7 DEF RowsOK, TableOK

LEMMA InitInductive == Init => Inductive
<1> SUFFICES ASSUME Init PROVE Inductive
  OBVIOUS
<1>0. Observed \in Clients /\ pc = [c \in Clients |-> "idle"] /\ walk = NoWalk
      /\ told = Unset /\ audit = 0 /\ hit = FALSE /\ cut.done = FALSE /\ abandoned = {}
  BY Sizes DEF Init, Nothing
<1>1. RowsOK /\ TableOK
  BY InitRows
<1>2. ClientsOK
  <2>1. FirstPage.page \in 0 .. IntLimit - 1 /\ 0 \in 0 .. MaxRecords
    BY Sizes DEF FirstPage
  <2> QED
    BY <1>0, <2>1 DEF Init, ClientsOK, AbandonedOK
<1>3. WalkOK /\ NotPassed
  <2>1. walk.on = FALSE
    BY <1>0 DEF NoWalk
  <2> QED
    BY <2>1 DEF WalkOK, NotPassed
<1>4. pc[Observed] = "idle" /\ \A c \in Clients : pc[c] = "idle"
  BY <1>0
<1>5. CountHolds /\ Clearing /\ ClearedIsAsTold /\ ClearLeavesTrace /\ AdminIsClosed
  BY <1>0, <1>4 DEF CountHolds, Clearing, ClearedIsAsTold, ClearLeavesTrace, AdminIsClosed
<1> QED
  BY <1>1, <1>2, <1>3, <1>5, Parts DEF Inductive

LEMMA InductiveStep == Inductive /\ Next => Inductive'
<1> SUFFICES ASSUME Inductive, Next PROVE Inductive'
  OBVIOUS
<1>1. RowsOK /\ ClientsOK /\ TableOK /\ WalkOK /\ ClearInv
  BY Parts DEF Inductive, ClearInv
<1>2. NotPassed /\ CountHolds /\ Clearing /\ ClearLeavesTrace /\ AdminIsClosed
  BY DEF Inductive
<1>3. RowsOK' /\ TableOK' /\ ClientsOK' /\ WalkOK'
  BY <1>1, RowsNext, TableNext, ClientsNext, WalkNext DEF TableOK
<1>4. TypeOK' /\ Shape'
  BY <1>3 DEF TypeOK, Shape, RowsOK, ClientsOK, AbandonedOK, TableOK, WalkOK
<1>5. NotPassed' /\ CountHolds'
  BY <1>1, <1>2, NotPassedNext, CountHoldsNext
<1>6. Clearing' /\ ClearedIsAsTold'
  BY <1>1, ClearNext DEF ClearInv
<1>7. ClearLeavesTrace' /\ AdminIsClosed'
  BY <1>1, <1>2, TraceNext, ClosedNext
<1> QED
  BY <1>4, <1>5, <1>6, <1>7 DEF Inductive

LEMMA InductiveStutter == Inductive /\ UNCHANGED vars => Inductive'
<1> SUFFICES ASSUME Inductive, UNCHANGED vars PROVE Inductive'
  OBVIOUS
<1> USE DEF vars, request, history
<1>1. TypeOK' /\ Shape'
  BY DEF Inductive, TypeOK, Shape, Ids
<1>2. NotPassed'
  BY DEF Inductive, NotPassed, Matching, Tied, Rank
<1>3. CountHolds'
  BY DEF Inductive, CountHolds, Matching
<1>4. Clearing' /\ ClearedIsAsTold' /\ ClearLeavesTrace' /\ AdminIsClosed'
  BY DEF Inductive, Clearing, ClearedOf, ClearedIsAsTold, ClearLeavesTrace, AdminIsClosed,
         Ids
<1> QED
  BY <1>1, <1>2, <1>3, <1>4 DEF Inductive

\* What relates pages, clears and the table holds in every reachable state.
THEOREM InductiveHolds == Spec => []Inductive
<1>1. Inductive /\ [Next]_vars => Inductive'
  BY InductiveStep, InductiveStutter
<1> QED
  BY <1>1, InitInductive, PTL DEF Spec

\* Every variable has its type; ids are unique across table and writer.
THEOREM TypeCorrect == Spec => []TypeOK
<1>1. Inductive => TypeOK
  BY DEF Inductive
<1> QED
  BY <1>1, InductiveHolds, PTL

\* Paging through the log by "Next" overlooks no row, whatever is inserted,
\* cleared and outdated between the pages, for every page size and table.
THEOREM NothingOverlookedHolds == Spec => []NothingOverlooked
<1>1. Inductive => NothingOverlooked
  <2> SUFFICES ASSUME Inductive, walk.on, walk.over,
                      NEW row \in Matching([level |-> walk.level, window |-> walk.window]),
                      row.id \in walk.start, ~Tied(row)
               PROVE  row.id \in walk.seen
    BY DEF NothingOverlooked
  <2>1. row \in Matching(walk)
    BY DEF Matching
  <2> QED
    BY <2>1 DEF Inductive, NotPassed
<1> QED
  BY <1>1, InductiveHolds, PTL

\* A clear that is reported has taken exactly the rows it names.
THEOREM ClearedIsAsToldHolds == Spec => []ClearedIsAsTold
<1>1. Inductive => ClearedIsAsTold
  BY DEF Inductive
<1> QED
  BY <1>1, InductiveHolds, PTL

\* No clear removes the record of itself.
THEOREM ClearLeavesTraceHolds == Spec => []ClearLeavesTrace
<1>1. Inductive => ClearLeavesTrace
  BY DEF Inductive
<1> QED
  BY <1>1, InductiveHolds, PTL

\* No statement of the admin handlers runs without configured credentials and
\* a request that carries them.
THEOREM AdminIsClosedHolds == Spec => []AdminIsClosed
<1>1. Inductive => AdminIsClosed
  BY DEF Inductive
<1> QED
  BY <1>1, InductiveHolds, PTL

-----------------------------------------------------------------------------
(* Tokens *)

\* A masked path shows no token, unless it is unclean.
LEMMA MaskHides ==
  ASSUME NEW q \in Requests, NEW i \in DOMAIN maskTokenInPath(q.path),
         maskTokenInPath(q.path)[i] \in Tokens
  PROVE  Unclean(maskTokenInPath(q.path))
<1> DEFINE path == q.path
           mask == maskTokenInPath(path)
           S == {path[j] : j \in DOMAIN path} \cup {"[token]"}
           link == Len(path) >= 2 /\ path[1] = "s" /\ path[2] # ""
<1>1. path \in Seq({path[j] : j \in DOMAIN path})
      /\ \A j \in DOMAIN path :
           path[j] \in Tokens => Unclean(path) \/ (j = 2 /\ path[1] = "s")
  BY LinkAssumption
<1>2. path \in Seq(S)
  BY <1>1
<1>a. Len(path) \in Nat /\ DOMAIN path = 1 .. Len(path)
  <2> HIDE DEF S, path
  <2> QED
    BY <1>2
<1>3. "" \notin Tokens /\ "[token]" \notin Tokens
  BY LinkAssumption
<1>4. CASE ~link
  <2>1. mask = path
    BY <1>4 DEF maskTokenInPath
  <2>2. CASE i = 2 /\ path[1] = "s"
    <3>1. path[2] \in Tokens /\ 2 \in DOMAIN path
      BY <2>1, <2>2
    <3>2. path[2] # ""
      BY <1>3, <3>1
    <3>3. Len(path) >= 2
      <4> HIDE DEF path
      <4> QED
        BY <1>a, <3>1
    <3> QED
      BY <1>4, <2>2, <3>2, <3>3
  <2> QED
    BY <1>1, <2>1, <2>2
<1>5. CASE link
  <2>1. mask = [path EXCEPT ![2] = "[token]"]
    BY <1>5 DEF maskTokenInPath
  <2> HIDE DEF S
  <2>2. Len(path) \in Nat /\ Len(path) >= 2 /\ DOMAIN path = 1 .. Len(path)
    BY <1>a, <1>5
  <2>3. mask \in Seq(S) /\ Len(mask) = Len(path) /\ DOMAIN mask = DOMAIN path
    <3>1. "[token]" \in S
      BY DEF S
    <3> HIDE DEF path
    <3> QED
      BY <1>2, <2>1, <2>2, <3>1
  <2>4. mask[2] = "[token]" /\ \A j \in DOMAIN path : j # 2 => mask[j] = path[j]
    BY <2>1, <2>2
  <2>5. i # 2 /\ path[i] \in Tokens /\ i \in DOMAIN path
    BY <1>3, <2>3, <2>4
  <2>6. Unclean(path)
    BY <1>1, <2>5
  <2>7. PICK j \in 1 .. Len(path) - 1 : path[j] = ""
    BY <2>6 DEF Unclean
  <2>8. j # 2 /\ j \in DOMAIN path
    <3>1. path[2] # ""
      BY <1>5
    <3>2. 1 .. Len(path) - 1 \subseteq DOMAIN path
      <4> HIDE DEF path
      <4> QED
        BY <2>2
    <3> QED
      BY <2>7, <3>1, <3>2
  <2>9. mask[j] = "" /\ j \in 1 .. Len(mask) - 1
    BY <2>3, <2>4, <2>7, <2>8
  <2> QED
    BY <2>9 DEF Unclean
<1> QED
  BY <1>4, <1>5

LeakInv == \A row \in app_logs \cup pending : LeakIsKnown(row)

LEMMA EmptyPath ==
  ASSUME NEW row, row.path = <<>> PROVE LeakIsKnown(row)
<1>1. ~ \E i \in DOMAIN row.path : TRUE
  OBVIOUS
<1> QED
  BY <1>1 DEF LeakIsKnown, Leaks

\* New records keep it, if they say nothing, or what is known, or are masked.
LEMMA LeakLogged ==
  ASSUME LeakInv, app_logs' \subseteq app_logs,
         \A row \in pending' \ pending :
           \/ row.path = <<>>
           \/ row.msg \in {"rate limit exceeded", "probe request blocked"}
           \/ \E q \in Requests : row.path = maskTokenInPath(q.path)
  PROVE  LeakInv'
<1>1. SUFFICES ASSUME NEW row \in pending' \ pending PROVE LeakIsKnown(row)
  BY DEF LeakInv
<1>2. CASE row.path = <<>>
  BY <1>2, EmptyPath
<1>3. CASE row.msg \in {"rate limit exceeded", "probe request blocked"}
  BY <1>3 DEF LeakIsKnown
<1>4. ASSUME NEW q \in Requests, row.path = maskTokenInPath(q.path) PROVE LeakIsKnown(row)
  BY <1>4, MaskHides DEF LeakIsKnown, Leaks
<1> QED
  BY <1>2, <1>3, <1>4

LEMMA LeakNext ==
  ASSUME RowsOK, LeakInv, Next
  PROVE  LeakInv'
<1>0. logged \in 0 .. MaxRecords
  BY DEF RowsOK
<1>a. /\ \A level, msg, path : Entry(level, msg, path).msg = msg
                               /\ Entry(level, msg, path).path = path
      /\ \A q : RequestLine(q).path = maskTokenInPath(q.path)
  BY DEF Entry, RequestLine
<1>1. ASSUME NEW c \in Clients, NEW q \in Requests, BlockProbe(c, q) PROVE LeakInv'
  <2>1. app_logs' = app_logs /\ LogAll(<<Entry("WARN", "probe request blocked", q.path)>>)
    BY <1>1 DEF BlockProbe, Arrive
  <2>2. \A row \in pending' \ pending : row.msg = "probe request blocked"
    <3> DEFINE e == Entry("WARN", "probe request blocked", q.path)
    <3>1. e.level \in DOMAIN Severity /\ e.msg = "probe request blocked" /\ LogAll(<<e>>)
      BY <1>a, <2>1, EntryLevels
    <3> HIDE DEF e
    <3>2. \A row \in pending' \ pending : row.msg = e.msg
      BY <1>0, <3>1, LogOne
    <3> QED
      BY <3>1, <3>2
  <2> QED
    BY <2>1, <2>2, LeakLogged
<1>2. ASSUME NEW c \in Clients, NEW q \in Requests, Refuse(c, q) PROVE LeakInv'
  <2>1. app_logs' = app_logs
        /\ LogAll(<<RequestLine(q), Entry("WARN", "rate limit exceeded", q.path)>>)
    BY <1>2 DEF Refuse, Arrive
  <2>2. \A row \in pending' \ pending :
          row.path = maskTokenInPath(q.path) \/ row.msg = "rate limit exceeded"
    <3> DEFINE d == RequestLine(q)
               e == Entry("WARN", "rate limit exceeded", q.path)
    <3>1. /\ d.level \in DOMAIN Severity /\ d.path = maskTokenInPath(q.path)
          /\ e.msg = "rate limit exceeded"
      BY <1>a, EntryLevels
    <3>2. d.level \in DOMAIN Severity /\ e.level \in DOMAIN Severity /\ LogAll(<<d, e>>)
      BY <2>1, EntryLevels
    <3> HIDE DEF d, e
    <3>3. \A row \in pending' \ pending : row.path = d.path \/ row.msg = e.msg
      BY <1>0, <3>2, LogTwo
    <3> QED
      BY <3>1, <3>3
  <2> QED
    BY <2>1, <2>2, LeakLogged
<1>3. ASSUME NEW c \in Clients, NEW q \in Requests, Serve(c, q) PROVE LeakInv'
  <2>1. app_logs' = app_logs /\ LogAll(<<RequestLine(q)>>)
    BY <1>3 DEF Serve, Arrive
  <2>2. \A row \in pending' \ pending : row.path = maskTokenInPath(q.path)
    BY <1>0, <1>a, <2>1, LogOne, EntryLevels
  <2> QED
    BY <2>1, <2>2, LeakLogged
<1>4. ASSUME NEW c \in Clients, HealthProbe(c) PROVE LeakInv'
  <2>1. app_logs' = app_logs /\ \A row \in pending' \ pending : row.path = <<>>
    BY <1>0, <1>4, LogWarning DEF HealthProbe, Quiet
  <2> QED
    BY <2>1, LeakLogged
<1>5. ASSUME NEW c \in Clients,
             \/ CountQuery(c) \/ RowsQuery(c) \/ RowsCutShort(c)
             \/ ExecDelete(c) \/ GiveUpDelete(c) \/ LateDelete
      PROVE  LeakInv'
  <2>1. app_logs' \subseteq app_logs /\ pending' = pending
    BY <1>5 DEF CountQuery, RowsQuery, RowsCutShort, ExecDelete, GiveUpDelete, LateDelete,
                Delete, Quiet
  <2> QED
    BY <2>1, LeakLogged
<1>6. ASSUME \/ LogAll(<<Warning>>)
             \/ \E level \in Elsewhere : LogAll(<<Entry(level, "other", <<>>)>>),
             app_logs' = app_logs
      PROVE  LeakInv'
  <2>1. \A row \in pending' \ pending : row.path = <<>>
    <3>1. CASE LogAll(<<Warning>>)
      BY <1>0, <3>1, LogWarning
    <3>2. ASSUME NEW level \in Elsewhere, LogAll(<<Entry(level, "other", <<>>)>>)
          PROVE  \A row \in pending' \ pending : row.path = <<>>
      BY <1>0, <1>a, <3>2, LogOne, EntryLevels
    <3> QED
      BY <1>6, <3>1, <3>2
  <2> QED
    BY <1>6, <2>1, LeakLogged
<1>7. ASSUME NEW c \in Clients, CountFails(c) \/ RowsFail(c) \/ ClearDone(c) \/ ClearFailed(c)
      PROVE  LeakInv'
  BY <1>6, <1>7 DEF CountFails, RowsFail, ClearDone, ClearFailed, AuditBy
<1>8. ASSUME LogElsewhere PROVE LeakInv'
  BY <1>6, <1>8 DEF LogElsewhere
<1>9. ASSUME WriterInsert \/ WriterLose \/ Tick PROVE LeakInv'
  BY <1>9 DEF WriterInsert, WriterLose, Tick, LeakInv
<1> QED
  BY <1>1, <1>2, <1>3, <1>4, <1>5, <1>7, <1>8, <1>9, Sizes DEF Next

\* A token reaches app_logs only through the two warnings and through paths
\* that are about to be redirected, if it was so when the program started.
THEOREM TokensLeakOnlyThereHolds ==
  ASSUME \A table \in Tables : \A row \in table : LeakIsKnown(row)
  PROVE  Spec => []TokensLeakOnlyThere
<1>1. Init => LeakInv
  BY DEF Init, LeakInv
<1>2. Inductive /\ LeakInv /\ [Next]_vars => LeakInv'
  <2> SUFFICES ASSUME Inductive, LeakInv, [Next]_vars PROVE LeakInv'
    OBVIOUS
  <2>1. CASE Next
    BY <2>1, Parts, LeakNext DEF Inductive
  <2>2. CASE UNCHANGED vars
    BY <2>2 DEF vars, LeakInv
  <2> QED
    BY <2>1, <2>2
<1>3. LeakInv => TokensLeakOnlyThere
  BY DEF LeakInv, TokensLeakOnlyThere
<1> QED
  BY <1>1, <1>2, <1>3, InductiveHolds, PTL DEF Spec
=============================================================================
