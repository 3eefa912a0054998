-------------------------- MODULE SecretStatsProofs --------------------------
(***************************************************************************)
(* The admin counters never overcount.  The argument is counting: every    *)
(* unit that a count column carries is given a stored secret, or a reveal, *)
(* of its own, so there are no more units than secrets or reveals.         *)
(***************************************************************************)
EXTENDS SecretStats, SecretStoreProofs

Stored == {c \in Creates : stmt[c] = "ok"}
Took   == {v \in Reveals : took[v] # None}

OfType(t) == {e \in events : e.type = t}

\* The secrets of an "expired" row in some order, and the one a unit stands for.
Order(S)  == CHOOSE b : b \in Bijection(1 .. Cardinality(S), S)
Member(u) == Order(u[1].by)[u[2]]

\* A set that maps one-to-one into a finite set is no larger.
LEMMA NoLarger ==
  ASSUME NEW U, NEW T, IsFiniteSet(T), NEW f \in [U -> T],
         \A u, w \in U : f[u] = f[w] => u = w
  PROVE  IsFiniteSet(U) /\ Cardinality(U) \in Nat /\ Cardinality(U) <= Cardinality(T)
<1>1. f \in Injection(U, T)
  BY DEF Injection, IsInjective
<1> QED
  BY <1>1, FS_Injection, FS_CardinalityType

\* A unit belongs to a row of its type and lies within its count.
LEMMA UnitOf ==
  ASSUME NEW t, NEW u \in Units(OfType(t))
  PROVE  /\ u = <<u[1], u[2]>>
         /\ u[1] \in events /\ u[1].type = t
         /\ u[2] \in 1 .. u[1].count
<1>1. PICK e \in OfType(t) : u \in {e} \X (1 .. e.count)
  BY DEF Units
<1> QED
  BY <1>1 DEF OfType

\* The rows of one type: a count of one and a request, or a batch.
LEMMA RowOfType ==
  ASSUME TypeOK, NEW e \in events
  PROVE  /\ e.type = "created" =>
              e.by \in Creates /\ e.count = 1
                /\ e = [type |-> "created", by |-> e.by, count |-> 1]
         /\ e.type = "retrieved" =>
              e.by \in Reveals /\ e.count = 1
                /\ e = [type |-> "retrieved", by |-> e.by, count |-> 1]
         /\ e.type = "expired" => e.by \in SUBSET Creates
  BY DEF TypeOK, EventRow

\* Two "created" units, or two "retrieved" units, of one request are the same.
LEMMA UnitOfRequest ==
  ASSUME TypeOK, NEW t \in {"created", "retrieved"},
         NEW u \in Units(OfType(t)), NEW w \in Units(OfType(t)),
         u[1].by = w[1].by
  PROVE  u = w
<1>1. /\ u = <<u[1], u[2]>> /\ u[1] \in events /\ u[1].type = t
      /\ u[2] \in 1 .. u[1].count
      /\ w = <<w[1], w[2]>> /\ w[1] \in events /\ w[1].type = t
      /\ w[2] \in 1 .. w[1].count
  BY UnitOf
<1>2. u[1] = w[1] /\ u[1].count = 1 /\ w[1].count = 1
  BY <1>1, RowOfType
<1>3. u[2] = 1 /\ w[2] = 1
  BY <1>1, <1>2
<1> QED
  BY <1>1, <1>2, <1>3

\* The order of a finite set lists each of its members once.
LEMMA OrderLists ==
  ASSUME NEW S, IsFiniteSet(S)
  PROVE  /\ \A i \in 1 .. Cardinality(S) : Order(S)[i] \in S
         /\ \A i, j \in 1 .. Cardinality(S) : Order(S)[i] = Order(S)[j] => i = j
<1>1. \E b : b \in Bijection(1 .. Cardinality(S), S)
  BY FS_CardinalityType DEF ExistsBijection
<1>2. Order(S) \in Bijection(1 .. Cardinality(S), S)
  BY <1>1 DEF Order
<1> QED
  BY <1>2 DEF Bijection, Injection, IsInjective

\* An "expired" unit stands for a swept secret, and two units for two secrets.
LEMMA ExpiredMember ==
  ASSUME Inductive, NEW u \in Units(OfType("expired"))
  PROVE  /\ Member(u) \in u[1].by
         /\ Member(u) \in swept
         /\ \A w \in Units(OfType("expired")) : Member(u) = Member(w) => u = w
<1>0. TypeOK /\ EventsHaveCause
  BY DEF Inductive
<1>1. ASSUME NEW w \in Units(OfType("expired"))
      PROVE  /\ w = <<w[1], w[2]>>
             /\ w[1] \in events /\ w[1].type = "expired"
             /\ w[1].by \subseteq swept
             /\ IsFiniteSet(w[1].by)
             /\ w[2] \in 1 .. Cardinality(w[1].by)
             /\ Member(w) \in w[1].by
  <2>1. /\ w = <<w[1], w[2]>> /\ w[1] \in events /\ w[1].type = "expired"
        /\ w[2] \in 1 .. w[1].count
    BY UnitOf
  <2>2. w[1].by \in SUBSET Creates
    BY <1>0, <2>1, RowOfType
  <2>3. IsFiniteSet(w[1].by)
    BY <2>2, FS_Subset, StoreAssumption
  <2>4. w[1].by \subseteq swept /\ w[1].count = Cardinality(w[1].by)
    BY <1>0, <2>1 DEF EventsHaveCause
  <2>5. Member(w) \in w[1].by
    BY <2>1, <2>3, <2>4, OrderLists DEF Member
  <2> QED
    BY <2>1, <2>3, <2>4, <2>5
<1>2. ASSUME NEW w \in Units(OfType("expired")), Member(u) = Member(w)
      PROVE  u = w
  <2>1. u[1] = w[1]
    BY <1>0, <1>1, <1>2 DEF EventsHaveCause
  <2>2. u[2] = w[2]
    BY <1>1, <1>2, <2>1, OrderLists DEF Member
  <2> QED
    BY <1>1, <2>1, <2>2
<1> QED
  BY <1>1, <1>2

-----------------------------------------------------------------------------
\* The sets that are counted are finite, though the requests need not be.
LEMMA CountedFinite ==
  ASSUME Inductive
  PROVE  /\ IsFiniteSet(Stored) /\ IsFiniteSet(Took) /\ IsFiniteSet(swept)
         /\ IsFiniteSet(Stored \ rows)
<1>0. TypeOK /\ OneTimeAccess
  BY DEF Inductive
<1>1. Stored \subseteq Creates /\ swept \subseteq Creates
  BY <1>0 DEF Stored, TypeOK
<1>2. \A v \in Took : took[v] \in Creates
  BY <1>0 DEF Took, TypeOK
<1>3. \A v, w \in Took : took[v] = took[w] => v = w
  BY <1>0 DEF Took, OneTimeAccess
<1>4. IsFiniteSet(Took)
  <2> DEFINE f == [v \in Took |-> took[v]]
  <2>1. f \in [Took -> Creates]
    BY <1>2
  <2>2. \A v, w \in Took : f[v] = f[w] => v = w
    BY <1>3
  <2> HIDE DEF f
  <2> QED
    BY <2>1, <2>2, NoLarger, StoreAssumption
<1> QED
  BY <1>1, <1>4, FS_Subset, StoreAssumption

\* "created" counts stored secrets.
LEMMA CreatedBound ==
  ASSUME Inductive
  PROVE  Total("created") \in Nat /\ Total("created") <= Cardinality(Stored)
<1> DEFINE U == Units(OfType("created"))
           f == [u \in U |-> u[1].by]
<1>1. f \in [U -> Stored]
  BY UnitOf, RowOfType DEF Inductive, Stored, EventsHaveCause
<1>2. \A u, w \in U : f[u] = f[w] => u = w
  BY UnitOfRequest DEF Inductive
<1>3. Total("created") = Cardinality(U)
  BY DEF Total, OfType
<1> HIDE DEF U, f
<1> QED
  BY <1>1, <1>2, <1>3, NoLarger, CountedFinite

\* "retrieved" counts reveals that took a secret.
LEMMA RetrievedBound ==
  ASSUME Inductive
  PROVE  Total("retrieved") \in Nat /\ Total("retrieved") <= Cardinality(Took)
<1> DEFINE U == Units(OfType("retrieved"))
           f == [u \in U |-> u[1].by]
<1>1. f \in [U -> Took]
  BY UnitOf, RowOfType DEF Inductive, Took, EventsHaveCause
<1>2. \A u, w \in U : f[u] = f[w] => u = w
  BY UnitOfRequest DEF Inductive
<1>3. Total("retrieved") = Cardinality(U)
  BY DEF Total, OfType
<1> HIDE DEF U, f
<1> QED
  BY <1>1, <1>2, <1>3, NoLarger, CountedFinite

\* "expired" counts swept secrets.
LEMMA ExpiredBound ==
  ASSUME Inductive
  PROVE  Total("expired") \in Nat /\ Total("expired") <= Cardinality(swept)
<1> DEFINE U == Units(OfType("expired"))
           f == [u \in U |-> Member(u)]
<1>1. f \in [U -> swept]
  BY ExpiredMember
<1>2. \A u, w \in U : f[u] = f[w] => u = w
  BY ExpiredMember
<1>3. Total("expired") = Cardinality(U)
  BY DEF Total, OfType
<1> HIDE DEF U, f
<1> QED
  BY <1>1, <1>2, <1>3, NoLarger, CountedFinite

\* A "retrieved" unit stands for the secret that was taken, an "expired" unit
\* for one that was swept: together they count secrets that left the table.
LEMMA DepartureBound ==
  ASSUME Inductive
  PROVE  Total("retrieved") + Total("expired") <= Cardinality(Stored \ rows)
<1> DEFINE R == Units(OfType("retrieved"))
           X == Units(OfType("expired"))
           out(u) == IF u[1].type = "retrieved" THEN took[u[1].by] ELSE Member(u)
<1>0. TypeOK /\ OneTimeAccess /\ EventsHaveCause /\ Conservation
  BY DEF Inductive
<1>1. ASSUME NEW u \in R
      PROVE  /\ u[1].type = "retrieved" /\ u[1].by \in Reveals
             /\ took[u[1].by] # None /\ out(u) = took[u[1].by]
  BY <1>0, UnitOf, RowOfType DEF EventsHaveCause
<1>2. ASSUME NEW u \in X
      PROVE  u[1].type = "expired" /\ out(u) = Member(u) /\ Member(u) \in swept
  BY UnitOf, ExpiredMember
<1>3. \A u \in R \cup X : out(u) \in Stored \ rows
  <2>1. ASSUME NEW u \in R PROVE out(u) \in Stored \ rows
    BY <1>0, <1>1 DEF TypeOK, OneTimeAccess, Conservation, Taken, Stored
  <2>2. ASSUME NEW u \in X PROVE out(u) \in Stored \ rows
    BY <1>0, <1>2 DEF TypeOK, OneTimeAccess, Conservation, Stored
  <2> QED
    BY <2>1, <2>2
<1>4. ASSUME NEW u \in R \cup X, NEW w \in R \cup X, out(u) = out(w)
      PROVE  u = w
  <2>1. CASE u \in R /\ w \in R
    <3>1. u[1].by = w[1].by
      BY <1>0, <1>1, <1>4, <2>1 DEF OneTimeAccess
    <3> QED
      BY <1>0, <2>1, <3>1, UnitOfRequest
  <2>2. CASE u \in X /\ w \in X
    BY <1>2, <1>4, <2>2, ExpiredMember
  <2>3. ASSUME NEW a \in R, NEW b \in X PROVE out(a) # out(b)
    BY <1>0, <1>1, <1>2 DEF OneTimeAccess
  <2> QED
    BY <1>4, <2>1, <2>2, <2>3
<1>5. R \cap X = {}
  BY <1>1, <1>2
<1>6. Total("retrieved") = Cardinality(R) /\ Total("expired") = Cardinality(X)
  BY DEF Total, OfType
<1> DEFINE f == [u \in R \cup X |-> out(u)]
<1>7. f \in [R \cup X -> Stored \ rows]
  BY <1>3
<1>8. \A u, w \in R \cup X : f[u] = f[w] => u = w
  BY <1>4
<1> HIDE DEF R, X, f
<1>9. /\ IsFiniteSet(R \cup X)
      /\ Cardinality(R \cup X) <= Cardinality(Stored \ rows)
  BY <1>7, <1>8, NoLarger, CountedFinite
<1>10. IsFiniteSet(R) /\ IsFiniteSet(X)
  BY <1>9, FS_Subset
<1>11. Cardinality(R \cup X) = Cardinality(R) + Cardinality(X)
  <2>1. Cardinality(R) \in Nat /\ Cardinality(X) \in Nat
    BY <1>10, FS_CardinalityType
  <2>2. Cardinality(R \cap X) = 0
    BY <1>5, FS_EmptySet
  <2>3. Cardinality(R \cup X)
          = Cardinality(R) + Cardinality(X) - Cardinality(R \cap X)
    BY <1>10, FS_Union
  <2> QED
    BY <2>1, <2>2, <2>3
<1> QED
  BY <1>6, <1>9, <1>11

\* The "Secret activity" page never shows more secrets created, retrieved or
\* expired than there were, nor more departures than secrets that left the
\* table, however many event rows querySecretStats finds or fails to read.
THEOREM StatsNeverOvercountHolds == Spec => []StatsNeverOvercount
<1>1. Inductive => StatsNeverOvercount
  <2> SUFFICES ASSUME Inductive, NEW unread \in SUBSET Types
               PROVE  LET stats == querySecretStats(unread)
                      IN  /\ stats["created"] <= Cardinality(Stored)
                          /\ stats["retrieved"] <= Cardinality(Took)
                          /\ stats["expired"] <= Cardinality(swept)
                          /\ stats["retrieved"] + stats["expired"]
                               <= Cardinality(Stored \ rows)
    BY DEF StatsNeverOvercount, Stored, Took
  <2> DEFINE stats == querySecretStats(unread)
  <2>1. \A t \in Types : stats[t] = IF t \in unread THEN 0 ELSE Total(t)
    BY DEF querySecretStats
  <2>2. {"created", "retrieved", "expired"} \subseteq Types
    BY DEF Types
  <2>3. /\ Cardinality(Stored) \in Nat /\ Cardinality(Took) \in Nat
        /\ Cardinality(swept) \in Nat /\ Cardinality(Stored \ rows) \in Nat
    BY CountedFinite, FS_CardinalityType
  <2> HIDE DEF stats
  <2>4. /\ stats["created"] \in Nat /\ stats["created"] <= Total("created")
        /\ stats["retrieved"] \in Nat /\ stats["retrieved"] <= Total("retrieved")
        /\ stats["expired"] \in Nat /\ stats["expired"] <= Total("expired")
    BY <2>1, <2>2, CreatedBound, RetrievedBound, ExpiredBound
  <2>5. /\ stats["created"] <= Cardinality(Stored)
        /\ stats["retrieved"] <= Cardinality(Took)
        /\ stats["expired"] <= Cardinality(swept)
        /\ stats["retrieved"] + stats["expired"] <= Cardinality(Stored \ rows)
    BY <2>3, <2>4, CreatedBound, RetrievedBound, ExpiredBound, DepartureBound
  <2> QED
    BY <2>5 DEF stats
<1> QED
  BY <1>1, InductiveHolds, PTL
=============================================================================
