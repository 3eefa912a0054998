---------------------------- MODULE SecretStats ----------------------------
(***************************************************************************)
(* The "Secret activity" counters of the admin page: querySecretStats sums *)
(* the count column of secret_events per event type.                       *)
(***************************************************************************)
EXTENDS SecretStore

\* What the count columns of the rows E add up to, unit by unit.
Units(E) == UNION {{e} \X (1 .. e.count) : e \in E}

\* mutant: the sum runs over every type.
TotalOfAll(type) == Cardinality(Units(events))

\* SELECT event_type, SUM(count) ... GROUP BY event_type, for one type.
Total(type) == Cardinality(Units({e \in events : e.type = type}))

Types == {"created", "retrieved", "expired"}

\* querySecretStats: a type whose row could not be read stays at zero, after a
\* failed query all of them do.
querySecretStats(unread) ==
  [t \in Types |-> IF t \in unread THEN 0 ELSE Total(t)]

\* The page never shows more secrets created, retrieved or expired than there
\* were, and never accounts for more departures than secrets ever stored, even
\* if event rows were lost or part of the answer is missing.
StatsNeverOvercount ==
  \A unread \in SUBSET Types :
    LET stats  == querySecretStats(unread)
        stored == {c \in Creates : stmt[c] = "ok"}
    IN  /\ stats["created"] <= Cardinality(stored)
        /\ stats["retrieved"] <= Cardinality({v \in Reveals : took[v] # None})
        /\ stats["expired"] <= Cardinality(swept)
        /\ stats["retrieved"] + stats["expired"] <= Cardinality(stored \ rows)
=============================================================================
