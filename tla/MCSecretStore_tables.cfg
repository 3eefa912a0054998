CONSTANTS
  Creates = {c1, c2}
  Reveals = {v1}
  Tokens = {t1}
  ExpiresIn <- Lifetimes
  Second = 1
  DurationLimit = 4
  AppAhead <- Behind
  MaxTime = 2
  MaxCrashes = 0
  Never = Never
  None = None
SPECIFICATION Spec
SYMMETRY Symmetry
INVARIANTS
  Inductive
  EventsHaveCause
  StatsNeverOvercount
PROPERTIES
  ImplementsOneTimeSecret
