CONSTANTS
  Creates = {c1}
  Reveals = {v1}
  Tokens = {t1}
  ExpiresIn <- Lifetimes
  Second = 1
  DurationLimit = 4
  AppAhead <- Behind
  MaxTime = 1
  MaxCrashes = 0
  Never = Never
  None = None
SPECIFICATION Spec
INVARIANTS
  DeletedOnlyOnceSeen
