CONSTANTS
  Creates = {c1}
  Reveals = {v1, v2}
  Tokens = {t1, t2}
  ExpiresIn <- Lifetimes
  Second = 1
  DurationLimit = 4
  AppAhead <- Behind
  MaxTime = 2
  MaxCrashes = 1
  Never = Never
  None = None
SPECIFICATION Spec
SYMMETRY Symmetry
INVARIANTS
  TypeOK
  OneTimeAccess
  ServedWithinLifetime
  AcknowledgedIsKept
  NotFoundIsTrue
