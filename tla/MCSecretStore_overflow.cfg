CONSTANTS
  Creates = {c1}
  Reveals = {v1}
  Tokens = {t1}
  ExpiresIn <- Overflowing
  Second = 3
  DurationLimit = 4
  AppAhead <- Behind
  MaxTime = 3
  MaxCrashes = 0
  Never = Never
  None = None
SPECIFICATION Spec
INVARIANTS
  AcknowledgedIsKept
