CONSTANTS
  Creates = {c1}
  Reveals = {v1}
  Tokens = {t1}
  ExpiresIn <- Lifetimes
  Second = 1
  DurationLimit = 4
  AppAhead <- Behind
  MaxTime = 2
  MaxCrashes = 1
  Never = Never
  None = None
SPECIFICATION FairSpec
PROPERTIES
  ExpiredIsSwept
