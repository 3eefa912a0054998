CONSTANTS
  IPs = {a1, a2}
  Proxy = Proxy
  Junk = Junk
  Deployments <- MCDeployments
  Forged <- MCForged
  Requests = {r1, r2, r3, r4}
  Cost = 4
  perMinute = 2
  burst = 2
  IdleLimit = 4
  MaxStall = 1
  MaxTime = 6
  None = None
SPECIFICATION Spec
SYMMETRY Symmetry
CHECK_DEADLOCK FALSE
INVARIANTS
  SustainedRate
  RetryAfterSuffices
  Inductive
PROPERTIES
  ImplementsTokenBuckets
