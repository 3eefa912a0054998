------------------------- MODULE RateLimiterProofs -------------------------
(***************************************************************************)
(* Proofs about RateLimiter, for any number of clients, requests and       *)
(* proxies, any headers that clients make up, and any rate, burst and      *)
(* limits that satisfy LimiterAssumption.                                  *)
(***************************************************************************)
EXTENDS RateLimiter, SequenceTheorems, TLAPS

-----------------------------------------------------------------------------
(* Arithmetic of credits *)

LEMMA CapacityType == Capacity \in Nat /\ Cost <= Capacity
<1>1. burst \in Nat /\ burst >= 1 /\ Cost \in Nat
  BY LimiterAssumption
<1>2. burst * Cost \in Nat /\ 1 * Cost <= burst * Cost
  BY <1>1
<1> QED
  BY <1>1, <1>2 DEF Capacity

\* A later moment earns perMinute per second.
LEMMA EarnedBy ==
  ASSUME NEW d \in Int
  PROVE  /\ perMinute * d \in Int
         /\ perMinute * (d + 1) = perMinute * d + perMinute
         /\ d >= 0 => perMinute * d >= 0
BY LimiterAssumption

\* Waiting longer earns at least as much.
LEMMA EarnsMore ==
  ASSUME NEW d \in Int, NEW e \in Int, d <= e
  PROVE  perMinute * d <= perMinute * e
BY LimiterAssumption

\* What an object holds is between nothing and a full bucket.
LEMMA CreditsType ==
  ASSUME TypeOK, Clocks, NEW b \in Requests
  PROVE  Credits(b) \in 0 .. Capacity
<1>1. now - last[b] \in Int /\ now - last[b] >= 0 /\ tokens[b] \in 0 .. Capacity
  BY DEF TypeOK, Clocks
<1>2. perMinute * (now - last[b]) \in Int /\ perMinute * (now - last[b]) >= 0
  BY <1>1, EarnedBy
<1> QED
  BY <1>1, <1>2, CapacityType DEF Credits

LEMMA LevelType ==
  ASSUME TypeOK, Clocks, NEW a \in Addresses
  PROVE  Level(a) \in 0 .. Capacity
BY CreditsType, CapacityType DEF Level, TypeOK

LEMMA ExactDivision ==
  ASSUME NEW c \in Int, NEW p \in Int, p > 0, c % p = 0
  PROVE  c \div p \in Int /\ p * (c \div p) = c
OBVIOUS

-----------------------------------------------------------------------------
(* Whose bucket *)

\* clientIP finds the client behind every deployment that the configuration
\* describes, whatever the client put into X-Forwarded-For.
THEOREM ClientIsFound ==
  ASSUME deployment \in Deployments, NEW f \in Forged, NEW a \in IPs
  PROVE  clientIP(Header(a, f), RemoteAddr(a)) = a
<1> DEFINE n == deployment.proxies
           tail == [i \in 1 .. n |-> IF i = 1 THEN a ELSE Proxy]
<1>1. /\ deployment.trustProxy \in BOOLEAN
      /\ deployment.trustedProxiesCount \in Int
      /\ n = IF ~deployment.trustProxy THEN 0
             ELSE IF deployment.trustedProxiesCount <= 0 THEN 1
             ELSE deployment.trustedProxiesCount
  BY DeploymentAssumption
<1>2. n \in Nat
  BY <1>1
<1>3. f \in Seq(Addresses \cup {Junk}) /\ Junk # a
  BY DeploymentAssumption DEF Addresses
<1>4. CASE ~deployment.trustProxy
  BY <1>1, <1>4 DEF clientIP, RemoteAddr
<1>5. CASE deployment.trustProxy
  <2>1. n >= 1 /\ n = IF deployment.trustedProxiesCount <= 0 THEN 1
                      ELSE deployment.trustedProxiesCount
    BY <1>1, <1>5
  <2>2. tail \in Seq(Addresses \cup {Junk}) /\ Len(tail) = n /\ tail[1] = a
    BY <1>2, <2>1 DEF Addresses
  <2> HIDE DEF tail, n
  <2>3. /\ Len(f \o tail) = Len(f) + n
        /\ (f \o tail)[Len(f) + 1] = a
        /\ Len(f) \in Nat
    <3>1. /\ Len(f \o tail) = Len(f) + Len(tail) /\ Len(f) \in Nat
          /\ \A i \in 1 .. Len(f) + Len(tail) :
               (f \o tail)[i] = IF i <= Len(f) THEN f[i] ELSE tail[i - Len(f)]
      BY <1>3, <2>2, ConcatProperties, LenProperties
    <3>2. Len(f) + 1 \in 1 .. Len(f) + Len(tail) /\ (Len(f) + 1) - Len(f) = 1
      BY <1>2, <2>1, <2>2, <3>1
    <3> QED
      BY <2>2, <3>1, <3>2
  <2>4. f \o tail # <<>>
    BY <1>2, <1>3, <2>1, <2>2, <2>3
  <2>5. Header(a, f) = f \o tail
    BY DEF Header, tail, n
  <2>6. (Len(f) + n) - n + 1 = Len(f) + 1 /\ Len(f) + 1 >= 1
    BY <1>2, <2>3
  <2> QED
    BY <1>3, <1>5, <2>1, <2>3, <2>4, <2>5, <2>6 DEF clientIP
<1> QED
  BY <1>1, <1>4, <1>5

-----------------------------------------------------------------------------
(* Objects and entries *)

Sound == TypeOK /\ Clocks /\ Holding /\ OwnBuckets

LEMMA SoundInit == Init => Sound
BY LimiterAssumption, CapacityType
   DEF Init, Sound, TypeOK, Clocks, Holding, OwnBuckets, Addresses

\* What Limit does, once its clientIP is known to be the client.
LEMMA LimitStep ==
  ASSUME Sound, NEW r \in Requests, Limit(r)
  PROVE  /\ pc[r] = "idle"
         /\ ip' = [ip EXCEPT ![r] = client[r]]
         /\ getLimiter(r, client[r])
<1>1. client[r] \in IPs /\ deployment \in Deployments
  BY DEF Sound, TypeOK
<1> QED
  BY <1>1, ClientIsFound DEF Limit

LEMMA TypeStep == Sound /\ [Next]_vars => TypeOK'
<1> SUFFICES ASSUME Sound, [Next]_vars PROVE TypeOK'
  OBVIOUS
<1> USE DEF Sound, TypeOK, origin, objects, history, observer
<1>1. ASSUME NEW r \in Requests, Limit(r) PROVE TypeOK'
  <2>1. client[r] \in Addresses
    BY DEF Addresses
  <2>2. PICK b \in Requests :
          /\ limiters' = [limiters EXCEPT ![client[r]] = b]
          /\ ptr' = [ptr EXCEPT ![r] = b]
    BY <1>1, <2>1, LimitStep DEF getLimiter
  <2>3. /\ ip' = [ip EXCEPT ![r] = client[r]]
        /\ lastSeen' = [lastSeen EXCEPT ![client[r]] = now]
    BY <1>1, LimitStep DEF getLimiter
  <2> QED
    BY <1>1, <2>1, <2>2, <2>3 DEF Limit
<1>2. ASSUME NEW r \in Requests, Allow(r) PROVE TypeOK'
  <2>1. ptr[r] \in Requests
    BY <1>2 DEF Allow, Holding
  <2>2. Credits(ptr[r]) \in 0 .. Capacity /\ Credits(ptr[r]) - Cost \in 0 .. Capacity
    BY <1>2, <2>1, CreditsType, CapacityType, LimiterAssumption DEF Allow
  <2> QED
    BY <1>2, <2>1, <2>2 DEF Allow
<1>3. ASSUME NEW r \in Requests, Deny(r) PROVE TypeOK'
  BY <1>3 DEF Deny
<1>4. CASE cleanup
  BY <1>4 DEF cleanup
<1>5. CASE Tick
  BY <1>5 DEF Tick
<1>6. CASE OpenWindow
  BY <1>6 DEF OpenWindow
<1>7. CASE UNCHANGED vars
  BY <1>7 DEF vars
<1> QED
  BY <1>1, <1>2, <1>3, <1>4, <1>5, <1>6, <1>7 DEF Next

LEMMA SoundStep == Sound /\ [Next]_vars => Sound'
<1> SUFFICES ASSUME Sound, [Next]_vars PROVE Sound'
  OBVIOUS
<1>0. TypeOK /\ TypeOK'
  BY TypeStep DEF Sound
<1> USE DEF Sound, origin, objects, history, observer
<1>1. ASSUME NEW r \in Requests, Limit(r) PROVE Sound'
  <2> DEFINE a == client[r]
             b == IF limiters[a] = None THEN r ELSE limiters[a]
  <2>1. /\ pc[r] = "idle" /\ pc' = [pc EXCEPT ![r] = "got"]
        /\ ip' = [ip EXCEPT ![r] = a]
        /\ limiters' = [limiters EXCEPT ![a] = b]
        /\ lastSeen' = [lastSeen EXCEPT ![a] = now]
        /\ ptr' = [ptr EXCEPT ![r] = b]
        /\ gotAt' = [gotAt EXCEPT ![r] = now]
        /\ UNCHANGED <<origin, now, objects, verdict, decidedAt, lastAdmit, observer>>
    BY <1>1, LimitStep DEF Limit, getLimiter
  <2>2. a \in Addresses /\ b \in Requests /\ b # None
    BY <1>0, LimiterAssumption DEF TypeOK, Addresses
  <2> HIDE DEF a
  <2>3. Clocks'
    BY <1>0, <2>1, <2>2 DEF Clocks, TypeOK
  <2>4. Holding'
    BY <1>0, <2>1, <2>2, LimiterAssumption DEF Holding, Clocks, TypeOK, a, Addresses
  <2>5. OwnBuckets'
    BY <1>0, <2>1, <2>2, LimiterAssumption DEF OwnBuckets, Clocks, TypeOK
  <2> QED
    BY <1>0, <2>3, <2>4, <2>5
<1>2. ASSUME NEW r \in Requests, Allow(r) PROVE Sound'
  <2>1. /\ pc[r] = "got" /\ ptr[r] \in Requests
        /\ ip[r] \in Addresses /\ limiters[ip[r]] = ptr[r]
        /\ now <= lastSeen[ip[r]] + MaxStall
    BY <1>0, <1>2, LimiterAssumption DEF Allow, Holding, TypeOK, Addresses
  <2>2. Clocks'
    BY <1>0, <1>2 DEF Allow, Clocks, TypeOK
  <2>3. Holding'
    BY <1>0, <1>2 DEF Allow, Holding, TypeOK
  <2>4. OwnBuckets'
    <3>1. pc[ptr[r]] # "idle"
      BY <2>1, LimiterAssumption DEF OwnBuckets
    <3>2. \A q \in Requests : pc'[q] = "idle" => tokens'[q] = Capacity
      BY <1>0, <1>2, <2>1, <3>1 DEF Allow, OwnBuckets, TypeOK
    <3>3. ASSUME NEW a \in Addresses, limiters[a] # None
          PROVE  last'[limiters[a]] <= lastSeen[a] + MaxStall
      <4>1. limiters[a] \in Requests
        BY <1>0, <3>3 DEF TypeOK
      <4>2. CASE limiters[a] = ptr[r]
        <5>1. a = ip[r]
          BY <2>1, <3>3, <4>2 DEF OwnBuckets
        <5> QED
          BY <1>0, <1>2, <2>1, <4>2, <5>1 DEF Allow, TypeOK
      <4>3. CASE limiters[a] # ptr[r]
        BY <1>0, <1>2, <3>3, <4>1, <4>3 DEF Allow, OwnBuckets, TypeOK
      <4> QED
        BY <4>2, <4>3
    <3>4. \A a \in Addresses : limiters[a] # None => pc'[limiters[a]] # "idle"
      BY <1>0, <1>2 DEF Allow, OwnBuckets, TypeOK
    <3> QED
      BY <1>2, <3>2, <3>3, <3>4 DEF Allow, OwnBuckets
  <2> QED
    BY <1>0, <2>2, <2>3, <2>4
<1>3. ASSUME NEW r \in Requests, Deny(r) PROVE Sound'
  BY <1>0, <1>3 DEF Deny, Clocks, Holding, OwnBuckets, TypeOK
<1>4. CASE cleanup
  <2>1. ASSUME NEW r \in Requests, pc[r] = "got" PROVE ~Idle(ip[r])
    BY <1>0, <2>1, LimiterAssumption DEF Holding, Idle, TypeOK, Addresses
  <2>2. Holding'
    BY <1>0, <1>4, <2>1 DEF cleanup, Holding, TypeOK, Addresses
  <2>3. OwnBuckets'
    BY <1>0, <1>4 DEF cleanup, OwnBuckets, TypeOK
  <2> QED
    BY <1>0, <1>4, <2>2, <2>3 DEF cleanup, Clocks
<1>5. CASE Tick
  BY <1>0, <1>5, LimiterAssumption DEF Tick, Clocks, Holding, OwnBuckets, TypeOK
<1>6. CASE OpenWindow
  BY <1>0, <1>6 DEF OpenWindow, Clocks, Holding, OwnBuckets, TypeOK
<1>7. CASE UNCHANGED vars
  BY <1>0, <1>7 DEF vars, Clocks, Holding, OwnBuckets
<1> QED
  BY <1>1, <1>2, <1>3, <1>4, <1>5, <1>6, <1>7 DEF Next

\* TypeOK of RateLimiter is an invariant: no bucket is overdrawn or overflows.
THEOREM TypeCorrect == Spec => []TypeOK
<1>1. Sound => TypeOK
  BY DEF Sound
<1> QED
  BY <1>1, SoundInit, SoundStep, PTL DEF Spec

-----------------------------------------------------------------------------
(* What a step does to the bucket of an address *)

\* A bucket that nobody has used yet is full when it is handed out.
LEMMA LevelLimit ==
  ASSUME Sound, NEW r \in Requests, Limit(r), NEW a \in IPs
  PROVE  Level(a)' = Level(a)
<1> DEFINE c == client[r]
           b == IF limiters[c] = None THEN r ELSE limiters[c]
<1>1. pc[r] = "idle" /\ limiters' = [limiters EXCEPT ![c] = b]
  BY LimitStep DEF getLimiter
<1>2. UNCHANGED <<now, tokens, last>>
  BY DEF Limit, objects
<1>3. a \in Addresses /\ c \in Addresses /\ limiters \in [Addresses -> Requests \cup {None}]
  BY DEF Sound, TypeOK, Addresses
<1>4. Credits(r) = Capacity
  <2>1. tokens[r] = Capacity /\ now - last[r] \in Int /\ now - last[r] >= 0
    BY <1>1 DEF Sound, TypeOK, Clocks, OwnBuckets
  <2>2. perMinute * (now - last[r]) \in Int /\ perMinute * (now - last[r]) >= 0
    BY <2>1, EarnedBy
  <2> QED
    BY <2>1, <2>2, CapacityType DEF Credits
<1>5. r # None
  BY LimiterAssumption
<1> HIDE DEF c
<1>6. limiters'[a] = IF a = c THEN b ELSE limiters[a]
  BY <1>1, <1>3
<1>7. \A d : Credits(d)' = Credits(d)
  BY <1>2 DEF Credits
<1> QED
  BY <1>4, <1>5, <1>6, <1>7 DEF Level

\* Allow takes the price out of its client's bucket and out of no other.
LEMMA LevelAllow ==
  ASSUME Sound, NEW r \in Requests, Allow(r), NEW a \in IPs
  PROVE  Level(a)' = IF a = client[r] THEN Level(a) - Cost ELSE Level(a)
<1>1. /\ ptr[r] \in Requests /\ ptr[r] # None
      /\ limiters[client[r]] = ptr[r] /\ client[r] \in Addresses
  BY LimiterAssumption DEF Allow, Sound, Holding, TypeOK, Addresses
<1>2. /\ tokens' = [tokens EXCEPT ![ptr[r]] = Credits(ptr[r]) - Cost]
      /\ last' = [last EXCEPT ![ptr[r]] = now]
      /\ now' = now /\ limiters' = limiters
  BY DEF Allow
<1>3. a \in Addresses /\ now \in Nat /\ tokens \in [Requests -> 0 .. Capacity]
      /\ last \in [Requests -> Nat] /\ limiters[a] \in Requests \cup {None}
  BY DEF Sound, TypeOK, Addresses
<1>4. CASE a = client[r]
  <2>1. /\ tokens'[ptr[r]] = Credits(ptr[r]) - Cost
        /\ now' - last'[ptr[r]] = 0 /\ perMinute * 0 = 0
    BY <1>1, <1>2, <1>3, LimiterAssumption
  <2>2. Credits(ptr[r]) \in 0 .. Capacity /\ Capacity \in Nat /\ Cost \in Nat
    BY <1>1, CreditsType, CapacityType, LimiterAssumption DEF Sound
  <2>3. Credits(ptr[r])' = Credits(ptr[r]) - Cost
    <3>1. /\ Credits(ptr[r]) - Cost <= Capacity
          /\ Credits(ptr[r]) - Cost + 0 = Credits(ptr[r]) - Cost
      BY <2>2
    <3>2. ptr' = ptr
      BY DEF Allow
    <3> HIDE DEF Credits
    <3> DEFINE left == Credits(ptr[r]) - Cost
    <3>3. left <= Capacity /\ left + 0 = left /\ left \in Int
      BY <2>2, <3>1
    <3>4. tokens'[ptr'[r]] = left /\ perMinute * (now' - last'[ptr'[r]]) = 0
      BY <2>1, <3>2
    <3> HIDE DEF left
    <3>5. Credits(ptr[r])' = left
      BY <2>2, <3>3, <3>4 DEF Credits
    <3> QED
      BY <3>5 DEF left
  <2>4. ptr' = ptr
    BY DEF Allow
  <2> QED
    BY <1>1, <1>2, <1>4, <2>3, <2>4 DEF Level
<1>5. CASE a # client[r]
  <2>1. limiters[a] # ptr[r] \/ limiters[a] = None
    BY <1>1, <1>3, <1>5 DEF Sound, OwnBuckets
  <2>2. CASE limiters[a] = None
    BY <1>2, <1>5, <2>2 DEF Level
  <2>3. CASE limiters[a] # None
    <3>1. tokens'[limiters[a]] = tokens[limiters[a]] /\ last'[limiters[a]] = last[limiters[a]]
      BY <1>1, <1>2, <1>3, <2>1, <2>3
    <3> QED
      BY <1>2, <1>5, <3>1 DEF Level, Credits
  <2> QED
    BY <2>2, <2>3
<1> QED
  BY <1>4, <1>5

\* A second fills every bucket by perMinute, evicted or not.
LEMMA LevelTick ==
  ASSUME Sound, Tick, NEW a \in IPs
  PROVE  Level(a)' = IF Level(a) + perMinute > Capacity THEN Capacity
                     ELSE Level(a) + perMinute
<1>1. a \in Addresses /\ now' = now + 1 /\ UNCHANGED <<limiters, tokens, last>>
  BY DEF Tick, objects, Addresses
<1>2. perMinute \in Nat /\ perMinute > 0 /\ Capacity \in Nat
  BY LimiterAssumption, CapacityType
<1>3. CASE limiters[a] = None
  BY <1>1, <1>2, <1>3 DEF Level
<1>4. CASE limiters[a] # None
  <2> DEFINE b == limiters[a]
             e == perMinute * (now - last[b])
  <2>1. b \in Requests /\ now \in Nat /\ last[b] \in Nat /\ tokens[b] \in 0 .. Capacity
    BY <1>1, <1>4 DEF Sound, TypeOK
  <2>2. (now + 1) - last[b] = (now - last[b]) + 1 /\ now - last[b] \in Int
    BY <2>1
  <2>3. e \in Int /\ perMinute * ((now + 1) - last[b]) = e + perMinute
    BY <2>2, EarnedBy
  <2> DEFINE t == tokens[b]
  <2>4. Credits(b) = IF t + e > Capacity THEN Capacity ELSE t + e
    BY DEF Credits
  <2>5. Credits(limiters[a])' = IF t + (e + perMinute) > Capacity THEN Capacity
                                ELSE t + (e + perMinute)
    BY <1>1, <2>3 DEF Credits
  <2>6. Level(a) = Credits(b) /\ Level(a)' = Credits(limiters[a])'
    BY <1>1, <1>4 DEF Level
  <2>7. t \in Int
    BY <2>1
  <2> HIDE DEF t, e, b
  <2> QED
    BY <1>2, <2>3, <2>4, <2>5, <2>6, <2>7
<1> QED
  BY <1>3, <1>4

\* An entry that cleanup evicts belongs to a bucket that is full again.
LEMMA LevelCleanup ==
  ASSUME Sound, cleanup, NEW a \in IPs
  PROVE  Level(a)' = Level(a)
<1>1. a \in Addresses /\ UNCHANGED <<now, tokens, last>>
  BY DEF cleanup, objects, Addresses
<1>2. limiters'[a] = IF Idle(a) THEN None ELSE limiters[a]
  BY <1>1 DEF cleanup
<1>3. CASE ~Idle(a)
  BY <1>1, <1>2, <1>3 DEF Level, Credits
<1>4. CASE Idle(a)
  <2> DEFINE b == limiters[a]
             d == now - last[b]
  <2>1. /\ b \in Requests /\ b # None /\ now \in Nat /\ last[b] \in Nat
        /\ tokens[b] \in 0 .. Capacity /\ lastSeen[a] \in Nat
        /\ last[b] <= lastSeen[a] + MaxStall /\ lastSeen[a] < now - IdleLimit
    BY <1>1, <1>4 DEF Idle, Sound, TypeOK, OwnBuckets
  <2>2. d \in Int /\ IdleLimit + 1 - MaxStall <= d /\ IdleLimit + 1 - MaxStall \in Int
    BY <2>1, LimiterAssumption
  <2> HIDE DEF d
  <2>3. perMinute * (IdleLimit + 1 - MaxStall) <= perMinute * d
    BY <2>2, EarnsMore
  <2>4. /\ perMinute * d \in Int /\ perMinute * (IdleLimit + 1 - MaxStall) \in Int
        /\ perMinute * (IdleLimit + 1 - MaxStall) >= Capacity
    BY <2>2, EarnedBy, LimiterAssumption
  <2>5. Credits(b) = Capacity
    BY <2>1, <2>3, <2>4, CapacityType DEF Credits, d
  <2> QED
    BY <1>2, <1>4, <2>1, <2>5 DEF Level
<1> QED
  BY <1>3, <1>4

\* The others leave every bucket as it is.
LEMMA LevelElse ==
  ASSUME UNCHANGED <<now, limiters, tokens, last>>, NEW a \in IPs
  PROVE  Level(a)' = Level(a)
BY DEF Level, Credits

-----------------------------------------------------------------------------
(* Refinement: buckets that live for ever *)

LEMMA RefineInit == Init => TB!Init
<1> SUFFICES ASSUME Init PROVE TB!Init
  OBVIOUS
<1>1. \A a \in IPs : Level(a) = Capacity
  BY DEF Init, Level, Addresses
<1> QED
  BY <1>1 DEF Init, TB!Init

LEMMA RefineStep == Sound /\ [Next]_vars => [TB!Next]_TB!vars
<1> SUFFICES ASSUME Sound, [Next]_vars PROVE [TB!Next]_TB!vars
  OBVIOUS
<1> DEFINE level == [a \in IPs |-> Level(a)]
<1>1. ASSUME \A a \in IPs : Level(a)' = Level(a) PROVE level' = level
  BY <1>1
<1>2. ASSUME NEW r \in Requests, Limit(r) PROVE UNCHANGED TB!vars
  BY <1>1, <1>2, LevelLimit DEF Limit, TB!vars, origin
<1>3. ASSUME NEW r \in Requests, Allow(r) PROVE TB!Admit(r)
  <2>1. client[r] \in IPs /\ verdict[r] = "none"
    BY <1>3 DEF Allow, Sound, TypeOK, Holding
  <2>2. Level(client[r]) >= Cost
    BY <1>3 DEF Allow, Sound, Holding, Level
  <2>3. level' = [level EXCEPT ![client[r]] = @ - Cost]
    BY <1>3, <2>1, LevelAllow
  <2> QED
    BY <1>3, <2>1, <2>2, <2>3 DEF Allow, TB!Admit, origin
<1>4. ASSUME NEW r \in Requests, Deny(r) PROVE TB!Refuse(r)
  <2>1. client[r] \in IPs /\ verdict[r] = "none"
    BY <1>4 DEF Deny, Sound, TypeOK, Holding
  <2>2. Level(client[r]) < Cost
    BY <1>4 DEF Deny, Sound, Holding, Level
  <2>3. level' = level
    BY <1>1, <1>4, LevelElse DEF Deny, objects
  <2> QED
    BY <1>4, <2>1, <2>2, <2>3 DEF Deny, TB!Refuse, origin
<1>5. CASE cleanup
  BY <1>1, <1>5, LevelCleanup DEF cleanup, TB!vars, origin
<1>6. CASE Tick
  <2>1. level' = [a \in IPs |-> IF level[a] + perMinute > Capacity
                                THEN Capacity ELSE level[a] + perMinute]
    BY <1>6, LevelTick
  <2> QED
    BY <1>6, <2>1 DEF Tick, TB!Next, TB!Refill, origin
<1>7. CASE OpenWindow
  BY <1>1, <1>7, LevelElse DEF OpenWindow, TB!vars, objects, origin
<1>8. CASE UNCHANGED vars
  BY <1>1, <1>8, LevelElse DEF vars, TB!vars, objects, origin
<1> QED
  BY <1>2, <1>3, <1>4, <1>5, <1>6, <1>7, <1>8 DEF Next, TB!Next

\* ImplementsTokenBuckets: getLimiter, Allow after the lock is released and
\* cleanup together are indistinguishable from one eternal bucket per client.
THEOREM RefinesTokenBuckets == Spec => ImplementsTokenBuckets
<1> QED
  BY RefineInit, RefineStep, SoundInit, SoundStep, PTL
     DEF Spec, ImplementsTokenBuckets, TB!Spec

-----------------------------------------------------------------------------
(* What a client gets in a window of time *)

LEMMA BudgetStep == Sound /\ Budget /\ [Next]_vars => Budget'
<1> SUFFICES ASSUME Sound, Budget, [Next]_vars, NEW a \in IPs
             PROVE  IF since' = None THEN admitted'[a] = 0
                    ELSE admitted'[a] * Cost + Level(a)'
                           <= Capacity + perMinute * (now' - since')
  BY DEF Budget
<1>1. /\ admitted[a] \in Nat /\ now \in Nat /\ since \in Nat \cup {None}
      /\ Cost \in Nat /\ Capacity \in Nat /\ perMinute \in Nat
      /\ Level(a) \in Nat /\ Level(a) <= Capacity
      /\ admitted[a] * Cost \in Nat
  BY LevelType, LimiterAssumption, CapacityType DEF Sound, TypeOK, Addresses
<1>2. IF since = None THEN admitted[a] = 0
      ELSE admitted[a] * Cost + Level(a) <= Capacity + perMinute * (now - since)
  BY DEF Budget
<1>3. ASSUME UNCHANGED <<now, since, admitted>>, Level(a)' = Level(a)
      PROVE  IF since' = None THEN admitted'[a] = 0
             ELSE admitted'[a] * Cost + Level(a)'
                    <= Capacity + perMinute * (now' - since')
  BY <1>2, <1>3
<1>4. ASSUME NEW r \in Requests, Limit(r)
      PROVE  UNCHANGED <<now, since, admitted>> /\ Level(a)' = Level(a)
  BY <1>4, LevelLimit DEF Limit, observer
<1>5. ASSUME NEW r \in Requests, Allow(r)
      PROVE  IF since' = None THEN admitted'[a] = 0
             ELSE admitted'[a] * Cost + Level(a)'
                    <= Capacity + perMinute * (now' - since')
  <2>1. since' = since /\ now' = now
    BY <1>5 DEF Allow
  <2>2. CASE since = None
    BY <1>2, <1>5, <2>1, <2>2 DEF Allow
  <2>3. CASE since # None /\ a # client[r]
    <3>1. Level(a)' = Level(a) /\ admitted'[a] = admitted[a]
      BY <1>5, <2>3, LevelAllow DEF Allow, Sound, TypeOK
    <3> QED
      BY <1>2, <2>1, <2>3, <3>1
  <2>4. CASE since # None /\ a = client[r]
    <3>1. Level(a)' = Level(a) - Cost /\ admitted'[a] = admitted[a] + 1
      BY <1>5, <2>4, LevelAllow DEF Allow, Sound, TypeOK
    <3>2. (admitted[a] + 1) * Cost = admitted[a] * Cost + Cost
      BY <1>1
    <3>3. admitted'[a] * Cost + Level(a)' = admitted[a] * Cost + Level(a)
      BY <1>1, <3>1, <3>2
    <3> QED
      BY <1>2, <2>1, <2>4, <3>3
  <2> QED
    BY <2>2, <2>3, <2>4
<1>6. ASSUME NEW r \in Requests, Deny(r)
      PROVE  UNCHANGED <<now, since, admitted>> /\ Level(a)' = Level(a)
  BY <1>6, LevelElse DEF Deny, observer, objects
<1>7. ASSUME cleanup PROVE UNCHANGED <<now, since, admitted>> /\ Level(a)' = Level(a)
  BY <1>7, LevelCleanup DEF cleanup, observer
<1>8. ASSUME Tick
      PROVE  IF since' = None THEN admitted'[a] = 0
             ELSE admitted'[a] * Cost + Level(a)'
                    <= Capacity + perMinute * (now' - since')
  <2>1. since' = since /\ admitted' = admitted /\ now' = now + 1
    BY <1>8 DEF Tick, observer
  <2>2. CASE since = None
    BY <1>2, <2>1, <2>2
  <2>3. CASE since # None
    <3>1. (now + 1) - since = (now - since) + 1 /\ now - since \in Int
      BY <1>1, <2>3
    <3>2. /\ perMinute * (now - since) \in Int
          /\ perMinute * (now' - since') = perMinute * (now - since) + perMinute
      BY <2>1, <3>1, EarnedBy
    <3>3. Level(a)' <= Level(a) + perMinute /\ Level(a)' \in Int
      BY <1>1, <1>8, LevelTick
    <3> QED
      BY <1>1, <1>2, <2>1, <2>3, <3>2, <3>3
  <2> QED
    BY <2>2, <2>3
<1>9. ASSUME OpenWindow
      PROVE  IF since' = None THEN admitted'[a] = 0
             ELSE admitted'[a] * Cost + Level(a)'
                    <= Capacity + perMinute * (now' - since')
  <2>1. since = None /\ since' = now /\ now' = now /\ admitted' = admitted
    BY <1>9 DEF OpenWindow
  <2>2. Level(a)' = Level(a)
    BY <1>9, LevelElse DEF OpenWindow, objects
  <2>3. admitted[a] * Cost = 0 /\ perMinute * (now' - since') = 0
    BY <1>1, <1>2, <2>1
  <2> QED
    BY <1>1, <1>2, <2>1, <2>2, <2>3
<1>10. ASSUME UNCHANGED vars PROVE UNCHANGED <<now, since, admitted>> /\ Level(a)' = Level(a)
  BY <1>10, LevelElse DEF vars, observer, objects
<1> HIDE DEF Level
<1> QED
  BY <1>3, <1>4, <1>5, <1>6, <1>7, <1>8, <1>9, <1>10 DEF Next

\* SustainedRate: whatever header entries the client makes up and however its
\* entry is evicted and recreated, it gets a burst plus the sustained rate.
THEOREM SustainedRateHolds == Spec => []SustainedRate
<1>1. Init => Budget
  BY DEF Init, Budget
<1>2. Sound /\ Budget => SustainedRate
  <2> SUFFICES ASSUME Sound, Budget, since # None, NEW a \in IPs
               PROVE  admitted[a] * Cost <= Capacity + perMinute * (now - since)
    BY DEF SustainedRate
  <2>1. Level(a) \in Nat
    BY LevelType, CapacityType DEF Sound, Addresses
  <2>2. /\ admitted[a] * Cost \in Int /\ Capacity \in Int /\ now - since \in Int
        /\ admitted[a] * Cost + Level(a) <= Capacity + perMinute * (now - since)
    BY LimiterAssumption, CapacityType DEF Sound, TypeOK, Budget
  <2>3. perMinute * (now - since) \in Int
    BY <2>2, EarnedBy
  <2> QED
    BY <2>1, <2>2, <2>3
<1> QED
  BY <1>1, <1>2, SoundInit, SoundStep, BudgetStep, PTL DEF Spec

-----------------------------------------------------------------------------
(* Retry-After *)

LEMMA EarnedStep == Sound /\ Earned /\ [Next]_vars => Earned'
<1> SUFFICES ASSUME Sound, Earned, [Next]_vars, NEW r \in Requests,
                    verdict'[r] = "denied", lastAdmit'[client'[r]] <= decidedAt'[r]
             PROVE  \/ Level(client[r])' >= Capacity
                    \/ Level(client[r])' >= perMinute * (now' - decidedAt'[r])
  BY DEF Earned
<1> DEFINE a == client[r]
           Since == perMinute * (now - decidedAt[r])
<1>0. /\ a \in IPs /\ client' = client
      /\ now \in Nat /\ decidedAt[r] \in Nat /\ decidedAt[r] <= now
      /\ Level(a) \in 0 .. Capacity /\ Capacity \in Nat /\ perMinute \in Nat
  <2>1. client' = client
    BY DEF Next, vars, origin, Limit, Allow, Deny, cleanup, Tick, OpenWindow
  <2>2. a \in IPs /\ a \in Addresses
    BY DEF Sound, TypeOK, Addresses
  <2> QED
    BY <2>1, <2>2, LevelType, LimiterAssumption, CapacityType DEF Sound, TypeOK, Clocks
<1>1. verdict[r] = "denied" /\ lastAdmit[a] <= decidedAt[r] =>
        Level(a) >= Capacity \/ Level(a) >= Since
  BY DEF Earned
<1>2. Level(client[r])' = Level(a)'
  BY <1>0
<1> DEFINE Goal == \/ Level(a)' >= Capacity
                   \/ Level(a)' >= perMinute * (now' - decidedAt'[r])
<1>4. ASSUME UNCHANGED <<now, verdict, decidedAt, lastAdmit>>, Level(a)' = Level(a)
      PROVE  Goal
  BY <1>0, <1>1, <1>4
<1>5. ASSUME decidedAt'[r] = now, now' = now, Level(a)' >= 0 PROVE Goal
  BY <1>0, <1>5
<1>6. ASSUME NEW q \in Requests, Limit(q) PROVE Goal
  BY <1>0, <1>4, <1>6, LevelLimit DEF Limit
<1>7. ASSUME NEW q \in Requests, Allow(q) PROVE Goal
  <2>1. /\ now' = now /\ r # q
        /\ decidedAt'[r] = decidedAt[r] /\ verdict[r] = "denied"
    BY <1>7 DEF Allow, Sound, TypeOK
  <2>2. CASE client[q] = a
    <3>1. now <= decidedAt[r]
      BY <1>0, <1>7, <2>1, <2>2 DEF Allow, Sound, TypeOK
    <3>2. Level(a) >= Cost /\ Level(a)' = Level(a) - Cost
      BY <1>0, <1>7, <2>2, LevelAllow DEF Allow, Sound, Holding, Level
    <3>3. Level(a)' >= 0 /\ decidedAt'[r] = now
      BY <1>0, <2>1, <3>1, <3>2, LimiterAssumption
    <3> QED
      BY <1>5, <2>1, <3>3
  <2>3. CASE client[q] # a
    <3>1. lastAdmit'[a] = lastAdmit[a] /\ Level(a)' = Level(a)
      BY <1>0, <1>7, <2>3, LevelAllow DEF Allow, Sound, TypeOK
    <3> QED
      BY <1>0, <1>1, <2>1, <3>1
  <2> QED
    BY <2>2, <2>3
<1>8. ASSUME NEW q \in Requests, Deny(q) PROVE Goal
  <2>1. CASE q = r
    <3>1. Level(a)' = Level(a) /\ Level(a) >= 0
      BY <1>0, <1>8, LevelElse DEF Deny, objects
    <3> QED
      BY <1>5, <1>8, <2>1, <3>1 DEF Deny, Sound, TypeOK
  <2>2. CASE q # r
    <3>1. /\ now' = now /\ lastAdmit' = lastAdmit
          /\ decidedAt'[r] = decidedAt[r] /\ verdict[r] = "denied"
      BY <1>8, <2>2 DEF Deny, Sound, TypeOK
    <3>2. Level(a)' = Level(a)
      BY <1>0, <1>8, LevelElse DEF Deny, objects
    <3> QED
      BY <1>0, <1>1, <3>1, <3>2
  <2> QED
    BY <2>1, <2>2
<1>9. CASE cleanup
  BY <1>0, <1>4, <1>9, LevelCleanup DEF cleanup, history
<1>10. CASE Tick
  <2>1. now' = now + 1 /\ UNCHANGED <<verdict, decidedAt, lastAdmit>>
    BY <1>10 DEF Tick, history
  <2>2. now - decidedAt[r] \in Int
        /\ (now + 1) - decidedAt[r] = (now - decidedAt[r]) + 1
    BY <1>0
  <2>3. Since \in Int /\ perMinute * (now' - decidedAt'[r]) = Since + perMinute
    BY <2>1, <2>2, EarnedBy
  <2>4. Level(a)' = IF Level(a) + perMinute > Capacity THEN Capacity
                    ELSE Level(a) + perMinute
    BY <1>0, <1>10, LevelTick
  <2>5. Level(a) >= Capacity \/ Level(a) >= Since
    BY <1>0, <1>1, <2>1
  <2> HIDE DEF Since
  <2> QED
    BY <1>0, <2>3, <2>4, <2>5
<1>11. CASE OpenWindow
  BY <1>0, <1>4, <1>11, LevelElse DEF OpenWindow, history, objects
<1>12. CASE UNCHANGED vars
  BY <1>0, <1>4, <1>12, LevelElse DEF vars, history, objects
<1> QED
  BY <1>2, <1>6, <1>7, <1>8, <1>9, <1>10, <1>11, <1>12 DEF Next

\* The inductive invariant that TLC checks holds for every instance.
THEOREM InductiveHolds == Spec => []Inductive
<1>1. Init => Budget /\ Earned
  BY DEF Init, Budget, Earned
<1>2. Sound /\ Budget /\ Earned => Inductive
  BY DEF Inductive, Sound
<1> QED
  BY <1>1, <1>2, SoundInit, SoundStep, BudgetStep, EarnedStep, PTL DEF Spec

\* RetryAfterSuffices: a client that waits as long as a 429 told it to is
\* admitted, when the seconds of a minute are a multiple of the rate (at other
\* rates RetryAfterSeconds rounds down and the client comes back too early).
THEOREM RetryAfterSufficesHolds ==
  ASSUME Cost % perMinute = 0
  PROVE  Spec => []RetryAfterSuffices
<1>1. Inductive => RetryAfterSuffices
  <2> SUFFICES ASSUME Inductive, NEW r \in Requests, NEW q \in Requests,
                      verdict[r] = "denied", pc[q] = "got", client[q] = client[r],
                      lastAdmit[client[r]] <= decidedAt[r],
                      now >= decidedAt[r] + RetryAfterSeconds
               PROVE  Credits(ptr[q]) >= Cost
    BY DEF RetryAfterSuffices
  <2>1. Credits(ptr[q]) = Level(client[r])
    BY DEF Inductive, Holding, Level
  <2>2. RetryAfterSeconds \in Int /\ perMinute * RetryAfterSeconds = Cost
    <3>1. Cost \in Int /\ perMinute \in Int /\ perMinute > 0
      BY LimiterAssumption
    <3> QED
      BY <3>1, ExactDivision DEF RetryAfterSeconds
  <2>3. now - decidedAt[r] \in Int /\ RetryAfterSeconds <= now - decidedAt[r]
    BY <2>2 DEF Inductive, TypeOK
  <2>4. /\ perMinute * (now - decidedAt[r]) \in Int
        /\ Cost <= perMinute * (now - decidedAt[r])
    BY <2>2, <2>3, EarnsMore, EarnedBy
  <2>5. \/ Level(client[r]) >= Capacity
        \/ Level(client[r]) >= perMinute * (now - decidedAt[r])
    BY DEF Inductive, Earned
  <2>6. Level(client[r]) \in 0 .. Capacity
    BY LevelType DEF Inductive, TypeOK, Addresses
  <2> QED
    BY <2>1, <2>4, <2>5, <2>6, CapacityType, LimiterAssumption
<1> QED
  BY <1>1, InductiveHolds, PTL
=============================================================================
