----------------------------- MODULE RateLimiter -----------------------------
(***************************************************************************)
(* internal/handler/ratelimit.go for one route: the map from client IP to  *)
(* rate.Limiter, filled by getLimiter and emptied by cleanup under rl.mu,  *)
(* and Limit, which looks the limiter up under the lock and asks it after  *)
(* the lock is released.                                                   *)
(*                                                                         *)
(* golang.org/x/time/rate is external and modelled from its use: a bucket  *)
(* of burst tokens that earns perMinute/60 tokens per second.  Credits     *)
(* make that integral: a request costs Cost = 60 credits, and a bucket     *)
(* earns perMinute of them per second.  A limiter object is named by the   *)
(* request that allocated it.  perMinute = 0 (no limiting) has no state.   *)
(*                                                                         *)
(* A request reaches the program through a deployment: so many proxies,    *)
(* each of which appends the address it got the request from to the        *)
(* X-Forwarded-For header, after whatever the client put there itself.     *)
(***************************************************************************)
EXTENDS Integers, Sequences

CONSTANTS
  IPs,         \* addresses of clients
  Proxy,       \* the address of every trusted proxy
  Junk,        \* a header entry that is no address
  Deployments, \* [trustProxy, trustedProxiesCount: the configuration,
               \* proxies: how many there are]
  Forged,      \* header entries clients send of their own
  Requests,
  Cost,        \* credits per request: 60, the seconds of a minute
  perMinute,   \* credits a bucket earns per second
  burst,       \* requests a full bucket pays for
  IdleLimit,   \* seconds (600) without use after which an entry is evicted
  MaxStall,    \* assumed: seconds a goroutine may spend between getLimiter
               \* and Allow, two adjacent statements of Limit
  MaxTime,     \* bound: last instant
  None         \* no limiter

Capacity == burst * Cost

\* What makes eviction harmless: a bucket earns its capacity back before its
\* entry is old enough to go.  main.go has bursts of 5, 10 and 3.
ASSUME LimiterAssumption ==
  /\ Cost \in Nat \ {0} /\ perMinute \in Nat \ {0} /\ burst \in Nat \ {0}
  /\ IdleLimit \in Nat /\ MaxStall \in Nat /\ MaxTime \in Nat
  /\ MaxStall <= IdleLimit
  /\ perMinute * (IdleLimit + 1 - MaxStall) >= Capacity
  /\ None \notin Requests

Addresses == IPs \cup {Proxy}

\* The configuration describes the deployment ("Only enable this when the app
\* is behind a trusted reverse proxy"); a count below 1 stands for 1.
ASSUME DeploymentAssumption ==
  /\ Junk \notin Addresses /\ Proxy \notin IPs
  /\ Forged \subseteq Seq(IPs \cup {Junk})
  /\ \A d \in Deployments :
       /\ d.trustProxy \in BOOLEAN /\ d.trustedProxiesCount \in Int
       /\ d.proxies = IF ~d.trustProxy THEN 0
                      ELSE IF d.trustedProxiesCount <= 0 THEN 1
                      ELSE d.trustedProxiesCount

VARIABLES
  deployment, \* rl.trustProxy, rl.trustedProxiesCount and what is before it
  now,
  limiters,   \* rl.limiters: per IP the limiter object, or None
  lastSeen,   \* ipLimiter.lastSeen, per IP
  tokens,     \* credits of a limiter object at time last
  last,       \* when it was last charged
  pc,         \* per request: "idle", "got" (holds a limiter), "done"
  client,     \* per request: who sent it
  ip,         \* per request: the result of clientIP
  ptr,        \* per request: the *rate.Limiter that getLimiter returned
  gotAt,      \* history: when it did
  verdict,    \* per request: passed on ("allowed") or 429 ("denied")
  decidedAt,  \* history: when
  lastAdmit,  \* history, per client: when a request was admitted last
  since,      \* observer: start of a time window, None before it is opened
  admitted    \* observer, per client: requests admitted in the window

objects  == <<tokens, last>>
history  == <<gotAt, decidedAt, lastAdmit>>
observer == <<since, admitted>>
origin   == <<deployment, client>>
vars == <<origin, now, limiters, lastSeen, objects, pc, ip, ptr, verdict, history,
          observer>>

-----------------------------------------------------------------------------
(* Whose bucket *)

\* What arrives when client a sends the header entries f: every proxy appends
\* the peer it sees, the first one the client.
Header(a, f) ==
  f \o [i \in 1 .. deployment.proxies |-> IF i = 1 THEN a ELSE Proxy]
RemoteAddr(a) == IF deployment.proxies = 0 THEN a ELSE Proxy

\* mutant: the first entry of the header is taken.
clientIPFirst(xff, remote) ==
  IF deployment.trustProxy /\ xff # <<>> /\ xff[1] # Junk THEN xff[1] ELSE remote

\* clientIP: so many entries from the right, if there are as many and the
\* entry parses as an address; otherwise the peer.
clientIP(xff, remote) ==
  LET hops == IF deployment.trustedProxiesCount <= 0 THEN 1
              ELSE deployment.trustedProxiesCount
      idx  == Len(xff) - hops + 1
  IN  IF deployment.trustProxy /\ xff # <<>> /\ idx >= 1 /\ xff[idx] # Junk
        THEN xff[idx] ELSE remote

-----------------------------------------------------------------------------
(* Limiting *)

\* rate.Limiter: the credits of object b, were it asked now.
Credits(b) ==
  LET earned == tokens[b] + perMinute * (now - last[b])
  IN  IF earned > Capacity THEN Capacity ELSE earned

Init ==
  /\ deployment \in Deployments
  /\ now = 0
  /\ limiters = [a \in Addresses |-> None]
  /\ lastSeen = [a \in Addresses |-> 0]
  /\ tokens = [r \in Requests |-> Capacity]
  /\ last = [r \in Requests |-> 0]
  /\ pc = [r \in Requests |-> "idle"]
  /\ client \in [Requests -> IPs]
  /\ ip = [r \in Requests |-> None]
  /\ ptr = [r \in Requests |-> None]
  /\ gotAt = [r \in Requests |-> 0]
  /\ verdict = [r \in Requests |-> "none"]
  /\ decidedAt = [r \in Requests |-> 0]
  /\ lastAdmit = [a \in IPs |-> 0]
  /\ since = None
  /\ admitted = [a \in IPs |-> 0]

\* mutant: only a new entry is stamped.
getLimiterStale(r, a) ==
  LET b == IF limiters[a] = None THEN r ELSE limiters[a] IN
  /\ limiters' = [limiters EXCEPT ![a] = b]
  /\ lastSeen' = IF limiters[a] = None THEN [lastSeen EXCEPT ![a] = now] ELSE lastSeen
  /\ ptr' = [ptr EXCEPT ![r] = b]

\* One critical section: find or create the entry of address a, stamp it,
\* return it.
getLimiter(r, a) ==
  LET b == IF limiters[a] = None THEN r ELSE limiters[a] IN
  /\ limiters' = [limiters EXCEPT ![a] = b]
  /\ lastSeen' = [lastSeen EXCEPT ![a] = now]
  /\ ptr' = [ptr EXCEPT ![r] = b]

\* Limit: a request arrives, whatever its sender wrote into the header.
Limit(r) ==
  /\ pc[r] = "idle"
  /\ \E f \in Forged :
       LET a == clientIP(Header(client[r], f), RemoteAddr(client[r])) IN
       /\ ip' = [ip EXCEPT ![r] = a]
       /\ getLimiter(r, a)
  /\ pc' = [pc EXCEPT ![r] = "got"]
  /\ gotAt' = [gotAt EXCEPT ![r] = now]
  /\ UNCHANGED <<origin, now, objects, verdict, decidedAt, lastAdmit, observer>>

\* limiter.Allow() charges the object and the request is passed on.
Allow(r) ==
  /\ pc[r] = "got" /\ Credits(ptr[r]) >= Cost
  /\ tokens' = [tokens EXCEPT ![ptr[r]] = Credits(ptr[r]) - Cost]
  /\ last' = [last EXCEPT ![ptr[r]] = now]
  /\ pc' = [pc EXCEPT ![r] = "done"]
  /\ verdict' = [verdict EXCEPT ![r] = "allowed"]
  /\ decidedAt' = [decidedAt EXCEPT ![r] = now]
  /\ lastAdmit' = [lastAdmit EXCEPT ![client[r]] = now]
  /\ admitted' = IF since = None THEN admitted
                 ELSE [admitted EXCEPT ![client[r]] = @ + 1]
  /\ UNCHANGED <<origin, now, limiters, lastSeen, ip, ptr, gotAt, since>>

\* It refuses: 429 with Retry-After; the object stays as it is.
Deny(r) ==
  /\ pc[r] = "got" /\ Credits(ptr[r]) < Cost
  /\ pc' = [pc EXCEPT ![r] = "done"]
  /\ verdict' = [verdict EXCEPT ![r] = "denied"]
  /\ decidedAt' = [decidedAt EXCEPT ![r] = now]
  /\ UNCHANGED <<origin, now, limiters, lastSeen, objects, ip, ptr, gotAt, lastAdmit,
                 observer>>

\* mutant: an entry is evicted after half the time.
IdleHalf(a) == limiters[a] # None /\ lastSeen[a] < now - (IdleLimit \div 2)

\* entry.lastSeen.Before(time.Now().Add(-10 * time.Minute))
Idle(a) == limiters[a] # None /\ lastSeen[a] < now - IdleLimit

\* One critical section of the cleanup goroutine; it may come at any time.
cleanup ==
  /\ \E a \in Addresses : Idle(a)
  /\ limiters' = [a \in Addresses |-> IF Idle(a) THEN None ELSE limiters[a]]
  /\ UNCHANGED <<origin, now, lastSeen, objects, pc, ip, ptr, verdict, history, observer>>

\* A second passes.  No goroutine is held up beyond MaxStall.
Tick ==
  /\ now < MaxTime
  /\ \A r \in Requests : pc[r] = "got" => now < gotAt[r] + MaxStall
  /\ now' = now + 1
  /\ UNCHANGED <<origin, limiters, lastSeen, objects, pc, ip, ptr, verdict, history,
                 observer>>

\* The observer starts counting.
OpenWindow ==
  /\ since = None
  /\ since' = now
  /\ UNCHANGED <<origin, now, limiters, lastSeen, objects, pc, ip, ptr, verdict, history,
                 admitted>>

Next ==
  \/ \E r \in Requests : Limit(r) \/ Allow(r) \/ Deny(r)
  \/ cleanup \/ Tick \/ OpenWindow

Spec == Init /\ [][Next]_vars

-----------------------------------------------------------------------------
(* Properties *)

\* Every variable has its type; a bucket never overdraws or overflows.
TypeOK ==
  /\ deployment \in Deployments /\ client \in [Requests -> IPs]
  /\ now \in Nat
  /\ limiters \in [Addresses -> Requests \cup {None}]
  /\ lastSeen \in [Addresses -> Nat]
  /\ tokens \in [Requests -> 0 .. Capacity]
  /\ last \in [Requests -> Nat]
  /\ pc \in [Requests -> {"idle", "got", "done"}]
  /\ ip \in [Requests -> Addresses \cup {None}]
  /\ ptr \in [Requests -> Requests \cup {None}]
  /\ gotAt \in [Requests -> Nat]
  /\ verdict \in [Requests -> {"none", "allowed", "denied"}]
  /\ decidedAt \in [Requests -> Nat]
  /\ lastAdmit \in [IPs -> Nat]
  /\ since \in Nat \cup {None}
  /\ admitted \in [IPs -> Nat]

\* In any window of time, whenever it begins, a client gets at most a burst
\* plus the sustained rate, although its bucket may be evicted and recreated
\* and whatever X-Forwarded-For header it makes up.
SustainedRate ==
  since # None =>
    \A a \in IPs : admitted[a] * Cost <= Capacity + perMinute * (now - since)

\* mutant: the burst is taken for requests that come back at once.
RetryAfterBurst == Cost \div (perMinute * burst)

\* RetryAfterSeconds: 60 / max(perMinute, 1), in whole seconds.
RetryAfterSeconds == Cost \div perMinute

\* A client that is refused, waits as long as Retry-After says and has had no
\* other request admitted meanwhile is admitted.  Needs a rate that divides 60,
\* as the defaults 10, 20 and 5 do.
RetryAfterSuffices ==
  \A r, q \in Requests :
    /\ verdict[r] = "denied" /\ pc[q] = "got" /\ client[q] = client[r]
    /\ lastAdmit[client[r]] <= decidedAt[r]
    /\ now >= decidedAt[r] + RetryAfterSeconds
    => Credits(ptr[q]) >= Cost

\* What the address's own eternal bucket would hold: the refinement mapping.
Level(a) == IF limiters[a] = None THEN Capacity ELSE Credits(limiters[a])

\* No history lies in the future.
Clocks ==
  /\ \A r \in Requests : last[r] <= now /\ gotAt[r] <= now /\ decidedAt[r] <= now
  /\ \A a \in Addresses : lastSeen[a] <= now
  /\ since # None => since <= now

\* A request between getLimiter and Allow holds the object that its client's
\* entry still has: clientIP found the client, and cleanup has not evicted an
\* entry so young.
Holding ==
  \A r \in Requests :
    /\ pc[r] = "got" =>
         /\ ip[r] = client[r]
         /\ ptr[r] # None /\ ptr[r] = limiters[ip[r]]
         /\ gotAt[r] <= lastSeen[ip[r]] /\ now <= gotAt[r] + MaxStall
    /\ pc[r] # "done" => verdict[r] = "none"

\* Entries do not share objects, an object that nobody has allocated yet is
\* full, and none was charged long after its entry was looked up.
OwnBuckets ==
  /\ \A a, b \in Addresses : limiters[a] # None /\ limiters[a] = limiters[b] => a = b
  /\ \A a \in Addresses :
       limiters[a] # None => /\ pc[limiters[a]] # "idle"
                             /\ last[limiters[a]] <= lastSeen[a] + MaxStall
  /\ \A r \in Requests : pc[r] = "idle" => tokens[r] = Capacity

\* What a client was given and what its bucket still holds never exceed what
\* the bucket held and earned in the window.
Budget ==
  \A a \in IPs :
    IF since = None THEN admitted[a] = 0
    ELSE admitted[a] * Cost + Level(a) <= Capacity + perMinute * (now - since)

\* Since a refusal the bucket is full or has earned and not spent.
Earned ==
  \A r \in Requests :
    verdict[r] = "denied" /\ lastAdmit[client[r]] <= decidedAt[r] =>
      \/ Level(client[r]) >= Capacity
      \/ Level(client[r]) >= perMinute * (now - decidedAt[r])

\* The inductive invariant of the proofs: why neither the eviction by cleanup
\* nor Limit's use of a limiter after the lock is released can be noticed.
Inductive == TypeOK /\ Clocks /\ Holding /\ OwnBuckets /\ Budget /\ Earned

TB == INSTANCE TokenBuckets
        WITH Rate <- perMinute, level <- [a \in IPs |-> Level(a)]

\* Eviction, re-creation and proxies cannot be told from one bucket per client
\* that lives for ever and that only the client's own requests draw on.
ImplementsTokenBuckets == TB!Spec
=============================================================================
