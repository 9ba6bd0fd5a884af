---------------------------- MODULE RateLimiter ----------------------------
(***************************************************************************)
(* The rate limiter of server/middleware.py: a token bucket per (zone, API *)
(* key), created on first use, refilled lazily when it is looked at, and   *)
(* thrown away when it has been idle for long.  Each worker process of the *)
(* server has a limiter of its own.                                        *)
(*                                                                         *)
(* One tick is a second.  Token counts are floats in the code; here they   *)
(* are whole units, Cost of them to the token: with Cost = 60 a bucket of  *)
(* r requests per minute gains r units per second.                         *)
(***************************************************************************)
EXTENDS Naturals, Sequences

CONSTANTS
  Clients,       \* API keys
  Zones,         \* "query", "upload"
  Workers,       \* processes, each with its own _rate_limiter
  NoBucket,
  Cost,          \* units to a token
  Rate,          \* Rate[z]: tokens per minute, that is units per tick
  Burst,         \* Burst[z]: tokens a full bucket holds
  CleanupEvery,  \* ticks between cleanups (300)
  IdleLimit,     \* idle ticks after which a bucket is dropped (600)
  MaxNow,        \* bound: the clock
  MaxChecks      \* bound: requests of one client in one zone

Keys == Zones \X Clients

ASSUME LimiterAssumption ==
  /\ Cost \in Nat \ {0}
  /\ Rate \in [Zones -> Nat]
  /\ Burst \in [Zones -> Nat]
  /\ {CleanupEvery, IdleLimit, MaxNow, MaxChecks} \subseteq Nat

\* The defaults (60 and 10 per minute, bursts of 20 and 5) satisfy this: an
\* empty bucket is full again before it counts as idle.
ASSUME RefillAssumption ==
  \A z \in Zones : IdleLimit * Rate[z] >= Burst[z] * Cost

ASSUME NoBucketAssumption == NoBucket \notin [tokens : Nat, last : Nat]

VARIABLES
  now,          \* time.monotonic()
  bucket,       \* _buckets of each worker
  lastCleanup,  \* _last_cleanup of each worker
  checks,       \* history: requests seen per key
  admitted,     \* history: when each key was let through
  refused       \* history: the last answer 429 to each key and worker

vars == <<now, bucket, lastCleanup, checks, admitted, refused>>

Full(k) == Burst[k[1]] * Cost
Capped(k, x) == IF x > Full(k) THEN Full(k) ELSE x
NewBucket(k) == [tokens |-> Full(k), last |-> now]

\* Lazy refill: what the bucket holds now, had it been looked at.
Refilled(k, b) == Capped(k, b.tokens + (now - b.last) * Rate[k[1]])

\* Mutant: an idle bucket is dropped as soon as it is not in use.
CleanupAnyIdle(bs) == [k \in Keys |->
  IF bs[k] # NoBucket /\ now - bs[k].last > 0 THEN NoBucket ELSE bs[k]]

Cleanup(bs) == [k \in Keys |->
  IF bs[k] # NoBucket /\ now - bs[k].last > IdleLimit THEN NoBucket ELSE bs[k]]

\* Mutant: whole seconds, rounded down.
RetryAfterFloor(k, tokens) ==
  IF Rate[k[1]] > 0 THEN (Cost - tokens) \div Rate[k[1]] ELSE 60

\* The Retry-After header: int(retry_after) + 1.
RetryAfter(k, tokens) ==
  IF Rate[k[1]] > 0 THEN (Cost - tokens) \div Rate[k[1]] + 1 ELSE 61

Swept(w) ==
  IF now - lastCleanup[w] > CleanupEvery THEN Cleanup(bucket[w]) ELSE bucket[w]

\* check(): sweep if it is time, get or create the bucket, take a token.
Check(w, k) ==
  LET swept  == Swept(w)
      held   == IF swept[k] = NoBucket THEN NewBucket(k) ELSE swept[k]
      tokens == Refilled(k, held)
      allow  == tokens >= Cost
  IN  /\ checks[k] < MaxChecks
      /\ checks' = [checks EXCEPT ![k] = @ + 1]
      /\ lastCleanup' =
           [lastCleanup EXCEPT ![w] = IF now - @ > CleanupEvery THEN now ELSE @]
      /\ bucket' = [bucket EXCEPT ![w] = [swept EXCEPT
           ![k] = [tokens |-> IF allow THEN tokens - Cost ELSE tokens, last |-> now]]]
      /\ IF allow
         THEN /\ admitted' = [admitted EXCEPT ![k] = Append(@, now)]
              /\ refused' = [refused EXCEPT ![w][k] = [at |-> 0, wait |-> 0]]
         ELSE /\ refused' = [refused EXCEPT
                   ![w][k] = [at |-> now, wait |-> RetryAfter(k, tokens)]]
              /\ UNCHANGED admitted
      /\ UNCHANGED now

Tick ==
  /\ now < MaxNow
  /\ now' = now + 1
  /\ UNCHANGED <<bucket, lastCleanup, checks, admitted, refused>>

Init ==
  /\ now = 0
  /\ bucket = [w \in Workers |-> [k \in Keys |-> NoBucket]]
  /\ lastCleanup = [w \in Workers |-> 0]
  /\ checks = [k \in Keys |-> 0]
  /\ admitted = [k \in Keys |-> <<>>]
  /\ refused = [w \in Workers |-> [k \in Keys |-> [at |-> 0, wait |-> 0]]]

\* The bounds of the instance are exhausted.
Quiet ==
  /\ now = MaxNow /\ \A k \in Keys : checks[k] = MaxChecks
  /\ UNCHANGED vars

Next == Tick \/ Quiet \/ \E w \in Workers, k \in Keys : Check(w, k)

Spec == Init /\ [][Next]_vars

----------------------------------------------------------------------------
(* Properties.                                                             *)

BucketState(k) == [tokens : 0 .. Full(k), last : 0 .. MaxNow]

\* Types of the limiter's fields; a bucket never holds more than its burst.
TypeOK ==
  /\ now \in 0 .. MaxNow
  /\ \A w \in Workers : lastCleanup[w] \in 0 .. now
  /\ \A w \in Workers, k \in Keys : bucket[w][k] \in BucketState(k) \cup {NoBucket}
  /\ \A k \in Keys : checks[k] \in 0 .. MaxChecks /\ admitted[k] \in Seq(0 .. now)

\* What a bucket of a worker is worth: a missing one will be created full.
Level(w, k) == IF bucket[w][k] = NoBucket THEN Full(k) ELSE Refilled(k, bucket[w][k])

Ideal == INSTANCE IdealBucket WITH
  Buckets <- Workers \X Keys,
  Gain    <- [b \in Workers \X Keys |-> Rate[b[2][1]]],
  Brim    <- [b \in Workers \X Keys |-> Full(b[2])],
  level   <- [b \in Workers \X Keys |-> Level(b[1], b[2])]

\* Lazy refills, buckets made on demand and buckets thrown away are invisible:
\* each worker's limiter is an ideal bucket per key.
ImplementsIdealBucket == Ideal!Spec

\* "Per-key token bucket": in no window of time does a key get more requests
\* through than its burst and what the window refills.
WithinRate ==
  \A k \in Keys : \A i, j \in DOMAIN admitted[k] :
    i <= j => (j - i + 1) * Cost
                <= Full(k) + (admitted[k][j] - admitted[k][i]) * Rate[k[1]]

\* A client that waits as long as its Retry-After header says finds a token,
\* whatever cleanups and refused requests there were in between.
RetryAfterSuffices ==
  \A w \in Workers, k \in Keys :
    LET r == refused[w][k]
    IN  /\ r.wait > 0 /\ Rate[k[1]] > 0 /\ Burst[k[1]] > 0
        /\ now >= r.at + r.wait
        => Level(w, k) >= Cost
============================================================================
