------------------------- MODULE RateLimiterProofs -------------------------
(***************************************************************************)
(* The rate limiter implements the ideal bucket for every rate, burst,     *)
(* cleanup interval and number of workers, provided a bucket refills       *)
(* within the time after which it is dropped (RefillAssumption).           *)
(*                                                                         *)
(* The access log keeps the order of the answers, names nothing twice and  *)
(* loses entries only where the code accepts it, for any number of workers *)
(* and requests, every queue limit and all faults.                         *)
(***************************************************************************)
EXTENDS RateLimiter, TLAPS

Bucket == [tokens : Nat, last : Nat]

\* A bucket never holds more than its burst and was never seen in the future.
Sound(k, b) == b # NoBucket => b.tokens <= Full(k) /\ b.last <= now

\* Inductive: what each worker's limiter keeps for each key.
LimiterInv ==
  /\ now \in Nat
  /\ bucket \in [Workers -> [Keys -> Bucket \cup {NoBucket}]]
  /\ \A w \in Workers, k \in Keys : Sound(k, bucket[w][k])

----------------------------------------------------------------------------
(* Arithmetic of the refill.                                               *)

\* Products of tokens and ticks are numbers,
LEMMA Product == \A x, y \in Nat : x * y \in Nat
OBVIOUS

\* more ticks bring no less,
LEMMA MoreTicks == ASSUME NEW x \in Nat, NEW y \in Nat, NEW r \in Nat, x <= y
                   PROVE  x * r <= y * r
<1>1. PICK d \in Nat : y = x + d
  <2>1. y - x \in Nat /\ y = x + (y - x)
    OBVIOUS
  <2>2. QED BY <2>1
<1>2. y * r = x * r + d * r
  BY <1>1
<1>3. d * r \in Nat /\ x * r \in Nat
  BY Product
<1>4. QED BY <1>2, <1>3

\* and one tick more brings one rate more.
LEMMA OneTick == \A x, r \in Nat : (x + 1) * r = x * r + r
OBVIOUS

\* The limits of a key are numbers.
LEMMA Limits ==
  ASSUME NEW k \in Keys
  PROVE  Full(k) \in Nat /\ Rate[k[1]] \in Nat /\ IdleLimit * Rate[k[1]] >= Full(k)
<1>1. k[1] \in Zones
  BY DEF Keys
<1>2. Rate[k[1]] \in Nat /\ Burst[k[1]] \in Nat /\ Cost \in Nat
  BY <1>1, LimiterAssumption
<1>3. QED BY <1>1, <1>2, Product, RefillAssumption DEF Full

\* A refilled bucket holds a number of units up to its burst.
LEMMA RefilledType ==
  ASSUME NEW k \in Keys, NEW b \in Bucket, now \in Nat, b.last <= now
  PROVE  /\ Refilled(k, b) \in Nat /\ Refilled(k, b) <= Full(k)
         /\ (now - b.last) * Rate[k[1]] \in Nat
<1>1. b.tokens \in Nat /\ now - b.last \in Nat
  BY DEF Bucket
<1>2. (now - b.last) * Rate[k[1]] \in Nat
  BY <1>1, Limits, Product
<1>3. QED BY <1>1, <1>2, Limits DEF Refilled, Capped

\* A bucket just looked at is worth what it holds,
LEMMA JustSeen ==
  ASSUME NEW k \in Keys, NEW t \in Nat, t <= Full(k), now \in Nat
  PROVE  Refilled(k, [tokens |-> t, last |-> now]) = t
<1>1. (now - now) * Rate[k[1]] = 0
  BY Limits
<1>2. QED BY <1>1, Limits DEF Refilled, Capped

\* and one idle for longer than IdleLimit is full.
LEMMA LongIdle ==
  ASSUME NEW k \in Keys, NEW b \in Bucket, now \in Nat, b.last <= now,
         now - b.last > IdleLimit
  PROVE  Refilled(k, b) = Full(k)
<1>1. IdleLimit \in Nat /\ now - b.last \in Nat /\ b.tokens \in Nat
  BY LimiterAssumption DEF Bucket
<1>2. IdleLimit * Rate[k[1]] <= (now - b.last) * Rate[k[1]]
  BY <1>1, Limits, MoreTicks
<1>3. (now - b.last) * Rate[k[1]] \in Nat /\ IdleLimit * Rate[k[1]] \in Nat
  BY <1>1, Limits, Product
<1>4. b.tokens + (now - b.last) * Rate[k[1]] >= Full(k)
  BY <1>1, <1>2, <1>3, Limits
<1>5. ASSUME NEW x \in Nat, NEW full \in Nat, x >= full
      PROVE  (IF x > full THEN full ELSE x) = full
  BY <1>5
<1>6. b.tokens + (now - b.last) * Rate[k[1]] \in Nat /\ Full(k) \in Nat
  BY <1>1, <1>3, Limits
<1>7. QED BY <1>4, <1>5, <1>6 DEF Refilled, Capped

----------------------------------------------------------------------------
(* The steps.                                                              *)

\* What a worker's bucket of a key is worth is a number up to its burst.
LEMMA LevelType ==
  ASSUME LimiterInv, NEW w \in Workers, NEW k \in Keys
  PROVE  Level(w, k) \in Nat /\ Level(w, k) <= Full(k)
BY RefilledType, Limits DEF LimiterInv, Sound, Level

\* A sweep keeps every bucket's worth and soundness: what it drops was full.
LEMMA SweepKeeps ==
  ASSUME LimiterInv, NEW w \in Workers, NEW k \in Keys
  PROVE  /\ Swept(w) \in [Keys -> Bucket \cup {NoBucket}]
         /\ Swept(w)[k] \in {bucket[w][k], NoBucket}
         /\ Swept(w)[k] = NoBucket => Level(w, k) = Full(k)
<1>1. bucket[w] \in [Keys -> Bucket \cup {NoBucket}]
  BY DEF LimiterInv
<1>2. Swept(w) \in [Keys -> Bucket \cup {NoBucket}]
  BY <1>1 DEF Swept, Cleanup
<1>3. \/ Swept(w)[k] = bucket[w][k]
      \/ /\ Swept(w)[k] = NoBucket /\ bucket[w][k] # NoBucket
         /\ now - bucket[w][k].last > IdleLimit
  BY DEF Swept, Cleanup
<1>4. CASE Swept(w)[k] = bucket[w][k]
  BY <1>2, <1>4 DEF Level
<1>5. CASE /\ Swept(w)[k] = NoBucket /\ bucket[w][k] # NoBucket
           /\ now - bucket[w][k].last > IdleLimit
  <2>1. bucket[w][k] \in Bucket /\ bucket[w][k].last <= now /\ now \in Nat
    BY <1>1, <1>5 DEF LimiterInv, Sound
  <2>2. QED BY <1>2, <1>5, <2>1, LongIdle DEF Level
<1>6. QED BY <1>3, <1>4, <1>5

\* What a request that is let through does, and what one that is not.
Admits(w, k) ==
  /\ Level(w, k) >= Cost /\ Level(w, k)' = Level(w, k) - Cost
  /\ admitted' = [admitted EXCEPT ![k] = Append(@, now)]
  /\ refused' = [refused EXCEPT ![w][k] = [at |-> 0, wait |-> 0]]

Refuses(w, k) ==
  /\ Level(w, k) < Cost /\ Level(w, k)' = Level(w, k)
  /\ admitted' = admitted
  /\ refused' = [refused EXCEPT ![w][k] = [at |-> now, wait |-> RetryAfter(k, Level(w, k))]]

\* A request takes Cost units out of its key's bucket if they are there, changes
\* nothing if not, and no other bucket is worth more or less than before.
LEMMA CheckIsAdmit ==
  ASSUME LimiterInv, NEW w \in Workers, NEW k \in Keys, Check(w, k)
  PROVE  /\ LimiterInv'
         /\ \A v \in Workers, j \in Keys :
              <<v, j>> # <<w, k>> => Level(v, j)' = Level(v, j)
         /\ now' = now /\ (Admits(w, k) \/ Refuses(w, k))
<1> DEFINE swept  == Swept(w)
           held   == IF swept[k] = NoBucket THEN NewBucket(k) ELSE swept[k]
           tokens == Refilled(k, held)
           rest   == IF tokens >= Cost THEN tokens - Cost ELSE tokens
           seen   == [tokens |-> rest, last |-> now]
<1>1. /\ bucket' = [bucket EXCEPT ![w] = [swept EXCEPT ![k] = seen]]
      /\ now' = now
  BY DEF Check
<1>2. /\ now \in Nat /\ Cost \in Nat /\ Full(k) \in Nat
      /\ swept \in [Keys -> Bucket \cup {NoBucket}]
  BY LimiterAssumption, Limits, SweepKeeps DEF LimiterInv
<1>3. tokens = Level(w, k)
  <2>1. CASE swept[k] = NoBucket
    BY <1>2, <2>1, SweepKeeps, JustSeen DEF NewBucket
  <2>2. CASE swept[k] # NoBucket
    BY <2>2, SweepKeeps DEF Level
  <2>3. QED BY <2>1, <2>2
<1>4. rest \in Nat /\ rest <= Full(k)
  BY <1>2, <1>3, LevelType
<1>5. seen \in Bucket /\ seen # NoBucket
  BY <1>2, <1>4, NoBucketAssumption DEF Bucket
<1>6. Refilled(k, seen) = rest
  BY <1>2, <1>4, JustSeen
<1> HIDE DEF rest, swept, seen
<1>7. /\ bucket'[w][k] = seen
      /\ \A j \in Keys : j # k => bucket'[w][j] = swept[j]
      /\ \A v \in Workers : v # w => bucket'[v] = bucket[v]
      /\ bucket' \in [Workers -> [Keys -> Bucket \cup {NoBucket}]]
  BY <1>1, <1>2, <1>5 DEF LimiterInv
<1>8. LimiterInv'
  <2>1. ASSUME NEW v \in Workers, NEW j \in Keys PROVE Sound(j, bucket[v][j])'
    <3>1. CASE v # w
      BY <1>1, <1>7, <3>1 DEF LimiterInv, Sound, Full
    <3>2. CASE v = w /\ j # k
      BY <1>1, <1>7, <3>2, SweepKeeps DEF LimiterInv, Sound, Full, swept
    <3>3. CASE v = w /\ j = k
      BY <1>1, <1>2, <1>4, <1>7, <3>3 DEF Sound, Full, seen
    <3>4. QED BY <3>1, <3>2, <3>3
  <2>2. QED BY <1>1, <1>2, <1>7, <2>1 DEF LimiterInv
<1>9. ASSUME NEW v \in Workers, NEW j \in Keys, <<v, j>> # <<w, k>>
      PROVE  Level(v, j)' = Level(v, j)
  <2>1. CASE v # w
    BY <1>1, <1>7, <2>1 DEF Level, Refilled, Capped, Full
  <2>2. CASE v = w /\ j # k /\ swept[j] = NoBucket
    BY <1>7, <2>2, SweepKeeps DEF Level, Full, swept
  <2>3. CASE v = w /\ j # k /\ swept[j] # NoBucket
    <3>1. swept[j] = bucket[w][j]
      BY <2>3, SweepKeeps DEF swept
    <3>2. QED BY <1>1, <1>7, <2>3, <3>1 DEF Level, Refilled, Capped, Full
  <2>4. QED BY <1>9, <2>1, <2>2, <2>3
<1>10. Level(w, k)' = rest
  BY <1>1, <1>5, <1>6, <1>7 DEF Level, Refilled, Capped, Full
<1>11. Level(w, k) \in Nat
  BY LevelType
<1>12. CASE tokens >= Cost
  <2>1. Admits(w, k)
    BY <1>3, <1>10, <1>12 DEF Check, Admits, rest, swept
  <2>2. QED BY <1>1, <1>8, <1>9, <2>1
<1>13. CASE ~(tokens >= Cost)
  <2>1. Refuses(w, k)
    BY <1>2, <1>3, <1>10, <1>11, <1>13 DEF Check, Refuses, rest, swept
  <2>2. QED BY <1>1, <1>8, <1>9, <2>1
<1>14. QED BY <1>12, <1>13

\* A tick raises every bucket by its rate, up to its burst.
LEMMA TickIsRise ==
  ASSUME LimiterInv, Tick
  PROVE  /\ LimiterInv'
         /\ \A w \in Workers, k \in Keys :
              Level(w, k)' = Capped(k, Level(w, k) + Rate[k[1]])
<1>1. now \in Nat /\ now' = now + 1 /\ bucket' = bucket
  BY DEF LimiterInv, Tick
<1>2. LimiterInv'
  <2>1. \A w \in Workers, k \in Keys : bucket[w][k] # NoBucket => bucket[w][k].last \in Nat
    BY DEF LimiterInv, Bucket
  <2>2. QED BY <1>1, <2>1 DEF LimiterInv, Sound, Full
<1>3. ASSUME NEW w \in Workers, NEW k \in Keys
      PROVE  Level(w, k)' = Capped(k, Level(w, k) + Rate[k[1]])
  <2>1. CASE bucket[w][k] = NoBucket
    BY <1>1, <2>1, Limits DEF Level, Capped, Full
  <2>2. CASE bucket[w][k] # NoBucket
    <3> DEFINE b == bucket[w][k]
    <3>1. b \in Bucket /\ b.last <= now
      BY <2>2 DEF LimiterInv, Sound
    <3>2. b.tokens \in Nat /\ b.last \in Nat /\ now - b.last \in Nat
      BY <1>1, <3>1 DEF Bucket
    <3>3. (now' - b.last) * Rate[k[1]] = (now - b.last) * Rate[k[1]] + Rate[k[1]]
      <4>1. now' - b.last = (now - b.last) + 1
        BY <1>1, <3>2
      <4>2. QED BY <3>2, <4>1, OneTick, Limits
    <3>4. (now - b.last) * Rate[k[1]] \in Nat
      BY <1>1, <3>1, RefilledType
    <3>5. Level(w, k)' = Capped(k, b.tokens + ((now - b.last) * Rate[k[1]] + Rate[k[1]]))
      BY <1>1, <2>2, <3>3 DEF Level, Refilled, Capped, Full
    <3>6. Level(w, k) = Capped(k, b.tokens + (now - b.last) * Rate[k[1]])
      BY <2>2 DEF Level, Refilled
    <3> HIDE DEF b
    <3>7. QED BY <3>2, <3>4, <3>5, <3>6, Limits DEF Capped
  <2>3. QED BY <2>1, <2>2
<1>4. QED BY <1>2, <1>3

----------------------------------------------------------------------------
(* The refinement.                                                         *)

\* Each worker's limiter is an ideal bucket per key, with any number of workers
\* and keys and for all rates (ImplementsIdealBucket).
THEOREM LimiterIsIdeal == Spec => ImplementsIdealBucket
<1> DEFINE B == Workers \X Keys
           level == [b \in B |-> Level(b[1], b[2])]
<1>1. Init => LimiterInv /\ Ideal!Init
  <2> SUFFICES ASSUME Init PROVE LimiterInv /\ Ideal!Init
    OBVIOUS
  <2>1. now = 0 /\ bucket = [w \in Workers |-> [k \in Keys |-> NoBucket]]
    BY DEF Init
  <2>2. LimiterInv
    BY <2>1 DEF LimiterInv, Sound
  <2>3. \A b \in B : Level(b[1], b[2]) = Full(b[2])
    BY <2>1 DEF Level
  <2>4. QED BY <2>2, <2>3 DEF Ideal!Init
<1>2. LimiterInv /\ [Next]_vars => LimiterInv' /\ [Ideal!Next]_level
  <2> SUFFICES ASSUME LimiterInv, [Next]_vars PROVE LimiterInv' /\ [Ideal!Next]_level
    OBVIOUS
  <2>1. CASE Tick
    <3>1. \A b \in B : Level(b[1], b[2])' = Capped(b[2], Level(b[1], b[2]) + Rate[b[2][1]])
      BY <2>1, TickIsRise
    <3>2. Ideal!Rise
      BY <3>1 DEF Ideal!Rise, Ideal!Capped, Capped
    <3>3. QED BY <2>1, <3>2, TickIsRise DEF Ideal!Next
  <2>2. ASSUME NEW w \in Workers, NEW k \in Keys, Check(w, k)
        PROVE  LimiterInv' /\ [Ideal!Next]_level
    <3> DEFINE c == <<w, k>>
    <3>1. \A b \in B : b # c => Level(b[1], b[2])' = Level(b[1], b[2])
      BY <2>2, CheckIsAdmit
    <3>2. CASE Refuses(w, k)
      <4>1. \A b \in B : Level(b[1], b[2])' = Level(b[1], b[2])
        BY <3>1, <3>2 DEF Refuses
      <4>2. level' = level
        BY <4>1
      <4>3. QED BY <2>2, <4>2, CheckIsAdmit
    <3>3. CASE Admits(w, k)
      <4>1. c \in B /\ level[c] = Level(w, k)
        OBVIOUS
      <4>2. level' = [level EXCEPT ![c] = @ - Cost]
        <5>1. ASSUME NEW b \in B
              PROVE  Level(b[1], b[2])' = IF b = c THEN Level(w, k) - Cost
                                                   ELSE Level(b[1], b[2])
          BY <3>1, <3>3, <5>1 DEF Admits
        <5>2. level' = [b \in B |-> IF b = c THEN Level(w, k) - Cost
                                            ELSE Level(b[1], b[2])]
          BY <5>1
        <5>3. QED BY <4>1, <5>2
      <4>3. Ideal!Admit(c)
        BY <3>3, <4>1, <4>2 DEF Admits, Ideal!Admit
      <4>4. QED BY <2>2, <4>1, <4>3, CheckIsAdmit DEF Ideal!Next
    <3>4. QED BY <2>2, <3>2, <3>3, CheckIsAdmit
  <2>3. CASE UNCHANGED vars
    <3>1. now' = now /\ bucket' = bucket
      BY <2>3 DEF vars
    <3>2. LimiterInv'
      BY <3>1 DEF LimiterInv, Sound, Full
    <3>3. \A b \in B : Level(b[1], b[2])' = Level(b[1], b[2])
      BY <3>1 DEF Level, Refilled, Capped, Full
    <3>4. QED BY <3>2, <3>3
  <2>4. QED BY <2>1, <2>2, <2>3 DEF Next, Quiet
<1>3. QED BY <1>1, <1>2, PTL DEF Spec, ImplementsIdealBucket, Ideal!Spec

----------------------------------------------------------------------------
(* What a client gets through, and how long it waits.                      *)

\* What the bucket of worker w still holds and what it has given away since any
\* request of k was let through come to no more than a burst and the refill.
SpentInv(w, k) ==
  \A i \in 1 .. Len(admitted[k]) :
    /\ admitted[k][i] <= now
    /\ (Len(admitted[k]) - i + 1) * Cost + Level(w, k)
         <= Full(k) + (now - admitted[k][i]) * Rate[k[1]]

\* A refused client finds a token when the wait it was told is over, if there is
\* none already.
WaitInv(w, k) ==
  LET r == refused[w][k]
  IN  r.wait > 0 /\ Rate[k[1]] > 0 /\ Burst[k[1]] > 0 =>
        \/ Level(w, k) >= Cost
        \/ /\ r.at <= now /\ now < r.at + r.wait
           /\ Level(w, k) + (r.at + r.wait - now) * Rate[k[1]] >= Cost

\* Inductive: the history of each key and of each answer, and the waits.
PatientInv ==
  /\ LimiterInv
  /\ admitted \in [Keys -> Seq(Nat)]
  /\ refused \in [Workers -> [Keys -> [at : Nat, wait : Nat]]]
  /\ \A w \in Workers, k \in Keys : WaitInv(w, k)

\* Inductive if one process serves all requests.
SpendInv ==
  /\ PatientInv /\ WithinRate
  /\ \A w \in Workers, k \in Keys : SpentInv(w, k)

\* Whole seconds rounded down, and one more, are longer than the exact wait.
LEMMA RoundedUp ==
  ASSUME NEW x \in Nat, NEW r \in Nat \ {0}
  PROVE  x \div r \in Nat /\ (x \div r + 1) * r > x
<1> DEFINE q == x \div r
           m == x % r
<1>1. q \in Nat /\ m \in Nat /\ m < r /\ x = r * q + m
  BY SMTT(30)
<1> HIDE DEF q, m
<1>2. (q + 1) * r = r * q + r /\ r * q \in Nat
  BY <1>1
<1>3. QED BY <1>1, <1>2 DEF q

\* A request is told a wait that is long enough, and changes no other's.
LEMMA CheckWaits ==
  ASSUME PatientInv, NEW w \in Workers, NEW k \in Keys, Check(w, k)
  PROVE  PatientInv'
<1> USE DEF PatientInv
<1>0. /\ now \in Nat /\ now' = now /\ Cost \in Nat /\ LimiterInv'
      /\ Admits(w, k) \/ Refuses(w, k)
  BY CheckIsAdmit, LimiterAssumption DEF LimiterInv
<1>1. Level(w, k) \in Nat /\ Rate[k[1]] \in Nat
  BY LevelType, Limits
<1> DEFINE wait == RetryAfter(k, Level(w, k))
<1>2. ASSUME Level(w, k) < Cost
      PROVE  /\ wait \in Nat
             /\ Rate[k[1]] > 0 => wait > 0 /\ Level(w, k) + wait * Rate[k[1]] >= Cost
  <2>1. Cost - Level(w, k) \in Nat
    BY <1>0, <1>1, <1>2
  <2>2. CASE Rate[k[1]] > 0
    <3> DEFINE n == (Cost - Level(w, k)) \div Rate[k[1]]
    <3>0. Rate[k[1]] \in Nat \ {0}
      BY <1>1, <2>2
    <3>1. n \in Nat /\ (n + 1) * Rate[k[1]] > Cost - Level(w, k)
      BY <2>1, <3>0, RoundedUp
    <3>2. wait = n + 1
      BY <2>2 DEF RetryAfter
    <3> HIDE DEF n, wait
    <3>3. wait * Rate[k[1]] \in Nat
      BY <1>1, <3>1, <3>2, Product
    <3>4. QED BY <1>0, <1>1, <3>1, <3>2, <3>3
  <2>3. CASE ~(Rate[k[1]] > 0)
    BY <2>3 DEF RetryAfter
  <2>4. QED BY <2>2, <2>3
<1> HIDE DEF wait
<1>3. admitted' \in [Keys -> Seq(Nat)]
  <2>1. Append(admitted[k], now) \in Seq(Nat)
    BY <1>0
  <2>2. CASE Admits(w, k)
    BY <2>1, <2>2 DEF Admits
  <2>3. CASE Refuses(w, k)
    BY <2>3 DEF Refuses
  <2>4. QED BY <1>0, <2>2, <2>3
<1>4. \E e \in [at : Nat, wait : Nat] :
         /\ refused' = [refused EXCEPT ![w][k] = e]
         /\ e.wait > 0 => Level(w, k) < Cost /\ e = [at |-> now, wait |-> wait]
                          /\ Level(w, k)' = Level(w, k)
  <2>1. CASE Admits(w, k)
    <3> DEFINE e == [at |-> 0, wait |-> 0]
    <3>1. e \in [at : Nat, wait : Nat] /\ ~(e.wait > 0)
      OBVIOUS
    <3>2. refused' = [refused EXCEPT ![w][k] = e]
      BY <2>1 DEF Admits
    <3> HIDE DEF e
    <3>3. QED BY <3>1, <3>2
  <2>2. CASE Refuses(w, k)
    <3> DEFINE e == [at |-> now, wait |-> wait]
    <3>1. e \in [at : Nat, wait : Nat]
      BY <1>0, <1>2, <2>2 DEF Refuses
    <3>2. refused' = [refused EXCEPT ![w][k] = e]
      BY <2>2 DEF Refuses, wait
    <3>3. Level(w, k) < Cost /\ Level(w, k)' = Level(w, k)
      BY <2>2 DEF Refuses
    <3>4. QED BY <3>1, <3>2, <3>3
  <2>3. QED BY <1>0, <2>1, <2>2
<1>5. PICK e \in [at : Nat, wait : Nat] :
         /\ refused' = [refused EXCEPT ![w][k] = e]
         /\ e.wait > 0 => Level(w, k) < Cost /\ e = [at |-> now, wait |-> wait]
                          /\ Level(w, k)' = Level(w, k)
  BY <1>4
<1>6. /\ refused' \in [Workers -> [Keys -> [at : Nat, wait : Nat]]]
      /\ refused'[w][k] = e
      /\ \A v \in Workers, j \in Keys :
           <<v, j>> # <<w, k>> => refused'[v][j] = refused[v][j]
  BY <1>5
<1>7. ASSUME NEW v \in Workers, NEW j \in Keys PROVE WaitInv(v, j)'
  <2>1. CASE <<v, j>> # <<w, k>>
    <3>1. Level(v, j)' = Level(v, j) /\ refused'[v][j] = refused[v][j]
      BY <1>6, <2>1, CheckIsAdmit
    <3>2. WaitInv(v, j)
      OBVIOUS
    <3>3. QED BY <1>0, <3>1, <3>2 DEF WaitInv
  <2>2. CASE v = w /\ j = k
    <3> SUFFICES ASSUME e.wait > 0, Rate[k[1]] > 0
                 PROVE  /\ e.at <= now /\ now < e.at + e.wait
                        /\ Level(w, k)' + (e.at + e.wait - now) * Rate[k[1]] >= Cost
      BY <1>0, <1>6, <2>2 DEF WaitInv
    <3>1. /\ e.at = now /\ e.wait = wait /\ Level(w, k)' = Level(w, k)
          /\ wait \in Nat /\ wait > 0 /\ Level(w, k) + wait * Rate[k[1]] >= Cost
      BY <1>2, <1>5
    <3>2. e.at + e.wait - now = wait
      BY <1>0, <3>1
    <3>3. QED BY <1>0, <3>1, <3>2
  <2>3. QED BY <2>1, <2>2
<1>8. QED BY <1>0, <1>3, <1>6, <1>7

\* A second less to wait is a second's refill more in the bucket.
LEMMA TickWaits ==
  ASSUME PatientInv, Tick
  PROVE  PatientInv'
<1> USE DEF PatientInv
<1>1. /\ LimiterInv' /\ now \in Nat /\ now' = now + 1 /\ Cost \in Nat
      /\ UNCHANGED <<admitted, refused>>
  BY TickIsRise, LimiterAssumption DEF LimiterInv, Tick
<1>2. ASSUME NEW w \in Workers, NEW k \in Keys PROVE WaitInv(w, k)'
  <2> DEFINE r == refused[w][k]
             R == Rate[k[1]]
             L == Level(w, k)
  <2>1. /\ L \in Nat /\ R \in Nat /\ L <= Full(k) /\ Full(k) \in Nat
        /\ r.at \in Nat /\ r.wait \in Nat /\ refused'[w][k] = r
    BY <1>1, LevelType, Limits
  <2>2. Level(w, k)' = Capped(k, L + R)
    BY TickIsRise
  <2> SUFFICES ASSUME r.wait > 0, R > 0, Burst[k[1]] > 0
               PROVE  \/ Level(w, k)' >= Cost
                      \/ /\ r.at <= now' /\ now' < r.at + r.wait
                         /\ Level(w, k)' + (r.at + r.wait - now') * R >= Cost
    BY <2>1 DEF WaitInv
  <2>3. Full(k) >= Cost
    <3>1. Burst[k[1]] \in Nat /\ Burst[k[1]] >= 1 /\ 1 \in Nat
      BY LimiterAssumption DEF Keys
    <3>2. 1 * Cost <= Burst[k[1]] * Cost
      BY <1>1, <3>1, MoreTicks
    <3>3. QED BY <1>1, <2>1, <3>2 DEF Full
  <2>4. \/ L >= Cost
        \/ r.at <= now /\ now < r.at + r.wait /\ L + (r.at + r.wait - now) * R >= Cost
    BY DEF WaitInv
  <2> HIDE DEF L, R, r
  <2>5. Level(w, k)' = Full(k) \/ Level(w, k)' = L + R
    BY <2>2 DEF Capped
  <2>6. CASE Level(w, k)' = Full(k) \/ L >= Cost
    BY <1>1, <2>1, <2>3, <2>5, <2>6
  <2>7. CASE /\ Level(w, k)' = L + R
             /\ r.at <= now /\ now < r.at + r.wait
             /\ L + (r.at + r.wait - now) * R >= Cost
    <3> DEFINE n == r.at + r.wait - now'
    <3>1. n \in Nat /\ r.at + r.wait - now = n + 1
      <4>1. now < r.at + r.wait /\ now \in Nat /\ now' = now + 1
            /\ r.at \in Nat /\ r.wait \in Nat
        BY <1>1, <2>1, <2>7
      <4>2. QED BY <4>1
    <3>2. (n + 1) * R = n * R + R /\ n * R \in Nat
      BY <2>1, <3>1, OneTick, Product
    <3>3. Level(w, k)' + n * R >= Cost
      <4> HIDE DEF n
      <4>1. QED BY <1>1, <2>1, <2>7, <3>1, <3>2
    <3>4. n = 0 => n * R = 0
      <4> HIDE DEF n
      <4>1. 0 * R = 0
        BY <2>1
      <4>2. QED BY <4>1
    <3>5. n = 0 \/ now' < r.at + r.wait
      BY <1>1, <2>1, <3>1
    <3> HIDE DEF n
    <3>6. CASE n = 0
      BY <1>1, <2>1, <2>7, <3>3, <3>4, <3>6
    <3>7. CASE now' < r.at + r.wait
      BY <1>1, <2>1, <2>7, <3>3, <3>7 DEF n
    <3>8. QED BY <3>5, <3>6, <3>7
  <2>8. QED BY <2>4, <2>5, <2>6, <2>7
<1>3. QED BY <1>1, <1>2

\* The invariant holds when the workers start, and every step keeps it.
LEMMA PatientStep ==
  /\ Init => PatientInv
  /\ PatientInv /\ [Next]_vars => PatientInv'
<1>1. Init => PatientInv
  <2> SUFFICES ASSUME Init PROVE PatientInv
    OBVIOUS
  <2>1. LimiterInv
    BY DEF Init, LimiterInv, Sound
  <2>2. QED BY <2>1 DEF Init, PatientInv, WaitInv
<1>2. ASSUME PatientInv, UNCHANGED vars PROVE PatientInv'
  <2>1. \A w \in Workers, k \in Keys : Level(w, k)' = Level(w, k)
    BY <1>2 DEF vars, Level, Refilled, Capped, Full
  <2>2. QED BY <1>2, <2>1 DEF vars, PatientInv, LimiterInv, Sound, Full, WaitInv
<1>3. QED BY <1>1, <1>2, CheckWaits, TickWaits DEF Next, Quiet

\* Retry-After is honest for every rate and burst, whatever else the client and
\* others send and whenever the buckets are swept (RetryAfterSuffices).
THEOREM RetryAfterIsEnough == Spec => []RetryAfterSuffices
<1>1. PatientInv => RetryAfterSuffices
  <2> SUFFICES ASSUME PatientInv, NEW w \in Workers, NEW k \in Keys,
                      refused[w][k].wait > 0, Rate[k[1]] > 0, Burst[k[1]] > 0,
                      now >= refused[w][k].at + refused[w][k].wait
               PROVE  Level(w, k) >= Cost
    BY DEF RetryAfterSuffices
  <2>1. WaitInv(w, k) /\ refused[w][k].at \in Nat /\ refused[w][k].wait \in Nat
        /\ now \in Nat
    BY DEF PatientInv, LimiterInv
  <2>2. QED BY <2>1 DEF WaitInv
<1>2. QED BY <1>1, PatientStep, PTL DEF Spec


\* One more request through: a token less in the bucket and one more spent.
LEMMA CheckSpends ==
  ASSUME SpendInv, \A v, w \in Workers : v = w,
         NEW w \in Workers, NEW k \in Keys, Check(w, k)
  PROVE  SpendInv'
<1>1. /\ PatientInv' /\ LimiterInv /\ LimiterInv' /\ now \in Nat /\ now' = now
      /\ Cost \in Nat /\ Full(k) \in Nat /\ Rate[k[1]] \in Nat
      /\ admitted \in [Keys -> Seq(Nat)] /\ WithinRate /\ SpentInv(w, k)
      /\ Admits(w, k) \/ Refuses(w, k)
  BY CheckWaits, CheckIsAdmit, LimiterAssumption, Limits DEF SpendInv, PatientInv, LimiterInv
<1>2. ASSUME NEW v \in Workers, NEW j \in Keys,
             admitted'[j] = admitted[j], Level(v, j)' = Level(v, j)
      PROVE  SpentInv(v, j)'
  BY <1>1, <1>2 DEF SpendInv, SpentInv, Full
<1>3. CASE Refuses(w, k)
  <2>1. ASSUME NEW v \in Workers, NEW j \in Keys PROVE Level(v, j)' = Level(v, j)
    <3>1. CASE j = k
      <4>1. v = w /\ Level(w, k)' = Level(w, k)
        BY <1>3 DEF Refuses
      <4>2. QED BY <3>1, <4>1
    <3>2. CASE j # k
      BY <1>1, <3>2, CheckIsAdmit
    <3>3. QED BY <3>1, <3>2
  <2>2. admitted' = admitted
    BY <1>3 DEF Refuses
  <2>3. \A v \in Workers, j \in Keys : SpentInv(v, j)'
    BY <1>2, <2>1, <2>2
  <2>4. WithinRate'
    BY <1>1, <2>2 DEF WithinRate, Full
  <2>5. QED BY <1>1, <2>3, <2>4 DEF SpendInv
<1>4. CASE Admits(w, k)
  <2> DEFINE s == admitted[k]
             n == Len(s)
             L == Level(w, k)
  <2>1. /\ s \in Seq(Nat) /\ n \in Nat /\ L \in Nat /\ L <= Full(k) /\ L >= Cost
        /\ Level(w, k)' = L - Cost
    BY <1>1, <1>4, LevelType DEF Admits
  <2>2. /\ admitted'[k] = Append(s, now)
        /\ \A j \in Keys : j # k => admitted'[j] = admitted[j]
    BY <1>1, <1>4 DEF Admits
  <2>3. ASSUME NEW i \in 1 .. n
        PROVE  /\ s[i] \in Nat /\ s[i] <= now
               /\ (n - i + 1) * Cost + L <= Full(k) + (now - s[i]) * Rate[k[1]]
    <3>1. s[i] \in Nat
      BY <2>1
    <3>2. QED BY <1>1, <3>1 DEF SpentInv
  <2> DEFINE t == admitted'[k]
  <2>4. /\ Len(t) = n + 1 /\ t[n + 1] = now
        /\ \A i \in 1 .. n : t[i] = s[i]
    BY <1>1, <2>1, <2>2
  <2> HIDE DEF s, n, L, t
  <2>5. ASSUME NEW i \in 1 .. n + 1
        PROVE  /\ t[i] \in Nat /\ t[i] <= now
               /\ (n + 1 - i + 1) * Cost + (L - Cost) <= Full(k) + (now - t[i]) * Rate[k[1]]
    <3>1. CASE i = n + 1
      <4>1. n + 1 - i + 1 = 1 /\ 1 * Cost = Cost /\ now - t[i] = 0 /\ 0 * Rate[k[1]] = 0
        BY <1>1, <2>1, <2>4, <3>1
      <4>2. QED BY <1>1, <2>1, <2>4, <3>1, <4>1
    <3>2. CASE i \in 1 .. n
      <4>1. n - i + 1 \in Nat /\ n + 1 - i + 1 = (n - i + 1) + 1 /\ now - s[i] \in Nat
        <5>1. s[i] \in Nat /\ s[i] <= now /\ now \in Nat /\ n \in Nat
          BY <1>1, <2>1, <2>3, <3>2
        <5>2. QED BY <3>2, <5>1
      <4>2. (n + 1 - i + 1) * Cost = (n - i + 1) * Cost + Cost
        BY <1>1, <4>1, OneTick
      <4>3. (n - i + 1) * Cost \in Nat /\ (now - s[i]) * Rate[k[1]] \in Nat
        BY <1>1, <4>1, Product
      <4>4. (n - i + 1) * Cost + L <= Full(k) + (now - s[i]) * Rate[k[1]]
            /\ t[i] = s[i] /\ s[i] \in Nat /\ s[i] <= now
        BY <2>3, <2>4, <3>2
      <4>5. QED BY <1>1, <2>1, <4>2, <4>3, <4>4
    <3>3. QED BY <2>1, <3>1, <3>2
  <2>6. ASSUME NEW v \in Workers, NEW j \in Keys PROVE SpentInv(v, j)'
    <3>1. CASE j = k
      <4>1. v = w
        OBVIOUS
      <4>2. SpentInv(w, k)'
        BY <1>1, <2>1, <2>4, <2>5 DEF SpentInv, Full, t
      <4>3. QED BY <3>1, <4>1, <4>2
    <3>2. CASE j # k
      <4>1. Level(v, j)' = Level(v, j)
        BY <3>2, <1>1, CheckIsAdmit
      <4>2. QED BY <1>2, <2>2, <3>2, <4>1
    <3>3. QED BY <3>1, <3>2
  <2>7. ASSUME NEW i \in 1 .. n + 1, NEW j \in 1 .. n + 1, i <= j
        PROVE  (j - i + 1) * Cost <= Full(k) + (t[j] - t[i]) * Rate[k[1]]
    <3>1. CASE j = n + 1
      <4>1. n + 1 - i + 1 \in Nat /\ now - t[i] \in Nat
        <5>1. t[i] \in Nat /\ t[i] <= now /\ now \in Nat /\ n \in Nat
          BY <1>1, <2>1, <2>5
        <5>2. QED BY <5>1
      <4>2. (n + 1 - i + 1) * Cost \in Nat /\ (now - t[i]) * Rate[k[1]] \in Nat
        BY <1>1, <4>1, Product
      <4>3. (n + 1 - i + 1) * Cost <= Full(k) + (now - t[i]) * Rate[k[1]]
        BY <1>1, <2>1, <2>5, <4>2
      <4>4. j - i + 1 = n + 1 - i + 1 /\ t[j] - t[i] = now - t[i]
        <5>1. t[j] = now
          BY <2>1, <2>4, <3>1, Zenon
        <5>2. t[j] - t[i] = now - t[i]
          BY <5>1, Zenon
        <5>3. n \in Nat /\ i \in Nat
          BY <2>1
        <5>4. j - i + 1 = n + 1 - i + 1
          BY <3>1, <5>3
        <5>5. QED BY ONLY <5>2, <5>4
      <4>5. QED BY ONLY <4>3, <4>4
    <3>2. CASE j \in 1 .. n
      <4>1. i \in 1 .. n
        BY <2>1, <2>7, <3>2
      <4>2. i \in DOMAIN s /\ j \in DOMAIN s
        BY <2>1, <3>2, <4>1 DEF n
      <4>3. (j - i + 1) * Cost <= Full(k) + (s[j] - s[i]) * Rate[k[1]]
        BY <1>1, <2>7, <4>2 DEF WithinRate, s
      <4>4. QED BY <2>4, <3>2, <4>1, <4>3
    <3>3. QED BY <2>1, <3>1, <3>2
  <2>8. WithinRate'
    <3>1. DOMAIN t = 1 .. n + 1
      BY <1>1, <2>1, <2>2, <2>4 DEF t
    <3>2. ASSUME NEW h \in Keys, NEW i \in DOMAIN admitted'[h],
                 NEW j \in DOMAIN admitted'[h], i <= j
          PROVE  (j - i + 1) * Cost
                   <= Full(h) + (admitted'[h][j] - admitted'[h][i]) * Rate[h[1]]
      <4>1. CASE h = k
        BY <2>7, <3>1, <3>2, <4>1 DEF t
      <4>2. CASE h # k
        BY <1>1, <2>2, <3>2, <4>2 DEF WithinRate
      <4>3. QED BY <4>1, <4>2
    <3>3. QED BY <3>2 DEF WithinRate, Full
  <2>9. QED BY <1>1, <2>6, <2>8 DEF SpendInv
<1>5. QED BY <1>1, <1>3, <1>4

\* A tick adds a refill to the window and no more than that to the bucket.
LEMMA TickSpends ==
  ASSUME SpendInv, Tick
  PROVE  SpendInv'
<1>1. /\ PatientInv' /\ LimiterInv /\ LimiterInv' /\ now \in Nat /\ now' = now + 1
      /\ Cost \in Nat /\ admitted \in [Keys -> Seq(Nat)] /\ admitted' = admitted
      /\ WithinRate
  BY TickWaits, TickIsRise, LimiterAssumption DEF SpendInv, PatientInv, LimiterInv, Tick
<1>2. WithinRate'
  BY <1>1 DEF WithinRate, Full
<1>3. ASSUME NEW w \in Workers, NEW k \in Keys PROVE SpentInv(w, k)'
  <2> DEFINE s == admitted[k]
             L == Level(w, k)
             R == Rate[k[1]]
  <2>1. /\ s \in Seq(Nat) /\ L \in Nat /\ R \in Nat /\ Full(k) \in Nat
    BY <1>1, LevelType, Limits
  <2>2. Level(w, k)' \in Nat /\ Level(w, k)' <= L + R
    <3>1. Level(w, k)' = Capped(k, L + R)
      BY <1>1, TickIsRise
    <3> HIDE DEF L, R
    <3>2. QED BY <2>1, <3>1 DEF Capped
  <2>3. ASSUME NEW i \in 1 .. Len(s)
        PROVE  /\ s[i] <= now'
               /\ (Len(s) - i + 1) * Cost + Level(w, k)' <= Full(k) + (now' - s[i]) * R
    <3>1. /\ s[i] \in Nat /\ s[i] <= now
          /\ (Len(s) - i + 1) * Cost + L <= Full(k) + (now - s[i]) * R
      BY <2>1 DEF SpendInv, SpentInv
    <3>2. now - s[i] \in Nat /\ now' - s[i] = (now - s[i]) + 1 /\ Len(s) - i + 1 \in Nat
      <4>1. s[i] \in Nat /\ s[i] <= now /\ Len(s) \in Nat
        BY <2>1, <3>1
      <4>2. QED BY <1>1, <4>1
    <3> HIDE DEF s, L, R
    <3>3. /\ (now' - s[i]) * R = (now - s[i]) * R + R
          /\ (now - s[i]) * R \in Nat /\ (Len(s) - i + 1) * Cost \in Nat
      BY <1>1, <2>1, <3>2, OneTick, Product
    <3> DEFINE spent == (Len(s) - i + 1) * Cost
               back  == (now - s[i]) * R
    <3>4. /\ spent \in Nat /\ back \in Nat /\ spent + L <= Full(k) + back
          /\ (now' - s[i]) * R = back + R
      BY <3>1, <3>3
    <3> HIDE DEF spent, back
    <3>5. spent + Level(w, k)' <= Full(k) + (back + R)
      BY <2>1, <2>2, <3>4
    <3>6. s[i] <= now'
      BY <1>1, <3>1
    <3>7. QED BY <3>4, <3>5, <3>6 DEF spent
  <2>4. QED BY <1>1, <2>3 DEF SpentInv, Full
<1>4. QED BY <1>1, <1>2, <1>3 DEF SpendInv

\* A key gets no more through than its burst and the refill, for every rate and
\* burst and however the requests fall, if one process serves them all
\* (WithinRate); each process more has a bucket of its own to give.
THEOREM OneWorkerKeepsRate ==
  ASSUME \A v, w \in Workers : v = w
  PROVE  Spec => []WithinRate
<1>1. Init => SpendInv
  <2>1. Init => WithinRate /\ \A w \in Workers, k \in Keys : SpentInv(w, k)
    BY DEF Init, WithinRate, SpentInv
  <2>2. QED BY <2>1, PatientStep DEF SpendInv
<1>2. SpendInv /\ [Next]_vars => SpendInv'
  <2>1. ASSUME SpendInv, UNCHANGED vars PROVE SpendInv'
    <3>1. \A w \in Workers, k \in Keys : Level(w, k)' = Level(w, k)
      BY <2>1 DEF vars, Level, Refilled, Capped, Full
    <3>2. PatientInv'
      BY <2>1, PatientStep DEF SpendInv
    <3>3. QED BY <2>1, <3>1, <3>2 DEF vars, SpendInv, WithinRate, SpentInv, Full
  <2>2. QED BY <2>1, CheckSpends, TickSpends DEF Next, Quiet
<1>3. SpendInv => WithinRate
  BY DEF SpendInv
<1>4. QED BY <1>1, <1>2, <1>3, PTL DEF Spec

----------------------------------------------------------------------------
(* The access log, the other part of server/middleware.py with a thread of *)
(* its own: whatever workers, limits and failures, an entry moves from its  *)
(* worker's queue to the flush under way and on to the table, in order.     *)

CONSTANTS QueueMax, Retention, MaxRequests, MaxFaults

VARIABLES answered, queue, taken, flusher, rows, lastId, excused, faults

Log == INSTANCE AccessLog

Increasing(q) == \A i, j \in DOMAIN q : i < j => q[i] < q[j]
Before(D, E) == \A d \in D, e \in E : d < e

LogRow == [id : Nat, entry : Nat, at : Nat, worker : Workers]
RowsOf(w) == {r \in rows : r.worker = w}
EntriesOf(w) == {r.entry : r \in RowsOf(w)}

\* All that worker w has answered and not lost.
LineOf(w) == EntriesOf(w) \cup Log!Entries(taken[w]) \cup Log!Entries(queue[w])

LogTypeInv ==
  /\ now \in Nat /\ now <= MaxNow /\ answered \in Nat /\ answered <= MaxRequests
  /\ queue \in [Workers -> Seq(Nat)] /\ taken \in [Workers -> Seq(Nat)]
  /\ flusher \in [Workers -> {"sleep", "write"}]
  /\ rows \subseteq LogRow /\ lastId \in Nat
  /\ \A r \in rows : r.at <= now /\ r.id <= lastId
  /\ \A w \in Workers :
       /\ Len(queue[w]) <= QueueMax
       /\ taken[w] # <<>> => flusher[w] = "write"

\* The line of a worker is in order: table, flush, queue.
LineInv ==
  \A w \in Workers :
    /\ Increasing(taken[w]) /\ Increasing(queue[w])
    /\ Before(EntriesOf(w), Log!Entries(taken[w]) \cup Log!Entries(queue[w]))
    /\ Before(Log!Entries(taken[w]), Log!Entries(queue[w]))

\* Nothing is in two lines, nor ahead of the requests answered.
ApartInv ==
  /\ \A w \in Workers : \A e \in LineOf(w) : e <= answered
  /\ \A v, w \in Workers : v # w => LineOf(v) \cap LineOf(w) = {}

\* Inductive.
LogInv == LogTypeInv /\ LineInv /\ ApartInv /\ Log!LoggedOnceInOrder

\* The entries of a worker are numbers.
LEMMA LinesAreNumbers ==
  ASSUME LogTypeInv PROVE \A w \in Workers : LineOf(w) \subseteq Nat
<1> SUFFICES ASSUME NEW w \in Workers PROVE LineOf(w) \subseteq Nat
  OBVIOUS
<1>1. EntriesOf(w) \subseteq Nat
  BY DEF LogTypeInv, EntriesOf, RowsOf, LogRow
<1>2. \A q \in Seq(Nat) : Log!Entries(q) \subseteq Nat
  BY DEF Log!Entries
<1>3. QED BY <1>1, <1>2 DEF LineOf, LogTypeInv

\* A step that shortens the lines keeps them in order and apart.
LEMMA ShorterLines ==
  ASSUME LogInv, answered <= answered', rows' \subseteq rows, answered' \in Nat,
         \A w \in Workers :
           /\ Log!Entries(taken'[w]) \subseteq Log!Entries(taken[w]) \cup Log!Entries(queue[w])
           /\ Log!Entries(queue'[w]) \subseteq Log!Entries(queue[w])
  PROVE  /\ ApartInv' /\ Log!LoggedOnceInOrder'
         /\ \A w \in Workers :
              Before(EntriesOf(w), Log!Entries(taken[w]) \cup Log!Entries(queue[w]))'
<1>1. \A w \in Workers : EntriesOf(w)' \subseteq EntriesOf(w)
  BY DEF EntriesOf, RowsOf
<1>2. \A w \in Workers : LineOf(w)' \subseteq LineOf(w)
  BY <1>1 DEF LineOf, Log!Entries
<1>3. ApartInv'
  <2>1. \A w \in Workers : LineOf(w) \subseteq Nat
    BY LinesAreNumbers DEF LogInv
  <2>2. answered \in Nat
    BY DEF LogInv, LogTypeInv
  <2>3. QED BY <1>2, <2>1, <2>2 DEF LogInv, ApartInv
<1>4. Log!LoggedOnceInOrder'
  BY DEF LogInv, Log!LoggedOnceInOrder
<1>5. QED BY <1>1, <1>3, <1>4 DEF LogInv, LineInv, Before, Log!Entries

\* A queue that an entry was appended to, and what is left when it drops its first.
LEMMA Appending ==
  ASSUME NEW q \in Seq(Nat), NEW e \in Nat, Increasing(q), Before(Log!Entries(q), {e})
  PROVE  LET p == Append(q, e)
             t == Tail(p)
         IN  /\ p \in Seq(Nat) /\ Len(p) = Len(q) + 1
             /\ Increasing(p) /\ Log!Entries(p) = Log!Entries(q) \cup {e}
             /\ t \in Seq(Nat) /\ Len(t) = Len(q)
             /\ Increasing(t) /\ Log!Entries(t) \subseteq Log!Entries(p)
<1> DEFINE p == Append(q, e)
           t == Tail(p)
<1>1. /\ p \in Seq(Nat) /\ Len(p) = Len(q) + 1 /\ Len(q) \in Nat /\ DOMAIN p = 1 .. Len(p)
      /\ DOMAIN q = 1 .. Len(q)
      /\ \A i \in 1 .. Len(q) : p[i] = q[i] /\ q[i] \in Nat
      /\ p[Len(q) + 1] = e
  OBVIOUS
<1>2. /\ t \in Seq(Nat) /\ Len(t) = Len(q) /\ DOMAIN t = 1 .. Len(t)
      /\ \A i \in 1 .. Len(t) : t[i] = p[i + 1] /\ i + 1 \in 1 .. Len(p)
  OBVIOUS
<1> HIDE DEF p, t
<1>3. \A i \in 1 .. Len(q) : q[i] < e
  BY <1>1 DEF Before, Log!Entries
<1>4. Increasing(p)
  <2> SUFFICES ASSUME NEW i \in 1 .. Len(p), NEW j \in 1 .. Len(p), i < j PROVE p[i] < p[j]
    BY <1>1 DEF Increasing
  <2>1. i \in 1 .. Len(q) /\ p[i] = q[i]
    BY <1>1
  <2>2. CASE j \in 1 .. Len(q)
    <3>1. q[i] < q[j]
      BY <1>1, <2>1, <2>2 DEF Increasing
    <3>2. QED BY <1>1, <2>1, <2>2, <3>1
  <2>3. CASE j = Len(q) + 1
    <3>1. q[i] < e
      BY <1>3, <2>1
    <3>2. QED BY <1>1, <2>1, <2>3, <3>1
  <2>4. QED BY <1>1, <2>2, <2>3
<1>5. Log!Entries(p) = Log!Entries(q) \cup {e}
  <2>1. Log!Entries(p) = {p[i] : i \in 1 .. Len(p)} /\ Log!Entries(q) = {q[i] : i \in 1 .. Len(q)}
    BY <1>1 DEF Log!Entries
  <2>2. 1 .. Len(p) = (1 .. Len(q)) \cup {Len(q) + 1}
    BY <1>1
  <2>3. p[Len(q) + 1] = e /\ \A i \in 1 .. Len(q) : p[i] = q[i]
    BY <1>1
  <2>4. ASSUME NEW x \in Log!Entries(p) PROVE x \in Log!Entries(q) \cup {e}
    <3>1. PICK i \in 1 .. Len(p) : x = p[i]
      BY <2>1
    <3>2. CASE i \in 1 .. Len(q)
      BY <2>1, <2>3, <3>1, <3>2
    <3>3. CASE i = Len(q) + 1
      BY <2>3, <3>1, <3>3
    <3>4. QED BY <2>2, <3>2, <3>3
  <2>5. ASSUME NEW x \in Log!Entries(q) PROVE x \in Log!Entries(p)
    <3>1. PICK i \in 1 .. Len(q) : x = q[i]
      BY <2>1
    <3>2. i \in 1 .. Len(p) /\ x = p[i]
      BY <2>2, <2>3, <3>1
    <3>3. QED BY <2>1, <3>2
  <2>6. e \in Log!Entries(p)
    <3>1. Len(q) + 1 \in 1 .. Len(p)
      BY <2>2
    <3>2. QED BY <2>1, <2>3, <3>1
  <2>7. QED BY <2>4, <2>5, <2>6
<1>6. Increasing(t)
  <2> SUFFICES ASSUME NEW i \in 1 .. Len(t), NEW j \in 1 .. Len(t), i < j PROVE t[i] < t[j]
    BY <1>2 DEF Increasing
  <2>1. i + 1 \in 1 .. Len(p) /\ j + 1 \in 1 .. Len(p) /\ i + 1 < j + 1
    BY <1>2
  <2>2. p[i + 1] < p[j + 1]
    BY <1>1, <1>4, <2>1 DEF Increasing
  <2>3. QED BY <1>2, <2>2
<1>7. Log!Entries(t) \subseteq Log!Entries(p)
  <2>1. Log!Entries(p) = {p[i] : i \in 1 .. Len(p)} /\ Log!Entries(t) = {t[i] : i \in 1 .. Len(t)}
    BY <1>1, <1>2 DEF Log!Entries
  <2>2. QED BY <1>2, <2>1
<1>8. QED BY <1>1, <1>2, <1>4, <1>5, <1>6, <1>7 DEF p, t

\* A request answered goes to the end of its worker's line, whose first entry of the
\* queue may go.
LEMMA RespondKeeps ==
  ASSUME Log!AccessLogAssumption, LogInv, NEW w \in Workers, Log!Respond(w)
  PROVE  LogInv'
<1> DEFINE e == answered'
           q == queue'[w]
<1>1. /\ answered \in Nat /\ answered < MaxRequests /\ e = answered + 1 /\ QueueMax \in Nat
      /\ queue[w] \in Seq(Nat) /\ Len(queue[w]) <= QueueMax /\ Increasing(queue[w])
      /\ queue' = [queue EXCEPT ![w] = Log!Appended(w, e)]
      /\ UNCHANGED <<now, taken, flusher, rows, lastId>>
  BY DEF LogInv, LogTypeInv, LineInv, Log!Respond, Log!AccessLogAssumption
<1>2. /\ \A v \in Workers : LineOf(v) \subseteq Nat /\ \A d \in LineOf(v) : d < e
      /\ \A v \in Workers : Log!Entries(queue[v]) \subseteq LineOf(v)
      /\ \A v \in Workers : EntriesOf(v) \cup Log!Entries(taken[v]) \subseteq LineOf(v)
  <2>1. \A v \in Workers : LineOf(v) \subseteq Nat
    BY LinesAreNumbers DEF LogInv
  <2>2. \A v \in Workers : \A d \in LineOf(v) : d < e
    BY <1>1, <2>1 DEF LogInv, ApartInv
  <2>3. QED BY <2>1, <2>2 DEF LineOf
<1>3. Before(Log!Entries(queue[w]), {e})
  BY <1>2 DEF Before
<1>4. /\ q \in Seq(Nat) /\ Len(q) <= QueueMax /\ Increasing(q)
      /\ Log!Entries(q) \subseteq Log!Entries(queue[w]) \cup {e}
  <2>1. q = Log!Appended(w, e)
    BY <1>1 DEF LogInv, LogTypeInv
  <2>2. e \in Nat /\ Len(queue[w]) \in Nat
    BY <1>1
  <2> HIDE DEF e, q
  <2>3. QED BY <1>1, <1>3, <2>1, <2>2, Appending DEF Log!Appended
<1> HIDE DEF e, q
<1>5. \A v \in Workers \ {w} : queue'[v] = queue[v]
  BY <1>1 DEF LogInv, LogTypeInv
<1>6. \A v \in Workers : EntriesOf(v)' = EntriesOf(v)
  BY <1>1 DEF EntriesOf, RowsOf
<1>7. LogTypeInv'
  <2>1. \A v \in Workers : queue'[v] \in Seq(Nat) /\ Len(queue'[v]) <= QueueMax
    BY <1>4, <1>5 DEF LogInv, LogTypeInv, q
  <2>2. queue' \in [Workers -> Seq(Nat)]
    BY <1>1, <2>1 DEF LogInv, LogTypeInv
  <2>3. answered' \in Nat /\ answered' <= MaxRequests
    BY <1>1 DEF LogInv, LogTypeInv, e, Log!AccessLogAssumption
  <2>4. QED BY <1>1, <2>1, <2>2, <2>3 DEF LogInv, LogTypeInv
<1>8. LineInv'
  <2> SUFFICES ASSUME NEW v \in Workers
               PROVE  /\ Increasing(taken'[v]) /\ Increasing(queue'[v])
                      /\ Before(EntriesOf(v)', Log!Entries(taken'[v]) \cup Log!Entries(queue'[v]))
                      /\ Before(Log!Entries(taken'[v]), Log!Entries(queue'[v]))
    BY DEF LineInv, Log!Entries
  <2>1. CASE v # w
    BY <1>1, <1>5, <1>6, <2>1 DEF LogInv, LineInv
  <2>2. CASE v = w
    BY <1>1, <1>2, <1>4, <1>6, <2>2 DEF LogInv, LineInv, Before, q
  <2>3. QED BY <2>1, <2>2
<1>9. ApartInv'
  <2>1. \A v \in Workers : LineOf(v)' \subseteq LineOf(v) \cup (IF v = w THEN {e} ELSE {})
    <3>1. \A v \in Workers : /\ EntriesOf(v)' = EntriesOf(v)
                              /\ Log!Entries(taken[v])' = Log!Entries(taken[v])
      BY <1>1, <1>6 DEF Log!Entries
    <3>2. \A v \in Workers \ {w} : Log!Entries(queue[v])' = Log!Entries(queue[v])
      BY <1>5 DEF Log!Entries
    <3>3. Log!Entries(queue[w])' \subseteq Log!Entries(queue[w]) \cup {e}
      BY <1>4 DEF Log!Entries, q
    <3>4. QED BY <3>1, <3>2, <3>3 DEF LineOf
  <2>2. \A v \in Workers : \A d \in LineOf(v)' : d <= e
    BY <1>1, <1>2, <2>1 DEF e
  <2>3. \A v, u \in Workers : v # u => LineOf(v) \cap LineOf(u) = {}
    BY DEF LogInv, ApartInv
  <2>4. \A v \in Workers : e \notin LineOf(v)
    BY <1>1, <1>2 DEF e
  <2>5. QED BY <2>1, <2>2, <2>3, <2>4 DEF ApartInv, e
<1>10. Log!LoggedOnceInOrder'
  BY <1>1 DEF LogInv, Log!LoggedOnceInOrder
<1>11. QED BY <1>7, <1>8, <1>9, <1>10 DEF LogInv

\* A queue or a flush that is emptied has no entries, and is in order.
LEMMA Emptied == <<>> \in Seq(Nat) /\ Len(<<>>) = 0 /\ Log!Entries(<<>>) = {} /\ Increasing(<<>>)
BY DEF Log!Entries, Increasing

\* The thread takes the queue, and a failure or a crash empties what it hits.
LEMMA MovesKeep ==
  ASSUME Log!AccessLogAssumption, LogInv, NEW w \in Workers,
         Log!Take(w) \/ Log!Fail(w) \/ Log!Crash(w)
  PROVE  LogInv'
<1>1. /\ UNCHANGED <<now, answered, rows, lastId>>
      /\ queue' \in [Workers -> Seq(Nat)] /\ taken' \in [Workers -> Seq(Nat)]
      /\ flusher' \in [Workers -> {"sleep", "write"}]
      /\ \A v \in Workers \ {w} :
           queue'[v] = queue[v] /\ taken'[v] = taken[v] /\ flusher'[v] = flusher[v]
      /\ \/ taken'[w] = queue[w] /\ queue'[w] = <<>> /\ flusher'[w] = "write"
         \/ taken'[w] = <<>> /\ queue'[w] = queue[w] /\ flusher'[w] = "sleep"
         \/ taken'[w] = <<>> /\ queue'[w] = <<>> /\ flusher'[w] = "sleep"
  BY Emptied DEF LogInv, LogTypeInv, Log!Take, Log!Fail, Log!Crash
<1>2. \A v \in Workers :
        /\ Log!Entries(taken'[v]) \subseteq Log!Entries(taken[v]) \cup Log!Entries(queue[v])
        /\ Log!Entries(queue'[v]) \subseteq Log!Entries(queue[v])
  BY <1>1, Emptied
<1>3. /\ ApartInv' /\ Log!LoggedOnceInOrder'
      /\ \A v \in Workers :
           Before(EntriesOf(v), Log!Entries(taken[v]) \cup Log!Entries(queue[v]))'
  BY <1>1, <1>2, ShorterLines DEF LogInv, LogTypeInv
<1>4. LogTypeInv'
  <2>1. \A v \in Workers :
          /\ Len(queue'[v]) <= QueueMax
          /\ taken'[v] # <<>> => flusher'[v] = "write"
    <3>1. QueueMax \in Nat /\ \A v \in Workers : Len(queue[v]) <= QueueMax
      BY DEF LogInv, LogTypeInv, Log!AccessLogAssumption
    <3>2. Len(queue'[w]) <= QueueMax /\ (taken'[w] # <<>> => flusher'[w] = "write")
      BY <1>1, <3>1, Emptied
    <3>3. QED BY <1>1, <3>1, <3>2 DEF LogInv, LogTypeInv
  <2>2. QED BY <1>1, <2>1 DEF LogInv, LogTypeInv
<1>5. \A v \in Workers : /\ Increasing(taken'[v]) /\ Increasing(queue'[v])
                         /\ Before(Log!Entries(taken'[v]), Log!Entries(queue'[v]))
  BY <1>1, Emptied DEF LogInv, LineInv, Before
<1>6. LineInv'
  BY <1>3, <1>5 DEF LineInv, Increasing, Before, Log!Entries
<1>7. QED BY <1>3, <1>4, <1>6 DEF LogInv

\* A write puts the flush behind the rows of its worker, under higher ids.
LEMMA WriteKeeps ==
  ASSUME Log!AccessLogAssumption, LogInv, NEW w \in Workers, Log!Write(w)
  PROVE  LogInv'
<1> DEFINE s == taken[w]
           new == Log!Added(w)
<1>1. /\ UNCHANGED <<now, answered, queue>> /\ rows' \subseteq rows \cup new
      /\ lastId' = lastId + Len(s) /\ taken' = [taken EXCEPT ![w] = <<>>]
      /\ flusher' \in [Workers -> {"sleep", "write"}]
      /\ \A v \in Workers \ {w} : flusher'[v] = flusher[v]
  BY DEF Log!Write, LogInv, LogTypeInv
<1>2. /\ now \in Nat /\ answered \in Nat /\ lastId \in Nat /\ rows \subseteq LogRow
      /\ s \in Seq(Nat) /\ Len(s) \in Nat /\ Increasing(s)
      /\ \A i \in 1 .. Len(s) : s[i] \in Nat
      /\ DOMAIN s = 1 .. Len(s) /\ Log!Entries(s) = {s[i] : i \in 1 .. Len(s)}
  <2>1. /\ now \in Nat /\ answered \in Nat /\ lastId \in Nat /\ rows \subseteq LogRow
        /\ s \in Seq(Nat) /\ Increasing(s)
    BY DEF LogInv, LogTypeInv, LineInv
  <2> HIDE DEF s
  <2>2. Len(s) \in Nat /\ DOMAIN s = 1 .. Len(s) /\ \A i \in 1 .. Len(s) : s[i] \in Nat
    BY <2>1
  <2>3. QED BY <2>1, <2>2 DEF Log!Entries
<1>3. /\ \A r \in new : \E i \in 1 .. Len(s) :
           r.id = lastId + i /\ r.entry = s[i] /\ r.at = now /\ r.worker = w
      /\ \A r, t \in new : r # t => \E i, j \in 1 .. Len(s) :
           i # j /\ r.id = lastId + i /\ t.id = lastId + j /\ r.entry = s[i] /\ t.entry = s[j]
      /\ new \subseteq LogRow
  <2>1. new = {[id |-> lastId + i, entry |-> s[i], at |-> now, worker |-> w] : i \in 1 .. Len(s)}
    BY <1>2 DEF Log!Added
  <2>2. \A i \in 1 .. Len(s) : lastId + i \in Nat
    BY <1>2
  <2> HIDE DEF s, new
  <2>3. \A r \in new : \E i \in 1 .. Len(s) :
          r.id = lastId + i /\ r.entry = s[i] /\ r.at = now /\ r.worker = w
    BY <2>1
  <2>4. \A r, t \in new : r # t => \E i, j \in 1 .. Len(s) :
          i # j /\ r.id = lastId + i /\ t.id = lastId + j /\ r.entry = s[i] /\ t.entry = s[j]
    BY <2>1
  <2>5. new \subseteq LogRow
    BY <1>2, <2>1, <2>2 DEF LogRow
  <2>6. QED BY <2>3, <2>4, <2>5
<1> HIDE DEF s, new
<1>4. \A r \in new : /\ r.entry \in Log!Entries(s) /\ r.worker = w /\ r.at = now
                     /\ r.id \in Nat /\ r.id > lastId /\ r.id <= lastId + Len(s)
  <2> SUFFICES ASSUME NEW r \in new
               PROVE  /\ r.entry \in Log!Entries(s) /\ r.worker = w /\ r.at = now
                      /\ r.id \in Nat /\ r.id > lastId /\ r.id <= lastId + Len(s)
    OBVIOUS
  <2>1. PICK i \in 1 .. Len(s) : r.id = lastId + i /\ r.entry = s[i] /\ r.at = now /\ r.worker = w
    BY <1>3
  <2>2. QED BY <1>2, <2>1
<1>5. \A v \in Workers \ {w} : EntriesOf(v)' \subseteq EntriesOf(v) /\ taken'[v] = taken[v]
  BY <1>1, <1>4 DEF EntriesOf, RowsOf, LogInv, LogTypeInv
<1>6. /\ EntriesOf(w)' \subseteq EntriesOf(w) \cup Log!Entries(s)
      /\ taken'[w] = <<>>
  BY <1>1, <1>4 DEF EntriesOf, RowsOf, LogInv, LogTypeInv
<1>7. LogTypeInv'
  <2>1. rows' \subseteq LogRow /\ lastId' \in Nat /\ \A r \in rows' : r.at <= now /\ r.id <= lastId'
    <3>1. \A r \in new : r \in LogRow /\ r.at <= now /\ r.id <= lastId'
      BY <1>1, <1>2, <1>3, <1>4
    <3>2. \A r \in rows : r \in LogRow /\ r.at <= now /\ r.id <= lastId'
      BY <1>1, <1>2 DEF LogInv, LogTypeInv, LogRow
    <3>3. QED BY <1>1, <1>2, <3>1, <3>2
  <2>2. \A v \in Workers : taken'[v] # <<>> => flusher'[v] = "write"
    BY <1>1, <1>6 DEF LogInv, LogTypeInv
  <2>3. taken' \in [Workers -> Seq(Nat)]
    BY <1>1, Emptied DEF LogInv, LogTypeInv
  <2>4. QED BY <1>1, <2>1, <2>2, <2>3 DEF LogInv, LogTypeInv
<1>8. LineInv'
  <2> SUFFICES ASSUME NEW v \in Workers
               PROVE  /\ Increasing(taken'[v]) /\ Increasing(queue[v])
                      /\ Before(EntriesOf(v)', Log!Entries(taken'[v]) \cup Log!Entries(queue[v]))
                      /\ Before(Log!Entries(taken'[v]), Log!Entries(queue[v]))
    BY <1>1 DEF LineInv, Log!Entries
  <2>1. CASE v # w
    BY <1>5, <2>1 DEF LogInv, LineInv, Before
  <2>2. CASE v = w
    BY <1>6, <2>2, Emptied DEF LogInv, LineInv, Before, s
  <2>3. QED BY <2>1, <2>2
<1>9. ApartInv'
  <2>1. \A v \in Workers : LineOf(v)' \subseteq LineOf(v)
    <3>1. \A v \in Workers : Log!Entries(queue[v])' = Log!Entries(queue[v])
      BY <1>1 DEF Log!Entries
    <3>2. \A v \in Workers \ {w} : Log!Entries(taken[v])' = Log!Entries(taken[v])
      BY <1>5 DEF Log!Entries
    <3>3. Log!Entries(taken[w])' = {}
      BY <1>6 DEF Log!Entries
    <3>4. QED BY <1>5, <1>6, <3>1, <3>2, <3>3 DEF LineOf, s
  <2>2. QED BY <1>1, <2>1 DEF LogInv, ApartInv
<1>10. \A r \in rows : \A t \in new :
         /\ r.entry # t.entry /\ r.id < t.id /\ ~ (t.id < r.id)
         /\ r.worker = t.worker => r.entry < t.entry /\ ~ (t.entry < r.entry)
  <2> SUFFICES ASSUME NEW r \in rows, NEW t \in new
               PROVE  /\ r.entry # t.entry /\ r.id < t.id /\ ~ (t.id < r.id)
                      /\ r.worker = t.worker => r.entry < t.entry /\ ~ (t.entry < r.entry)
    OBVIOUS
  <2>1. /\ r.id \in Nat /\ r.entry \in Nat /\ r.worker \in Workers /\ r.id <= lastId
        /\ t.entry \in Nat /\ t.id \in Nat
    BY <1>2, <1>3 DEF LogInv, LogTypeInv, LogRow
  <2>2. r.entry \in EntriesOf(r.worker) /\ t.entry \in Log!Entries(taken[w]) /\ t.worker = w
    BY <1>4 DEF EntriesOf, RowsOf, s
  <2>3. r.worker # w => r.entry # t.entry
    BY <2>1, <2>2 DEF LogInv, ApartInv, LineOf
  <2>4. r.worker = w => r.entry < t.entry
    BY <2>2 DEF LogInv, LineInv, Before
  <2>5. r.id < t.id
    BY <1>2, <1>4, <2>1
  <2>6. QED BY <2>1, <2>2, <2>3, <2>4, <2>5
<1>11. \A r, t \in new : r # t => r.entry # t.entry /\ (r.id < t.id <=> r.entry < t.entry)
  <2> SUFFICES ASSUME NEW r \in new, NEW t \in new, r # t
               PROVE  r.entry # t.entry /\ (r.id < t.id <=> r.entry < t.entry)
    OBVIOUS
  <2>1. PICK i \in 1 .. Len(s), j \in 1 .. Len(s) :
          i # j /\ r.id = lastId + i /\ t.id = lastId + j /\ r.entry = s[i] /\ t.entry = s[j]
    BY <1>3
  <2>2. /\ i < j => s[i] < s[j]
        /\ j < i => s[j] < s[i]
    BY <1>2 DEF Increasing
  <2>3. i \in Nat /\ j \in Nat /\ s[i] \in Nat /\ s[j] \in Nat
    BY <1>2
  <2>4. QED BY <1>2, <2>1, <2>2, <2>3
<1>12. Log!LoggedOnceInOrder'
  <2> SUFFICES ASSUME NEW r \in rows \cup new, NEW t \in rows \cup new, r # t
               PROVE  /\ r.entry # t.entry
                      /\ r.worker = t.worker => (r.id < t.id <=> r.entry < t.entry)
    BY <1>1 DEF Log!LoggedOnceInOrder
  <2>1. CASE r \in rows /\ t \in rows
    BY <2>1 DEF LogInv, Log!LoggedOnceInOrder
  <2>2. CASE r \in new /\ t \in new
    BY <1>11, <2>2
  <2>3. CASE r \in rows /\ t \in new
    BY <1>10, <2>3
  <2>4. CASE r \in new /\ t \in rows
    BY <1>10, <2>4
  <2>5. QED BY <2>1, <2>2, <2>3, <2>4
<1>13. QED BY <1>7, <1>8, <1>9, <1>12 DEF LogInv

\* The invariant is inductive.
LEMMA LogNext ==
  ASSUME Log!AccessLogAssumption, LogInv, [Log!Next]_(Log!vars)
  PROVE  LogInv'
<1>1. CASE Log!Tick \/ Log!Raise \/ UNCHANGED Log!vars
  <2>1. /\ now <= now' /\ now' \in Nat /\ now' <= MaxNow
        /\ answered <= answered' /\ answered' \in Nat /\ answered' <= MaxRequests
        /\ UNCHANGED <<queue, taken, flusher, rows, lastId>>
    BY <1>1 DEF LogInv, LogTypeInv, Log!Tick, Log!Raise, Log!vars, Log!AccessLogAssumption
  <2>2. /\ ApartInv' /\ Log!LoggedOnceInOrder'
        /\ \A w \in Workers :
             Before(EntriesOf(w), Log!Entries(taken[w]) \cup Log!Entries(queue[w]))'
    BY <2>1, ShorterLines
  <2>3. LineInv'
    BY <2>1, <2>2 DEF LogInv, LineInv, Increasing, Before, Log!Entries
  <2>4. LogTypeInv'
    <3>1. \A r \in rows' : r.at <= now' /\ r.id <= lastId'
      BY <2>1 DEF LogInv, LogTypeInv, LogRow
    <3>2. QED BY <2>1, <3>1 DEF LogInv, LogTypeInv
  <2>5. QED BY <2>2, <2>3, <2>4 DEF LogInv
<1>2. ASSUME NEW w \in Workers,
             Log!Respond(w) \/ Log!Take(w) \/ Log!Write(w) \/ Log!Fail(w) \/ Log!Crash(w)
      PROVE  LogInv'
  BY <1>2, RespondKeeps, MovesKeep, WriteKeeps
<1>3. QED BY <1>1, <1>2 DEF Log!Next, Log!Quiet

\* It holds always.
LEMMA AlwaysLog == ASSUME Log!AccessLogAssumption PROVE Log!Spec => []LogInv
<1>1. Log!Init => LogInv
  <2> SUFFICES ASSUME Log!Init PROVE LogInv
    OBVIOUS
  <2>1. \A w \in Workers : queue[w] = <<>> /\ taken[w] = <<>>
    BY DEF Log!Init
  <2>2. QueueMax \in Nat /\ MaxNow \in Nat /\ MaxRequests \in Nat
    BY DEF Log!AccessLogAssumption
  <2>3. LogTypeInv
    BY <2>1, <2>2, Emptied DEF Log!Init, LogTypeInv
  <2>4. \A w \in Workers : LineOf(w) = {}
    BY <2>1, Emptied DEF LineOf, EntriesOf, RowsOf, Log!Init
  <2>5. LineInv
    BY <2>1, Emptied DEF LineInv, Before
  <2>6. QED BY <2>3, <2>4, <2>5 DEF LogInv, ApartInv, Log!LoggedOnceInOrder, Log!Init
<1>2. LogInv /\ [Log!Next]_(Log!vars) => LogInv'
  BY LogNext
<1>3. QED BY <1>1, <1>2, PTL DEF Log!Spec

\* No request is in the access log twice, and a worker's rows are in the order in
\* which it answered, whatever queues overflowed, writes failed or workers crashed.
THEOREM LogStaysOrdered ==
  ASSUME Log!AccessLogAssumption PROVE Log!Spec => []Log!LoggedOnceInOrder
<1>1. LogInv => Log!LoggedOnceInOrder
  BY DEF LogInv
<1>2. QED BY <1>1, AlwaysLog, PTL

\* No step loses an entry that waits to be written but one that overflows the queue,
\* fails to write or crashes: none falls between the flush thread and new requests.
THEOREM LossesAreExcused ==
  ASSUME Log!AccessLogAssumption PROVE Log!Spec => [][Log!LossIsExcused]_(Log!vars)
<1>1. ASSUME LogInv, [Log!Next]_(Log!vars) PROVE [Log!LossIsExcused]_(Log!vars)
  <2> SUFFICES ASSUME NEW w \in Workers, NEW e \in Log!Waiting(w), Log!Next
               PROVE  (\E v \in Workers : e \in Log!Waiting(v)') \/ e \in Log!Logged' \/ e \in excused'
    BY <1>1 DEF Log!LossIsExcused
  <2>a. /\ queue \in [Workers -> Seq(Nat)] /\ taken \in [Workers -> Seq(Nat)]
        /\ now \in Nat /\ e \in Log!Entries(queue[w]) \cup Log!Entries(taken[w])
    BY <1>1 DEF LogInv, LogTypeInv, Log!Waiting
  <2>b. ASSUME Log!Entries(queue[w]) \cup Log!Entries(taken[w])
                 \subseteq Log!Entries(queue'[w]) \cup Log!Entries(taken'[w]) \cup excused'
        PROVE  (\E v \in Workers : e \in Log!Waiting(v)') \/ e \in excused'
    BY <2>a, <2>b DEF Log!Waiting, Log!Entries
  <2>1. CASE Log!Tick \/ Log!Raise \/ Log!Quiet
    BY <2>1, <2>b DEF Log!Tick, Log!Raise, Log!Quiet, Log!vars
  <2>2. ASSUME NEW v \in Workers, Log!Respond(v)
        PROVE  (\E u \in Workers : e \in Log!Waiting(u)') \/ e \in excused'
    BY <2>2, <2>a, <2>b DEF Log!Respond
  <2>3. ASSUME NEW v \in Workers, Log!Take(v)
        PROVE  (\E u \in Workers : e \in Log!Waiting(u)') \/ e \in excused'
    <3>1. taken[v] = <<>>
      BY <1>1, <2>3 DEF Log!Take, LogInv, LogTypeInv
    <3>2. QED BY <2>3, <2>a, <2>b, <3>1, Emptied DEF Log!Take
  <2>4. ASSUME NEW v \in Workers, Log!Fail(v) \/ Log!Crash(v)
        PROVE  (\E u \in Workers : e \in Log!Waiting(u)') \/ e \in excused'
    BY <2>4, <2>a, <2>b DEF Log!Fail, Log!Crash
  <2>5. ASSUME NEW v \in Workers, Log!Write(v)
        PROVE  (\E u \in Workers : e \in Log!Waiting(u)') \/ e \in Log!Logged'
    <3>1. CASE v # w
      BY <2>5, <2>a, <3>1 DEF Log!Write, Log!Waiting, Log!Entries
    <3>2. CASE e \in Log!Entries(queue[w])
      BY <2>5, <3>2 DEF Log!Write, Log!Waiting, Log!Entries
    <3>3. CASE v = w /\ e \in Log!Entries(taken[w])
      <4>1. PICK r \in Log!Added(w) : r.entry = e /\ r.at = now
        <5>1. PICK i \in DOMAIN taken[w] : taken[w][i] = e
          BY <3>3 DEF Log!Entries
        <5>2. [id |-> lastId + i, entry |-> taken[w][i], at |-> now, worker |-> w] \in Log!Added(w)
          BY DEF Log!Added
        <5>3. QED BY <5>1, <5>2
      <4>2. Retention \in Nat
        BY DEF Log!AccessLogAssumption
      <4>3. ~ Log!Old(r)
        BY <2>a, <4>1, <4>2 DEF Log!Old
      <4>4. r \in rows'
        BY <2>5, <3>3, <4>1, <4>3 DEF Log!Write
      <4>5. QED BY <4>1, <4>4 DEF Log!Logged
    <3>4. QED BY <2>a, <3>1, <3>2, <3>3
  <2>6. QED BY <2>1, <2>2, <2>3, <2>4, <2>5 DEF Log!Next
<1>2. QED BY <1>1, AlwaysLog, PTL DEF Log!Spec

\* No queue exceeds its limit, and a flush holds entries only while it writes.
THEOREM LogTypeCorrect == ASSUME Log!AccessLogAssumption PROVE Log!Spec => []Log!TypeOK
<1>1. LogInv => Log!TypeOK
  BY DEF LogInv, LogTypeInv, Log!TypeOK, Log!AccessLogAssumption
<1>2. QED BY <1>1, AlwaysLog, PTL

============================================================================
