------------------------- MODULE ApiKeyAuthProofs -------------------------
(***************************************************************************)
(* How long a credential is let through after it ended, for any number of  *)
(* workers and any limits of the caches: an API key that was revoked or    *)
(* has expired, and what a worker keeps of one it revoked; and, of the     *)
(* issuer's signing keys, how long a withdrawn one is accepted and a       *)
(* published one refused, through any rotations and outages.               *)
(***************************************************************************)
EXTENDS ApiKeyAuth, TLAPS

Row == [state : States, expires : Nat \cup {None}, admin : BOOLEAN]
Verdict == [at : Nat, valid : BOOLEAN]
Lookup == [key : Keys \cup {None}, valid : BOOLEAN, since : Nat]

\* A row and the history of its key: only a revocation makes it inactive.
RowInv ==
  /\ now \in Nat
  /\ row \in [Keys -> Row]
  /\ revoked \in [Keys -> Nat \cup {None}]
  /\ \A k \in Keys : revoked[k] # None => row[k].state = "inactive" /\ revoked[k] <= now

\* The moments after which k must run out: nothing that says k is good was read
\* from its row later than this.
Ends(k) == {revoked[k], row[k].expires} \ {None}

\* A verdict was cached within one lookup of reading the row,
CacheInv ==
  /\ cache \in [Workers -> [Keys -> Verdict \cup {None}]]
  /\ \A w \in Workers : \A k \in Keys : cache[w][k] # None =>
       /\ cache[w][k].at <= now
       /\ cache[w][k].valid => \A m \in Ends(k) : cache[w][k].at <= m + MaxLookup

\* which the lookup under way has read already,
LookupInv ==
  /\ lookup \in [Workers -> Lookup]
  /\ \A w \in Workers :
       /\ lookup[w].since <= now
       /\ lookup[w].key # None =>
            /\ now - lookup[w].since <= MaxLookup
            /\ lookup[w].valid => \A m \in Ends(lookup[w].key) : lookup[w].since <= m

\* and no key is let through later than a verdict so cached may be used.
AcceptedInv ==
  /\ accepted \in [Keys -> Nat \cup {None}]
  /\ \A k \in Keys : accepted[k] # None =>
       /\ accepted[k] <= now
       /\ \A m \in Ends(k) : accepted[k] < m + CacheTtl + MaxLookup

\* A worker that has revoked a key neither holds nor reads that it is good.
ForgottenInv ==
  /\ revoking \in [Workers -> Keys \cup {None}]
  /\ \A w \in Workers : revoking[w] # None => row[revoking[w]].state = "inactive"
  /\ \A w \in Workers, k \in Keys : <<w, k>> \in forgotten =>
       /\ row[k].state = "inactive"
       /\ cache[w][k] # None => ~ cache[w][k].valid
       /\ lookup[w].key = k => ~ lookup[w].valid

BootInv == /\ boot \in [Workers -> {"start", "seed", "failed", "up"}]
           /\ now <= MaxNow

\* Inductive.
AuthInv ==
  RowInv /\ CacheInv /\ LookupInv /\ AcceptedInv /\ ForgottenInv /\ BootInv

----------------------------------------------------------------------------
(* Steps that concern the rows only.                                       *)

\* The parameters are numbers, and None is none.
LEMMA Params ==
  ASSUME AuthAssumption
  PROVE  /\ CacheTtl \in Nat /\ CacheTtl > 0 /\ MaxLookup \in Nat /\ MaxNow \in Nat
         /\ None \notin Nat /\ None \notin Keys
BY DEF AuthAssumption

\* The moments of a key are numbers.
LEMMA Moments ==
  ASSUME AuthAssumption, RowInv, NEW k \in Keys
  PROVE  \A m \in Ends(k) : m \in Nat
BY DEF RowInv, Row, Ends

\* A key read as good has not ended yet.
LEMMA GoodNow ==
  ASSUME AuthAssumption, RowInv, NEW k \in Keys, Valid(k)
  PROVE  \A m \in Ends(k) : now <= m
<1>1. revoked[k] = None
  BY DEF RowInv, Valid
<1>2. row[k].expires # None => now <= row[k].expires
  BY DEF RowInv, Row, Valid, Expired
<1>3. QED BY <1>1, <1>2 DEF Ends

\* What a step may do to the rows and their history: every moment is an old one
\* of the key, or not before now.
RowStep ==
  /\ RowInv' /\ now' = now
  /\ \A k \in Keys : \A m \in Ends(k)' : m \in Ends(k) \/ (m \in Nat /\ now <= m)
  /\ \A k \in Keys : row[k].state = "inactive" => row'[k].state = "inactive"

\* A step that leaves rows and history alone is one,
LEMMA RowsKept ==
  ASSUME RowInv, UNCHANGED <<now, row, revoked>>
  PROVE  RowStep
BY DEF RowInv, RowStep, Ends

\* so is one that stores a new row,
LEMMA RowStored ==
  ASSUME AuthAssumption, RowInv, NEW k \in Keys, NEW r \in Row, row[k].state = "absent",
         r.expires = None \/ now <= r.expires,
         row' = [row EXCEPT ![k] = r], UNCHANGED <<now, revoked>>
  PROVE  RowStep
<1>1. RowInv'
  BY DEF RowInv
<1>2. ASSUME NEW j \in Keys, NEW m \in Ends(j)' PROVE m \in Ends(j) \/ (m \in Nat /\ now <= m)
  <2>1. CASE j = k
    BY <1>2, <2>1 DEF Ends, RowInv, Row
  <2>2. CASE j # k
    BY <1>2, <2>2 DEF Ends, RowInv
  <2>3. QED BY <2>1, <2>2
<1>3. \A j \in Keys : row[j].state = "inactive" => row'[j].state = "inactive"
  BY DEF RowInv
<1>4. QED BY <1>1, <1>2, <1>3 DEF RowStep

\* and so is a revocation.
LEMMA RowRevoked ==
  ASSUME AuthAssumption, RowInv, NEW w \in Workers, NEW k \in Keys, Revoke(w, k)
  PROVE  RowStep
<1>1. /\ row' = [row EXCEPT ![k].state = "inactive"]
      /\ revoked' = [revoked EXCEPT ![k] = now] /\ now' = now
  BY DEF Revoke
<1>2. /\ row' \in [Keys -> Row]
      /\ \A j \in Keys : j # k => row'[j] = row[j] /\ revoked'[j] = revoked[j]
      /\ row'[k].state = "inactive" /\ row'[k].expires = row[k].expires /\ revoked'[k] = now
  BY <1>1 DEF RowInv, Row, States
<1>3. RowInv'
  BY <1>1, <1>2 DEF RowInv
<1>4. ASSUME NEW j \in Keys, NEW m \in Ends(j)' PROVE m \in Ends(j) \/ (m \in Nat /\ now <= m)
  <2>1. CASE j = k
    BY <1>2, <1>4, <2>1 DEF Ends, RowInv
  <2>2. CASE j # k
    BY <1>2, <1>4, <2>2 DEF Ends
  <2>3. QED BY <2>1, <2>2
<1>5. \A j \in Keys : row[j].state = "inactive" => row'[j].state = "inactive"
  BY <1>2
<1>6. QED BY <1>1, <1>3, <1>4, <1>5 DEF RowStep

\* Such a step leaves what the caches hold in order,
LEMMA CacheKept ==
  ASSUME AuthAssumption, AuthInv, RowStep, UNCHANGED cache
  PROVE  CacheInv'
<1>1. ASSUME NEW w \in Workers, NEW k \in Keys, cache[w][k] # None
      PROVE  /\ cache[w][k].at <= now
             /\ cache[w][k].valid => \A m \in Ends(k)' : cache[w][k].at <= m + MaxLookup
  <2>1. /\ cache[w][k].at \in Nat /\ cache[w][k].at <= now /\ now \in Nat
        /\ cache[w][k].valid => \A m \in Ends(k) : cache[w][k].at <= m + MaxLookup
    BY <1>1 DEF AuthInv, CacheInv, Verdict, RowInv
  <2>2. ASSUME cache[w][k].valid, NEW m \in Ends(k)' PROVE cache[w][k].at <= m + MaxLookup
    BY <2>1, <2>2, Params DEF RowStep
  <2>3. QED BY <2>1, <2>2
<1>2. QED BY <1>1 DEF AuthInv, CacheInv, RowStep

\* the lookups under way,
LEMMA LookupKept ==
  ASSUME AuthAssumption, AuthInv, RowStep, UNCHANGED lookup
  PROVE  LookupInv'
<1>1. ASSUME NEW w \in Workers
      PROVE  /\ lookup[w].since <= now
             /\ lookup[w].key # None =>
                  /\ now - lookup[w].since <= MaxLookup
                  /\ lookup[w].valid => \A m \in Ends(lookup[w].key)' : lookup[w].since <= m
  <2>1. /\ lookup[w].key \in Keys \cup {None} /\ lookup[w].since \in Nat /\ now \in Nat
        /\ lookup[w].since <= now
        /\ lookup[w].key # None =>
             /\ now - lookup[w].since <= MaxLookup
             /\ lookup[w].valid => \A m \in Ends(lookup[w].key) : lookup[w].since <= m
    BY DEF AuthInv, LookupInv, Lookup, RowInv
  <2>2. ASSUME lookup[w].key # None, lookup[w].valid, NEW m \in Ends(lookup[w].key)'
        PROVE  lookup[w].since <= m
    <3>1. lookup[w].key \in Keys
      BY <2>1, <2>2
    <3>2. m \in Ends(lookup[w].key) \/ (m \in Nat /\ now <= m)
      BY <2>2, <3>1 DEF RowStep, Ends
    <3>3. QED BY <2>1, <2>2, <3>2
  <2>3. QED BY <2>1, <2>2
<1>2. QED BY <1>1 DEF AuthInv, LookupInv, RowStep

\* and what was accepted.
LEMMA AcceptedKept ==
  ASSUME AuthAssumption, AuthInv, RowStep, UNCHANGED accepted
  PROVE  AcceptedInv'
<1>1. ASSUME NEW k \in Keys, accepted[k] # None
      PROVE  /\ accepted[k] <= now
             /\ \A m \in Ends(k)' : accepted[k] < m + CacheTtl + MaxLookup
  <2>1. /\ accepted[k] \in Nat /\ accepted[k] <= now /\ now \in Nat
        /\ \A m \in Ends(k) : accepted[k] < m + CacheTtl + MaxLookup
    BY <1>1 DEF AuthInv, AcceptedInv, RowInv
  <2>2. ASSUME NEW m \in Ends(k)' PROVE accepted[k] < m + CacheTtl + MaxLookup
    BY <2>1, <2>2, Params DEF RowStep
  <2>3. QED BY <2>1, <2>2
<1>2. QED BY <1>1 DEF AuthInv, AcceptedInv, RowStep

\* A step that touches neither caches nor lookups forgets nothing.
LEMMA ForgottenKept ==
  ASSUME AuthInv, RowStep, UNCHANGED <<revoking, forgotten, cache, lookup>>
  PROVE  ForgottenInv'
<1>1. /\ revoking' \in [Workers -> Keys \cup {None}]
      /\ \A w \in Workers : revoking'[w] # None => row[revoking'[w]].state = "inactive"
      /\ \A w \in Workers, k \in Keys : <<w, k>> \in forgotten' =>
           /\ row[k].state = "inactive"
           /\ cache'[w][k] # None => ~ cache'[w][k].valid
           /\ lookup'[w].key = k => ~ lookup'[w].valid
  BY DEF AuthInv, ForgottenInv
<1>2. \A k \in Keys : row[k].state = "inactive" => row'[k].state = "inactive"
  BY DEF RowStep
<1>3. \A w \in Workers : revoking'[w] # None => revoking'[w] \in Keys
  BY <1>1
<1>4. \A w \in Workers : revoking'[w] # None => row'[revoking'[w]].state = "inactive"
  BY <1>1, <1>2, <1>3
<1>5. QED BY <1>1, <1>2, <1>4 DEF ForgottenInv

----------------------------------------------------------------------------
(* The steps.                                                              *)

\* Time passes only when every lookup has time left and no worker is between
\* committing a revocation and clearing its cache.
LEMMA TickKeeps == ASSUME AuthAssumption, AuthInv, Tick PROVE AuthInv'
<1>1. /\ now \in Nat /\ now' = now + 1 /\ now' \in Nat /\ now' <= MaxNow
      /\ MaxLookup \in Nat /\ MaxNow \in Nat
  BY Params DEF AuthInv, RowInv, Tick
<1>2. \A n \in Nat : n <= now => n <= now'
  BY <1>1
<1>3. UNCHANGED <<row, cache, lookup, revoking, boot, accepted, revoked, forgotten>>
      /\ \A k \in Keys : Ends(k)' = Ends(k)
  BY DEF Tick, Ends
<1>4. RowInv'
  <2>1. \A k \in Keys : revoked[k] # None => revoked[k] <= now'
    BY <1>2 DEF AuthInv, RowInv
  <2>2. QED BY <1>1, <1>3, <2>1 DEF AuthInv, RowInv
<1>5. CacheInv'
  <2>1. \A w \in Workers : \A k \in Keys : cache[w][k] # None => cache[w][k].at <= now'
    BY <1>2 DEF AuthInv, CacheInv, Verdict
  <2>2. QED BY <1>3, <2>1 DEF AuthInv, CacheInv
<1>6. LookupInv'
  <2>1. \A w \in Workers : lookup[w].since \in Nat /\ lookup[w].since <= now'
    BY <1>2 DEF AuthInv, LookupInv, Lookup
  <2>2. \A w \in Workers : lookup[w].key # None => now' - lookup[w].since <= MaxLookup
    BY <1>1, <2>1 DEF Tick
  <2>3. QED BY <1>3, <2>1, <2>2 DEF AuthInv, LookupInv, Ends
<1>7. AcceptedInv'
  <2>1. \A k \in Keys : accepted[k] # None => accepted[k] <= now'
    BY <1>2 DEF AuthInv, AcceptedInv
  <2>2. QED BY <1>3, <2>1 DEF AuthInv, AcceptedInv
<1>8. ForgottenInv' /\ BootInv'
  BY <1>1, <1>3 DEF AuthInv, ForgottenInv, BootInv
<1>9. QED BY <1>4, <1>5, <1>6, <1>7, <1>8 DEF AuthInv

\* A step that concerns rows only.
LEMMA RowStepKeeps ==
  ASSUME AuthAssumption, AuthInv, RowStep, BootInv',
         UNCHANGED <<cache, lookup, revoking, accepted, forgotten>>
  PROVE  AuthInv'
<1>1. CacheInv' /\ LookupInv' /\ AcceptedInv'
  BY CacheKept, LookupKept, AcceptedKept
<1>2. ForgottenInv'
  BY ForgottenKept
<1>3. QED BY <1>1, <1>2 DEF AuthInv, RowStep

\* A worker starts, seeds the admin key or fails to.
LEMMA StartupKeeps ==
  ASSUME AuthAssumption, AuthInv, NEW w \in Workers, Startup(w)
  PROVE  AuthInv'
<1>1. UNCHANGED <<now, cache, lookup, revoking, accepted, revoked, forgotten>>
  BY DEF Startup, SeedCheck, SeedInsert, Restart
<1>2. BootInv'
  BY DEF AuthInv, BootInv, Startup, SeedCheck, SeedInsert, Restart
<1>3. CASE row' = row
  BY <1>1, <1>2, <1>3, RowsKept, RowStepKeeps DEF AuthInv
<1>4. CASE row' # row
  <2> DEFINE r == [state |-> "active", expires |-> None, admin |-> TRUE]
  <2>1. PICK k \in SeedKeys[w] : row[k].state = "absent" /\ row' = [row EXCEPT ![k] = r]
    BY <1>4 DEF Startup, SeedCheck, SeedInsert, Restart
  <2>2. k \in Keys /\ r \in Row /\ r.expires = None
    BY DEF AuthAssumption, Row, States
  <2> HIDE DEF r
  <2>3. RowStep
    BY <1>1, <2>1, <2>2, RowStored DEF AuthInv
  <2>4. QED BY <1>1, <1>2, <2>3, RowStepKeeps
<1>5. QED BY <1>3, <1>4

\* A key is created: it ends no earlier than now.
LEMMA CreateKeeps ==
  ASSUME AuthAssumption, AuthInv, NEW w \in Workers, NEW k \in Keys, CreateKey(w, k)
  PROVE  AuthInv'
<1>1. PICK life \in Lifetimes :
        row' = [row EXCEPT ![k] = [state |-> "active", admin |-> FALSE,
                                   expires |-> IF life = None THEN None ELSE now + life]]
  BY DEF CreateKey
<1> DEFINE r == [state |-> "active", admin |-> FALSE,
                 expires |-> IF life = None THEN None ELSE now + life]
<1>2. r.expires \in Nat \cup {None} /\ (r.expires = None \/ now <= r.expires)
  BY DEF AuthInv, RowInv, AuthAssumption
<1>3. r \in Row
  BY <1>2 DEF Row, States
<1>4. row' = [row EXCEPT ![k] = r] /\ row[k].state = "absent"
      /\ UNCHANGED <<now, cache, lookup, revoking, boot, accepted, revoked, forgotten>>
  BY <1>1 DEF CreateKey
<1> HIDE DEF r
<1>5. RowStep
  BY <1>2, <1>3, <1>4, RowStored DEF AuthInv
<1>6. BootInv'
  BY <1>4 DEF AuthInv, BootInv
<1>7. QED BY <1>4, <1>5, <1>6, RowStepKeeps

\* A key is revoked in the table.
LEMMA RevokeKeeps ==
  ASSUME AuthAssumption, AuthInv, NEW w \in Workers, NEW k \in Keys, Revoke(w, k)
  PROVE  AuthInv'
<1>1. RowStep
  BY RowRevoked DEF AuthInv
<1>2. UNCHANGED <<now, cache, lookup, boot, accepted, forgotten>>
      /\ revoking' = [revoking EXCEPT ![w] = k]
      /\ row' = [row EXCEPT ![k].state = "inactive"]
  BY DEF Revoke
<1>3. CacheInv' /\ LookupInv' /\ AcceptedInv'
  BY <1>1, <1>2, CacheKept, LookupKept, AcceptedKept
<1>4. BootInv'
  BY <1>2 DEF AuthInv, BootInv
<1>5. ForgottenInv'
  <2>1. revoking' \in [Workers -> Keys \cup {None}]
    BY <1>2 DEF AuthInv, ForgottenInv
  <2>2. row'[k].state = "inactive"
    BY <1>2 DEF AuthInv, RowInv, Row
  <2>3. \A j \in Keys : row[j].state = "inactive" => row'[j].state = "inactive"
    BY <1>1 DEF RowStep
  <2>4. \A v \in Workers : revoking'[v] # None => row'[revoking'[v]].state = "inactive"
    <3>1. TAKE v \in Workers
    <3>2. CASE v = w
      BY <1>2, <2>2, <3>2 DEF AuthInv, ForgottenInv
    <3>3. CASE v # w
      BY <1>2, <2>3, <3>3 DEF AuthInv, ForgottenInv
    <3>4. QED BY <3>2, <3>3
  <2>5. QED BY <1>2, <2>1, <2>3, <2>4 DEF AuthInv, ForgottenInv
<1>6. QED BY <1>1, <1>3, <1>4, <1>5 DEF AuthInv, RowStep

\* Letting a key through now is in time if its ends are not too long ago.
LEMMA AcceptNow ==
  ASSUME AuthAssumption, AuthInv, UNCHANGED <<now, row, revoked>>,
         NEW k \in Keys, NEW valid \in BOOLEAN, Answer(k, valid),
         valid => \A m \in Ends(k) : now < m + CacheTtl + MaxLookup
  PROVE  AcceptedInv'
<1>1. RowStep
  BY RowsKept DEF AuthInv
<1>2. CASE ~ valid
  BY <1>1, <1>2, AcceptedKept DEF Answer
<1>3. CASE valid
  <2>1. accepted' = [accepted EXCEPT ![k] = now] /\ now \in Nat
        /\ \A j \in Keys : Ends(j)' = Ends(j)
    BY <1>3 DEF Answer, AuthInv, RowInv, Ends
  <2>2. accepted' \in [Keys -> Nat \cup {None}]
    BY <2>1 DEF AuthInv, AcceptedInv
  <2>3. ASSUME NEW j \in Keys, accepted'[j] # None
        PROVE  /\ accepted'[j] <= now
               /\ \A m \in Ends(j)' : accepted'[j] < m + CacheTtl + MaxLookup
    <3>1. CASE j = k
      BY <1>3, <2>1, <3>1 DEF AuthInv, AcceptedInv
    <3>2. CASE j # k
      <4>1. accepted'[j] = accepted[j]
        BY <2>1, <3>2 DEF AuthInv, AcceptedInv
      <4>2. QED BY <2>1, <2>3, <4>1 DEF AuthInv, AcceptedInv
    <3>3. QED BY <3>1, <3>2
  <2>4. QED BY <2>2, <2>3 DEF AcceptedInv
<1>4. QED BY <1>2, <1>3

\* A key accepted from the cache was read as good recently enough.
LEMMA FromCacheKeeps ==
  ASSUME AuthAssumption, AuthInv, NEW w \in Workers, NEW k \in Keys, AuthFromCache(w, k)
  PROVE  AuthInv'
<1>1. UNCHANGED <<now, row, cache, lookup, revoking, boot, revoked, forgotten>>
  BY DEF AuthFromCache
<1>2. RowStep
  BY <1>1, RowsKept DEF AuthInv
<1>3. /\ cache[w][k] \in Verdict /\ now - cache[w][k].at < CacheTtl /\ now \in Nat
      /\ Answer(k, cache[w][k].valid) /\ cache[w][k].at \in Nat
      /\ cache[w][k].valid \in BOOLEAN
  BY DEF AuthFromCache, Fresh, AuthInv, CacheInv, RowInv, Verdict
<1>4. ASSUME cache[w][k].valid, NEW m \in Ends(k) PROVE now < m + CacheTtl + MaxLookup
  <2>1. cache[w][k].at <= m + MaxLookup /\ m \in Nat
    BY <1>4, Moments DEF AuthFromCache, Fresh, AuthInv, CacheInv
  <2>2. QED BY <1>3, <2>1, Params
<1>5. AcceptedInv'
  BY <1>1, <1>3, <1>4, AcceptNow
<1>6. CacheInv' /\ LookupInv' /\ ForgottenInv'
  BY <1>1, <1>2, CacheKept, LookupKept, ForgottenKept
<1>7. BootInv'
  BY <1>1 DEF AuthInv, BootInv
<1>8. QED BY <1>2, <1>5, <1>6, <1>7 DEF AuthInv, RowStep

\* A cache keeps or drops a verdict, or stores one of now in time.
LEMMA CacheStored ==
  ASSUME AuthAssumption, AuthInv, UNCHANGED <<now, row, revoked>>,
         cache' \in [Workers -> [Keys -> Verdict \cup {None}]],
         \A w \in Workers : \A k \in Keys : cache'[w][k] # None =>
           \/ cache'[w][k] = cache[w][k]
           \/ /\ cache'[w][k].at = now
              /\ cache'[w][k].valid => \A m \in Ends(k) : now <= m + MaxLookup
  PROVE  CacheInv'
<1>1. now \in Nat /\ \A k \in Keys : Ends(k)' = Ends(k)
  BY DEF AuthInv, RowInv, Ends
<1>2. ASSUME NEW w \in Workers, NEW k \in Keys, cache'[w][k] # None
      PROVE  /\ cache'[w][k].at <= now
             /\ cache'[w][k].valid => \A m \in Ends(k) : cache'[w][k].at <= m + MaxLookup
  <2>1. CASE cache'[w][k] = cache[w][k]
    BY <1>2, <2>1 DEF AuthInv, CacheInv
  <2>2. CASE cache'[w][k].at = now
             /\ (cache'[w][k].valid => \A m \in Ends(k) : now <= m + MaxLookup)
    BY <1>1, <2>2
  <2>3. QED BY <1>2, <2>1, <2>2
<1>3. QED BY <1>1, <1>2 DEF CacheInv

\* The row of a key is read when no fresh verdict is cached.
LEMMA ReadRowKeeps ==
  ASSUME AuthAssumption, AuthInv, NEW w \in Workers, NEW k \in Keys, AuthReadRow(w, k)
  PROVE  AuthInv'
<1> DEFINE l == [key |-> k, valid |-> Valid(k), since |-> now]
<1>1. /\ UNCHANGED <<now, row, revoking, boot, accepted, revoked, forgotten>>
      /\ cache' = [cache EXCEPT ![w][k] = None] /\ lookup' = [lookup EXCEPT ![w] = l]
  BY DEF AuthReadRow
<1>2. RowStep
  BY <1>1, RowsKept DEF AuthInv
<1>3. /\ now \in Nat /\ now - now <= MaxLookup /\ Valid(k) \in BOOLEAN
      /\ \A j \in Keys : Ends(j)' = Ends(j)
  BY <1>1, Params DEF AuthInv, RowInv, Valid, Ends
<1>4. l \in Lookup /\ l.key = k /\ l.since = now /\ l.valid = Valid(k)
  BY <1>3 DEF Lookup
<1>5. /\ cache \in [Workers -> [Keys -> Verdict \cup {None}]]
      /\ lookup \in [Workers -> Lookup]
  BY DEF AuthInv, CacheInv, LookupInv
<1>6. /\ cache' \in [Workers -> [Keys -> Verdict \cup {None}]]
      /\ \A v \in Workers : \A j \in Keys : cache'[v][j] \in {cache[v][j], None}
  BY <1>1, <1>5
<1> HIDE DEF l
<1>7. CacheInv'
  BY <1>1, <1>6, CacheStored
<1>8. LookupInv'
  <2>1. lookup' \in [Workers -> Lookup] /\ lookup'[w] = l
        /\ \A v \in Workers : v # w => lookup'[v] = lookup[v]
    BY <1>1, <1>4, <1>5
  <2>2. Valid(k) => \A m \in Ends(k) : now <= m
    BY GoodNow DEF AuthInv
  <2>3. ASSUME NEW v \in Workers
        PROVE  /\ lookup'[v].since <= now
               /\ lookup'[v].key # None =>
                    /\ now - lookup'[v].since <= MaxLookup
                    /\ lookup'[v].valid => \A m \in Ends(lookup'[v].key) : lookup'[v].since <= m
    <3>1. CASE v = w
      BY <1>3, <1>4, <2>1, <2>2, <3>1
    <3>2. CASE v # w
      BY <2>1, <3>2 DEF AuthInv, LookupInv
    <3>3. QED BY <3>1, <3>2
  <2>4. QED BY <1>1, <2>1, <2>3 DEF LookupInv, Ends
<1>9. AcceptedInv'
  BY <1>1, <1>2, AcceptedKept
<1>10. BootInv'
  BY <1>1 DEF AuthInv, BootInv
<1>11. ForgottenInv'
  <2>1. ASSUME NEW v \in Workers, NEW j \in Keys, <<v, j>> \in forgotten'
        PROVE  /\ row'[j].state = "inactive"
               /\ cache'[v][j] # None => ~ cache'[v][j].valid
               /\ lookup'[v].key = j => ~ lookup'[v].valid
    <3>1. /\ row[j].state = "inactive"
          /\ cache[v][j] # None => ~ cache[v][j].valid
          /\ lookup[v].key = j => ~ lookup[v].valid
      BY <1>1, <2>1 DEF AuthInv, ForgottenInv
    <3>2. cache'[v][j] # None => ~ cache'[v][j].valid
      BY <1>6, <3>1
    <3>3. CASE v = w
      <4>1. lookup'[v] = l
        BY <1>1, <1>4, <1>5, <3>3
      <4>2. l.key = j => ~ l.valid
        BY <1>4, <3>1 DEF Valid
      <4>3. QED BY <1>1, <3>1, <3>2, <4>1, <4>2
    <3>4. CASE v # w
      <4>1. lookup'[v] = lookup[v]
        BY <1>1, <1>4, <1>5, <3>4
      <4>2. QED BY <1>1, <3>1, <3>2, <4>1
    <3>5. QED BY <3>3, <3>4
  <2>2. QED BY <1>1, <2>1 DEF AuthInv, ForgottenInv
<1>12. QED BY <1>2, <1>7, <1>8, <1>9, <1>10, <1>11 DEF AuthInv, RowStep

\* _cache_set stores the verdict, and keeps or drops the others.
LEMMA CacheSetStores ==
  ASSUME NEW entries \in [Keys -> Verdict \cup {None}], NEW k \in Keys,
         NEW valid \in BOOLEAN, now \in Nat
  PROVE  /\ CacheSet(entries, k, valid) \in [Keys -> Verdict \cup {None}]
         /\ CacheSet(entries, k, valid)[k] = [at |-> now, valid |-> valid]
         /\ \A j \in Keys : j # k => CacheSet(entries, k, valid)[j] \in {entries[j], None}
<1> DEFINE cached == {j \in Keys : entries[j] # None}
           kept == IF Cardinality(cached) > CacheLimit
                   THEN [j \in Keys |-> IF j \in cached /\ entries[j].at + CacheTtl < now
                                        THEN None ELSE entries[j]]
                   ELSE entries
           e == [at |-> now, valid |-> valid]
<1>1. /\ kept \in [Keys -> Verdict \cup {None}]
      /\ \A j \in Keys : kept[j] \in {entries[j], None}
  BY Zenon
<1>2. e \in Verdict
  BY DEF Verdict
<1>3. CacheSet(entries, k, valid) = [kept EXCEPT ![k] = e]
  BY DEF CacheSet
<1> HIDE DEF kept, e
<1>4. /\ [kept EXCEPT ![k] = e] \in [Keys -> Verdict \cup {None}]
      /\ [kept EXCEPT ![k] = e][k] = e
      /\ \A j \in Keys : j # k => [kept EXCEPT ![k] = e][j] \in {entries[j], None}
  BY <1>1, <1>2
<1>5. QED BY <1>3, <1>4 DEF e

\* The verdict of a lookup is cached and the request answered with it: at most
\* one lookup after the row was read.
LEMMA FinishKeeps ==
  ASSUME AuthAssumption, AuthInv, NEW w \in Workers, AuthFinish(w)
  PROVE  AuthInv'
<1> DEFINE k == lookup[w].key
           valid == lookup[w].valid
           C == CacheSet(cache[w], k, valid)
<1>1. /\ UNCHANGED <<now, row, revoking, boot, revoked, forgotten>>
      /\ cache' = [cache EXCEPT ![w] = C] /\ lookup' = [lookup EXCEPT ![w] = NoLookup]
      /\ Answer(k, valid) /\ k # None
  BY DEF AuthFinish
<1>2. /\ k \in Keys /\ valid \in BOOLEAN /\ lookup[w].since \in Nat /\ now \in Nat
      /\ now - lookup[w].since <= MaxLookup
      /\ valid => \A m \in Ends(k) : lookup[w].since <= m
  BY <1>1 DEF AuthInv, LookupInv, Lookup, RowInv
<1>3. /\ cache \in [Workers -> [Keys -> Verdict \cup {None}]]
      /\ lookup \in [Workers -> Lookup]
  BY DEF AuthInv, CacheInv, LookupInv
<1>4. /\ C \in [Keys -> Verdict \cup {None}] /\ C[k] = [at |-> now, valid |-> valid]
      /\ \A j \in Keys : j # k => C[j] \in {cache[w][j], None}
  BY <1>2, <1>3, CacheSetStores
<1>5. RowStep
  BY <1>1, RowsKept DEF AuthInv
<1>6. ASSUME valid, NEW m \in Ends(k)
      PROVE  now <= m + MaxLookup /\ now < m + CacheTtl + MaxLookup
  <2>1. lookup[w].since <= m /\ m \in Nat
    BY <1>2, <1>6, Moments DEF AuthInv
  <2> HIDE DEF k, valid
  <2>2. QED BY <1>2, <2>1, Params
<1> HIDE DEF k, valid, C
<1>7. CacheInv'
  <2>1. /\ cache' \in [Workers -> [Keys -> Verdict \cup {None}]] /\ cache'[w] = C
        /\ \A v \in Workers : v # w => cache'[v] = cache[v]
    BY <1>1, <1>3, <1>4
  <2>2. ASSUME NEW v \in Workers, NEW j \in Keys, cache'[v][j] # None
        PROVE  \/ cache'[v][j] = cache[v][j]
               \/ /\ cache'[v][j].at = now
                  /\ cache'[v][j].valid => \A m \in Ends(j) : now <= m + MaxLookup
    <3>1. CASE v = w /\ j = k
      BY <1>4, <1>6, <2>1, <3>1
    <3>2. CASE ~ (v = w /\ j = k)
      BY <1>4, <2>1, <2>2, <3>2
    <3>3. QED BY <3>1, <3>2
  <2>3. QED BY <1>1, <2>1, <2>2, CacheStored
<1>8. LookupInv'
  <2>1. NoLookup \in Lookup /\ NoLookup.key = None /\ NoLookup.since = 0
    BY DEF NoLookup, Lookup
  <2>2. lookup' \in [Workers -> Lookup] /\ lookup'[w] = NoLookup
        /\ \A v \in Workers : v # w => lookup'[v] = lookup[v]
    BY <1>1, <1>3, <2>1
  <2>3. ASSUME NEW v \in Workers
        PROVE  /\ lookup'[v].since <= now
               /\ lookup'[v].key # None =>
                    /\ now - lookup'[v].since <= MaxLookup
                    /\ lookup'[v].valid => \A m \in Ends(lookup'[v].key) : lookup'[v].since <= m
    <3>1. CASE v = w
      BY <1>2, <2>1, <2>2, <3>1
    <3>2. CASE v # w
      BY <2>2, <3>2 DEF AuthInv, LookupInv
    <3>3. QED BY <3>1, <3>2
  <2>4. QED BY <1>1, <2>2, <2>3 DEF LookupInv, Ends
<1>9. AcceptedInv'
  BY <1>1, <1>2, <1>6, AcceptNow
<1>10. BootInv'
  BY <1>1 DEF AuthInv, BootInv
<1>11. ForgottenInv'
  <2>1. ASSUME NEW v \in Workers, NEW j \in Keys, <<v, j>> \in forgotten'
        PROVE  /\ row'[j].state = "inactive"
               /\ cache'[v][j] # None => ~ cache'[v][j].valid
               /\ lookup'[v].key = j => ~ lookup'[v].valid
    <3>1. /\ row[j].state = "inactive"
          /\ cache[v][j] # None => ~ cache[v][j].valid
          /\ lookup[v].key = j => ~ lookup[v].valid
      BY <1>1, <2>1 DEF AuthInv, ForgottenInv
    <3>2. CASE v = w
      <4>1. lookup'[v] = NoLookup /\ cache'[v] = C
        BY <1>1, <1>3, <3>2
      <4>2. ~ NoLookup.valid
        BY DEF NoLookup
      <4>3. CASE j = k
        BY <1>1, <1>4, <3>1, <3>2, <4>1, <4>2, <4>3 DEF k, valid
      <4>4. CASE j # k
        BY <1>1, <1>4, <3>1, <3>2, <4>1, <4>2, <4>4
      <4>5. QED BY <4>3, <4>4
    <3>3. CASE v # w
      <4>1. lookup'[v] = lookup[v] /\ cache'[v] = cache[v]
        BY <1>1, <1>3, <3>3
      <4>2. QED BY <1>1, <3>1, <4>1
    <3>4. QED BY <3>2, <3>3
  <2>2. QED BY <1>1, <2>1 DEF AuthInv, ForgottenInv
<1>12. QED BY <1>5, <1>7, <1>8, <1>9, <1>10, <1>11 DEF AuthInv, RowStep

\* A worker that has revoked a key clears its cache.
LEMMA RevokeFinishKeeps ==
  ASSUME AuthAssumption, AuthInv, NEW w \in Workers, RevokeFinish(w)
  PROVE  AuthInv'
<1>1. /\ UNCHANGED <<now, row, lookup, boot, accepted, revoked>> /\ revoking[w] # None
      /\ cache' = [cache EXCEPT ![w] = [j \in Keys |-> None]]
      /\ revoking' = [revoking EXCEPT ![w] = None]
      /\ \A v \in Workers, j \in Keys : <<v, j>> \in forgotten' =>
           \/ <<v, j>> \in forgotten
           \/ v = w /\ j = revoking[w] /\ lookup[w].key # j
  BY DEF RevokeFinish
<1>2. RowStep
  BY <1>1, RowsKept DEF AuthInv
<1>3. /\ cache' \in [Workers -> [Keys -> Verdict \cup {None}]]
      /\ \A v \in Workers : \A j \in Keys : cache'[v][j] \in {cache[v][j], None}
      /\ \A j \in Keys : cache'[w][j] = None
  BY <1>1 DEF AuthInv, CacheInv
<1>4. CacheInv'
  BY <1>1, <1>3, CacheStored
<1>5. LookupInv' /\ AcceptedInv'
  BY <1>1, <1>2, LookupKept, AcceptedKept
<1>6. BootInv'
  BY <1>1 DEF AuthInv, BootInv
<1>7. ForgottenInv'
  <2>1. ASSUME NEW v \in Workers, NEW j \in Keys, <<v, j>> \in forgotten'
        PROVE  /\ row'[j].state = "inactive"
               /\ cache'[v][j] # None => ~ cache'[v][j].valid
               /\ lookup'[v].key = j => ~ lookup'[v].valid
    <3>1. CASE <<v, j>> \in forgotten
      BY <1>1, <1>3, <3>1 DEF AuthInv, ForgottenInv
    <3>2. CASE v = w /\ j = revoking[w] /\ lookup[w].key # j
      BY <1>1, <1>3, <3>2 DEF AuthInv, ForgottenInv
    <3>3. QED BY <1>1, <2>1, <3>1, <3>2
  <2>2. /\ revoking' \in [Workers -> Keys \cup {None}]
        /\ \A v \in Workers : revoking'[v] # None => row[revoking'[v]].state = "inactive"
    BY <1>1 DEF AuthInv, ForgottenInv
  <2>3. QED BY <1>1, <2>1, <2>2 DEF ForgottenInv
<1>8. QED BY <1>2, <1>4, <1>5, <1>6, <1>7 DEF AuthInv, RowStep

----------------------------------------------------------------------------
(* The theorems.                                                           *)

\* AuthInv holds at the start
LEMMA AuthInit == ASSUME AuthAssumption, Init PROVE AuthInv
<1>1. RowInv /\ \A k \in Keys : Ends(k) = {}
  BY DEF Init, RowInv, Row, States, NoRow, Ends
<1>2. CacheInv /\ LookupInv /\ AcceptedInv
  BY <1>1 DEF Init, CacheInv, LookupInv, AcceptedInv, Lookup, NoLookup
<1>3. ForgottenInv /\ BootInv
  BY Params DEF Init, ForgottenInv, BootInv
<1>4. QED BY <1>1, <1>2, <1>3 DEF AuthInv

\* and is inductive.
LEMMA AuthNext == ASSUME AuthAssumption, AuthInv, [Next]_vars PROVE AuthInv'
<1>1. CASE Tick
  BY <1>1, TickKeeps
<1>2. CASE \E w \in Workers : Startup(w) \/ AuthFinish(w) \/ RevokeFinish(w)
  BY <1>2, StartupKeeps, FinishKeeps, RevokeFinishKeeps
<1>3. CASE \E w \in Workers : \E k \in Keys :
             \/ AuthFromCache(w, k) \/ AuthReadRow(w, k)
             \/ CreateKey(w, k) \/ Revoke(w, k)
  BY <1>3, FromCacheKeeps, ReadRowKeeps, CreateKeeps, RevokeKeeps
<1>4. CASE UNCHANGED vars
  <2>1. RowStep
    BY <1>4, RowsKept DEF vars, AuthInv
  <2>2. BootInv'
    BY <1>4 DEF vars, AuthInv, BootInv
  <2>3. QED BY <1>4, <2>1, <2>2, RowStepKeeps DEF vars
<1>5. QED BY <1>1, <1>2, <1>3, <1>4 DEF Next

\* so that it holds always.
LEMMA AlwaysAuth == ASSUME AuthAssumption PROVE Spec => []AuthInv
BY AuthInit, AuthNext, PTL DEF Spec

\* A revoked key is let through nowhere once the cache's time to live, and one
\* lookup that was under way, have passed, although only one worker is told.
THEOREM RevokedKeysRunOut == ASSUME AuthAssumption PROVE Spec => []RevokedKeyRunsOut
<1>1. AuthInv => RevokedKeyRunsOut
  <2> SUFFICES ASSUME AuthInv, NEW k \in Keys, revoked[k] # None, accepted[k] # None
               PROVE  accepted[k] < revoked[k] + (CacheTtl + MaxLookup)
    BY DEF RevokedKeyRunsOut, RefusedAfter
  <2>1. accepted[k] < revoked[k] + CacheTtl + MaxLookup
    BY DEF AuthInv, AcceptedInv, Ends
  <2>2. revoked[k] \in Nat /\ accepted[k] \in Nat
    BY DEF AuthInv, RowInv, AcceptedInv
  <2>3. QED BY <2>1, <2>2, Params
<1>2. QED BY <1>1, AlwaysAuth, PTL

\* So is a key that has expired by itself.
THEOREM ExpiredKeysRunOut == ASSUME AuthAssumption PROVE Spec => []ExpiredKeyRunsOut
<1>1. AuthInv => ExpiredKeyRunsOut
  <2> SUFFICES ASSUME AuthInv, NEW k \in Keys, row[k].expires # None, accepted[k] # None
               PROVE  accepted[k] < row[k].expires + (CacheTtl + MaxLookup)
    BY DEF ExpiredKeyRunsOut, RefusedAfter
  <2>1. accepted[k] < row[k].expires + CacheTtl + MaxLookup
    BY DEF AuthInv, AcceptedInv, Ends
  <2>2. row[k].expires \in Nat /\ accepted[k] \in Nat
    BY DEF AuthInv, RowInv, Row, AcceptedInv
  <2>3. QED BY <2>1, <2>2, Params
<1>2. QED BY <1>1, AlwaysAuth, PTL

\* A worker that has served a revocation does not take the key for valid any
\* more, unless it was looking that very key up at the time.
THEOREM RevokersForget == ASSUME AuthAssumption PROVE Spec => []RevokerForgets
<1>1. AuthInv => RevokerForgets
  BY DEF AuthInv, ForgottenInv, RevokerForgets, Fresh
<1>2. QED BY <1>1, AlwaysAuth, PTL

\* The rows, the caches and the lookups keep their types.
THEOREM AuthTypeCorrect == ASSUME AuthAssumption PROVE Spec => []TypeOK
<1>1. AuthInv => TypeOK
  <2> SUFFICES ASSUME AuthInv PROVE TypeOK
    OBVIOUS
  <2>1. now \in 0 .. MaxNow
    BY Params DEF AuthInv, RowInv, BootInv
  <2>2. \A k \in Keys : row[k].state \in States /\ row[k].expires \in Nat \cup {None}
    BY DEF AuthInv, RowInv, Row
  <2>3. \A w \in Workers, k \in Keys :
          cache[w][k] = None \/ (cache[w][k].at \in 0 .. now /\ cache[w][k].valid \in BOOLEAN)
    BY DEF AuthInv, RowInv, CacheInv, Verdict
  <2>4. \A w \in Workers :
          lookup[w].key \in Keys \cup {None} /\ lookup[w].since \in 0 .. now
    BY DEF AuthInv, RowInv, LookupInv, Lookup
  <2>5. \A w \in Workers : boot[w] \in {"start", "seed", "failed", "up"}
    BY DEF AuthInv, BootInv
  <2>6. \A k \in Keys : accepted[k] \in 0 .. now \cup {None}
    BY DEF AuthInv, RowInv, AcceptedInv
  <2>7. QED BY <2>1, <2>2, <2>3, <2>4, <2>5, <2>6 DEF TypeOK
<1>2. QED BY <1>1, AlwaysAuth, PTL

----------------------------------------------------------------------------
(* Bearer tokens: for how long a worker's copy of the issuer's keys differs *)
(* from what the issuer publishes, with any keys, clock and time to live.   *)

CONSTANTS SigningKeys, JwksTtl

VARIABLES published, reachable, jwks, since, verdict

Tokens == INSTANCE BearerTokens

\* The copy differs in a key only if that key changed at the issuer since it was
\* fetched.  An empty copy counts as none.
CopyInv ==
  /\ now \in Nat /\ published \subseteq SigningKeys
  /\ jwks \in [keys : SUBSET SigningKeys, at : Nat] /\ jwks.at <= now
  /\ since \in [SigningKeys -> Nat]
  /\ \A k \in SigningKeys : since[k] <= now
  /\ jwks.keys # {} =>
       \A k \in SigningKeys : (k \in jwks.keys <=> k \notin published) => jwks.at <= since[k]

\* Inductive: a verdict the issuer could have corrected is wrong only for as long.
TokenInv ==
  /\ CopyInv
  /\ verdict # None =>
       /\ verdict.key \in SigningKeys
       /\ /\ verdict.reached
          /\ \/ verdict.ok /\ verdict.key \notin published
             \/ ~ verdict.ok /\ verdict.key \in published
          => verdict.at < since[verdict.key] + JwksTtl

\* A validation uses keys that were fetched now, or that are fresh, or, when the
\* issuer cannot be reached, those it has.
LEMMA ValidateKeeps ==
  ASSUME Tokens!BearerAssumption, TokenInv, NEW k \in SigningKeys, Tokens!Validate(k)
  PROVE  TokenInv'
<1> DEFINE copy == Tokens!GetJwks
<1>1. /\ now \in Nat /\ published \subseteq SigningKeys /\ JwksTtl \in Nat \ {0}
      /\ jwks \in [keys : SUBSET SigningKeys, at : Nat] /\ since \in [SigningKeys -> Nat]
      /\ \A j \in SigningKeys : since[j] <= now
  BY DEF TokenInv, CopyInv, Tokens!BearerAssumption
<1>2. UNCHANGED <<now, published, reachable, since>> /\ jwks' = copy
  BY DEF Tokens!Validate
<1>3. CopyInv'
  <2>1. CASE copy = jwks
    BY <1>2, <2>1 DEF TokenInv, CopyInv
  <2>2. CASE copy = [keys |-> published, at |-> now]
    BY <1>1, <1>2, <2>2 DEF CopyInv
  <2>3. QED BY <2>1, <2>2 DEF Tokens!GetJwks
<1>4. /\ verdict'.key = k /\ verdict'.ok = (k \in copy.keys)
      /\ verdict'.at = now /\ verdict'.reached = reachable
  BY DEF Tokens!Validate
<1>5. ASSUME reachable, (k \in copy.keys) <=> (k \notin published)
      PROVE  now < since[k] + JwksTtl
  <2>1. Tokens!Fresh /\ copy = jwks
    BY <1>5 DEF Tokens!GetJwks
  <2>2. jwks.keys # {} /\ now - jwks.at < JwksTtl
    BY <2>1 DEF Tokens!Fresh
  <2>3. jwks.at <= since[k]
    BY <1>5, <2>1, <2>2 DEF TokenInv, CopyInv
  <2>4. jwks.at \in Nat /\ since[k] \in Nat
    BY <1>1
  <2>5. QED BY <1>1, <2>2, <2>3, <2>4
<1> HIDE DEF copy
<1>6. QED BY <1>2, <1>3, <1>4, <1>5 DEF TokenInv

\* The clock, the issuer's rotations and its outages leave the invariant true.
LEMMA TokenNext ==
  ASSUME Tokens!BearerAssumption, TokenInv, [Tokens!Next]_(Tokens!vars)
  PROVE  TokenInv'
<1>1. CASE Tokens!Tick
  BY <1>1 DEF Tokens!Tick, TokenInv, CopyInv
<1>2. CASE Tokens!Outage \/ UNCHANGED Tokens!vars
  BY <1>2 DEF Tokens!Outage, Tokens!vars, TokenInv, CopyInv
<1>3. ASSUME NEW k \in SigningKeys, Tokens!Rotate(k) PROVE TokenInv'
  <2>1. /\ now' = now /\ jwks' = jwks /\ verdict' = None
        /\ published' \subseteq SigningKeys
        /\ \A j \in SigningKeys \ {k} : j \in published' <=> j \in published
        /\ since' = [since EXCEPT ![k] = now]
    BY <1>3 DEF Tokens!Rotate, TokenInv, CopyInv
  <2>2. now \in Nat /\ jwks.at <= now
    BY DEF TokenInv, CopyInv
  <2>3. CopyInv'
    BY <2>1, <2>2 DEF TokenInv, CopyInv
  <2>4. QED BY <2>1, <2>3 DEF TokenInv
<1>4. QED BY <1>1, <1>2, <1>3, ValidateKeeps DEF Tokens!Next

\* The invariant holds always.
LEMMA AlwaysToken == ASSUME Tokens!BearerAssumption PROVE Tokens!Spec => []TokenInv
<1>1. Tokens!Init => TokenInv
  BY DEF Tokens!Init, TokenInv, CopyInv
<1>2. TokenInv /\ [Tokens!Next]_(Tokens!vars) => TokenInv'
  BY TokenNext
<1>3. QED BY <1>1, <1>2, PTL DEF Tokens!Spec

\* A token of a key the issuer has withdrawn is let through only within one time to
\* live of the withdrawal, unless the issuer could not be asked (_get_jwks).
THEOREM WithdrawnKeysRunOut ==
  ASSUME Tokens!BearerAssumption PROVE Tokens!Spec => []Tokens!WithdrawnKeyRunsOut
<1>1. TokenInv => Tokens!WithdrawnKeyRunsOut
  BY DEF TokenInv, Tokens!WithdrawnKeyRunsOut
<1>2. QED BY <1>1, AlwaysToken, PTL

\* A token of a key the issuer has published is refused for no longer either.
THEOREM PublishedKeysAreLearnt ==
  ASSUME Tokens!BearerAssumption PROVE Tokens!Spec => []Tokens!PublishedKeyIsLearnt
<1>1. TokenInv => Tokens!PublishedKeyIsLearnt
  BY DEF TokenInv, Tokens!PublishedKeyIsLearnt
<1>2. QED BY <1>1, AlwaysToken, PTL

============================================================================
