---------------------------- MODULE ApiKeyAuth ----------------------------
(***************************************************************************)
(* API keys (server/auth.py): the rows of api_keys, the per-process cache  *)
(* of lookups that the authentication middleware keeps, the admin          *)
(* endpoints that create and revoke keys, and the seeding of the first     *)
(* admin key when a worker process starts.                                 *)
(*                                                                         *)
(* auth_middleware is a coroutine that never awaits while it looks a key   *)
(* up, so a worker has at most one lookup in progress; the endpoints run   *)
(* in the worker's thread pool, beside it.                                 *)
(***************************************************************************)
EXTENDS Naturals, FiniteSets

CONSTANTS
  Keys,           \* API keys, by their hash
  Workers,        \* worker processes
  SeedKeys,       \* SeedKeys[w]: keys seed_admin_key may use in w: the one in
                  \* SYFTER_ADMIN_API_KEY, or keys w makes up itself
  CacheTtl,       \* _cache_ttl
  CacheLimit,     \* entries that trigger an eviction (256)
  Lifetimes,      \* ticks after which a created key expires
  MaxLookup,      \* bound: ticks from reading a row to caching the verdict
  MaxNow,         \* bound: the clock
  None

AuthAssumption ==
  /\ SeedKeys \in [Workers -> SUBSET Keys]
  /\ {CacheLimit, MaxLookup, MaxNow} \subseteq Nat /\ CacheTtl \in Nat \ {0}
  /\ Lifetimes \subseteq Nat \cup {None}
  /\ None \notin Nat \cup Keys

VARIABLES
  now,
  row,       \* api_keys: key -> its columns
  cache,     \* _key_cache of each worker
  lookup,    \* the lookup in progress in each worker
  revoking,  \* keys whose revocation a worker has committed but not finished
  boot,      \* where each worker is in its startup
  accepted,  \* history: when each key was last let through
  revoked,   \* history: when each key was revoked
  forgotten  \* history: keys a worker revoked with no lookup of them under way

vars == <<now, row, cache, lookup, revoking, boot, accepted, revoked, forgotten>>

States == {"absent", "active", "inactive"}
NoRow == [state |-> "absent", expires |-> None, admin |-> FALSE]
NoLookup == [key |-> None, valid |-> FALSE, since |-> 0]

Expired(k) == row[k].expires # None /\ row[k].expires < now
Valid(k) == row[k].state = "active" /\ ~Expired(k)

\* The clock stops while a lookup or a revocation is as old as it may get.
Tick ==
  /\ now < MaxNow
  /\ \A w \in Workers :
       /\ lookup[w].key # None => now - lookup[w].since < MaxLookup
       /\ revoking[w] = None
  /\ now' = now + 1
  /\ UNCHANGED <<row, cache, lookup, revoking, boot, accepted, revoked, forgotten>>

----------------------------------------------------------------------------
(* Startup: seed_admin_key.                                                *)

AdminRows == {k \in Keys : row[k].admin}

\* The existing admin key is looked for first, without a lock.
SeedCheck(w) ==
  /\ boot[w] = "start"
  /\ boot' = [boot EXCEPT ![w] = IF AdminRows = {} THEN "seed" ELSE "up"]
  /\ UNCHANGED <<now, row, cache, lookup, revoking, accepted, revoked, forgotten>>

\* UNIQUE(key_hash): the slower of two workers seeding one key fails to start.
SeedInsert(w) ==
  /\ boot[w] = "seed"
  /\ \E k \in SeedKeys[w] :
       IF row[k].state = "absent"
       THEN /\ row' = [row EXCEPT ![k] =
                 [state |-> "active", expires |-> None, admin |-> TRUE]]
            /\ boot' = [boot EXCEPT ![w] = "up"]
       ELSE boot' = [boot EXCEPT ![w] = "failed"] /\ UNCHANGED row
  /\ UNCHANGED <<now, cache, lookup, revoking, accepted, revoked, forgotten>>

\* The supervisor starts a failed worker again.
Restart(w) ==
  /\ boot[w] = "failed"
  /\ boot' = [boot EXCEPT ![w] = "start"]
  /\ UNCHANGED <<now, row, cache, lookup, revoking, accepted, revoked, forgotten>>

----------------------------------------------------------------------------
(* auth_middleware.                                                        *)

Fresh(w, k) == cache[w][k] # None /\ now - cache[w][k].at < CacheTtl

\* Who gets through is remembered in the history.
Answer(k, valid) == accepted' = IF valid THEN [accepted EXCEPT ![k] = now] ELSE accepted

\* _cache_get finds a fresh verdict, good or bad.
AuthFromCache(w, k) ==
  /\ boot[w] = "up" /\ lookup[w].key = None /\ row[k].state # "absent"
  /\ Fresh(w, k)
  /\ Answer(k, cache[w][k].valid)
  /\ UNCHANGED <<now, row, cache, lookup, revoking, boot, revoked, forgotten>>

\* Otherwise a stale entry is dropped and the row is read.
AuthReadRow(w, k) ==
  /\ boot[w] = "up" /\ lookup[w].key = None /\ row[k].state # "absent"
  /\ ~Fresh(w, k)
  /\ cache' = [cache EXCEPT ![w][k] = None]
  /\ lookup' = [lookup EXCEPT ![w] = [key |-> k, valid |-> Valid(k), since |-> now]]
  /\ UNCHANGED <<now, row, revoking, boot, accepted, revoked, forgotten>>

\* _cache_set drops stale entries of an overgrown cache, then stores.
CacheSet(entries, k, valid) ==
  LET cached == {j \in Keys : entries[j] # None}
      kept == IF Cardinality(cached) > CacheLimit
              THEN [j \in Keys |-> IF j \in cached /\ entries[j].at + CacheTtl < now
                                   THEN None ELSE entries[j]]
              ELSE entries
  IN  [kept EXCEPT ![k] = [at |-> now, valid |-> valid]]

\* The verdict read before is cached now, and the request answered with it.
AuthFinish(w) ==
  LET k == lookup[w].key
  IN  /\ k # None
      /\ cache' = [cache EXCEPT ![w] = CacheSet(@, k, lookup[w].valid)]
      /\ lookup' = [lookup EXCEPT ![w] = NoLookup]
      /\ Answer(k, lookup[w].valid)
      /\ UNCHANGED <<now, row, revoking, boot, revoked, forgotten>>

----------------------------------------------------------------------------
(* The admin endpoints.                                                    *)

CreateKey(w, k) ==
  /\ boot[w] = "up" /\ row[k].state = "absent" /\ \A v \in Workers : k \notin SeedKeys[v]
  /\ \E life \in Lifetimes :
       row' = [row EXCEPT ![k] =
         [state |-> "active", admin |-> FALSE,
          expires |-> IF life = None THEN None ELSE now + life]]
  /\ UNCHANGED <<now, cache, lookup, revoking, boot, accepted, revoked, forgotten>>

Revoke(w, k) ==
  /\ boot[w] = "up" /\ revoking[w] = None /\ row[k].state = "active"
  /\ row' = [row EXCEPT ![k].state = "inactive"]
  /\ revoking' = [revoking EXCEPT ![w] = k]
  /\ revoked' = [revoked EXCEPT ![k] = now]
  /\ UNCHANGED <<now, cache, lookup, boot, accepted, forgotten>>

\* Mutant: the whole-cache clear forgotten.
RevokeFinishKeepingCache(w) ==
  /\ revoking[w] # None
  /\ forgotten' = IF lookup[w].key = revoking[w] THEN forgotten
                   ELSE forgotten \cup {<<w, revoking[w]>>}
  /\ revoking' = [revoking EXCEPT ![w] = None]
  /\ UNCHANGED <<now, row, cache, lookup, boot, accepted, revoked>>

\* _key_cache.clear(), in the worker that served the request only.
RevokeFinish(w) ==
  /\ revoking[w] # None
  /\ cache' = [cache EXCEPT ![w] = [j \in Keys |-> None]]
  /\ forgotten' = IF lookup[w].key = revoking[w] THEN forgotten
                   ELSE forgotten \cup {<<w, revoking[w]>>}
  /\ revoking' = [revoking EXCEPT ![w] = None]
  /\ UNCHANGED <<now, row, lookup, boot, accepted, revoked>>

Init ==
  /\ now = 0
  /\ row = [k \in Keys |-> NoRow]
  /\ cache = [w \in Workers |-> [k \in Keys |-> None]]
  /\ lookup = [w \in Workers |-> NoLookup]
  /\ revoking = [w \in Workers |-> None]
  /\ boot = [w \in Workers |-> "start"]
  /\ accepted = [k \in Keys |-> None]
  /\ revoked = [k \in Keys |-> None]
  /\ forgotten = {}

Startup(w) == SeedCheck(w) \/ SeedInsert(w) \/ Restart(w)

Next ==
  \/ Tick
  \/ \E w \in Workers :
       \/ Startup(w) \/ AuthFinish(w) \/ RevokeFinish(w)
       \/ \E k \in Keys : \/ AuthFromCache(w, k) \/ AuthReadRow(w, k)
                          \/ CreateKey(w, k) \/ Revoke(w, k)

Spec == Init /\ [][Next]_vars

\* A starting worker runs on its own; nothing else has to happen.
FairSpec == Spec /\ \A w \in Workers : WF_vars(Startup(w))

----------------------------------------------------------------------------
(* Properties.                                                             *)

\* Types of the rows, of the cache entries and of the lookups.
TypeOK ==
  /\ now \in 0 .. MaxNow
  /\ \A k \in Keys : row[k].state \in States /\ row[k].expires \in Nat \cup {None}
  /\ \A w \in Workers, k \in Keys :
       cache[w][k] = None \/ (cache[w][k].at \in 0 .. now /\ cache[w][k].valid \in BOOLEAN)
  /\ \A w \in Workers : lookup[w].key \in Keys \cup {None} /\ lookup[w].since \in 0 .. now
  /\ \A w \in Workers : boot[w] \in {"start", "seed", "failed", "up"}
  /\ \A k \in Keys : accepted[k] \in 0 .. now \cup {None}

RefusedAfter(k, moment, grace) ==
  moment # None /\ accepted[k] # None => accepted[k] < moment + grace

\* A revoked key is let through nowhere once the cache's time to live, and one
\* lookup that was under way, have passed, although only one worker is told.
RevokedKeyRunsOut ==
  \A k \in Keys : RefusedAfter(k, revoked[k], CacheTtl + MaxLookup)

\* The same for a key that expires by itself; it is good in its last tick.
ExpiredKeyRunsOut ==
  \A k \in Keys : RefusedAfter(k, row[k].expires, CacheTtl + MaxLookup)

\* A worker that has served a revocation does not know the key as valid any
\* more, unless it was looking that very key up at the time.
RevokerForgets ==
  \A w \in Workers, k \in Keys :
    <<w, k>> \in forgotten => ~(Fresh(w, k) /\ cache[w][k].valid)

============================================================================
