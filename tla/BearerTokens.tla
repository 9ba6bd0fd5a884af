---------------------------- MODULE BearerTokens ----------------------------
(***************************************************************************)
(* OIDC bearer tokens (server/auth.py): a worker validates a token with    *)
(* the issuer's signing keys, which it fetches and keeps for a while, and  *)
(* goes on using when the issuer cannot be reached.  The issuer publishes  *)
(* and withdraws keys whenever it likes.                                   *)
(***************************************************************************)
EXTENDS Naturals

CONSTANTS
  SigningKeys,  \* the issuer's keys, by their kid
  JwksTtl,      \* config.oidc_jwks_cache_ttl
  MaxNow,       \* bound: the clock
  None

BearerAssumption == JwksTtl \in Nat \ {0} /\ MaxNow \in Nat

VARIABLES
  now,
  published,  \* keys at the issuer's jwks_uri
  reachable,  \* whether the issuer answers
  jwks,       \* _jwks_cache and _jwks_cache_time
  since,      \* history: when each key was last published or withdrawn
  verdict     \* history: the last validation

vars == <<now, published, reachable, jwks, since, verdict>>

Tick ==
  /\ now < MaxNow
  /\ now' = now + 1
  /\ UNCHANGED <<published, reachable, jwks, since, verdict>>

Rotate(k) ==
  /\ published' = IF k \in published THEN published \ {k} ELSE published \cup {k}
  /\ since' = [since EXCEPT ![k] = now]
  /\ verdict' = None
  /\ UNCHANGED <<now, reachable, jwks>>

Outage ==
  /\ reachable' = ~reachable
  /\ UNCHANGED <<now, published, jwks, since, verdict>>

Fresh == jwks.keys # {} /\ now - jwks.at < JwksTtl

\* A fetch that fails leaves the old keys and their time.
GetJwks ==
  IF Fresh THEN jwks
  ELSE IF reachable THEN [keys |-> published, at |-> now] ELSE jwks

\* A token is good if its signing key is among those the worker knows.
Validate(k) ==
  /\ jwks' = GetJwks
  /\ verdict' = [key |-> k, ok |-> k \in GetJwks.keys, at |-> now, reached |-> reachable]
  /\ UNCHANGED <<now, published, reachable, since>>

Init ==
  /\ now = 0
  /\ published \in SUBSET SigningKeys
  /\ reachable \in BOOLEAN
  /\ jwks = [keys |-> {}, at |-> 0]
  /\ since = [k \in SigningKeys |-> 0]
  /\ verdict = None

Next ==
  \/ Tick \/ Outage
  \/ \E k \in SigningKeys : Rotate(k) \/ Validate(k)

Spec == Init /\ [][Next]_vars

----------------------------------------------------------------------------
(* Properties.                                                             *)

\* A token of a withdrawn key is let through only while the keys fetched before
\* may still be used, or while the issuer does not answer.
WithdrawnKeyRunsOut ==
  verdict # None =>
    (/\ verdict.ok /\ verdict.key \notin published /\ verdict.reached
     => verdict.at < since[verdict.key] + JwksTtl)

\* A token of a published key is refused only until the keys known without it
\* may no longer be used, or while the issuer does not answer.
PublishedKeyIsLearnt ==
  verdict # None =>
    (/\ ~verdict.ok /\ verdict.key \in published /\ verdict.reached
     => verdict.at < since[verdict.key] + JwksTtl)
============================================================================
