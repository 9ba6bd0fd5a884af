------------------------------ MODULE MCServer ------------------------------
(***************************************************************************)
(* The parts of a server process that surround its handlers, side by side  *)
(* in one state space: the initial state chooses a part, and the variables *)
(* of the others stay empty.  The parts share nothing in the code (each    *)
(* has its own dict, queue or pool), so no behaviour is lost.              *)
(***************************************************************************)
EXTENDS RateLimiter, FiniteSets, TLC

CONSTANT None

VARIABLES
  part,
  commits, view, stats, resp, req, answer,                  \* ResponseCache
  answered, queue, taken, flusher, rows, lastId, excused, faults, \* AccessLog
  row, cache, lookup, revoking, boot, accepted, revoked, forgotten, \* ApiKeyAuth
  published, reachable, jwks, since, verdict,               \* BearerTokens
  idle, open, held, raw, txn, broken, stored, pc, thread, next, sem, denied    \* DepConnections

limiterVars == <<bucket, lastCleanup, checks, admitted, refused>>
cacheVars == <<commits, view, stats, resp, req, answer>>
logVars == <<answered, queue, taken, flusher, rows, lastId, excused, faults>>
keyVars == <<row, cache, lookup, revoking, boot, accepted, revoked, forgotten>>
tokenVars == <<published, reachable, jwks, since, verdict>>
poolVars == <<idle, open, held, raw, txn, broken, stored, pc, thread, next, sem,
              denied>>
allVars == <<part, now, limiterVars, cacheVars, logVars, keyVars, tokenVars, poolVars>>

\* A fast zone, and a slow one whose empty bucket is full when it counts as idle.
MCRate == [z \in Zones |-> IF z = "query" THEN 2 ELSE 1]
MCBurst == [z \in Zones |-> IF z = "query" THEN 2 ELSE 1]

----------------------------------------------------------------------------
(* The instances.                                                          *)

\* Requests overlap in one of two workers, only one of which sees a mutation.
TwoWorkers == INSTANCE ResponseCache WITH
  Clients <- {"c1", "c2"}, Workers <- {"w1", "w2"}, Paths <- {"p1"},
  Writes <- {"product"}, Ttl <- 1, StatsTtl <- 1, RefreshEvery <- 1, CacheMax <- 1,
  MaxLatency <- 1, MaxWrites <- 1, MaxNow <- 3

\* One client, one worker, and caches of different ages behind each other.
OneWorker == INSTANCE ResponseCache WITH
  Clients <- {"c1"}, Workers <- {"w1"}, Paths <- {"p1", "stats"}, Writes <- {"scan", "product"},
  Ttl <- 2, StatsTtl <- 2, RefreshEvery <- 1, CacheMax <- 1,
  MaxLatency <- 1, MaxWrites <- 1, MaxNow <- 6

\* Statistics only, asked for at every tick and answered at once.
Statistics == INSTANCE ResponseCache WITH
  Clients <- {"c1"}, Workers <- {"w1"}, Paths <- {"stats"}, Writes <- {"scan"},
  Ttl <- 1, StatsTtl <- 2, RefreshEvery <- 1, CacheMax <- 1,
  MaxLatency <- 0, MaxWrites <- 1, MaxNow <- 6

Log == INSTANCE AccessLog WITH
  Workers <- {"w1", "w2"}, QueueMax <- 2, Retention <- 1,
  MaxRequests <- 4, MaxFaults <- 2, MaxNow <- 2

\* Two workers start with one admin key from the environment.
SharedKey == INSTANCE ApiKeyAuth WITH
  Keys <- {"k1"}, Workers <- {"w1", "w2"}, SeedKeys <- [w \in {"w1", "w2"} |-> {"k1"}],
  CacheTtl <- 2, CacheLimit <- 0, Lifetimes <- {None},
  MaxLookup <- 1, MaxNow <- 6

\* A second key, which expires.
ExpiringKey == INSTANCE ApiKeyAuth WITH
  Keys <- {"k1", "k2"}, Workers <- {"w1"}, SeedKeys <- [w \in {"w1"} |-> {"k1"}],
  CacheTtl <- 1, CacheLimit <- 1, Lifetimes <- {1},
  MaxLookup <- 1, MaxNow <- 3

Tokens == INSTANCE BearerTokens WITH
  SigningKeys <- {"k1", "k2"}, JwksTtl <- 2, MaxNow <- 4

\* One pooled connection and one more, for two uploads; one cannot be parsed.
Pool == INSTANCE DepConnections WITH
  Uploads <- {"u1", "u2"}, Readers <- {}, Conns <- {"c1", "c2", "c3", "c4"},
  PoolSize <- 1, MaxOverflow <- 1, NBatches <- 1, RepeatLayers <- {}, BadDeps <- {"u2"}

\* One upload whose layers cannot be stored, beside another request.
BusyPool == INSTANCE DepConnections WITH
  Uploads <- {"u1"}, Readers <- {"r1"}, Conns <- {"c1", "c2", "c3"},
  PoolSize <- 1, MaxOverflow <- 1, NBatches <- 2, RepeatLayers <- {"u1"}, BadDeps <- {}

ASSUME PartsAssumption ==
  /\ TwoWorkers!CacheAssumption /\ OneWorker!CacheAssumption /\ Statistics!CacheAssumption
  /\ Log!AccessLogAssumption /\ SharedKey!AuthAssumption /\ ExpiringKey!AuthAssumption
  /\ Tokens!BearerAssumption /\ Pool!PoolAssumption /\ BusyPool!PoolAssumption

----------------------------------------------------------------------------
(* One part runs.                                                          *)

CachePart(p, A) == part = p /\ A /\ UNCHANGED <<part, limiterVars, logVars, keyVars, tokenVars, poolVars>>
LogPart(A) == part = "log" /\ A /\ UNCHANGED <<part, limiterVars, cacheVars, keyVars, tokenVars, poolVars>>
KeyPart(p, A) == part = p /\ A /\ UNCHANGED <<part, limiterVars, cacheVars, logVars, tokenVars, poolVars>>
PoolPart(p, A) ==
  part = p /\ A
    /\ UNCHANGED <<part, now, limiterVars, cacheVars, logVars, keyVars, tokenVars>>

NoCache == commits = None /\ view = None /\ stats = None /\ resp = None /\ req = None /\ answer = None
NoLog == /\ answered = None /\ queue = None /\ taken = None /\ flusher = None /\ rows = None
         /\ lastId = None /\ excused = None /\ faults = None
NoKeys == /\ row = None /\ cache = None /\ lookup = None /\ revoking = None /\ boot = None
          /\ accepted = None /\ revoked = None /\ forgotten = None
NoTokens == published = None /\ reachable = None /\ jwks = None /\ since = None /\ verdict = None
NoPool == /\ idle = None /\ open = None /\ held = None /\ raw = None /\ txn = None
          /\ broken = None /\ stored = None /\ pc = None /\ thread = None /\ next = None
          /\ sem = None /\ denied = None

ServerInit ==
  /\ Init
  /\ \/ part = "limiter" /\ NoCache /\ NoLog /\ NoKeys /\ NoTokens /\ NoPool
     \/ part = "two workers" /\ TwoWorkers!Init /\ NoLog /\ NoKeys /\ NoTokens /\ NoPool
     \/ part = "one worker" /\ OneWorker!Init /\ NoLog /\ NoKeys /\ NoTokens /\ NoPool
     \/ part = "statistics" /\ Statistics!Init /\ NoLog /\ NoKeys /\ NoTokens /\ NoPool
     \/ part = "log" /\ Log!Init /\ NoCache /\ NoKeys /\ NoTokens /\ NoPool
     \/ part = "shared key" /\ SharedKey!Init /\ NoCache /\ NoLog /\ NoTokens /\ NoPool
     \/ part = "expiring key" /\ ExpiringKey!Init /\ NoCache /\ NoLog /\ NoTokens /\ NoPool
     \/ part = "tokens" /\ Tokens!Init /\ NoCache /\ NoLog /\ NoKeys /\ NoPool
     \/ part = "pool" /\ Pool!Init /\ NoCache /\ NoLog /\ NoKeys /\ NoTokens
     \/ part = "busy pool" /\ BusyPool!Init /\ NoCache /\ NoLog /\ NoKeys /\ NoTokens

\* The clocks of the caches stop at their bound.
Stopped ==
  /\ part \in {"two workers", "one worker", "statistics", "shared key", "expiring key", "tokens"}
  /\ UNCHANGED allVars

LimiterNext ==
  /\ part = "limiter" /\ Next
  /\ UNCHANGED <<part, cacheVars, logVars, keyVars, tokenVars, poolVars>>

TokenNext ==
  /\ part = "tokens" /\ Tokens!Next
  /\ UNCHANGED <<part, limiterVars, cacheVars, logVars, keyVars, poolVars>>

ServerNext ==
  \/ LimiterNext \/ TokenNext \/ Stopped
  \/ CachePart("two workers", TwoWorkers!Next)
  \/ CachePart("one worker", OneWorker!Next)
  \/ CachePart("statistics", Statistics!Next)
  \/ LogPart(Log!Next)
  \/ KeyPart("shared key", SharedKey!Next)
  \/ KeyPart("expiring key", ExpiringKey!Next)
  \/ PoolPart("pool", Pool!Next)
  \/ PoolPart("busy pool", BusyPool!Next)

\* The fairness that each part states for itself: parts exclude one another, so
\* that one condition serves an action of each.
ServerSpec ==
  /\ ServerInit /\ [][ServerNext]_allVars
  /\ \A a \in {<<"w1", "u1">>, <<"w2", "u2">>} :
       /\ WF_allVars(\/ LogPart(Log!Take(a[1]))
                     \/ KeyPart("shared key", SharedKey!Startup(a[1]))
                     \/ PoolPart("pool", Pool!Handle(a[2])))
       /\ WF_allVars(\/ LogPart(Log!Write(a[1]) \/ Log!Fail(a[1]))
                     \/ PoolPart("pool", Pool!RunThread(a[2])))

----------------------------------------------------------------------------
(* Properties.                                                             *)

\* The type invariant of every part.
PartsTypeOK ==
  CASE part = "limiter" -> TypeOK
    [] part = "two workers" -> TwoWorkers!TypeOK
    [] part = "one worker" -> OneWorker!TypeOK
    [] part = "statistics" -> Statistics!TypeOK
    [] part = "log" -> Log!TypeOK
    [] part = "shared key" -> SharedKey!TypeOK
    [] part = "expiring key" -> ExpiringKey!TypeOK
    [] OTHER -> TRUE

\* A cached listing or statistic is never staler than the time to live of the
\* caches it went through and the requests that filled them, whichever worker
\* served the mutation it lacks.
AnswersRunOut ==
  /\ part = "two workers" => TwoWorkers!ListingsAge /\ TwoWorkers!StatsAge
  /\ part = "one worker" => OneWorker!ListingsAge /\ OneWorker!StatsAge
  /\ part = "statistics" => Statistics!StatsAge

\* "In-process cache with auto-invalidation on mutations": a client that has one
\* request at a time and one worker reads what it wrote.
ReadsItsWrites == part = "one worker" => OneWorker!ReadYourWrites

\* A revoked or expired API key, and a token of a withdrawn signing key, are
\* let through for no longer than what was cached before may be used; a worker
\* forgets the key it revokes, and learns a signing key that was published.
KeyVerdicts ==
  /\ part = "shared key" => SharedKey!RevokedKeyRunsOut /\ SharedKey!RevokerForgets
  /\ part = "expiring key" =>
       /\ ExpiringKey!RevokedKeyRunsOut /\ ExpiringKey!ExpiredKeyRunsOut
       /\ ExpiringKey!RevokerForgets
  /\ part = "tokens" => Tokens!WithdrawnKeyRunsOut /\ Tokens!PublishedKeyIsLearnt

\* No request is logged twice or out of its worker's order, whatever writes
\* failed in between.
LogIsOrdered == part = "log" => Log!LoggedOnceInOrder

\* No step drops a log entry but for a full queue, a failed write, a crash or
\* the retention: none is lost between the flush thread and new requests.
LossIsExcused == [][part = "log" => Log!LossIsExcused]_allVars

\* The pool never hands a connection to two, nor opens more than it may; uploads
\* and their threads, refused or failed, give every connection back; and, unless
\* a handler fails on a connection that is no longer its own, a scan stays
\* pending only if its thread was refused a connection.
PoolSettles ==
  /\ part = "pool" => Pool!PoolOK /\ Pool!NothingLeaks /\ Pool!SettledUnlessRefused
  /\ part = "busy pool" => BusyPool!PoolOK /\ BusyPool!NothingLeaks

\* The server's own threads and workers go on: log entries do not stay in memory
\* after failed writes, workers that collide on the seed key all come up, and
\* dependency threads that each wait for a second connection end.
ServerGoesOn ==
  /\ \A w \in {"w1", "w2"} :
       part = "log" /\ queue[w] # <<>> ~> part = "log" /\ queue[w] = <<>>
  /\ <>[](/\ part = "shared key" => \A w \in {"w1", "w2"} : boot[w] = "up"
          /\ part = "pool" => \A u \in {"u1", "u2"} : thread[u] \in {"none", "done"})
=============================================================================
