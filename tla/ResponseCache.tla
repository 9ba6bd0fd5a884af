--------------------------- MODULE ResponseCache ---------------------------
(***************************************************************************)
(* The response cache of server/middleware.py and, behind it, the          *)
(* statistics cache of server/api/queries.py and the materialized view it  *)
(* reads, which a cron job refreshes.  Caches are per worker process; only *)
(* the worker that serves a mutation drops entries, and it drops response  *)
(* entries before the mutation's handler has run.                          *)
(*                                                                         *)
(* The database is a version: how many mutations have been committed.  An  *)
(* answer carries the version it was computed from.                        *)
(***************************************************************************)
EXTENDS Integers, Sequences, FiniteSets

CONSTANTS
  Clients,       \* each with one request at a time
  Workers,       \* worker processes
  Paths,         \* what is cached, by path and query: listings and "stats"
  Writes,        \* mutations clients make: "scan", "product", "tag"
  Ttl,           \* cache_products_ttl and cache_stats_ttl
  StatsTtl,      \* _stats_cache_ttl
  RefreshEvery,  \* ticks between refreshes of the materialized view
  CacheMax,      \* _CACHE_MAX_ENTRIES
  MaxLatency,    \* bound: ticks a request takes
  MaxWrites,     \* bound: mutations
  MaxNow,        \* bound: the clock
  None

Pages == Paths \ {"stats"}

CacheAssumption ==
  /\ Writes \subseteq {"scan", "product", "tag"}
  /\ {Ttl, StatsTtl, RefreshEvery, CacheMax, MaxLatency, MaxWrites, MaxNow} \subseteq Nat
  /\ CacheMax > 0 /\ Ttl > 0 /\ StatsTtl > 0

VARIABLES
  now,
  commits,  \* when each mutation was committed: its length is the version
  view,     \* stats_cache, the materialized view: its version and age
  stats,    \* _stats_cache of each worker
  resp,     \* _response_cache of each worker
  req,      \* the request each client is making
  answer    \* history: the last GET answer

vars == <<now, commits, view, stats, resp, req, answer>>

Version == Len(commits)
Idle == [pc |-> "idle", at |-> 0, worker |-> None, what |-> None, version |-> 0,
         floor |-> 0]

\* Mutant: a time to live in the wrong unit.
FreshTwice(entry, ttl) == entry # None /\ now - entry.at < 2 * ttl + 1

Fresh(entry, ttl) == entry # None /\ now - entry.at < ttl

\* Requests end within MaxLatency and the cron job runs on time.
Tick ==
  /\ now < MaxNow
  /\ \A c \in Clients : req[c].pc # "idle" => now - req[c].at < MaxLatency
  /\ now - view.at < RefreshEvery
  /\ now' = now + 1
  /\ UNCHANGED <<commits, view, stats, resp, req, answer>>

RefreshView ==
  /\ view' = [at |-> now, version |-> Version]
  /\ UNCHANGED <<now, commits, stats, resp, req, answer>>

----------------------------------------------------------------------------
(* GET requests.                                                           *)

\* How long ago the first mutation that version lacks was committed.
Staleness(version) == IF version < Version THEN now - commits[version + 1] ELSE 0

\* The history keeps how stale an answer is, and whether it shows the mutations
\* committed before its request began.
Reply(path, version, floor) ==
  answer' = [path |-> path, stale |-> Staleness(version), current |-> version >= floor]

\* The middleware serves a fresh entry, or calls the handler.
BeginGet(c, w, path) ==
  /\ req[c].pc = "idle"
  /\ IF Fresh(resp[w][path], Ttl)
     THEN Reply(path, resp[w][path].version, Version) /\ UNCHANGED req
     ELSE /\ req' = [req EXCEPT ![c] =
                [Idle EXCEPT !.pc = "handler", !.at = now, !.worker = w,
                             !.what = path, !.floor = Version]]
          /\ UNCHANGED answer
  /\ UNCHANGED <<now, commits, view, stats, resp>>

\* list_products reads the tables.
ListProducts(c) ==
  /\ req[c].pc = "handler" /\ req[c].what \in Pages
  /\ req' = [req EXCEPT ![c].version = Version, ![c].pc = "fill"]
  /\ UNCHANGED <<now, commits, view, stats, resp, answer>>

\* get_stats: its own cache, or the materialized view.
GetStats(c) ==
  LET held == stats[req[c].worker]
  IN  /\ req[c].pc = "handler" /\ req[c].what = "stats"
      /\ req' = IF Fresh(held, StatsTtl)
                THEN [req EXCEPT ![c].version = held.version, ![c].pc = "fill"]
                ELSE [req EXCEPT ![c].version = view.version, ![c].pc = "store"]
      /\ UNCHANGED <<now, commits, view, stats, resp, answer>>

StoreStats(c) ==
  /\ req[c].pc = "store"
  /\ stats' = [stats EXCEPT ![req[c].worker] =
       [at |-> now, version |-> req[c].version]]
  /\ req' = [req EXCEPT ![c].pc = "fill"]
  /\ UNCHANGED <<now, commits, view, resp, answer>>

Entries(w) == {p \in Paths : resp[w][p] # None}

\* A full cache drops its oldest entry first, even to replace one it holds.
Evict(w) ==
  IF Cardinality(Entries(w)) < CacheMax THEN {resp[w]}
  ELSE {[resp[w] EXCEPT ![old] = None] :
          old \in {p \in Entries(w) : \A q \in Entries(w) : resp[w][p].at <= resp[w][q].at}}

\* The middleware has collected the body: cache it, answer it.
Fill(c) ==
  LET w == req[c].worker
      path == req[c].what
  IN  /\ req[c].pc = "fill"
      /\ \E kept \in Evict(w) :
           resp' = [resp EXCEPT ![w] =
             [kept EXCEPT ![path] = [at |-> now, version |-> req[c].version]]]
      /\ Reply(path, req[c].version, req[c].floor)
      /\ req' = [req EXCEPT ![c] = Idle]
      /\ UNCHANGED <<now, commits, view, stats>>

----------------------------------------------------------------------------
(* Mutations.                                                              *)

\* Mutant: a change of a product keeps the listings.
InvalidatedByNothingButScans(write) == IF write = "scan" THEN Paths ELSE {}

\* The entries whose path the middleware connects with that of the mutation.
Invalidated(write) ==
  CASE write = "scan" -> Paths
    [] write = "product" -> Pages
    [] write = "tag" -> {}

\* The middleware invalidates, then calls the handler.
BeginWrite(c, w, write) ==
  /\ req[c].pc = "idle" /\ Version < MaxWrites
  /\ resp' = [resp EXCEPT ![w] =
       [p \in Paths |-> IF p \in Invalidated(write) THEN None ELSE @[p]]]
  /\ req' = [req EXCEPT ![c] =
       [Idle EXCEPT !.pc = "commit", !.at = now, !.worker = w, !.what = write]]
  /\ UNCHANGED <<now, commits, view, stats, answer>>

CommitWrite(c) ==
  /\ req[c].pc = "commit" /\ Version < MaxWrites
  /\ commits' = Append(commits, now)
  /\ req' = [req EXCEPT ![c].pc = "written"]
  /\ UNCHANGED <<now, view, stats, resp, answer>>

\* The scan handlers end with invalidate_stats_cache().
EndWrite(c) ==
  /\ req[c].pc = "written"
  /\ stats' = IF req[c].what = "scan" THEN [stats EXCEPT ![req[c].worker] = None]
              ELSE stats
  /\ req' = [req EXCEPT ![c] = Idle]
  /\ UNCHANGED <<now, commits, view, resp, answer>>

\* A mutation that is refused (404, 409) has invalidated all the same.
RefuseWrite(c) ==
  /\ req[c].pc = "commit"
  /\ req' = [req EXCEPT ![c] = Idle]
  /\ UNCHANGED <<now, commits, view, stats, resp, answer>>

Init ==
  /\ now = 0 /\ commits = <<>>
  /\ view = [at |-> 0, version |-> 0]
  /\ stats = [w \in Workers |-> None]
  /\ resp = [w \in Workers |-> [p \in Paths |-> None]]
  /\ req = [c \in Clients |-> Idle]
  /\ answer = None

Serve(c) ==
  \/ ListProducts(c) \/ GetStats(c) \/ StoreStats(c) \/ Fill(c)
  \/ CommitWrite(c) \/ EndWrite(c) \/ RefuseWrite(c)

Next ==
  \/ Tick \/ RefreshView
  \/ \E c \in Clients :
       \/ Serve(c)
       \/ \E w \in Workers : \/ \E p \in Paths : BeginGet(c, w, p)
                             \/ \E x \in Writes : BeginWrite(c, w, x)

Spec == Init /\ [][Next]_vars

----------------------------------------------------------------------------
(* Properties.                                                             *)

\* Types of the caches and the requests; an entry never holds a version that
\* was not committed, and a cache never more entries than its limit.
TypeOK ==
  /\ now \in 0 .. MaxNow
  /\ \A w \in Workers, p \in Paths :
       resp[w][p] # None => resp[w][p].at <= now /\ resp[w][p].version <= Version
  /\ \A w \in Workers : Cardinality(Entries(w)) <= CacheMax
  /\ \A w \in Workers : stats[w] # None => stats[w].version <= Version
  /\ \A c \in Clients :
       req[c].pc \in {"idle", "handler", "store", "fill", "commit", "written"}

\* A product listing lacks no mutation older than the cache's time to live and
\* one request under way, whichever worker served the mutation.
ListingsAge ==
  answer # None /\ answer.path \in Pages => answer.stale <= Ttl + MaxLatency

\* Statistics go through three layers, each as stale as it may be when the next
\* one reads it: the view, the statistics cache, the response cache, each cache
\* strictly younger than its time to live, each filled by one request.
StatsAge ==
  answer # None /\ answer.path = "stats"
    => answer.stale <= RefreshEvery + (StatsTtl - 1) + (Ttl - 1) + 2 * MaxLatency

\* "In-process cache with auto-invalidation on mutations": a listing requested
\* after a mutation was answered shows it, within one worker.
ReadYourWrites ==
  answer # None /\ answer.path \in Pages => answer.current

============================================================================
