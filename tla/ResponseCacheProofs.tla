------------------------ MODULE ResponseCacheProofs ------------------------
(***************************************************************************)
(* How old an answer of the caches may be, for all times to live, all      *)
(* latencies and any number of workers, clients, paths and mutations; and  *)
(* what one client of one worker reads.                                    *)
(***************************************************************************)
EXTENDS ResponseCache, FiniteSetTheorems, TLAPS

Entry == [at : Nat, version : Nat]

\* A version covers a time if it lacks no mutation committed before it.
Covers(log, version, time) ==
  version <= Len(log) /\ (version < Len(log) => log[version + 1] >= time)

\* How far an entry, or what a request has read, may lag behind its own time.
StatsLag == RefreshEvery + MaxLatency
ReadLag(what) == IF what = "stats" THEN StatsLag + (StatsTtl - 1) ELSE 0
RespLag(path) == ReadLag(path) + MaxLatency

\* The clock n and the log of commits.
Clock(n, log) == n \in Nat /\ log \in Seq(Nat) /\ \A i \in 1 .. Len(log) : log[i] <= n

\* An entry of the past that lags by no more than lag.
Aged(n, log, entry, lag) == entry.at <= n /\ Covers(log, entry.version, entry.at - lag)

Request == [pc : {"idle", "handler", "store", "fill", "commit", "written"}, at : Nat,
            worker : Workers \cup {None}, what : Paths \cup Writes \cup {None},
            version : Nat, floor : Nat]

\* What a request under way has read, and since when it runs.
Reading(n, log, r) ==
  /\ r.pc # "idle" => r.at <= n /\ n - r.at <= MaxLatency /\ r.worker \in Workers
  /\ r.pc \in {"handler", "store", "fill"} => r.what \in Paths
  /\ r.pc = "store" => r.what = "stats" /\ Covers(log, r.version, r.at - RefreshEvery)
  /\ r.pc = "fill" => Covers(log, r.version, r.at - ReadLag(r.what))

ClockInv == Clock(now, commits)

ViewInv == view \in Entry /\ Aged(now, commits, view, 0) /\ now - view.at <= RefreshEvery

StatsInv ==
  /\ stats \in [Workers -> Entry \cup {None}]
  /\ \A w \in Workers : stats[w] # None => Aged(now, commits, stats[w], StatsLag)

RespInv ==
  /\ resp \in [Workers -> [Paths -> Entry \cup {None}]]
  /\ \A w \in Workers : \A p \in Paths :
       resp[w][p] # None => Aged(now, commits, resp[w][p], RespLag(p))

ReqInv == req \in [Clients -> Request] /\ \A c \in Clients : Reading(now, commits, req[c])

AnswerInv == ListingsAge /\ StatsAge

\* Inductive: every layer lags behind its own time by no more than its share.
LayersInv == ClockInv /\ ViewInv /\ StatsInv /\ RespInv /\ ReqInv
AgeInv == LayersInv /\ AnswerInv

\* Time passes, or a mutation is committed.
Grows ==
  /\ now' \in Nat /\ now <= now'
  /\ commits' = commits \/ commits' = Append(commits, now)

----------------------------------------------------------------------------
(* Versions and times.                                                     *)

\* The parameters are numbers.
LEMMA Lags ==
  ASSUME CacheAssumption
  PROVE  /\ Ttl \in Nat /\ StatsTtl \in Nat /\ RefreshEvery \in Nat /\ MaxLatency \in Nat
         /\ Ttl > 0 /\ StatsTtl > 0 /\ StatsLag \in Nat
         /\ \A p : ReadLag(p) \in Nat /\ RespLag(p) \in Nat
BY DEF CacheAssumption, StatsLag, ReadLag, RespLag

\* The last version covers every time.
LEMMA LastCovers ==
  ASSUME NEW log \in Seq(Nat), NEW t \in Int
  PROVE  Covers(log, Len(log), t)
BY DEF Covers

\* What covers a time covers every earlier one,
LEMMA CoversEarlier ==
  ASSUME NEW log \in Seq(Nat), NEW v \in Nat, NEW t \in Int, NEW s \in Int,
         Covers(log, v, t), s <= t
  PROVE  Covers(log, v, s)
<1>1. CASE v < Len(log)
  <2>1. v + 1 \in 1 .. Len(log)
    BY <1>1
  <2>2. log[v + 1] \in Nat
    BY <2>1
  <2>3. QED BY <1>1, <2>2 DEF Covers
<1>2. CASE ~ v < Len(log)
  BY <1>2 DEF Covers
<1>3. QED BY <1>1, <1>2

\* and still covers it when a mutation is committed later.
LEMMA CoversGrows ==
  ASSUME NEW n \in Nat, NEW log \in Seq(Nat), NEW v \in Nat, NEW t \in Int,
         Covers(log, v, t), t <= n
  PROVE  Covers(Append(log, n), v, t)
<1>1. Len(Append(log, n)) = Len(log) + 1 /\ v <= Len(log)
  BY DEF Covers
<1>2. CASE v = Len(log)
  <2>1. Append(log, n)[v + 1] = n
    BY <1>2
  <2>2. QED BY <1>1, <1>2, <2>1 DEF Covers
<1>3. CASE v < Len(log)
  <2>1. Append(log, n)[v + 1] = log[v + 1]
    BY <1>3
  <2>2. QED BY <1>1, <1>3, <2>1 DEF Covers
<1>4. QED BY <1>1, <1>2, <1>3

\* A version that covers the time some ticks ago is no staler than those ticks.
LEMMA StaleBound ==
  ASSUME ClockInv, NEW v \in Nat, NEW t \in Int, NEW n \in Nat,
         Covers(commits, v, t), now - t <= n
  PROVE  Staleness(v) <= n
<1>1. CASE v < Version
  <2>1. v + 1 \in 1 .. Len(commits) /\ commits \in Seq(Nat) /\ now \in Nat
    BY <1>1 DEF ClockInv, Clock, Version
  <2>2. commits[v + 1] \in Nat
    BY <2>1
  <2>3. commits[v + 1] >= t
    BY <1>1 DEF Covers, Version
  <2>4. Staleness(v) = now - commits[v + 1]
    BY <1>1 DEF Staleness
  <2>5. QED BY <2>1, <2>2, <2>3, <2>4
<1>2. CASE ~ v < Version
  BY <1>2 DEF Staleness
<1>3. QED BY <1>1, <1>2

----------------------------------------------------------------------------
(* What a step leaves alone keeps its place in the invariant.              *)

\* The clock goes on.
LEMMA ClockGrows == ASSUME ClockInv, Grows PROVE ClockInv'
<1>1. now \in Nat /\ commits \in Seq(Nat) /\ \A i \in 1 .. Len(commits) : commits[i] <= now
  BY DEF ClockInv, Clock
<1>2. CASE commits' = commits
  <2>1. \A i \in 1 .. Len(commits) : commits[i] <= now'
    <3>1. TAKE i \in 1 .. Len(commits)
    <3>2. commits[i] \in Nat /\ commits[i] <= now
      BY <1>1
    <3>3. QED BY <1>1, <3>2 DEF Grows
  <2>2. QED BY <1>1, <1>2, <2>1 DEF Grows, ClockInv, Clock
<1>3. CASE commits' = Append(commits, now)
  <2>1. commits' \in Seq(Nat) /\ Len(commits') = Len(commits) + 1
    BY <1>1, <1>3
  <2>2. ASSUME NEW i \in 1 .. Len(commits') PROVE commits'[i] <= now'
    <3>1. CASE i = Len(commits) + 1
      <4>1. commits'[i] = now
        BY <1>1, <1>3, <3>1
      <4>2. QED BY <4>1 DEF Grows
    <3>2. CASE i # Len(commits) + 1
      <4>1. i \in 1 .. Len(commits)
        BY <1>1, <2>1, <3>2
      <4>2. commits'[i] = commits[i]
        BY <1>1, <1>3, <4>1
      <4>3. commits[i] \in Nat /\ commits[i] <= now
        BY <1>1, <4>1
      <4>4. QED BY <1>1, <4>2, <4>3 DEF Grows
    <3>3. QED BY <3>1, <3>2
  <2>3. QED BY <2>1, <2>2 DEF Grows, ClockInv, Clock
<1>4. QED BY <1>2, <1>3 DEF Grows

\* A version covers what it covered.
LEMMA CoversStays ==
  ASSUME ClockInv, Grows, NEW v \in Nat, NEW t \in Int, Covers(commits, v, t), t <= now
  PROVE  Covers(commits', v, t)
<1>1. now \in Nat /\ commits \in Seq(Nat)
  BY DEF ClockInv, Clock
<1>2. CASE commits' = commits
  BY <1>2
<1>3. CASE commits' = Append(commits, now)
  BY <1>1, <1>3, CoversGrows
<1>4. QED BY <1>2, <1>3 DEF Grows

\* An entry lags no more than it did.
LEMMA AgedStays ==
  ASSUME ClockInv, Grows, NEW e \in Entry, NEW lag \in Nat, Aged(now, commits, e, lag)
  PROVE  Aged(now', commits', e, lag)
<1>1. e.at \in Nat /\ e.version \in Nat /\ now \in Nat
  BY DEF Entry, ClockInv, Clock
<1>2. e.at <= now /\ e.at - lag \in Int /\ e.at - lag <= now
  BY <1>1 DEF Aged
<1>3. Covers(commits', e.version, e.at - lag)
  BY <1>1, <1>2, CoversStays DEF Aged
<1>4. e.at <= now'
  BY <1>1, <1>2 DEF Grows
<1>5. QED BY <1>3, <1>4 DEF Aged

\* Nor does what a request has read.
LEMMA ReadingStays ==
  ASSUME CacheAssumption, ClockInv, Grows, NEW r \in Request, Reading(now, commits, r),
         r.pc # "idle" => now' - r.at <= MaxLatency
  PROVE  Reading(now', commits', r)
<1>1. now \in Nat /\ r.at \in Nat /\ r.version \in Nat
  BY DEF ClockInv, Clock, Request
<1>2. r.pc # "idle" => r.at <= now'
  BY <1>1 DEF Reading, Grows
<1>3. r.pc = "store" => Covers(commits', r.version, r.at - RefreshEvery)
  <2>1. HAVE r.pc = "store"
  <2>2. r.at - RefreshEvery \in Int /\ r.at - RefreshEvery <= now
    BY <1>1, <2>1, Lags DEF Reading
  <2>3. QED BY <1>1, <2>1, <2>2, CoversStays DEF Reading
<1>4. r.pc = "fill" => Covers(commits', r.version, r.at - ReadLag(r.what))
  <2>1. HAVE r.pc = "fill"
  <2>2. r.at <= now /\ ReadLag(r.what) \in Nat
    BY <2>1, Lags DEF Reading
  <2>3. r.at - ReadLag(r.what) \in Int /\ r.at - ReadLag(r.what) <= now
    BY <1>1, <2>2
  <2>4. QED BY <1>1, <2>1, <2>3, CoversStays DEF Reading
<1>5. QED BY <1>2, <1>3, <1>4 DEF Reading

\* The statistics caches keep their entries.
LEMMA StatsStay ==
  ASSUME CacheAssumption, ClockInv, Grows, StatsInv, UNCHANGED stats
  PROVE  StatsInv'
<1>1. ASSUME NEW w \in Workers, stats[w] # None
      PROVE  Aged(now', commits', stats[w], StatsLag)
  <2>1. stats[w] \in Entry /\ Aged(now, commits, stats[w], StatsLag)
    BY <1>1 DEF StatsInv
  <2>2. QED BY <2>1, AgedStays, Lags
<1>2. QED BY <1>1 DEF StatsInv

\* A response cache that keeps its entries or drops some.
LEMMA RespStay ==
  ASSUME CacheAssumption, ClockInv, Grows, RespInv,
         resp' \in [Workers -> [Paths -> Entry \cup {None}]],
         \A w \in Workers : \A p \in Paths : resp'[w][p] \in {resp[w][p], None}
  PROVE  RespInv'
<1>1. ASSUME NEW w \in Workers, NEW p \in Paths, resp'[w][p] # None
      PROVE  Aged(now', commits', resp'[w][p], RespLag(p))
  <2>1. resp'[w][p] = resp[w][p]
    BY <1>1
  <2>2. resp[w][p] \in Entry /\ Aged(now, commits, resp[w][p], RespLag(p))
    BY <1>1, <2>1 DEF RespInv
  <2>3. QED BY <2>1, <2>2, AgedStays, Lags
<1>2. QED BY <1>1 DEF RespInv

\* One request goes on within its tick.
LEMMA OneRequest ==
  ASSUME CacheAssumption, ClockInv, Grows, now' = now, ReqInv,
         NEW c \in Clients, NEW r \in Request, Reading(now, commits', r),
         req' = [req EXCEPT ![c] = r]
  PROVE  ReqInv'
<1>1. req' \in [Clients -> Request]
  BY DEF ReqInv
<1>2. ASSUME NEW d \in Clients PROVE Reading(now', commits', req'[d])
  <2>1. CASE d = c
    BY <2>1 DEF ReqInv
  <2>2. CASE d # c
    <3>1. req'[d] = req[d] /\ req[d] \in Request /\ Reading(now, commits, req[d])
      BY <2>2 DEF ReqInv
    <3>2. Reading(now', commits', req[d])
      BY <3>1, ReadingStays DEF Reading
    <3>3. QED BY <3>1, <3>2
  <2>3. QED BY <2>1, <2>2
<1>3. QED BY <1>1, <1>2 DEF ReqInv

\* An idle client has read nothing.
LEMMA IdleReads == \A n, log : Idle \in Request /\ Reading(n, log, Idle)
BY DEF Idle, Request, Reading

----------------------------------------------------------------------------
(* The steps.                                                              *)

\* The clock and the log are numbers.
LEMMA Numbers ==
  ASSUME ClockInv
  PROVE  now \in Nat /\ commits \in Seq(Nat) /\ Version \in Nat
BY DEF ClockInv, Clock, Version

\* No step but a commit touches the log, none but a tick the clock.
LEMMA Still == ASSUME ClockInv, UNCHANGED <<now, commits>> PROVE Grows /\ now' = now
BY Numbers DEF Grows

\* The view keeps its entry.
LEMMA ViewStays ==
  ASSUME ClockInv, Grows, ViewInv, UNCHANGED view, now' - view.at <= RefreshEvery
  PROVE  ViewInv'
BY AgedStays DEF ViewInv

\* Time passes only when every request and the view have time left.
LEMMA TickKeeps == ASSUME CacheAssumption, LayersInv, Tick PROVE LayersInv'
<1>1. now \in Nat /\ view.at \in Nat /\ RefreshEvery \in Nat /\ MaxLatency \in Nat
  BY Numbers, Lags DEF LayersInv, ViewInv, Entry
<1>2. Grows /\ now' = now + 1 /\ now' - view.at <= RefreshEvery
  BY <1>1 DEF Tick, Grows
<1>3. ClockInv'
  BY <1>2, ClockGrows DEF LayersInv
<1>4. ViewInv'
  BY <1>2, ViewStays DEF LayersInv, Tick
<1>5. StatsInv'
  BY <1>2, StatsStay DEF LayersInv, Tick
<1>6. RespInv'
  BY <1>2, RespStay DEF LayersInv, Tick, RespInv
<1>7. ReqInv'
  <2>1. ASSUME NEW c \in Clients PROVE Reading(now', commits', req[c])
    <3>1. req[c] \in Request /\ Reading(now, commits, req[c])
      BY DEF LayersInv, ReqInv
    <3>2. req[c].pc # "idle" => now' - req[c].at <= MaxLatency
      BY <1>1, <1>2, <3>1 DEF Tick, Request
    <3>3. QED BY <1>2, <3>1, <3>2, ReadingStays DEF LayersInv
  <2>2. QED BY <2>1 DEF Tick, LayersInv, ReqInv
<1>8. QED BY <1>3, <1>4, <1>5, <1>6, <1>7 DEF LayersInv

\* The cron job brings the view up to date.
LEMMA RefreshKeeps == ASSUME CacheAssumption, LayersInv, RefreshView PROVE LayersInv'
<1>1. Grows /\ now' = now /\ commits' = commits
  BY Still DEF LayersInv, RefreshView
<1>2. ClockInv'
  BY <1>1, ClockGrows DEF LayersInv
<1>3. ViewInv'
  <2>1. now \in Nat /\ commits \in Seq(Nat) /\ Version \in Nat /\ RefreshEvery \in Nat
    BY Numbers, Lags DEF LayersInv
  <2>2. view' \in Entry /\ view'.at = now /\ view'.version = Len(commits)
    BY <2>1 DEF RefreshView, Entry, Version
  <2>3. now - 0 \in Int /\ now - now <= RefreshEvery
    BY <2>1
  <2>4. Aged(now', commits', view', 0)
    BY <1>1, <2>1, <2>2, <2>3, LastCovers DEF Aged
  <2>5. QED BY <1>1, <2>2, <2>3, <2>4 DEF ViewInv
<1>4. StatsInv'
  BY <1>1, StatsStay DEF LayersInv, RefreshView
<1>5. RespInv'
  BY <1>1, RespStay DEF LayersInv, RefreshView, RespInv
<1>6. ReqInv'
  BY <1>1 DEF LayersInv, RefreshView, ReqInv
<1>7. QED BY <1>2, <1>3, <1>4, <1>5, <1>6 DEF LayersInv

\* A step that leaves clock, log and view alone.
LEMMA LayersKept ==
  ASSUME LayersInv, UNCHANGED <<now, commits, view>>, StatsInv', RespInv', ReqInv'
  PROVE  LayersInv'
<1>1. ClockInv'
  BY Still, ClockGrows DEF LayersInv
<1>2. ViewInv'
  BY DEF LayersInv, ViewInv
<1>3. QED BY <1>1, <1>2 DEF LayersInv

\* A request that begins has read nothing yet.
LEMMA Begun ==
  ASSUME CacheAssumption, ClockInv, NEW w \in Workers, NEW v \in Nat
  PROVE  /\ \A path \in Paths :
              LET r == [Idle EXCEPT !.pc = "handler", !.at = now, !.worker = w,
                                    !.what = path, !.floor = v]
              IN  r \in Request /\ Reading(now, commits, r)
         /\ \A write \in Writes :
              LET r == [Idle EXCEPT !.pc = "commit", !.at = now, !.worker = w, !.what = write]
              IN  r \in Request /\ Reading(now, commits, r)
<1> DEFINE i == Idle
<1>1. now \in Nat /\ now - now <= MaxLatency
  BY Numbers, Lags
<1>2. i \in Request
  BY IdleReads
<1> HIDE DEF i
<1>3. ASSUME NEW path \in Paths
      PROVE  LET r == [i EXCEPT !.pc = "handler", !.at = now, !.worker = w,
                                !.what = path, !.floor = v]
             IN  r \in Request /\ Reading(now, commits, r)
  <2> DEFINE r == [i EXCEPT !.pc = "handler", !.at = now, !.worker = w,
                            !.what = path, !.floor = v]
  <2>1. /\ r \in Request /\ r.pc = "handler" /\ r.at = now
        /\ r.worker = w /\ r.what = path
    BY <1>1, <1>2 DEF Request
  <2> HIDE DEF r
  <2>2. Reading(now, commits, r)
    BY <1>1, <2>1 DEF Reading
  <2>3. QED BY <2>1, <2>2 DEF r
<1>4. ASSUME NEW write \in Writes
      PROVE  LET r == [i EXCEPT !.pc = "commit", !.at = now, !.worker = w, !.what = write]
             IN  r \in Request /\ Reading(now, commits, r)
  <2> DEFINE r == [i EXCEPT !.pc = "commit", !.at = now, !.worker = w, !.what = write]
  <2>1. r \in Request /\ r.pc = "commit" /\ r.at = now /\ r.worker = w
    BY <1>1, <1>2 DEF Request
  <2> HIDE DEF r
  <2>2. Reading(now, commits, r)
    BY <1>1, <2>1 DEF Reading
  <2>3. QED BY <2>1, <2>2 DEF r
<1>5. QED BY <1>3, <1>4 DEF i

\* BeginGet serves what it holds, or starts a request.
LEMMA BeginGetKeeps ==
  ASSUME CacheAssumption, LayersInv, NEW c \in Clients, NEW w \in Workers,
         NEW p \in Paths, BeginGet(c, w, p)
  PROVE  LayersInv'
<1>1. Grows /\ now' = now /\ commits' = commits
  BY Still DEF LayersInv, BeginGet
<1>2. StatsInv'
  BY <1>1, StatsStay DEF LayersInv, BeginGet
<1>3. RespInv'
  BY <1>1, RespStay DEF LayersInv, BeginGet, RespInv
<1>4. ReqInv'
  <2>1. CASE Fresh(resp[w][p], Ttl)
    BY <1>1, <2>1 DEF BeginGet, LayersInv, ReqInv
  <2>2. CASE ~ Fresh(resp[w][p], Ttl)
    <3> DEFINE r == [Idle EXCEPT !.pc = "handler", !.at = now, !.worker = w,
                                 !.what = p, !.floor = Version]
    <3>1. r \in Request /\ Reading(now, commits, r)
      BY Begun, Numbers DEF LayersInv
    <3>2. req' = [req EXCEPT ![c] = r]
      BY <2>2 DEF BeginGet
    <3> HIDE DEF r
    <3>3. QED BY <1>1, <3>1, <3>2, OneRequest DEF LayersInv
  <2>3. QED BY <2>1, <2>2
<1>5. QED BY <1>2, <1>3, <1>4, LayersKept DEF BeginGet

\* list_products reads the last version.
LEMMA ListKeeps ==
  ASSUME CacheAssumption, LayersInv, NEW c \in Clients, ListProducts(c)
  PROVE  LayersInv'
<1>1. Grows /\ now' = now /\ commits' = commits
  BY Still DEF LayersInv, ListProducts
<1>2. StatsInv'
  BY <1>1, StatsStay DEF LayersInv, ListProducts
<1>3. RespInv'
  BY <1>1, RespStay DEF LayersInv, ListProducts, RespInv
<1>4. ReqInv'
  <2> DEFINE r == [req[c] EXCEPT !.version = Version, !.pc = "fill"]
  <2>1. req[c] \in Request /\ Reading(now, commits, req[c]) /\ req[c].pc = "handler"
    BY DEF LayersInv, ReqInv, ListProducts
  <2>2. r \in Request /\ r.version = Len(commits) /\ r.what = req[c].what
        /\ r.at = req[c].at /\ r.worker = req[c].worker
    BY <2>1, Numbers DEF LayersInv, Request, Version
  <2>3. r.at - ReadLag(r.what) \in Int
    BY <2>1, <2>2, Lags DEF Request
  <2>4. Covers(commits, r.version, r.at - ReadLag(r.what))
    BY <2>2, <2>3, LastCovers, Numbers DEF LayersInv
  <2>5. Reading(now, commits, r)
    BY <2>1, <2>2, <2>4 DEF Reading
  <2>6. req' = [req EXCEPT ![c] = r]
    BY <2>1 DEF ListProducts, LayersInv, ReqInv, Request
  <2> HIDE DEF r
  <2>7. QED BY <1>1, <2>2, <2>5, <2>6, OneRequest DEF LayersInv
<1>5. QED BY <1>2, <1>3, <1>4, LayersKept DEF ListProducts

\* get_stats reads a younger layer than it will be one itself.
LEMMA StatsKeeps ==
  ASSUME CacheAssumption, LayersInv, NEW c \in Clients, GetStats(c)
  PROVE  LayersInv'
<1>1. Grows /\ now' = now /\ commits' = commits
  BY Still DEF LayersInv, GetStats
<1>2. StatsInv'
  BY <1>1, StatsStay DEF LayersInv, GetStats
<1>3. RespInv'
  BY <1>1, RespStay DEF LayersInv, GetStats, RespInv
<1>4. req[c] \in Request /\ Reading(now, commits, req[c]) /\ req[c].pc = "handler"
      /\ req[c].what = "stats" /\ req[c].at <= now /\ req[c].worker \in Workers
      /\ req[c].at \in Nat
  BY DEF LayersInv, ReqInv, GetStats, Reading, Request
<1>5. now \in Nat /\ commits \in Seq(Nat)
  BY Numbers DEF LayersInv
<1>6. ReqInv'
  <2>1. CASE Fresh(stats[req[c].worker], StatsTtl)
    <3> DEFINE held == stats[req[c].worker]
               r == [req[c] EXCEPT !.version = held.version, !.pc = "fill"]
    <3>1. held \in Entry /\ Aged(now, commits, held, StatsLag) /\ now - held.at < StatsTtl
      BY <1>4, <2>1 DEF Fresh, LayersInv, StatsInv
    <3>2. held.at \in Nat /\ held.version \in Nat
      BY <3>1 DEF Entry
    <3>3. held.at - StatsLag \in Int /\ req[c].at - ReadLag("stats") \in Int
          /\ req[c].at - ReadLag("stats") <= held.at - StatsLag
      <4>1. ReadLag("stats") = StatsLag + (StatsTtl - 1) /\ StatsLag \in Nat /\ StatsTtl \in Nat
        BY Lags DEF ReadLag
      <4> HIDE DEF held
      <4>2. QED BY <1>4, <1>5, <3>1, <3>2, <4>1
    <3>4. Covers(commits, held.version, req[c].at - ReadLag("stats"))
      BY <1>5, <3>1, <3>2, <3>3, CoversEarlier DEF Aged
    <3>5. r \in Request /\ Reading(now, commits, r)
      BY <1>4, <3>2, <3>4 DEF Request, Reading
    <3>6. req' = [req EXCEPT ![c] = r]
      BY <1>4, <2>1 DEF GetStats, LayersInv, ReqInv, Request
    <3> HIDE DEF r
    <3>7. QED BY <1>1, <3>5, <3>6, OneRequest DEF LayersInv
  <2>2. CASE ~ Fresh(stats[req[c].worker], StatsTtl)
    <3> DEFINE r == [req[c] EXCEPT !.version = view.version, !.pc = "store"]
    <3>1. view.at \in Nat /\ view.version \in Nat /\ now - view.at <= RefreshEvery
          /\ Covers(commits, view.version, view.at - 0)
      BY DEF LayersInv, ViewInv, Entry, Aged
    <3>2. view.at - 0 \in Int /\ req[c].at - RefreshEvery \in Int
          /\ req[c].at - RefreshEvery <= view.at - 0
      BY <1>4, <1>5, <3>1, Lags
    <3>3. Covers(commits, view.version, req[c].at - RefreshEvery)
      BY <1>5, <3>1, <3>2, CoversEarlier
    <3>4. r \in Request /\ Reading(now, commits, r)
      BY <1>4, <3>1, <3>3 DEF Request, Reading
    <3>5. req' = [req EXCEPT ![c] = r]
      BY <1>4, <2>2 DEF GetStats, LayersInv, ReqInv, Request
    <3> HIDE DEF r
    <3>6. QED BY <1>1, <3>4, <3>5, OneRequest DEF LayersInv
  <2>3. QED BY <2>1, <2>2
<1>7. QED BY <1>2, <1>3, <1>6, LayersKept DEF GetStats

\* The statistics are stored before the request's time is up.
LEMMA StoreKeeps ==
  ASSUME CacheAssumption, LayersInv, NEW c \in Clients, StoreStats(c)
  PROVE  LayersInv'
<1> DEFINE w == req[c].worker
           e == [at |-> now, version |-> req[c].version]
           r == [req[c] EXCEPT !.pc = "fill"]
<1>1. Grows /\ now' = now /\ commits' = commits
  BY Still DEF LayersInv, StoreStats
<1>2. /\ req[c] \in Request /\ req[c].at \in Nat /\ req[c].version \in Nat
      /\ req[c].what = "stats" /\ "stats" \in Paths /\ w \in Workers
      /\ req[c].at <= now /\ now - req[c].at <= MaxLatency
      /\ Covers(commits, req[c].version, req[c].at - RefreshEvery)
  BY DEF LayersInv, ReqInv, StoreStats, Reading, Request
<1>3. now \in Nat /\ commits \in Seq(Nat) /\ RefreshEvery \in Nat /\ MaxLatency \in Nat
  BY Numbers, Lags DEF LayersInv
<1>4. RespInv'
  BY <1>1, RespStay DEF LayersInv, StoreStats, RespInv
<1>5. StatsInv'
  <2>1. now - StatsLag \in Int /\ req[c].at - RefreshEvery \in Int
        /\ now - StatsLag <= req[c].at - RefreshEvery
    BY <1>2, <1>3 DEF StatsLag
  <2>2. Covers(commits, req[c].version, now - StatsLag)
    BY <1>2, <1>3, <2>1, CoversEarlier
  <2>3. e \in Entry /\ Aged(now, commits, e, StatsLag)
    BY <1>2, <1>3, <2>2 DEF Entry, Aged
  <2>4. stats' = [stats EXCEPT ![w] = e]
    BY DEF StoreStats
  <2> HIDE DEF e, w
  <2>5. QED BY <1>1, <1>2, <2>3, <2>4 DEF LayersInv, StatsInv
<1>6. ReqInv'
  <2>1. ReadLag("stats") \in Nat /\ RefreshEvery <= ReadLag("stats")
    BY <1>3, Lags DEF ReadLag, StatsLag
  <2>2. req[c].at - ReadLag("stats") \in Int /\ req[c].at - RefreshEvery \in Int
        /\ req[c].at - ReadLag("stats") <= req[c].at - RefreshEvery
    BY <1>2, <1>3, <2>1
  <2>3. Covers(commits, req[c].version, req[c].at - ReadLag("stats"))
    BY <1>2, <1>3, <2>2, CoversEarlier
  <2>4. r \in Request /\ Reading(now, commits, r)
    BY <1>2, <2>3 DEF Request, Reading
  <2>5. req' = [req EXCEPT ![c] = r]
    BY <1>2 DEF StoreStats, LayersInv, ReqInv, Request
  <2> HIDE DEF r
  <2>6. QED BY <1>1, <2>4, <2>5, OneRequest DEF LayersInv
<1>7. QED BY <1>4, <1>5, <1>6, LayersKept DEF StoreStats

\* Eviction keeps an entry or drops it.
LEMMA EvictKeeps ==
  ASSUME RespInv, NEW w \in Workers, NEW kept \in Evict(w)
  PROVE  /\ kept \in [Paths -> Entry \cup {None}]
         /\ \A p \in Paths : kept[p] \in {resp[w][p], None}
<1>1. resp[w] \in [Paths -> Entry \cup {None}]
  BY DEF RespInv
<1>2. CASE kept = resp[w]
  BY <1>1, <1>2
<1>3. CASE \E old \in Entries(w) : kept = [resp[w] EXCEPT ![old] = None]
  BY <1>1, <1>3
<1>4. QED BY <1>2, <1>3 DEF Evict

\* A request ends: its client is idle.
LEMMA Ended ==
  ASSUME CacheAssumption, LayersInv, UNCHANGED <<now, commits>>, NEW c \in Clients,
         req' = [req EXCEPT ![c] = Idle]
  PROVE  ReqInv'
BY Still, IdleReads, OneRequest DEF LayersInv

\* What a request that fills the cache has read.
LEMMA Collected ==
  ASSUME CacheAssumption, LayersInv, NEW c \in Clients, req[c].pc = "fill"
  PROVE  /\ req[c].worker \in Workers /\ req[c].what \in Paths /\ req[c].version \in Nat
         /\ now - RespLag(req[c].what) \in Int
         /\ Covers(commits, req[c].version, now - RespLag(req[c].what))
<1>1. /\ req[c].at \in Nat /\ req[c].version \in Nat
      /\ req[c].what \in Paths /\ req[c].worker \in Workers
      /\ now - req[c].at <= MaxLatency
      /\ Covers(commits, req[c].version, req[c].at - ReadLag(req[c].what))
  BY DEF LayersInv, ReqInv, Reading, Request
<1>2. now \in Nat /\ commits \in Seq(Nat)
  BY Numbers DEF LayersInv
<1>3. /\ ReadLag(req[c].what) \in Nat /\ MaxLatency \in Nat
      /\ RespLag(req[c].what) = ReadLag(req[c].what) + MaxLatency
  BY Lags DEF RespLag
<1>4. /\ now - RespLag(req[c].what) \in Int /\ req[c].at - ReadLag(req[c].what) \in Int
      /\ now - RespLag(req[c].what) <= req[c].at - ReadLag(req[c].what)
  BY <1>1, <1>2, <1>3
<1>5. QED BY <1>1, <1>2, <1>4, CoversEarlier

\* The middleware caches what the request has read.
LEMMA FillKeeps ==
  ASSUME CacheAssumption, LayersInv, NEW c \in Clients, Fill(c)
  PROVE  LayersInv'
<1> DEFINE w == req[c].worker
           path == req[c].what
           e == [at |-> now, version |-> req[c].version]
<1>1. Grows /\ now' = now /\ commits' = commits
  BY Still DEF LayersInv, Fill
<1>2. StatsInv'
  BY <1>1, StatsStay DEF LayersInv, Fill
<1>3. ReqInv'
  BY Ended DEF Fill
<1>4. w \in Workers /\ path \in Paths /\ e \in Entry /\ Aged(now, commits, e, RespLag(path))
  BY Collected, Numbers DEF Fill, LayersInv, Entry, Aged
<1>5. PICK kept \in Evict(w) : resp' = [resp EXCEPT ![w] = [kept EXCEPT ![path] = e]]
  BY DEF Fill
<1> HIDE DEF w, path, e
<1>6. /\ kept \in [Paths -> Entry \cup {None}]
      /\ \A p \in Paths : kept[p] \in {resp[w][p], None}
  BY <1>4, EvictKeeps DEF LayersInv
<1>7. RespInv'
  <2>1. /\ resp \in [Workers -> [Paths -> Entry \cup {None}]]
        /\ [kept EXCEPT ![path] = e] \in [Paths -> Entry \cup {None}]
    BY <1>4, <1>6 DEF LayersInv, RespInv
  <2>2. resp' \in [Workers -> [Paths -> Entry \cup {None}]]
    BY <1>5, <2>1
  <2>3. ASSUME NEW v \in Workers, NEW p \in Paths, resp'[v][p] # None
        PROVE  Aged(now', commits', resp'[v][p], RespLag(p))
    <3>1. CASE v = w /\ p = path
      BY <1>1, <1>4, <1>5, <1>6, <2>1, <3>1
    <3>2. CASE ~ (v = w /\ p = path)
      <4>1. resp'[v][p] = resp[v][p]
        BY <1>5, <1>6, <2>1, <2>3, <3>2
      <4>2. QED BY <1>1, <2>3, <4>1 DEF LayersInv, RespInv
    <3>3. QED BY <3>1, <3>2
  <2>4. QED BY <2>2, <2>3 DEF RespInv
<1>8. QED BY <1>2, <1>3, <1>7, LayersKept DEF Fill

\* A mutation begins by dropping response entries.
LEMMA BeginWriteKeeps ==
  ASSUME CacheAssumption, LayersInv, NEW c \in Clients, NEW w \in Workers,
         NEW x \in Writes, BeginWrite(c, w, x)
  PROVE  LayersInv'
<1>1. Grows /\ now' = now /\ commits' = commits
  BY Still DEF LayersInv, BeginWrite
<1>2. StatsInv'
  BY <1>1, StatsStay DEF LayersInv, BeginWrite
<1>3. RespInv'
  <2>1. resp \in [Workers -> [Paths -> Entry \cup {None}]]
    BY DEF LayersInv, RespInv
  <2>2. [p \in Paths |-> IF p \in Invalidated(x) THEN None ELSE resp[w][p]]
          \in [Paths -> Entry \cup {None}]
    BY <2>1
  <2>3. resp' \in [Workers -> [Paths -> Entry \cup {None}]]
    BY <2>1, <2>2 DEF BeginWrite
  <2>4. \A v \in Workers : \A p \in Paths : resp'[v][p] \in {resp[v][p], None}
    BY <2>1 DEF BeginWrite
  <2>5. QED BY <1>1, <2>3, <2>4, RespStay DEF LayersInv
<1>4. ReqInv'
  <2> DEFINE r == [Idle EXCEPT !.pc = "commit", !.at = now, !.worker = w, !.what = x]
  <2>1. r \in Request /\ Reading(now, commits, r)
    BY Begun DEF LayersInv
  <2>2. req' = [req EXCEPT ![c] = r]
    BY DEF BeginWrite
  <2> HIDE DEF r
  <2>3. QED BY <1>1, <2>1, <2>2, OneRequest DEF LayersInv
<1>5. QED BY <1>2, <1>3, <1>4, LayersKept DEF BeginWrite

\* A mutation is committed now: it makes nothing staler than before.
LEMMA CommitKeeps ==
  ASSUME CacheAssumption, LayersInv, NEW c \in Clients, CommitWrite(c)
  PROVE  LayersInv'
<1>1. Grows /\ now' = now
  BY Numbers DEF LayersInv, CommitWrite, Grows
<1>2. ClockInv'
  BY <1>1, ClockGrows DEF LayersInv
<1>3. ViewInv'
  BY <1>1, ViewStays DEF LayersInv, CommitWrite, ViewInv
<1>4. StatsInv'
  BY <1>1, StatsStay DEF LayersInv, CommitWrite
<1>5. RespInv'
  BY <1>1, RespStay DEF LayersInv, CommitWrite, RespInv
<1>6. ReqInv'
  <2> DEFINE r == [req[c] EXCEPT !.pc = "written"]
  <2>1. req[c] \in Request /\ Reading(now, commits, req[c]) /\ req[c].pc = "commit"
    BY DEF LayersInv, ReqInv, CommitWrite
  <2>2. r \in Request /\ Reading(now, commits', r)
    BY <2>1 DEF Request, Reading
  <2>3. req' = [req EXCEPT ![c] = r]
    BY <2>1 DEF CommitWrite, LayersInv, ReqInv, Request
  <2> HIDE DEF r
  <2>4. QED BY <1>1, <2>2, <2>3, OneRequest DEF LayersInv
<1>7. QED BY <1>2, <1>3, <1>4, <1>5, <1>6 DEF LayersInv

\* A mutation ends.
LEMMA EndKeeps ==
  ASSUME CacheAssumption, LayersInv, NEW c \in Clients, EndWrite(c) \/ RefuseWrite(c)
  PROVE  LayersInv'
<1>1. Grows /\ now' = now /\ commits' = commits
  BY Still DEF LayersInv, EndWrite, RefuseWrite
<1>2. StatsInv'
  <2>1. CASE stats' = stats
    BY <1>1, <2>1, StatsStay DEF LayersInv
  <2>2. CASE stats' = [stats EXCEPT ![req[c].worker] = None]
    BY <1>1, <2>2 DEF LayersInv, StatsInv
  <2>3. QED BY <2>1, <2>2 DEF EndWrite, RefuseWrite
<1>3. RespInv'
  BY <1>1, RespStay DEF LayersInv, EndWrite, RefuseWrite, RespInv
<1>4. ReqInv'
  BY <1>1, Ended DEF EndWrite, RefuseWrite
<1>5. QED BY <1>2, <1>3, <1>4, LayersKept DEF EndWrite, RefuseWrite

\* LayersInv is inductive.
LEMMA LayersNext == ASSUME CacheAssumption, LayersInv, [Next]_vars PROVE LayersInv'
<1>1. CASE Tick
  BY <1>1, TickKeeps
<1>2. CASE RefreshView
  BY <1>2, RefreshKeeps
<1>3. CASE \E c \in Clients : Serve(c)
  BY <1>3, ListKeeps, StatsKeeps, StoreKeeps, FillKeeps, CommitKeeps, EndKeeps DEF Serve
<1>4. CASE \E c \in Clients : \E w \in Workers : \E p \in Paths : BeginGet(c, w, p)
  BY <1>4, BeginGetKeeps
<1>5. CASE \E c \in Clients : \E w \in Workers : \E x \in Writes : BeginWrite(c, w, x)
  BY <1>5, BeginWriteKeeps
<1>6. CASE UNCHANGED vars
  <2>1. UNCHANGED <<now, commits, view>>
    BY <1>6 DEF vars
  <2>2. StatsInv' /\ RespInv' /\ ReqInv'
    BY <1>6 DEF vars, LayersInv, StatsInv, RespInv, ReqInv
  <2>3. QED BY <2>1, <2>2, LayersKept
<1>7. QED BY <1>1, <1>2, <1>3, <1>4, <1>5, <1>6 DEF Next

\* It holds at the start.
LEMMA LayersInit == ASSUME CacheAssumption, Init PROVE LayersInv
<1>1. now = 0 /\ commits = <<>> /\ commits \in Seq(Nat) /\ Len(commits) = 0
  BY DEF Init
<1>2. ClockInv
  BY <1>1 DEF ClockInv, Clock
<1>3. ViewInv
  BY <1>1, Lags DEF Init, ViewInv, Entry, Aged, Covers
<1>4. StatsInv /\ RespInv
  BY DEF Init, StatsInv, RespInv
<1>5. ReqInv
  BY IdleReads DEF Init, ReqInv
<1>6. QED BY <1>2, <1>3, <1>4, <1>5 DEF LayersInv

----------------------------------------------------------------------------
(* The age of answers.                                                     *)

\* What may be said of the staleness of an answer for a path.
Bound(path) == RespLag(path) + (Ttl - 1)

\* An answer within its bound.
LEMMA AnswerBound ==
  ASSUME CacheAssumption, NEW path \in Paths, NEW n \in Int, n <= Bound(path),
         NEW fresh, answer' = [path |-> path, stale |-> n, current |-> fresh]
  PROVE  AnswerInv'
<1>1. answer'.path = path /\ answer'.stale = n
  OBVIOUS
<1>2. Ttl \in Nat /\ StatsTtl \in Nat /\ RefreshEvery \in Nat /\ MaxLatency \in Nat
  BY Lags
<1>3. path \in Pages => n <= Ttl + MaxLatency
  BY <1>2 DEF Pages, Bound, RespLag, ReadLag
<1>4. path = "stats" => n <= RefreshEvery + (StatsTtl - 1) + (Ttl - 1) + 2 * MaxLatency
  BY <1>2 DEF Bound, RespLag, ReadLag, StatsLag
<1>5. QED BY <1>1, <1>3, <1>4 DEF AnswerInv, ListingsAge, StatsAge

\* A staleness is a number of ticks.
LEMMA StalenessType == ASSUME ClockInv, NEW v \in Nat PROVE Staleness(v) \in Int
<1>1. CASE v < Version
  <2>1. v + 1 \in 1 .. Len(commits) /\ commits \in Seq(Nat) /\ now \in Nat
    BY <1>1, Numbers DEF Version
  <2>2. commits[v + 1] \in Nat
    BY <2>1
  <2>3. QED BY <1>1, <2>1, <2>2 DEF Staleness
<1>2. CASE ~ v < Version
  BY <1>2 DEF Staleness
<1>3. QED BY <1>1, <1>2

\* A step answers nothing, or an answer as old as its layer allows.
LEMMA AnswerNext ==
  ASSUME CacheAssumption, LayersInv, AnswerInv, [Next]_vars
  PROVE  AnswerInv'
<1>1. CASE answer' = answer
  BY <1>1 DEF AnswerInv, ListingsAge, StatsAge
<1>2. ASSUME NEW c \in Clients, NEW w \in Workers, NEW p \in Paths,
             BeginGet(c, w, p), Fresh(resp[w][p], Ttl)
      PROVE  AnswerInv'
  <2> DEFINE e == resp[w][p]
  <2>1. e \in Entry /\ Aged(now, commits, e, RespLag(p)) /\ now - e.at < Ttl
    BY <1>2 DEF Fresh, LayersInv, RespInv
  <2>2. e.at \in Nat /\ e.version \in Nat /\ now \in Nat /\ Ttl \in Nat /\ RespLag(p) \in Nat
        /\ Ttl > 0
    BY <2>1, Numbers, Lags DEF LayersInv, Entry
  <2>3. /\ e.at - RespLag(p) \in Int /\ Bound(p) \in Nat
        /\ now - (e.at - RespLag(p)) <= Bound(p)
    BY <2>1, <2>2 DEF Bound
  <2>4. Staleness(e.version) <= Bound(p) /\ Staleness(e.version) \in Int
    BY <2>1, <2>2, <2>3, StaleBound, StalenessType DEF LayersInv, Aged
  <2>5. Reply(p, e.version, Version)
    BY <1>2 DEF BeginGet
  <2> HIDE DEF e
  <2>6. QED BY <2>4, <2>5, AnswerBound DEF Reply
<1>3. ASSUME NEW c \in Clients, Fill(c) PROVE AnswerInv'
  <2> DEFINE v == req[c].version
             path == req[c].what
  <2>1. v \in Nat /\ path \in Paths /\ now - RespLag(path) \in Int
        /\ Covers(commits, v, now - RespLag(path))
    BY <1>3, Collected DEF Fill
  <2>2. now \in Nat /\ RespLag(path) \in Nat /\ Ttl \in Nat /\ Ttl > 0
    BY Numbers, Lags DEF LayersInv
  <2>3. Bound(path) \in Nat /\ now - (now - RespLag(path)) <= Bound(path)
    BY <2>2 DEF Bound
  <2>4. Staleness(v) <= Bound(path) /\ Staleness(v) \in Int
    BY <2>1, <2>3, StaleBound, StalenessType DEF LayersInv
  <2>5. Reply(path, v, req[c].floor)
    BY <1>3 DEF Fill
  <2> HIDE DEF v, path
  <2>6. QED BY <2>1, <2>4, <2>5, AnswerBound DEF Reply
<1>4. \/ answer' = answer
      \/ \E c \in Clients : Fill(c)
      \/ \E c \in Clients : \E w \in Workers : \E p \in Paths :
           BeginGet(c, w, p) /\ Fresh(resp[w][p], Ttl)
  BY DEF Next, vars, Tick, RefreshView, Serve, ListProducts, GetStats, StoreStats,
         CommitWrite, EndWrite, RefuseWrite, BeginGet, BeginWrite
<1>5. QED BY <1>1, <1>2, <1>3, <1>4

\* The inductive invariant, always.
LEMMA AlwaysAged == ASSUME CacheAssumption PROVE Spec => []AgeInv
<1>1. ASSUME Init PROVE AgeInv
  BY <1>1, LayersInit DEF Init, AgeInv, AnswerInv, ListingsAge, StatsAge
<1>2. ASSUME AgeInv, [Next]_vars PROVE AgeInv'
  BY <1>2, LayersNext, AnswerNext DEF AgeInv
<1>3. QED BY <1>1, <1>2, PTL DEF Spec

\* A product listing lacks no mutation older than the response cache's time to
\* live and one request under way, whichever worker served the mutation.
THEOREM ListingsStayYoung == ASSUME CacheAssumption PROVE Spec => []ListingsAge
<1>1. AgeInv => ListingsAge
  BY DEF AgeInv, AnswerInv
<1>2. QED BY <1>1, AlwaysAged, PTL

\* Statistics are no staler than the view, the statistics cache and the response
\* cache may be together, and two requests that fill them.
THEOREM StatsStayYoung == ASSUME CacheAssumption PROVE Spec => []StatsAge
<1>1. AgeInv => StatsAge
  BY DEF AgeInv, AnswerInv
<1>2. QED BY <1>1, AlwaysAged, PTL

----------------------------------------------------------------------------
(* The size of the caches.                                                 *)

\* Inductive with LayersInv: no response cache is over its limit.
SizeInv ==
  /\ now <= MaxNow
  /\ \A w \in Workers :
       IsFiniteSet(Entries(w)) /\ Cardinality(Entries(w)) <= CacheMax

\* Room was made for one more entry, unless the cache had room.
LEMMA RoomMade ==
  ASSUME CacheAssumption, RespInv, SizeInv, NEW w \in Workers, NEW kept \in Evict(w)
  PROVE  LET K == {p \in Paths : kept[p] # None}
         IN  IsFiniteSet(K) /\ Cardinality(K) < CacheMax
<1> DEFINE K == {p \in Paths : kept[p] # None}
<1>1. resp[w] \in [Paths -> Entry \cup {None}]
  BY DEF RespInv
<1>2. IsFiniteSet(Entries(w)) /\ Cardinality(Entries(w)) <= CacheMax
      /\ Cardinality(Entries(w)) \in Nat /\ CacheMax \in Nat
  BY FS_CardinalityType DEF SizeInv, CacheAssumption
<1>3. CASE Cardinality(Entries(w)) < CacheMax
  <2>1. kept = resp[w]
    BY <1>3 DEF Evict
  <2>2. K = Entries(w)
    BY <2>1 DEF Entries
  <2>3. QED BY <1>2, <1>3, <2>2
<1>4. CASE ~ Cardinality(Entries(w)) < CacheMax
  <2>1. PICK old \in Entries(w) : kept = [resp[w] EXCEPT ![old] = None]
    BY <1>4 DEF Evict
  <2>2. K = Entries(w) \ {old}
    BY <1>1, <2>1 DEF Entries
  <2>3. IsFiniteSet(Entries(w) \ {old})
        /\ Cardinality(Entries(w) \ {old}) = Cardinality(Entries(w)) - 1
    BY <1>2, <2>1, FS_RemoveElement
  <2>4. Cardinality(Entries(w) \ {old}) < CacheMax
    BY <1>2, <2>3
  <2> HIDE DEF K
  <2>5. IsFiniteSet(K) /\ Cardinality(K) < CacheMax
    BY <2>2, <2>3, <2>4
  <2>6. QED BY <2>5 DEF K
<1>5. QED BY <1>3, <1>4

\* A cache that only drops entries.
LEMMA NoMore ==
  ASSUME CacheAssumption, SizeInv, NEW w \in Workers,
         \A p \in Paths : resp'[w][p] \in {resp[w][p], None}
  PROVE  IsFiniteSet(Entries(w)') /\ Cardinality(Entries(w)') <= CacheMax
<1>1. Entries(w)' \subseteq Entries(w)
  BY DEF Entries
<1>2. IsFiniteSet(Entries(w)) /\ Cardinality(Entries(w)) <= CacheMax
  BY DEF SizeInv
<1>3. /\ IsFiniteSet(Entries(w)')
      /\ Cardinality(Entries(w)') <= Cardinality(Entries(w))
  BY <1>1, <1>2, FS_Subset
<1>4. /\ Cardinality(Entries(w)) \in Nat /\ Cardinality(Entries(w)') \in Nat
      /\ CacheMax \in Nat
  BY <1>2, <1>3, FS_CardinalityType DEF CacheAssumption
<1>5. QED BY <1>2, <1>3, <1>4

\* SizeInv is inductive.
LEMMA SizeNext ==
  ASSUME CacheAssumption, LayersInv, SizeInv, [Next]_vars
  PROVE  SizeInv'
<1>1. now' <= MaxNow
  <2>1. CASE now' = now
    BY <2>1 DEF SizeInv
  <2>2. CASE Tick
    BY <2>2, Numbers DEF Tick, SizeInv, LayersInv, CacheAssumption
  <2>3. QED BY <2>1, <2>2 DEF Next, vars, RefreshView, Serve, ListProducts, GetStats,
               StoreStats, Fill, CommitWrite, EndWrite, RefuseWrite, BeginGet, BeginWrite
<1>2. ASSUME NEW v \in Workers
      PROVE  IsFiniteSet(Entries(v)') /\ Cardinality(Entries(v)') <= CacheMax
  <2>1. CASE resp' = resp
    BY <2>1, NoMore
  <2>2. ASSUME NEW c \in Clients, Fill(c)
        PROVE  IsFiniteSet(Entries(v)') /\ Cardinality(Entries(v)') <= CacheMax
    <3> DEFINE w == req[c].worker
               path == req[c].what
               e == [at |-> now, version |-> req[c].version]
    <3>1. PICK kept \in Evict(w) : resp' = [resp EXCEPT ![w] = [kept EXCEPT ![path] = e]]
      BY <2>2 DEF Fill
    <3>2. w \in Workers /\ path \in Paths
      BY <2>2, Collected DEF Fill
    <3> HIDE DEF w, path, e
    <3>3. /\ resp \in [Workers -> [Paths -> Entry \cup {None}]]
          /\ kept \in [Paths -> Entry \cup {None}]
      BY <3>1, <3>2, EvictKeeps DEF LayersInv, RespInv
    <3>4. CASE v = w
      <4> DEFINE K == {p \in Paths : kept[p] # None}
      <4>1. IsFiniteSet(K) /\ Cardinality(K) < CacheMax
        BY <3>1, <3>2, RoomMade DEF LayersInv
      <4>2. Entries(v)' \subseteq K \cup {path}
        BY <3>1, <3>2, <3>3, <3>4 DEF Entries
      <4> HIDE DEF K
      <4>3. IsFiniteSet(K \cup {path}) /\ Cardinality(K \cup {path}) <= Cardinality(K) + 1
        BY <4>1, FS_AddElement, FS_CardinalityType
      <4>4. /\ IsFiniteSet(Entries(v)')
            /\ Cardinality(Entries(v)') <= Cardinality(K \cup {path})
        BY <4>2, <4>3, FS_Subset
      <4>5. /\ Cardinality(K) \in Nat /\ Cardinality(K \cup {path}) \in Nat
            /\ Cardinality(Entries(v)') \in Nat /\ CacheMax \in Nat
        BY <4>1, <4>3, <4>4, FS_CardinalityType DEF CacheAssumption
      <4>6. QED BY <4>1, <4>3, <4>4, <4>5
    <3>5. CASE v # w
      BY <3>1, <3>2, <3>3, <3>5, NoMore
    <3>6. QED BY <3>4, <3>5
  <2>3. ASSUME NEW c \in Clients, NEW w \in Workers, NEW x \in Writes, BeginWrite(c, w, x)
        PROVE  IsFiniteSet(Entries(v)') /\ Cardinality(Entries(v)') <= CacheMax
    <3>1. resp \in [Workers -> [Paths -> Entry \cup {None}]]
      BY DEF LayersInv, RespInv
    <3>2. \A p \in Paths : resp'[v][p] \in {resp[v][p], None}
      BY <2>3, <3>1 DEF BeginWrite
    <3>3. QED BY <3>2, NoMore
  <2>4. \/ resp' = resp
        \/ \E c \in Clients : Fill(c)
        \/ \E c \in Clients : \E w \in Workers : \E x \in Writes : BeginWrite(c, w, x)
    BY DEF Next, vars, Tick, RefreshView, Serve, ListProducts, GetStats, StoreStats,
           CommitWrite, EndWrite, RefuseWrite, BeginGet
  <2>5. QED BY <2>1, <2>2, <2>3, <2>4
<1>3. QED BY <1>1, <1>2 DEF SizeInv

\* Every cache keeps within its limit and holds only versions that were
\* committed, of the past.
THEOREM CacheTypeCorrect == ASSUME CacheAssumption PROVE Spec => []TypeOK
<1>1. ASSUME Init PROVE AgeInv /\ SizeInv
  <2>1. AgeInv
    BY <1>1, LayersInit DEF Init, AgeInv, AnswerInv, ListingsAge, StatsAge
  <2>2. \A w \in Workers : Entries(w) = {}
    BY <1>1 DEF Init, Entries
  <2>3. now = 0 /\ MaxNow \in Nat /\ CacheMax \in Nat
    BY <1>1 DEF Init, CacheAssumption
  <2>4. IsFiniteSet({}) /\ Cardinality({}) <= CacheMax
    BY <2>3, FS_EmptySet
  <2>5. QED BY <2>1, <2>2, <2>3, <2>4 DEF SizeInv
<1>2. ASSUME AgeInv, SizeInv, [Next]_vars PROVE AgeInv' /\ SizeInv'
  BY <1>2, LayersNext, AnswerNext, SizeNext DEF AgeInv
<1>3. ASSUME AgeInv, SizeInv PROVE TypeOK
  <2>1. now \in 0 .. MaxNow
    BY <1>3, Numbers DEF AgeInv, LayersInv, SizeInv, CacheAssumption
  <2>2. \A w \in Workers, p \in Paths :
          resp[w][p] # None => resp[w][p].at <= now /\ resp[w][p].version <= Version
    BY <1>3 DEF AgeInv, LayersInv, RespInv, Aged, Covers, Version
  <2>3. \A w \in Workers : stats[w] # None => stats[w].version <= Version
    BY <1>3 DEF AgeInv, LayersInv, StatsInv, Aged, Covers, Version
  <2>4. \A c \in Clients :
          req[c].pc \in {"idle", "handler", "store", "fill", "commit", "written"}
    BY <1>3 DEF AgeInv, LayersInv, ReqInv, Request
  <2>5. QED BY <1>3, <2>1, <2>2, <2>3, <2>4 DEF SizeInv, TypeOK
<1>4. QED BY <1>1, <1>2, <1>3, PTL DEF Spec

----------------------------------------------------------------------------
(* One client of one worker.                                               *)

\* No cached page lacks a mutation, and none is cached while one is under way.
PagesCurrent ==
  \A w \in Workers : \A p \in Pages : resp[w][p] # None =>
    /\ resp[w][p].version = Version
    /\ \A c \in Clients : req[c].pc # "commit"

\* Nor does a page on its way to the cache; no request began in the future.
ReadsCurrent ==
  \A c \in Clients :
    /\ req[c].floor <= Version
    /\ req[c].pc = "fill" /\ req[c].what \in Pages => req[c].version = Version

CurrentInv == PagesCurrent /\ ReadsCurrent /\ ReadYourWrites

\* With one client and one worker, and no mutation of tags, a step keeps the
\* pages current: a mutation empties the only cache before it commits.
LEMMA CurrentNext ==
  ASSUME CacheAssumption, "tag" \notin Writes,
         \A c, d \in Clients : c = d, \A v, w \in Workers : v = w,
         LayersInv, CurrentInv, [Next]_vars
  PROVE  CurrentInv'
<1>1. /\ resp \in [Workers -> [Paths -> Entry \cup {None}]]
      /\ req \in [Clients -> Request] /\ Pages \subseteq Paths
      /\ now \in Nat /\ commits \in Seq(Nat) /\ Version \in Nat
  BY Numbers DEF LayersInv, RespInv, ReqInv, Pages
<1>2. CASE Tick \/ RefreshView \/ UNCHANGED vars
  BY <1>2 DEF Tick, RefreshView, vars, CurrentInv, PagesCurrent, ReadsCurrent,
              ReadYourWrites, Version
<1>3. ASSUME NEW c \in Clients, ListProducts(c) \/ GetStats(c) \/ StoreStats(c)
      PROVE  CurrentInv'
  <2>1. /\ UNCHANGED <<resp, commits, answer>> /\ Version' = Version
        /\ req[c] \in Request /\ req' \in [Clients -> Request]
    BY <1>1, <1>3, LayersNext DEF ListProducts, GetStats, StoreStats, Version,
              Next, Serve, LayersInv, ReqInv
  <2>2. /\ \A d \in Clients : d # c => req'[d] = req[d]
        /\ req'[c].floor = req[c].floor /\ req'[c].what = req[c].what
        /\ req'[c].pc \in {"fill", "store"}
        /\ req[c].what = "stats" \/ req'[c].version = Version
    <3>1. CASE ListProducts(c)
      BY <1>1, <2>1, <3>1 DEF ListProducts, Request
    <3>2. CASE GetStats(c)
      BY <1>1, <2>1, <3>2 DEF GetStats, Request
    <3>3. CASE StoreStats(c)
      <4>1. req[c].what = "stats"
        BY <3>3 DEF StoreStats, LayersInv, ReqInv, Reading
      <4>2. QED BY <1>1, <2>1, <3>3, <4>1 DEF StoreStats, Request
    <3>4. QED BY <1>3, <3>1, <3>2, <3>3
  <2>3. PagesCurrent'
    BY <2>1, <2>2 DEF CurrentInv, PagesCurrent
  <2>4. ReadsCurrent'
    BY <2>1, <2>2 DEF CurrentInv, ReadsCurrent, Pages
  <2>5. QED BY <2>1, <2>3, <2>4 DEF CurrentInv, ReadYourWrites
<1>4. ASSUME NEW c \in Clients, Fill(c) PROVE CurrentInv'
  <2> DEFINE w == req[c].worker
             path == req[c].what
             e == [at |-> now, version |-> req[c].version]
  <2>1. PICK kept \in Evict(w) : resp' = [resp EXCEPT ![w] = [kept EXCEPT ![path] = e]]
    BY <1>4 DEF Fill
  <2>2. w \in Workers /\ path \in Paths
    BY <1>4, Collected DEF Fill
  <2>3. /\ kept \in [Paths -> Entry \cup {None}]
        /\ \A p \in Paths : kept[p] \in {resp[w][p], None}
    BY <2>2, EvictKeeps DEF LayersInv
  <2>4. path \in Pages => e.version = Version
    BY <1>4 DEF CurrentInv, ReadsCurrent, Fill
  <2>5. /\ req' = [req EXCEPT ![c] = Idle] /\ UNCHANGED <<now, commits>>
        /\ Version' = Version
    BY <1>4 DEF Fill, Version
  <2>6. PagesCurrent'
    <3> HIDE DEF w, path, e
    <3>1. ASSUME NEW v \in Workers, NEW p \in Pages, resp'[v][p] # None
          PROVE  resp'[v][p].version = Version
      BY <1>1, <2>1, <2>2, <2>3, <2>4, <3>1 DEF CurrentInv, PagesCurrent
    <3>2. \A d \in Clients : req'[d].pc # "commit"
      BY <1>1, <2>5 DEF Idle
    <3>3. QED BY <2>5, <3>1, <3>2 DEF PagesCurrent
  <2>7. ReadsCurrent'
    BY <1>1, <2>5 DEF Idle, CurrentInv, ReadsCurrent
  <2>8. ReadYourWrites'
    <3>1. path \in Pages => req[c].version >= req[c].floor
      BY <1>1, <1>4 DEF CurrentInv, ReadsCurrent, Fill, Request
    <3>2. answer'.path = path /\ answer'.current = (req[c].version >= req[c].floor)
      BY <1>4 DEF Fill, Reply
    <3>3. QED BY <3>1, <3>2 DEF ReadYourWrites
  <2>9. QED BY <2>6, <2>7, <2>8 DEF CurrentInv
<1>5. ASSUME NEW c \in Clients, NEW w \in Workers, NEW p \in Paths, BeginGet(c, w, p)
      PROVE  CurrentInv'
  <2>1. CASE Fresh(resp[w][p], Ttl)
    <3>1. UNCHANGED <<resp, req, commits>> /\ Version' = Version
      BY <1>5, <2>1 DEF BeginGet, Version
    <3>2. ReadYourWrites'
      <4>1. p \in Pages => resp[w][p].version >= Version
        BY <1>1, <2>1 DEF Fresh, CurrentInv, PagesCurrent
      <4>2. answer'.path = p /\ answer'.current = (resp[w][p].version >= Version)
        BY <1>5, <2>1 DEF BeginGet, Reply
      <4>3. QED BY <4>1, <4>2 DEF ReadYourWrites
    <3>3. QED BY <3>1, <3>2 DEF CurrentInv, PagesCurrent, ReadsCurrent
  <2>2. CASE ~ Fresh(resp[w][p], Ttl)
    <3> DEFINE r == [Idle EXCEPT !.pc = "handler", !.at = now, !.worker = w,
                                 !.what = p, !.floor = Version]
    <3>1. r.pc = "handler" /\ r.floor = Version
      BY DEF Idle
    <3>2. /\ req' = [req EXCEPT ![c] = r] /\ UNCHANGED <<resp, commits, answer>>
          /\ Version' = Version
      BY <1>5, <2>2 DEF BeginGet, Version
    <3> HIDE DEF r
    <3>3. QED BY <1>1, <3>1, <3>2 DEF CurrentInv, PagesCurrent, ReadsCurrent, ReadYourWrites
  <2>3. QED BY <2>1, <2>2
<1>6. ASSUME NEW c \in Clients, NEW w \in Workers, NEW x \in Writes, BeginWrite(c, w, x)
      PROVE  CurrentInv'
  <2> DEFINE r == [Idle EXCEPT !.pc = "commit", !.at = now, !.worker = w, !.what = x]
  <2>1. r.pc = "commit" /\ r.floor = 0
    BY DEF Idle
  <2>2. /\ req' = [req EXCEPT ![c] = r] /\ UNCHANGED <<commits, answer>>
        /\ Version' = Version
    BY <1>6 DEF BeginWrite, Version
  <2>3. Pages \subseteq Invalidated(x)
    BY DEF Invalidated, CacheAssumption, Pages
  <2>4. \A v \in Workers : \A p \in Pages : resp'[v][p] = None
    <3>1. \A v \in Workers : v = w
      OBVIOUS
    <3>2. resp' = [resp EXCEPT ![w] =
                     [p \in Paths |-> IF p \in Invalidated(x) THEN None ELSE resp[w][p]]]
      BY <1>6 DEF BeginWrite
    <3>3. QED BY <1>1, <2>3, <3>1, <3>2
  <2> HIDE DEF r
  <2>5. PagesCurrent'
    BY <2>4 DEF PagesCurrent
  <2>6. ReadsCurrent'
    BY <1>1, <2>1, <2>2 DEF CurrentInv, ReadsCurrent
  <2>7. QED BY <2>2, <2>5, <2>6 DEF CurrentInv, ReadYourWrites
<1>7. ASSUME NEW c \in Clients, CommitWrite(c) PROVE CurrentInv'
  <2>1. Version' = Version + 1 /\ UNCHANGED <<resp, answer>>
    BY <1>1, <1>7 DEF CommitWrite, Version
  <2>2. req' = [req EXCEPT ![c].pc = "written"] /\ req[c].pc = "commit"
    BY <1>7 DEF CommitWrite
  <2>3. PagesCurrent'
    BY <2>1, <2>2 DEF CurrentInv, PagesCurrent
  <2>4. ReadsCurrent'
    <3>1. ASSUME NEW d \in Clients
          PROVE  req'[d].floor <= Version + 1 /\ req'[d].pc = "written"
      <4>1. d = c /\ req[c] \in Request
        BY <1>1
      <4>2. req'[d].pc = "written" /\ req'[d].floor = req[c].floor
        BY <1>1, <2>2, <4>1 DEF Request
      <4>3. req[c].floor \in Nat /\ req[c].floor <= Version
        BY <4>1 DEF Request, CurrentInv, ReadsCurrent
      <4>4. QED BY <1>1, <4>2, <4>3
    <3>2. QED BY <2>1, <3>1 DEF ReadsCurrent
  <2>5. QED BY <2>1, <2>3, <2>4 DEF CurrentInv, ReadYourWrites
<1>8. ASSUME NEW c \in Clients, EndWrite(c) \/ RefuseWrite(c) PROVE CurrentInv'
  BY <1>1, <1>8 DEF EndWrite, RefuseWrite, Idle, CurrentInv, PagesCurrent, ReadsCurrent,
                    ReadYourWrites, Version
<1>9. QED BY <1>2, <1>3, <1>4, <1>5, <1>6, <1>7, <1>8 DEF Next, Serve

\* "In-process cache with auto-invalidation on mutations": with one worker and
\* requests that do not overlap, a listing shows every mutation answered before
\* it was requested.
THEOREM LoneClientReadsItsWrites ==
  ASSUME CacheAssumption, "tag" \notin Writes,
         \A c, d \in Clients : c = d, \A v, w \in Workers : v = w
  PROVE  Spec => []ReadYourWrites
<1>1. ASSUME Init PROVE LayersInv /\ CurrentInv
  <2>1. PagesCurrent
    BY <1>1 DEF Init, PagesCurrent, Pages
  <2>2. ReadsCurrent
    BY <1>1 DEF Init, ReadsCurrent, Idle, Version
  <2>3. QED BY <1>1, <2>1, <2>2, LayersInit DEF Init, CurrentInv, ReadYourWrites
<1>2. ASSUME LayersInv, CurrentInv, [Next]_vars PROVE LayersInv' /\ CurrentInv'
  BY <1>2, LayersNext, CurrentNext
<1>3. CurrentInv => ReadYourWrites
  BY DEF CurrentInv
<1>4. QED BY <1>1, <1>2, <1>3, PTL DEF Spec

============================================================================
