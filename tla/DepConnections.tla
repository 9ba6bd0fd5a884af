--------------------------- MODULE DepConnections ---------------------------
(***************************************************************************)
(* The connection pool of a server process under uploads that each start a *)
(* dependency thread (server/db/session.py, upload_scan and                *)
(* _insert_dependencies_background in server/api/scans.py), at the grain   *)
(* of statements.  A handler keeps the bare raw_conn it took from its      *)
(* session and goes on using it after the commit that gave the connection  *)
(* back; a thread holds one connection while it waits for the semaphore    *)
(* and asks for a second one to report how it ended.                       *)
(***************************************************************************)
EXTENDS Naturals, FiniteSets, Sequences

CONSTANTS
  Uploads,      \* uploads with dependencies and image layers, and their threads
  Readers,      \* other requests, each holding a connection while it runs
  Conns,        \* database connections
  PoolSize,     \* connections kept (10)
  MaxOverflow,  \* connections opened beyond them (20)
  NBatches,     \* batches of a dependency list
  RepeatLayers, \* uploads whose layer chain repeats a digest
  BadDeps,      \* uploads whose dependencies cannot be parsed
  None

PoolAssumption ==
  /\ {PoolSize, MaxOverflow, NBatches} \subseteq Nat
  /\ RepeatLayers \subseteq Uploads /\ BadDeps \subseteq Uploads
  /\ IsFiniteSet(Uploads) /\ IsFiniteSet(Conns) /\ None \notin Conns
  /\ Cardinality(Conns) >= PoolSize + MaxOverflow + Cardinality(Uploads)

VARIABLES
  idle,     \* the pool's queue
  open,     \* connections to the database
  held,     \* who has checked out which connection
  raw,      \* upload -> the dbapi connection its handler remembers
  txn,      \* connection -> writes of its open transaction
  broken,   \* connections whose open transaction has failed
  stored,   \* committed writes
  pc,       \* upload -> where its handler is
  thread,   \* upload -> where its thread is
  next,     \* upload -> its thread's next batch
  sem,      \* the thread that holds _dep_semaphore
  denied    \* history: handlers and threads that did not get a connection

pool == <<idle, open, held>>
data == <<txn, broken, stored>>
vars == <<pool, raw, data, pc, thread, next, sem, denied>>

Batches == 1 .. NBatches

\* What is written: the batches of u's dependencies, a status or the layers.
BatchesOf(u) == {<<u, "batch", n>> : n \in Batches}
Mark(u, what) == <<u, what, 0>>

\* A session of the handler, one of the thread, and the thread's raw_conn.
Handler(u) == <<u, "handler">>
Session(u) == <<u, "session">>
Bulk(u) == <<u, "bulk">>
Holders == (Uploads \X {"handler", "session", "bulk"}) \cup (Readers \X {"reader"})

----------------------------------------------------------------------------
(* The pool and its connections.                                           *)

Dirty(c) == txn[c] # {} \/ c \in broken

Full == idle = <<>> /\ Cardinality(open) = PoolSize + MaxOverflow

Fresh == CHOOSE c \in Conns : c \notin open /\ \A u \in Uploads : raw[u] # c

\* The connection that has been idle for longest, or a new one.
Take(h, c) ==
  IF idle # <<>>
  THEN /\ c = Head(idle) /\ ~Dirty(c)
       /\ idle' = Tail(idle) /\ held' = [held EXCEPT ![h] = c] /\ UNCHANGED open
  ELSE /\ ~Full /\ c = Fresh
       /\ open' = open \cup {c} /\ held' = [held EXCEPT ![h] = c]
       /\ UNCHANGED idle

\* The pool is full for the whole timeout; or the ping of the connection fails,
\* because somebody has a transaction open on it, and the connection is closed.
Refuse(h) ==
  /\ \/ /\ Full
        /\ UNCHANGED <<pool, txn, broken>>
     \/ /\ idle # <<>> /\ Dirty(Head(idle))
        /\ open' = open \ {Head(idle)} /\ idle' = Tail(idle) /\ UNCHANGED held
        /\ txn' = [txn EXCEPT ![Head(idle)] = {}] /\ broken' = broken \ {Head(idle)}
  /\ denied' = denied \cup {h}
  /\ UNCHANGED stored

\* What is not committed is rolled back; a connection too many is closed.
Rollback(c) == txn' = [txn EXCEPT ![c] = {}] /\ broken' = broken \ {c}

GiveBack(h) ==
  /\ held' = [held EXCEPT ![h] = None]
  /\ IF Len(idle) < PoolSize
     THEN idle' = Append(idle, held[h]) /\ UNCHANGED open
     ELSE open' = open \ {held[h]} /\ UNCHANGED idle

Release(h) == GiveBack(h) /\ Rollback(held[h]) /\ UNCHANGED stored

\* COMMIT of a failed transaction is a ROLLBACK, and no error.
Committed(c) == IF c \in broken THEN {} ELSE txn[c]

Commit(c) == stored' = stored \cup Committed(c) /\ Rollback(c)

CommitAndRelease(h) == GiveBack(h) /\ Commit(held[h])

\* A statement on a closed connection or in a failed transaction is an error.
Usable(c) == c \in open /\ c \notin broken

Execute(c, w) ==
  /\ txn' = [txn EXCEPT ![c] = @ \cup {w}]
  /\ UNCHANGED <<broken, stored>>

\* A failing statement takes its transaction down with it.
Break(c) ==
  /\ txn' = [txn EXCEPT ![c] = {}] /\ broken' = broken \cup {c}
  /\ UNCHANGED stored

----------------------------------------------------------------------------
(* upload_scan from the raw connection on.  Reading the next uploaded file  *)
(* is the only point at which another handler of the process may go on.    *)

MyTurn(u) == \A q \in Uploads \ {u} : pc[q] \notin {"pending", "reload", "commit", "answer"}

Go(u, label) == pc' = [pc EXCEPT ![u] = label]

Open(u) ==
  /\ pc[u] = "start" /\ MyTurn(u)
  /\ \/ \E c \in Conns : Take(Handler(u), c) /\ raw' = [raw EXCEPT ![u] = c]
                          /\ Go(u, "pending") /\ UNCHANGED <<data, denied>>
     \/ Refuse(Handler(u)) /\ Go(u, "error") /\ UNCHANGED raw
  /\ UNCHANGED <<thread, next, sem>>

MarkPending(u) ==
  /\ pc[u] = "pending"
  /\ GiveBack(Handler(u))
  /\ stored' = stored \cup {Mark(u, "pending")} /\ UNCHANGED <<txn, broken>>
  /\ Go(u, "reload")
  /\ UNCHANGED <<raw, thread, next, sem, denied>>

\* scan.id has expired: the session takes a connection again.
StartThread(u) ==
  /\ pc[u] = "reload"
  /\ \/ /\ \E c \in Conns : Take(Handler(u), c)
        /\ thread' = [thread EXCEPT ![u] = "mark"]
        /\ Go(u, "layers") /\ UNCHANGED <<data, denied>>
     \/ Refuse(Handler(u)) /\ Go(u, "error") /\ UNCHANGED thread
  /\ UNCHANGED <<raw, next, sem>>

\* UNIQUE(scan_id, layer_id); errors are logged and swallowed.
InsertLayers(u) ==
  /\ pc[u] = "layers" /\ MyTurn(u)
  /\ LET c == raw[u]
     IN  IF ~Usable(c) THEN Go(u, "answer") /\ UNCHANGED data
         ELSE IF u \in RepeatLayers THEN Go(u, "answer") /\ Break(c)
         ELSE Go(u, "commit") /\ Execute(c, Mark(u, "layers"))
  /\ UNCHANGED <<pool, raw, thread, next, sem, denied>>

CommitLayers(u) ==
  /\ pc[u] = "commit"
  /\ IF raw[u] \in open THEN Commit(raw[u]) ELSE UNCHANGED data
  /\ Go(u, "answer")
  /\ UNCHANGED <<pool, raw, thread, next, sem, denied>>

Answer(u) ==
  /\ pc[u] = "answer"
  /\ Release(Handler(u)) /\ Go(u, "done")
  /\ UNCHANGED <<raw, thread, next, sem, denied>>

----------------------------------------------------------------------------
(* _insert_dependencies_background.                                        *)

Run(u, label) == thread' = [thread EXCEPT ![u] = label]

\* db.execute(UPDATE) and db.commit(), between which the session holds a
\* connection; what happens when there is none.
Report(u, from, status, to, otherwise) ==
  /\ thread[u] = from
  /\ \/ \E c \in Conns : Take(Session(u), c) /\ Execute(c, Mark(u, status))
                          /\ Run(u, to) /\ UNCHANGED denied
     \/ Refuse(Session(u)) /\ Run(u, otherwise)
  /\ UNCHANGED <<raw, pc, next, sem>>

Reported(u, from, to) ==
  /\ thread[u] = from
  /\ CommitAndRelease(Session(u)) /\ Run(u, to)
  /\ UNCHANGED <<raw, pc, next, sem, denied>>

MarkProcessing(u) ==
  \/ Report(u, "mark", "processing", "marked", "fail")
  \/ Reported(u, "marked", "bulk")

\* engine.raw_connection(), before the semaphore.
TakeBulk(u) ==
  /\ thread[u] = "bulk"
  /\ \/ \E c \in Conns : Take(Bulk(u), c) /\ Run(u, "wait") /\ UNCHANGED <<data, denied>>
     \/ Refuse(Bulk(u)) /\ Run(u, "fail")
  /\ UNCHANGED <<raw, pc, next, sem>>

Acquire(u) ==
  /\ thread[u] = "wait" /\ sem = None
  /\ sem' = u /\ Run(u, "insert")
  /\ UNCHANGED <<pool, raw, data, pc, next, denied>>

InsertBatch(u) ==
  /\ thread[u] = "insert" /\ next[u] \in Batches
  /\ u \notin BadDeps /\ Usable(held[Bulk(u)])
  /\ Execute(held[Bulk(u)], <<u, "batch", next[u]>>) /\ Run(u, "batch")
  /\ UNCHANGED <<pool, raw, pc, next, sem, denied>>

CommitBatch(u) ==
  /\ thread[u] = "batch"
  /\ Commit(held[Bulk(u)]) /\ next' = [next EXCEPT ![u] = @ + 1] /\ Run(u, "insert")
  /\ UNCHANGED <<pool, raw, pc, sem, denied>>

\* Mutant: a thread that fails keeps the semaphore.
BatchFailsHoldingSemaphore(u) ==
  /\ thread[u] = "insert"
  /\ u \in BadDeps \/ (next[u] \in Batches /\ ~Usable(held[Bulk(u)]))
  /\ Run(u, "fail")
  /\ UNCHANGED <<pool, raw, data, pc, next, sem, denied>>

BatchFails(u) ==
  /\ thread[u] = "insert"
  /\ u \in BadDeps \/ (next[u] \in Batches /\ ~Usable(held[Bulk(u)]))
  /\ sem' = None /\ Run(u, "fail")
  /\ UNCHANGED <<pool, raw, data, pc, next, denied>>

Finish(u) ==
  /\ thread[u] = "insert" /\ next[u] \notin Batches /\ u \notin BadDeps
  /\ sem' = None /\ Run(u, "finish")
  /\ UNCHANGED <<pool, raw, data, pc, next, denied>>

\* The connection for the outcome is taken while raw_conn is still held.
MarkComplete(u) ==
  \/ Report(u, "finish", "complete", "finished", "fail")
  \/ Reported(u, "finished", "close")

\* except: pass.
MarkFailed(u) ==
  \/ Report(u, "fail", "failed", "failing", "close")
  \/ Reported(u, "failing", "close")

\* Mutant: raw_conn is closed only when everything went well.
CloseIfComplete(u) ==
  /\ thread[u] = "close" /\ Run(u, "done")
  /\ IF Mark(u, "complete") \in stored
     THEN Release(Bulk(u))
     ELSE UNCHANGED <<pool, data>>
  /\ UNCHANGED <<raw, pc, next, sem, denied>>

Close(u) ==
  /\ thread[u] = "close" /\ Run(u, "done")
  /\ IF held[Bulk(u)] # None
     THEN Release(Bulk(u))
     ELSE UNCHANGED <<pool, data>>
  /\ UNCHANGED <<raw, pc, next, sem, denied>>

----------------------------------------------------------------------------

Read(r) ==
  /\ \/ /\ held[<<r, "reader">>] = None
        /\ \E c \in Conns : Take(<<r, "reader">>, c)
        /\ UNCHANGED data
     \/ held[<<r, "reader">>] # None /\ Release(<<r, "reader">>)
  /\ UNCHANGED <<raw, pc, thread, next, sem, denied>>

Handle(u) ==
  \/ Open(u) \/ MarkPending(u) \/ StartThread(u)
  \/ InsertLayers(u) \/ CommitLayers(u) \/ Answer(u)

RunThread(u) ==
  \/ MarkProcessing(u) \/ TakeBulk(u) \/ Acquire(u)
  \/ InsertBatch(u) \/ CommitBatch(u) \/ BatchFails(u) \/ Finish(u)
  \/ MarkComplete(u) \/ MarkFailed(u) \/ Close(u)

Init ==
  /\ idle = <<>> /\ open = {}
  /\ held = [h \in Holders |-> None]
  /\ raw = [u \in Uploads |-> None]
  /\ txn = [c \in Conns |-> {}] /\ broken = {} /\ stored = {}
  /\ pc = [u \in Uploads |-> "start"]
  /\ thread = [u \in Uploads |-> "none"]
  /\ next = [u \in Uploads |-> 1]
  /\ sem = None /\ denied = {}

Ended ==
  \A u \in Uploads : pc[u] \in {"done", "error"} /\ thread[u] \in {"none", "done"}

Next ==
  \/ \E u \in Uploads : Handle(u) \/ RunThread(u)
  \/ \E r \in Readers : Read(r)
  \/ Ended /\ UNCHANGED vars

\* The event loop, the thread scheduler and the thread pool run what can run.
Spec ==
  /\ Init /\ [][Next]_vars
  /\ \A u \in Uploads : WF_vars(Handle(u)) /\ WF_vars(RunThread(u))

----------------------------------------------------------------------------
(* Properties.                                                             *)

InPool == {idle[i] : i \in DOMAIN idle}
InUse == {held[h] : h \in Holders} \ {None}

\* Every open connection is idle or checked out by one holder, and there are
\* never more than the pool allows.
PoolOK ==
  /\ open = InPool \cup InUse /\ InPool \cap InUse = {}
  /\ Len(idle) = Cardinality(InPool) /\ Len(idle) <= PoolSize
  /\ \A g, h \in Holders : held[g] = held[h] /\ held[g] # None => g = h
  /\ Cardinality(open) <= PoolSize + MaxOverflow

\* Whatever failed, the uploads and their threads give every connection back.
NothingLeaks ==
  Ended => \A h \in Holders : held[h] = None \/ h[1] \in Readers

\* A scan is left pending or processing only by a handler or thread that did not
\* get a connection.
SettledUnlessRefused ==
  \A u \in Uploads :
    Ended /\ Mark(u, "pending") \in stored =>
      \/ Mark(u, "complete") \in stored \/ Mark(u, "failed") \in stored
      \/ {Handler(u), Session(u)} \cap denied # {}

\* "[bg] Dependencies complete for scan {scan_id}: {dep_count} records": the
\* batches of a complete scan are there.
CompleteIsInserted ==
  \A u \in Uploads : Mark(u, "complete") \in stored => BatchesOf(u) \subseteq stored

============================================================================
