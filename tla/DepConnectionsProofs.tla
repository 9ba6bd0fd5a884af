------------------------ MODULE DepConnectionsProofs ------------------------
(***************************************************************************)
(* What the connection pool and the threads that share it guarantee, for   *)
(* every pool size and any number of uploads, batches and other requests:  *)
(* no connection is in two hands and none is lost; and, as long as no      *)
(* layer chain repeats a digest, a scan is settled unless its upload was   *)
(* refused a connection, and a complete one has all its batches.           *)
(***************************************************************************)
EXTENDS DepConnections, FiniteSetTheorems, TLAPS

\* Where a handler holds its session's connection, where a thread holds one, and
\* where it holds its raw connection or may still hold it.
HandlerHolds == {"pending", "layers", "commit", "answer"}
SessionHolds == {"marked", "finished", "failing"}
BulkHolds    == {"wait", "insert", "batch", "finish", "finished"}
MayHoldBulk  == BulkHolds \cup {"fail", "failing", "close"}

\* Before a handler starts its thread, or instead of it.
Threadless == {"start", "pending", "reload", "error"}

HandlerPcs == HandlerHolds \cup {"start", "reload", "done", "error"}
ThreadPcs  == SessionHolds \cup MayHoldBulk \cup {"none", "mark", "bulk", "done"}

Statuses == {"pending", "processing", "complete", "failed"}
Writes   == Uploads \X (Statuses \cup {"batch", "layers"}) \X Nat

TypeInv ==
  /\ raw \in [Uploads -> Conns \cup {None}]
  /\ txn \in [Conns -> SUBSET Writes] /\ broken \subseteq Conns
  /\ pc \in [Uploads -> HandlerPcs] /\ thread \in [Uploads -> ThreadPcs]
  /\ next \in [Uploads -> Nat \ {0}]

\* The pool: a connection has one place.
PoolInv ==
  /\ idle \in Seq(Conns) /\ held \in [Holders -> Conns \cup {None}]
  /\ \A i, j \in 1 .. Len(idle) : idle[i] = idle[j] => i = j
  /\ \A g, h \in Holders : held[g] = held[h] /\ held[g] # None => g = h
  /\ open = InPool \cup InUse /\ InPool \cap InUse = {}
  /\ Len(idle) <= PoolSize /\ Cardinality(open) <= PoolSize + MaxOverflow

\* Who holds one is told by where handlers and threads are.
ControlInv ==
  \A u \in Uploads :
    /\ held[Handler(u)] # None <=> pc[u] \in HandlerHolds
    /\ held[Session(u)] # None <=> thread[u] \in SessionHolds
    /\ thread[u] \in BulkHolds => held[Bulk(u)] # None
    /\ held[Bulk(u)] # None => thread[u] \in MayHoldBulk
    /\ thread[u] = "none" <=> pc[u] \in Threadless

\* Inductive.
ConnInv == TypeInv /\ PoolInv /\ ControlInv

\* What is written over connection c is committed or in its open transaction.
Written(c) == stored \cup txn[c]
AllWritten == stored \cup UNION {txn[c] : c \in Conns}

\* How far a thread got: it has reported an outcome, or was refused the connection.
Outcome(u) ==
  /\ pc[u] = "error" => Handler(u) \in denied
  /\ thread[u] = "finished" => Mark(u, "complete") \in Written(held[Session(u)])
  /\ thread[u] = "failing" => Mark(u, "failed") \in Written(held[Session(u)])
  /\ thread[u] \in {"close", "done"} =>
       \/ Mark(u, "complete") \in stored \/ Mark(u, "failed") \in stored
       \/ Session(u) \in denied

\* The batches behind a thread are stored, and it reports complete behind the last.
Inserted(u) ==
  /\ \A n \in Batches : n < next[u] => <<u, "batch", n>> \in stored
  /\ thread[u] = "batch" =>
       next[u] \in Batches /\ <<u, "batch", next[u]>> \in Written(held[Bulk(u)])
  /\ thread[u] = "finish" => next[u] \notin Batches
  /\ Mark(u, "complete") \in AllWritten => next[u] \notin Batches

\* Inductive when no statement of a handler can fail.
SettledInv == broken = {} /\ \A u \in Uploads : Outcome(u) /\ Inserted(u)

----------------------------------------------------------------------------
(* The pool.                                                               *)

\* The parameters are numbers, and the sets finite.
LEMMA Params ==
  ASSUME PoolAssumption
  PROVE  /\ PoolSize \in Nat /\ MaxOverflow \in Nat /\ NBatches \in Nat
         /\ IsFiniteSet(Conns) /\ IsFiniteSet(Uploads) /\ None \notin Conns
         /\ Cardinality(Conns) >= PoolSize + MaxOverflow + Cardinality(Uploads)
BY DEF PoolAssumption

\* The sessions and raw connections of uploads and the sessions of readers are
\* holders of their own.
LEMMA HolderOf ==
  /\ \A u \in Uploads : {Handler(u), Session(u), Bulk(u)} \subseteq Holders
  /\ \A r \in Readers : <<r, "reader">> \in Holders
  /\ \A u, v \in Uploads :
       /\ Handler(u) # Session(v) /\ Handler(u) # Bulk(v) /\ Session(u) # Bulk(v)
       /\ Handler(u) = Handler(v) => u = v
       /\ Session(u) = Session(v) => u = v
       /\ Bulk(u) = Bulk(v) => u = v
  /\ \A u \in Uploads, r \in Readers :
       <<r, "reader">> \notin {Handler(u), Session(u), Bulk(u)}
BY DEF Handler, Session, Bulk, Holders

\* The connections in the pool and those in use are connections.
LEMMA PoolSets ==
  ASSUME PoolAssumption, PoolInv
  PROVE  /\ InPool \subseteq Conns /\ InUse \subseteq Conns
         /\ open \subseteq Conns /\ IsFiniteSet(open) /\ Cardinality(open) \in Nat
         /\ \A h \in Holders : held[h] # None => held[h] \in InUse \cap Conns
<1>1. InPool \subseteq Conns
  BY DEF PoolInv, InPool
<1>2. InUse \subseteq Conns
  BY DEF PoolInv, InUse
<1>3. open \subseteq Conns
  BY <1>1, <1>2 DEF PoolInv
<1>4. IsFiniteSet(open) /\ Cardinality(open) \in Nat
  BY <1>3, Params, FS_Subset, FS_CardinalityType
<1>5. ASSUME NEW h \in Holders, held[h] # None PROVE held[h] \in InUse \cap Conns
  BY <1>5 DEF PoolInv, InUse
<1>6. QED BY <1>1, <1>2, <1>3, <1>4, <1>5

\* A set that has fewer elements than another does not cover it.
LEMMA NotCovered ==
  ASSUME NEW A, NEW B, IsFiniteSet(A), IsFiniteSet(B), Cardinality(A) < Cardinality(B)
  PROVE  \E b \in B : b \notin A
<1> SUFFICES ASSUME B \subseteq A PROVE FALSE
  OBVIOUS
<1>1. Cardinality(B) <= Cardinality(A) /\ Cardinality(A) \in Nat /\ Cardinality(B) \in Nat
  BY FS_Subset, FS_CardinalityType
<1>2. QED BY <1>1

\* There is a connection that is neither open nor remembered by a handler.
LEMMA FreshIsNew ==
  ASSUME PoolAssumption, TypeInv, PoolInv, ~ Full, idle = <<>>
  PROVE  Fresh \in Conns /\ Fresh \notin open
<1> DEFINE Remembered == {raw[u] : u \in Uploads}
<1>1. IsFiniteSet(Remembered) /\ Cardinality(Remembered) <= Cardinality(Uploads)
  <2>1. \E f : f \in Surjection(Uploads, Remembered)
    <3> WITNESS raw
    <3> QED BY DEF TypeInv, Surjection
  <2>2. QED BY <2>1, Params, FS_Surjection
<1>2. /\ IsFiniteSet(open \cup Remembered)
      /\ Cardinality(open \cup Remembered)
           = Cardinality(open) + Cardinality(Remembered)
             - Cardinality(open \cap Remembered)
  BY <1>1, PoolSets, FS_Union
<1>3. Cardinality(open \cap Remembered) \in Nat
  BY <1>1, PoolSets, FS_Intersection, FS_CardinalityType
<1>4. Cardinality(open) < PoolSize + MaxOverflow
  BY PoolSets, Params DEF Full, PoolInv
<1>5. /\ Cardinality(Remembered) \in Nat /\ Cardinality(Uploads) \in Nat
      /\ Cardinality(Conns) \in Nat /\ Cardinality(open) \in Nat
  BY <1>1, PoolSets, Params, FS_CardinalityType
<1>6. Cardinality(open \cup Remembered) < Cardinality(Conns)
  <2> HIDE DEF Remembered
  <2> QED BY <1>1, <1>2, <1>3, <1>4, <1>5, Params
<1>7. \E c \in Conns : c \notin open /\ \A u \in Uploads : raw[u] # c
  <2>1. \E c \in Conns : c \notin open \cup Remembered
    <3> HIDE DEF Remembered
    <3> QED BY <1>2, <1>6, Params, NotCovered
  <2>2. QED BY <2>1
<1>8. QED BY <1>7 DEF Fresh

\* What a step does to the pool.
CloseIdle ==
  /\ idle # <<>> /\ open' = open \ {Head(idle)} /\ idle' = Tail(idle)
  /\ UNCHANGED held

PoolMove ==
  \/ UNCHANGED pool
  \/ \E h \in Holders, c \in Conns : held[h] = None /\ Take(h, c)
  \/ \E h \in Holders : held[h] # None /\ GiveBack(h)
  \/ CloseIdle

\* The queue without its first connection.
LEMMA TailOfIdle ==
  ASSUME PoolInv, idle # <<>>
  PROVE  /\ Tail(idle) \in Seq(Conns) /\ Len(Tail(idle)) = Len(idle) - 1
         /\ \A i \in 1 .. Len(Tail(idle)) : Tail(idle)[i] = idle[i + 1]
         /\ Head(idle) = idle[1] /\ Len(idle) \in Nat \ {0}
BY DEF PoolInv

LEMMA TailSets ==
  ASSUME PoolInv, idle # <<>>, idle' = Tail(idle)
  PROVE  /\ InPool' = InPool \ {Head(idle)} /\ Head(idle) \in InPool
         /\ idle' \in Seq(Conns) /\ Len(idle') = Len(idle) - 1
         /\ \A i, j \in 1 .. Len(idle') : idle'[i] = idle'[j] => i = j
<1> USE TailOfIdle
<1>1. DOMAIN idle = 1 .. Len(idle) /\ DOMAIN idle' = 1 .. Len(idle) - 1
  BY DEF PoolInv
<1>2. \A i \in 1 .. Len(idle) - 1 : idle'[i] = idle[i + 1] /\ i + 1 \in 1 .. Len(idle)
  OBVIOUS
<1>3. \A i, j \in 1 .. Len(idle') : idle'[i] = idle'[j] => i = j
  <2> SUFFICES ASSUME NEW i \in 1 .. Len(idle'), NEW j \in 1 .. Len(idle'), idle'[i] = idle'[j]
               PROVE  i = j
    OBVIOUS
  <2>1. idle[i + 1] = idle[j + 1] /\ i + 1 \in 1 .. Len(idle) /\ j + 1 \in 1 .. Len(idle)
    BY <1>2
  <2>2. i + 1 = j + 1
    BY <2>1 DEF PoolInv
  <2>3. QED BY <2>2
<1>4. InPool' \subseteq InPool \ {Head(idle)}
  <2> SUFFICES ASSUME NEW i \in 1 .. Len(idle) - 1
               PROVE  idle'[i] \in InPool \ {Head(idle)}
    BY <1>1 DEF InPool
  <2>1. i + 1 # 1 /\ 1 \in 1 .. Len(idle) /\ i + 1 \in 1 .. Len(idle)
    BY <1>2
  <2>2. idle[i + 1] # idle[1]
    BY <2>1 DEF PoolInv
  <2>3. QED BY <1>1, <1>2, <2>1, <2>2 DEF InPool
<1>5. InPool \ {Head(idle)} \subseteq InPool'
  <2> SUFFICES ASSUME NEW i \in 1 .. Len(idle), idle[i] # Head(idle)
               PROVE  idle[i] \in InPool'
    BY <1>1 DEF InPool
  <2>1. i - 1 \in 1 .. Len(idle) - 1 /\ (i - 1) + 1 = i
    OBVIOUS
  <2>2. idle'[i - 1] = idle[i]
    BY <1>2, <2>1
  <2>3. QED BY <1>1, <2>1, <2>2 DEF InPool
<1>6. Head(idle) \in InPool
  BY <1>1 DEF InPool
<1>7. QED BY <1>3, <1>4, <1>5, <1>6

\* Who is in use, once h has changed hands.
LEMMA TakenSets ==
  ASSUME PoolInv, NEW h \in Holders, held[h] = None, NEW c \in Conns, None \notin Conns,
         c \notin InUse, held' = [held EXCEPT ![h] = c]
  PROVE  /\ InUse' = InUse \cup {c} /\ held' \in [Holders -> Conns \cup {None}]
         /\ \A g, f \in Holders : held'[g] = held'[f] /\ held'[g] # None => g = f
<1>1. held' \in [Holders -> Conns \cup {None}]
  BY DEF PoolInv
<1>2. held'[h] = c /\ \A g \in Holders : g # h => held'[g] = held[g]
  BY DEF PoolInv
<1>3. InUse' = InUse \cup {c}
  BY <1>2 DEF InUse
<1>4. ASSUME NEW g \in Holders, NEW f \in Holders, held'[g] = held'[f], held'[g] # None
      PROVE  g = f
  BY <1>2, <1>4 DEF PoolInv, InUse
<1>5. QED BY <1>1, <1>3, <1>4

LEMMA GivenSets ==
  ASSUME PoolInv, NEW h \in Holders, held[h] # None, held' = [held EXCEPT ![h] = None]
  PROVE  /\ InUse' = InUse \ {held[h]} /\ held' \in [Holders -> Conns \cup {None}]
         /\ \A g, f \in Holders : held'[g] = held'[f] /\ held'[g] # None => g = f
<1>1. held' \in [Holders -> Conns \cup {None}]
  BY DEF PoolInv
<1>2. held'[h] = None /\ \A g \in Holders : g # h => held'[g] = held[g]
  BY DEF PoolInv
<1>3. \A g \in Holders : g # h /\ held[g] # None => held[g] # held[h]
  BY DEF PoolInv
<1>4. InUse' = InUse \ {held[h]}
  BY <1>2, <1>3 DEF InUse
<1>5. ASSUME NEW g \in Holders, NEW f \in Holders, held'[g] = held'[f], held'[g] # None
      PROVE  g = f
  BY <1>2, <1>5 DEF PoolInv
<1>6. QED BY <1>1, <1>4, <1>5

\* A checkout takes the first connection of the queue or opens a new one; what it
\* takes nobody else had.
LEMMA TakeKeeps ==
  ASSUME PoolAssumption, TypeInv, PoolInv,
         NEW h \in Holders, NEW c \in Conns, held[h] = None, Take(h, c)
  PROVE  PoolInv'
<1>a. None \notin Conns /\ PoolSize \in Nat /\ MaxOverflow \in Nat
  BY Params
<1>1. CASE idle # <<>>
  <2>1. c = Head(idle) /\ idle' = Tail(idle) /\ held' = [held EXCEPT ![h] = c] /\ open' = open
    BY <1>1 DEF Take
  <2>2. c \in InPool /\ InPool' = InPool \ {c} /\ idle' \in Seq(Conns)
        /\ Len(idle') = Len(idle) - 1
        /\ \A i, j \in 1 .. Len(idle') : idle'[i] = idle'[j] => i = j
    BY <1>1, <2>1, TailSets
  <2>3. c \notin InUse
    BY <2>2 DEF PoolInv
  <2>4. /\ InUse' = InUse \cup {c} /\ held' \in [Holders -> Conns \cup {None}]
        /\ \A g, f \in Holders : held'[g] = held'[f] /\ held'[g] # None => g = f
    BY <1>a, <2>1, <2>3, TakenSets
  <2>5. open' = InPool' \cup InUse' /\ InPool' \cap InUse' = {}
    BY <2>1, <2>2, <2>4 DEF PoolInv
  <2>6. Len(idle') <= PoolSize /\ Cardinality(open') <= PoolSize + MaxOverflow
    BY <1>1, <2>1, <2>2, TailOfIdle, <1>a DEF PoolInv
  <2>7. QED BY <2>2, <2>4, <2>5, <2>6 DEF PoolInv
<1>2. CASE idle = <<>>
  <2>1. ~ Full /\ c = Fresh /\ open' = open \cup {c} /\ held' = [held EXCEPT ![h] = c]
        /\ idle' = idle
    BY <1>2 DEF Take
  <2>2. c \notin open
    BY <1>2, <2>1, FreshIsNew
  <2>3. InPool' = InPool /\ c \notin InUse
    BY <2>1, <2>2 DEF PoolInv, InPool
  <2>4. /\ InUse' = InUse \cup {c} /\ held' \in [Holders -> Conns \cup {None}]
        /\ \A g, f \in Holders : held'[g] = held'[f] /\ held'[g] # None => g = f
    BY <1>a, <2>1, <2>3, TakenSets
  <2>5. open' = InPool' \cup InUse' /\ InPool' \cap InUse' = {}
    BY <2>1, <2>2, <2>3, <2>4 DEF PoolInv
  <2>6. Cardinality(open') = Cardinality(open) + 1
    BY <2>1, <2>2, PoolSets, FS_AddElement
  <2>7. Cardinality(open) < PoolSize + MaxOverflow
    BY <1>2, <2>1, <1>a, PoolSets DEF Full, PoolInv
  <2>8. Cardinality(open') <= PoolSize + MaxOverflow
    BY <2>6, <2>7, <1>a, PoolSets
  <2>9. QED BY <2>1, <2>4, <2>5, <2>8 DEF PoolInv
<1>3. QED BY <1>1, <1>2

\* A connection that is given back is queued, or closed when the queue is full.
LEMMA GiveKeeps ==
  ASSUME PoolAssumption, PoolInv, NEW h \in Holders, held[h] # None, GiveBack(h)
  PROVE  PoolInv'
<1>a. PoolSize \in Nat /\ MaxOverflow \in Nat /\ Len(idle) \in Nat
  BY Params DEF PoolInv
<1> DEFINE c == held[h]
<1>b. c \in Conns /\ c \in InUse /\ c \notin InPool
  BY PoolSets DEF PoolInv
<1>1. /\ InUse' = InUse \ {c} /\ held' \in [Holders -> Conns \cup {None}]
      /\ \A g, f \in Holders : held'[g] = held'[f] /\ held'[g] # None => g = f
  BY GivenSets DEF GiveBack
<1>2. CASE Len(idle) < PoolSize
  <2>1. idle' = Append(idle, c) /\ open' = open
    BY <1>2 DEF GiveBack
  <2> HIDE DEF c
  <2>2. /\ idle' \in Seq(Conns) /\ Len(idle') = Len(idle) + 1
        /\ \A i \in 1 .. Len(idle) : idle'[i] = idle[i]
        /\ idle'[Len(idle) + 1] = c
    BY <1>b, <2>1 DEF PoolInv
  <2>3. DOMAIN idle' = 1 .. Len(idle) + 1 /\ DOMAIN idle = 1 .. Len(idle)
    BY <2>2 DEF PoolInv
  <2>4. InPool' = InPool \cup {c}
    <3>1. InPool' \subseteq InPool \cup {c}
      BY <1>a, <2>2, <2>3 DEF InPool
    <3>2. c \in InPool'
      BY <1>a, <2>2, <2>3 DEF InPool
    <3>3. InPool \subseteq InPool'
      BY <1>a, <2>2, <2>3 DEF InPool
    <3>4. QED BY <3>1, <3>2, <3>3
  <2>5. \A i, j \in 1 .. Len(idle') : idle'[i] = idle'[j] => i = j
    <3>1. \A i \in 1 .. Len(idle) : idle[i] # c
      BY <1>b, <2>3 DEF InPool
    <3>2. QED BY <1>a, <2>2, <3>1 DEF PoolInv
  <2>6. open' = InPool' \cup InUse' /\ InPool' \cap InUse' = {}
    BY <1>1, <1>b, <2>1, <2>4 DEF PoolInv
  <2>7. Len(idle') <= PoolSize /\ Cardinality(open') <= PoolSize + MaxOverflow
    BY <1>2, <1>a, <2>1, <2>2 DEF PoolInv
  <2>8. QED BY <1>1, <2>2, <2>5, <2>6, <2>7 DEF PoolInv
<1>3. CASE ~ (Len(idle) < PoolSize)
  <2>1. idle' = idle /\ open' = open \ {c}
    BY <1>3 DEF GiveBack
  <2>2. open' = InPool' \cup InUse' /\ InPool' \cap InUse' = {}
    BY <1>1, <1>b, <2>1 DEF PoolInv, InPool
  <2>3. Cardinality(open') <= Cardinality(open)
    BY <2>1, PoolSets, FS_Subset
  <2>4. Cardinality(open') \in Nat
    BY <2>1, PoolSets, FS_Subset, FS_CardinalityType
  <2>5. Cardinality(open') <= PoolSize + MaxOverflow
    BY <2>3, <2>4, <1>a, PoolSets DEF PoolInv
  <2>6. QED BY <1>1, <2>1, <2>2, <2>5 DEF PoolInv
<1>4. QED BY <1>2, <1>3

\* Whatever a step does to the pool, each connection keeps one place.
LEMMA PoolKept ==
  ASSUME PoolAssumption, TypeInv, PoolInv, PoolMove
  PROVE  PoolInv'
<1>1. CASE UNCHANGED pool
  BY <1>1 DEF PoolInv, pool, InPool, InUse
<1>2. CASE CloseIdle
  <2>1. /\ InPool' = InPool \ {Head(idle)} /\ Head(idle) \in InPool
        /\ idle' \in Seq(Conns) /\ Len(idle') = Len(idle) - 1
        /\ \A i, j \in 1 .. Len(idle') : idle'[i] = idle'[j] => i = j
    BY <1>2, TailSets DEF CloseIdle
  <2>2. held' = held /\ InUse' = InUse /\ open' = open \ {Head(idle)} /\ idle # <<>>
    BY <1>2 DEF CloseIdle, InUse
  <2>3. open' = InPool' \cup InUse' /\ InPool' \cap InUse' = {}
    BY <2>1, <2>2 DEF PoolInv
  <2>4. Cardinality(open') <= Cardinality(open) /\ Cardinality(open') \in Nat
    BY <2>2, PoolSets, FS_Subset, FS_CardinalityType
  <2>5. Len(idle') <= PoolSize /\ Cardinality(open') <= PoolSize + MaxOverflow
    BY <2>1, <2>2, <2>4, Params, PoolSets, TailOfIdle DEF PoolInv
  <2>6. QED BY <2>1, <2>2, <2>3, <2>5 DEF PoolInv
<1>3. QED BY <1>1, <1>2, TakeKeeps, GiveKeeps DEF PoolMove

----------------------------------------------------------------------------
(* Every step of a handler, a thread or a reader is one of these moves, and  *)
(* keeps who holds what in line with where it is.                          *)

\* The data a step leaves.
DataTyped == txn' \in [Conns -> SUBSET Writes] /\ broken' \subseteq Conns

\* What the pool's operations do to who holds what, and to the data.
LEMMA RefuseMoves ==
  ASSUME TypeInv, PoolInv, NEW h, Refuse(h)
  PROVE  PoolMove /\ held' = held /\ DataTyped
<1>1. CASE Full /\ UNCHANGED <<pool, txn, broken>>
  BY <1>1 DEF PoolMove, pool, DataTyped, TypeInv
<1>2. CASE /\ idle # <<>> /\ Dirty(Head(idle))
           /\ open' = open \ {Head(idle)} /\ idle' = Tail(idle) /\ UNCHANGED held
           /\ txn' = [txn EXCEPT ![Head(idle)] = {}] /\ broken' = broken \ {Head(idle)}
  BY <1>2 DEF PoolMove, CloseIdle, DataTyped, TypeInv
<1>3. QED BY <1>1, <1>2 DEF Refuse

LEMMA TakeMoves ==
  ASSUME NEW h \in Holders, NEW c \in Conns, held[h] = None, Take(h, c)
  PROVE  PoolMove /\ held' = [held EXCEPT ![h] = c]
BY DEF PoolMove, Take

LEMMA GiveMoves ==
  ASSUME NEW h \in Holders, held[h] # None, GiveBack(h)
  PROVE  PoolMove /\ held' = [held EXCEPT ![h] = None]
BY DEF PoolMove, GiveBack

LEMMA DataMoves ==
  ASSUME TypeInv
  PROVE  /\ UNCHANGED data => DataTyped
         /\ UNCHANGED <<txn, broken>> => DataTyped
         /\ \A c \in Conns : Rollback(c) \/ Commit(c) \/ Break(c) => DataTyped
         /\ \A c \in Conns, w \in Writes : Execute(c, w) => DataTyped
BY DEF TypeInv, DataTyped, data, Rollback, Commit, Break, Execute

\* What is written are writes.
LEMMA WritesOf ==
  ASSUME NEW u \in Uploads
  PROVE  /\ \A w \in Statuses \cup {"layers"} : Mark(u, w) \in Writes
         /\ \A n \in Nat : <<u, "batch", n>> \in Writes
BY DEF Mark, Writes, Statuses

\* A step of u's handler to label, or of its thread, that changes only what u holds.
LEMMA HandlerControl ==
  ASSUME TypeInv, PoolInv, ControlInv, NEW u \in Uploads, NEW label \in HandlerPcs,
         NEW c \in Conns \cup {None},
         pc' = [pc EXCEPT ![u] = label],
         \/ held' = held /\ c = held[Handler(u)]
         \/ held' = [held EXCEPT ![Handler(u)] = c],
         c # None <=> label \in HandlerHolds,
         \/ thread' = thread /\ (pc[u] \in Threadless <=> label \in Threadless)
         \/ /\ pc[u] \in Threadless /\ label \notin Threadless
            /\ thread' = [thread EXCEPT ![u] = "mark"]
  PROVE  ControlInv' /\ pc' \in [Uploads -> HandlerPcs] /\ thread' \in [Uploads -> ThreadPcs]
<1> USE HolderOf
<1>1. pc' \in [Uploads -> HandlerPcs] /\ pc'[u] = label
      /\ \A v \in Uploads : v # u => pc'[v] = pc[v]
  BY DEF TypeInv
<1>2. held'[Handler(u)] = c
      /\ \A h \in Holders : h # Handler(u) => held'[h] = held[h]
  BY DEF PoolInv
<1>3. thread' \in [Uploads -> ThreadPcs]
      /\ \A v \in Uploads : \/ thread'[v] = thread[v]
                            \/ thread[v] = "none" /\ thread'[v] = "mark"
  BY DEF TypeInv, ThreadPcs, ControlInv
<1>4. ASSUME NEW v \in Uploads
      PROVE  held'[Handler(v)] # None <=> pc'[v] \in HandlerHolds
  BY <1>1, <1>2 DEF ControlInv
<1>5. ASSUME NEW v \in Uploads
      PROVE  /\ held'[Session(v)] = held[Session(v)] /\ held'[Bulk(v)] = held[Bulk(v)]
  BY <1>2
<1>6. ASSUME NEW v \in Uploads
      PROVE  /\ held'[Session(v)] # None <=> thread'[v] \in SessionHolds
             /\ thread'[v] \in BulkHolds => held'[Bulk(v)] # None
             /\ held'[Bulk(v)] # None => thread'[v] \in MayHoldBulk
  BY <1>3, <1>5 DEF ControlInv, SessionHolds, BulkHolds, MayHoldBulk
<1>7. ASSUME NEW v \in Uploads
      PROVE  thread'[v] = "none" <=> pc'[v] \in Threadless
  BY <1>1 DEF ControlInv, TypeInv
<1>8. QED BY <1>1, <1>3, <1>4, <1>6, <1>7 DEF ControlInv

LEMMA ThreadControl ==
  ASSUME TypeInv, PoolInv, ControlInv, NEW u \in Uploads, NEW label \in ThreadPcs,
         NEW s \in Conns \cup {None}, NEW b \in Conns \cup {None},
         pc' = pc, thread' = [thread EXCEPT ![u] = label], thread[u] # "none", label # "none",
         held'[Session(u)] = s, held'[Bulk(u)] = b,
         \A h \in Holders : h \notin {Session(u), Bulk(u)} => held'[h] = held[h],
         s # None <=> label \in SessionHolds,
         label \in BulkHolds => b # None, b # None => label \in MayHoldBulk
  PROVE  ControlInv' /\ thread' \in [Uploads -> ThreadPcs]
<1> USE HolderOf
<1>1. thread' \in [Uploads -> ThreadPcs] /\ thread'[u] = label
      /\ \A v \in Uploads : v # u => thread'[v] = thread[v]
  BY DEF TypeInv
<1>2. ASSUME NEW v \in Uploads
      PROVE  held'[Handler(v)] # None <=> pc'[v] \in HandlerHolds
  BY DEF ControlInv
<1>3. ASSUME NEW v \in Uploads, v # u
      PROVE  held'[Session(v)] = held[Session(v)] /\ held'[Bulk(v)] = held[Bulk(v)]
  BY <1>3
<1>4. ASSUME NEW v \in Uploads
      PROVE  /\ held'[Session(v)] # None <=> thread'[v] \in SessionHolds
             /\ thread'[v] \in BulkHolds => held'[Bulk(v)] # None
             /\ held'[Bulk(v)] # None => thread'[v] \in MayHoldBulk
  <2>1. CASE v = u
    BY <1>1, <2>1
  <2>2. CASE v # u
    BY <1>1, <1>3, <2>2 DEF ControlInv
  <2>3. QED BY <2>1, <2>2
<1>5. ASSUME NEW v \in Uploads
      PROVE  thread'[v] = "none" <=> pc'[v] \in Threadless
  BY <1>1 DEF ControlInv, TypeInv
<1>6. QED BY <1>1, <1>2, <1>4, <1>5 DEF ControlInv

\* A handler's steps.
LEMMA HandleKeeps ==
  ASSUME PoolAssumption, ConnInv, NEW u \in Uploads, Handle(u)
  PROVE  PoolMove /\ TypeInv' /\ ControlInv'
<1> USE DEF ConnInv
<1> USE HolderOf, Params, PoolSets
<1>a. /\ Handler(u) \in Holders /\ thread[u] \in ThreadPcs /\ raw[u] \in Conns \cup {None}
      /\ held[Handler(u)] # None <=> pc[u] \in HandlerHolds
      /\ held[Handler(u)] # None => held[Handler(u)] \in Conns
  BY DEF TypeInv, ControlInv
<1>1. ASSUME Open(u) PROVE PoolMove /\ TypeInv' /\ ControlInv'
  <2>1. held[Handler(u)] = None
    BY <1>1, <1>a DEF Open, HandlerHolds
  <2>2. CASE \E c \in Conns : Take(Handler(u), c) /\ raw' = [raw EXCEPT ![u] = c]
                              /\ Go(u, "pending") /\ UNCHANGED <<data, denied>>
    <3>1. PICK c \in Conns : Take(Handler(u), c) /\ raw' = [raw EXCEPT ![u] = c]
                             /\ Go(u, "pending") /\ UNCHANGED <<data, denied>>
      BY <2>2
    <3>2. PoolMove /\ held' = [held EXCEPT ![Handler(u)] = c]
      BY <1>a, <2>1, <3>1, TakeMoves
    <3>3. ControlInv' /\ pc' \in [Uploads -> HandlerPcs] /\ thread' \in [Uploads -> ThreadPcs]
      BY <1>1, <3>1, <3>2, HandlerControl DEF Open, Go, HandlerPcs, HandlerHolds, Threadless
    <3>4. QED BY <1>1, <3>1, <3>2, <3>3, DataMoves DEF Open, TypeInv, DataTyped
  <2>3. CASE Refuse(Handler(u)) /\ Go(u, "error") /\ UNCHANGED raw
    <3>1. PoolMove /\ held' = held /\ DataTyped
      BY <2>3, RefuseMoves
    <3>2. ControlInv' /\ pc' \in [Uploads -> HandlerPcs] /\ thread' \in [Uploads -> ThreadPcs]
      BY <1>1, <1>a, <2>1, <2>3, <3>1, HandlerControl DEF Open, Go, HandlerPcs, HandlerHolds, Threadless
    <3>3. QED BY <1>1, <2>3, <3>1, <3>2 DEF Open, TypeInv, DataTyped
  <2>4. QED BY <1>1, <2>2, <2>3 DEF Open
<1>2. ASSUME MarkPending(u) PROVE PoolMove /\ TypeInv' /\ ControlInv'
  <2>1. held[Handler(u)] # None
    BY <1>2, <1>a DEF MarkPending, HandlerHolds
  <2>2. PoolMove /\ held' = [held EXCEPT ![Handler(u)] = None]
    BY <1>2, <1>a, <2>1, GiveMoves DEF MarkPending
  <2>3. ControlInv' /\ pc' \in [Uploads -> HandlerPcs] /\ thread' \in [Uploads -> ThreadPcs]
    BY <1>2, <2>2, HandlerControl DEF MarkPending, Go, HandlerPcs, HandlerHolds, Threadless
  <2>4. QED BY <1>2, <2>2, <2>3, DataMoves DEF MarkPending, TypeInv, DataTyped
<1>3. ASSUME StartThread(u) PROVE PoolMove /\ TypeInv' /\ ControlInv'
  <2>1. held[Handler(u)] = None
    BY <1>3, <1>a DEF StartThread, HandlerHolds
  <2>2. CASE /\ \E c \in Conns : Take(Handler(u), c)
             /\ thread' = [thread EXCEPT ![u] = "mark"]
             /\ Go(u, "layers") /\ UNCHANGED <<data, denied>>
    <3>1. PICK c \in Conns : Take(Handler(u), c)
      BY <2>2
    <3>2. PoolMove /\ held' = [held EXCEPT ![Handler(u)] = c]
      BY <1>a, <2>1, <3>1, TakeMoves
    <3>3. ControlInv' /\ pc' \in [Uploads -> HandlerPcs] /\ thread' \in [Uploads -> ThreadPcs]
      BY <1>3, <2>2, <3>2, HandlerControl DEF StartThread, Go, HandlerPcs, HandlerHolds, Threadless
    <3>4. QED BY <1>3, <2>2, <3>2, <3>3, DataMoves DEF StartThread, TypeInv, DataTyped
  <2>3. CASE Refuse(Handler(u)) /\ Go(u, "error") /\ UNCHANGED thread
    <3>1. PoolMove /\ held' = held /\ DataTyped
      BY <2>3, RefuseMoves
    <3>2. ControlInv' /\ pc' \in [Uploads -> HandlerPcs] /\ thread' \in [Uploads -> ThreadPcs]
      BY <1>3, <1>a, <2>1, <2>3, <3>1, HandlerControl
         DEF StartThread, Go, HandlerPcs, HandlerHolds, Threadless
    <3>3. QED BY <1>3, <2>3, <3>1, <3>2 DEF StartThread, TypeInv, DataTyped
  <2>4. QED BY <1>3, <2>2, <2>3 DEF StartThread
<1>4. ASSUME InsertLayers(u) PROVE PoolMove /\ TypeInv' /\ ControlInv'
  <2>1. UNCHANGED pool /\ UNCHANGED <<raw, thread, next>> /\ pc[u] = "layers"
    BY <1>4 DEF InsertLayers
  <2>2. PoolMove /\ held' = held
    BY <2>1 DEF PoolMove, pool
  <2>3. DataTyped
    BY <1>4, <1>a, DataMoves, WritesOf DEF InsertLayers, Usable, PoolInv
  <2>4. \E label \in {"answer", "commit"} : Go(u, label)
    BY <1>4 DEF InsertLayers
  <2>5. held[Handler(u)] # None
    BY <1>4, <1>a DEF InsertLayers, HandlerHolds
  <2>6. ControlInv' /\ pc' \in [Uploads -> HandlerPcs] /\ thread' \in [Uploads -> ThreadPcs]
    BY <1>a, <2>1, <2>2, <2>4, <2>5, HandlerControl DEF Go, HandlerPcs, HandlerHolds, Threadless
  <2>7. QED BY <2>1, <2>2, <2>3, <2>6 DEF TypeInv, DataTyped
<1>5. ASSUME CommitLayers(u) PROVE PoolMove /\ TypeInv' /\ ControlInv'
  <2>1. UNCHANGED pool /\ UNCHANGED <<raw, thread, next>>
    BY <1>5 DEF CommitLayers
  <2>2. PoolMove /\ held' = held
    BY <2>1 DEF PoolMove, pool
  <2>3. DataTyped
    BY <1>5, <1>a, DataMoves DEF CommitLayers, PoolInv
  <2>4. held[Handler(u)] # None
    BY <1>5, <1>a DEF CommitLayers, HandlerHolds
  <2>5. ControlInv' /\ pc' \in [Uploads -> HandlerPcs] /\ thread' \in [Uploads -> ThreadPcs]
    BY <1>5, <1>a, <2>1, <2>2, <2>4, HandlerControl DEF CommitLayers, Go, HandlerPcs, HandlerHolds, Threadless
  <2>6. QED BY <2>1, <2>2, <2>3, <2>5 DEF TypeInv, DataTyped
<1>6. ASSUME Answer(u) PROVE PoolMove /\ TypeInv' /\ ControlInv'
  <2>1. held[Handler(u)] # None
    BY <1>6, <1>a DEF Answer, HandlerHolds
  <2>2. PoolMove /\ held' = [held EXCEPT ![Handler(u)] = None]
    BY <1>6, <1>a, <2>1, GiveMoves DEF Answer, Release
  <2>3. DataTyped
    BY <1>6, <1>a, <2>1, DataMoves DEF Answer, Release
  <2>4. ControlInv' /\ pc' \in [Uploads -> HandlerPcs] /\ thread' \in [Uploads -> ThreadPcs]
    BY <1>6, <2>2, HandlerControl DEF Answer, Go, HandlerPcs, HandlerHolds, Threadless
  <2>5. QED BY <1>6, <2>2, <2>3, <2>4 DEF Answer, TypeInv, DataTyped
<1>7. QED BY <1>1, <1>2, <1>3, <1>4, <1>5, <1>6 DEF Handle

\* A thread's step that only moves it to where it holds the same.
LEMMA ThreadMoves ==
  ASSUME ConnInv, NEW u \in Uploads, thread[u] # "none", NEW label \in ThreadPcs \ {"none"},
         UNCHANGED <<held, pc, raw>>, next' \in [Uploads -> Nat \ {0}],
         PoolMove, DataTyped, Run(u, label),
         thread[u] \in SessionHolds <=> label \in SessionHolds,
         label \in BulkHolds => held[Bulk(u)] # None,
         held[Bulk(u)] # None => label \in MayHoldBulk
  PROVE  PoolMove /\ TypeInv' /\ ControlInv'
<1> USE HolderOf DEF ConnInv
<1>1. held[Session(u)] \in Conns \cup {None} /\ held[Bulk(u)] \in Conns \cup {None}
  BY DEF PoolInv
<1>2. ControlInv' /\ thread' \in [Uploads -> ThreadPcs]
  <2>1. held[Session(u)] # None <=> label \in SessionHolds
    BY DEF ControlInv
  <2>2. QED BY <1>1, <2>1, ThreadControl DEF Run
<1>3. QED BY <1>2 DEF TypeInv, DataTyped

\* A thread's step in which its session takes or gives back its connection,
LEMMA SessionMoves ==
  ASSUME ConnInv, NEW u \in Uploads, thread[u] # "none", NEW label \in ThreadPcs \ {"none"},
         NEW c \in Conns \cup {None},
         held' = [held EXCEPT ![Session(u)] = c],
         UNCHANGED <<pc, raw, next>>, PoolMove, DataTyped, Run(u, label),
         c # None <=> label \in SessionHolds,
         label \in BulkHolds => held[Bulk(u)] # None,
         held[Bulk(u)] # None => label \in MayHoldBulk
  PROVE  PoolMove /\ TypeInv' /\ ControlInv'
<1> USE HolderOf DEF ConnInv
<1>1. /\ held'[Session(u)] = c /\ held'[Bulk(u)] = held[Bulk(u)]
      /\ \A h \in Holders : h \notin {Session(u), Bulk(u)} => held'[h] = held[h]
      /\ held[Bulk(u)] \in Conns \cup {None}
  BY DEF PoolInv
<1>2. ControlInv' /\ thread' \in [Uploads -> ThreadPcs]
  BY <1>1, ThreadControl DEF Run
<1>3. QED BY <1>2 DEF TypeInv, DataTyped

\* or its raw connection is taken or given back.
LEMMA BulkMoves ==
  ASSUME ConnInv, NEW u \in Uploads, thread[u] # "none", NEW label \in ThreadPcs \ {"none"},
         NEW c \in Conns \cup {None},
         held' = [held EXCEPT ![Bulk(u)] = c],
         UNCHANGED <<pc, raw, next>>, PoolMove, DataTyped, Run(u, label),
         thread[u] \notin SessionHolds, label \notin SessionHolds,
         label \in BulkHolds => c # None, c # None => label \in MayHoldBulk
  PROVE  PoolMove /\ TypeInv' /\ ControlInv'
<1> USE HolderOf DEF ConnInv
<1>1. /\ held'[Bulk(u)] = c /\ held'[Session(u)] = held[Session(u)]
      /\ \A h \in Holders : h \notin {Session(u), Bulk(u)} => held'[h] = held[h]
      /\ held[Session(u)] \in Conns \cup {None}
  BY DEF PoolInv
<1>2. held[Session(u)] = None
  BY DEF ControlInv
<1>3. ControlInv' /\ thread' \in [Uploads -> ThreadPcs]
  BY <1>1, <1>2, ThreadControl DEF Run
<1>4. QED BY <1>3 DEF TypeInv, DataTyped

\* A session that reports a status keeps the thread's raw connection where it is.
LEMMA ReportKeeps ==
  ASSUME PoolAssumption, ConnInv, NEW u \in Uploads,
         NEW from \in MayHoldBulk \cup {"mark"}, from \notin SessionHolds,
         NEW to \in SessionHolds, NEW otherwise \in {"fail", "close"}, NEW status \in Statuses,
         from \in BulkHolds => to # "marked",
         to = "finished" => from = "finish", to = "marked" => from = "mark",
         Report(u, from, status, to, otherwise)
  PROVE  PoolMove /\ TypeInv' /\ ControlInv'
<1> USE HolderOf DEF ConnInv
<1>1. /\ thread[u] = from /\ UNCHANGED <<raw, pc, next>>
      /\ Session(u) \in Holders /\ held[Session(u)] = None
  BY DEF Report, ControlInv
<1>2. /\ from # "none" /\ to \in ThreadPcs \ {"none"} /\ otherwise \in ThreadPcs \ {"none"}
      /\ otherwise \in MayHoldBulk /\ otherwise \notin SessionHolds \cup BulkHolds
  BY DEF MayHoldBulk, SessionHolds, ThreadPcs, BulkHolds
<1>3. CASE \E c \in Conns : /\ Take(Session(u), c) /\ Execute(c, Mark(u, status))
                            /\ Run(u, to) /\ UNCHANGED denied
  <2>1. PICK c \in Conns : Take(Session(u), c) /\ Execute(c, Mark(u, status)) /\ Run(u, to)
    BY <1>3
  <2>2. PoolMove /\ held' = [held EXCEPT ![Session(u)] = c]
    BY <1>1, <2>1, TakeMoves
  <2>3. DataTyped
    BY <2>1, WritesOf, DataMoves
  <2>4. /\ to \in BulkHolds => held[Bulk(u)] # None
        /\ held[Bulk(u)] # None => to \in MayHoldBulk
    BY <1>1 DEF ControlInv, SessionHolds, BulkHolds, MayHoldBulk
  <2>5. QED BY <1>1, <1>2, <2>1, <2>2, <2>3, <2>4, Params, SessionMoves
<1>4. CASE Refuse(Session(u)) /\ Run(u, otherwise)
  <2>1. PoolMove /\ held' = held /\ DataTyped
    BY <1>4, RefuseMoves
  <2>2. next' \in [Uploads -> Nat \ {0}]
    BY <1>1 DEF TypeInv
  <2>3. QED BY <1>1, <1>2, <1>4, <2>1, <2>2, ThreadMoves
<1>5. QED BY <1>3, <1>4 DEF Report

LEMMA ReportedKeeps ==
  ASSUME PoolAssumption, ConnInv, NEW u \in Uploads,
         NEW from \in SessionHolds, NEW to \in {"bulk", "close"},
         from = "marked" <=> to = "bulk",
         Reported(u, from, to)
  PROVE  PoolMove /\ TypeInv' /\ ControlInv'
<1> USE HolderOf DEF ConnInv
<1>1. /\ thread[u] = from /\ UNCHANGED <<raw, pc, next>> /\ Run(u, to)
      /\ Session(u) \in Holders /\ held[Session(u)] # None /\ held[Session(u)] \in Conns
  BY PoolSets DEF Reported, ControlInv
<1>2. PoolMove /\ held' = [held EXCEPT ![Session(u)] = None]
  BY <1>1, GiveMoves DEF Reported, CommitAndRelease
<1>3. DataTyped
  BY <1>1, DataMoves DEF Reported, CommitAndRelease
<1>4. /\ from # "none" /\ to \in ThreadPcs \ {"none"} /\ to \notin SessionHolds \cup BulkHolds
      /\ held[Bulk(u)] # None => to \in MayHoldBulk
  BY <1>1 DEF ControlInv, SessionHolds, BulkHolds, MayHoldBulk, ThreadPcs
<1>5. QED BY <1>1, <1>2, <1>3, <1>4, SessionMoves

\* A thread's steps.
LEMMA ThreadKeeps ==
  ASSUME PoolAssumption, ConnInv, NEW u \in Uploads, RunThread(u)
  PROVE  PoolMove /\ TypeInv' /\ ControlInv'
<1> USE HolderOf DEF ConnInv
<1>a. /\ next[u] \in Nat \ {0} /\ next \in [Uploads -> Nat \ {0}]
      /\ Bulk(u) \in Holders /\ held[Bulk(u)] \in Conns \cup {None}
      /\ held[Bulk(u)] # None => held[Bulk(u)] \in Conns
  BY DEF TypeInv, PoolInv
<1>b. /\ held[Session(u)] # None <=> thread[u] \in SessionHolds
      /\ thread[u] \in BulkHolds => held[Bulk(u)] # None
      /\ held[Bulk(u)] # None => thread[u] \in MayHoldBulk
  BY DEF ControlInv
<1>c. UNCHANGED pool => PoolMove /\ held' = held
  BY DEF PoolMove, pool
<1> USE DEF ThreadPcs, MayHoldBulk, BulkHolds, SessionHolds
<1>1. ASSUME MarkProcessing(u) PROVE PoolMove /\ TypeInv' /\ ControlInv'
  BY <1>1, ReportKeeps, ReportedKeeps DEF MarkProcessing, Statuses
<1>2. ASSUME TakeBulk(u) PROVE PoolMove /\ TypeInv' /\ ControlInv'
  <2>1. /\ thread[u] = "bulk" /\ UNCHANGED <<raw, pc, next>> /\ held[Bulk(u)] = None
    BY <1>2, <1>b DEF TakeBulk
  <2>2. CASE \E c \in Conns : Take(Bulk(u), c) /\ Run(u, "wait") /\ UNCHANGED <<data, denied>>
    <3>1. PICK c \in Conns : Take(Bulk(u), c) /\ Run(u, "wait") /\ UNCHANGED data
      BY <2>2
    <3>2. PoolMove /\ held' = [held EXCEPT ![Bulk(u)] = c]
      BY <1>a, <2>1, <3>1, TakeMoves
    <3>3. DataTyped
      BY <3>1, DataMoves
    <3>4. QED BY <2>1, <3>1, <3>2, <3>3, Params, BulkMoves
  <2>3. CASE Refuse(Bulk(u)) /\ Run(u, "fail")
    <3>1. PoolMove /\ held' = held /\ DataTyped
      BY <2>3, RefuseMoves
    <3>2. QED BY <1>a, <2>1, <2>3, <3>1, ThreadMoves
  <2>4. QED BY <1>2, <2>2, <2>3 DEF TakeBulk
<1>3. ASSUME Acquire(u) PROVE PoolMove /\ TypeInv' /\ ControlInv'
  <2>1. /\ thread[u] = "wait" /\ Run(u, "insert") /\ UNCHANGED <<raw, pc, next>>
        /\ UNCHANGED pool /\ DataTyped
    BY <1>3, DataMoves DEF Acquire
  <2>2. QED BY <1>a, <1>b, <1>c, <2>1, ThreadMoves
<1>4. ASSUME InsertBatch(u) PROVE PoolMove /\ TypeInv' /\ ControlInv'
  <2>1. /\ thread[u] = "insert" /\ Run(u, "batch") /\ UNCHANGED <<raw, pc, next>>
        /\ UNCHANGED pool
    BY <1>4 DEF InsertBatch
  <2>2. DataTyped
    BY <1>4, <1>a, <1>b, WritesOf, DataMoves DEF InsertBatch
  <2>3. QED BY <1>a, <1>b, <1>c, <2>1, <2>2, ThreadMoves
<1>5. ASSUME CommitBatch(u) PROVE PoolMove /\ TypeInv' /\ ControlInv'
  <2>1. /\ thread[u] = "batch" /\ Run(u, "insert") /\ UNCHANGED <<raw, pc>>
        /\ UNCHANGED pool /\ next' = [next EXCEPT ![u] = @ + 1]
    BY <1>5 DEF CommitBatch
  <2>2. DataTyped
    BY <1>5, <1>a, <1>b, DataMoves DEF CommitBatch
  <2>3. next' \in [Uploads -> Nat \ {0}]
    BY <1>a, <2>1
  <2>4. QED BY <1>a, <1>b, <1>c, <2>1, <2>2, <2>3, ThreadMoves
<1>6. ASSUME BatchFails(u) PROVE PoolMove /\ TypeInv' /\ ControlInv'
  <2>1. /\ thread[u] = "insert" /\ Run(u, "fail") /\ UNCHANGED <<raw, pc, next>>
        /\ UNCHANGED pool /\ DataTyped
    BY <1>6, DataMoves DEF BatchFails
  <2>2. QED BY <1>a, <1>b, <1>c, <2>1, ThreadMoves
<1>7. ASSUME Finish(u) PROVE PoolMove /\ TypeInv' /\ ControlInv'
  <2>1. /\ thread[u] = "insert" /\ Run(u, "finish") /\ UNCHANGED <<raw, pc, next>>
        /\ UNCHANGED pool /\ DataTyped
    BY <1>7, DataMoves DEF Finish
  <2>2. QED BY <1>a, <1>b, <1>c, <2>1, ThreadMoves
<1>8. ASSUME MarkComplete(u) PROVE PoolMove /\ TypeInv' /\ ControlInv'
  BY <1>8, ReportKeeps, ReportedKeeps DEF MarkComplete, Statuses
<1>9. ASSUME MarkFailed(u) PROVE PoolMove /\ TypeInv' /\ ControlInv'
  BY <1>9, ReportKeeps, ReportedKeeps DEF MarkFailed, Statuses
<1>10. ASSUME Close(u) PROVE PoolMove /\ TypeInv' /\ ControlInv'
  <2>1. /\ thread[u] = "close" /\ Run(u, "done") /\ UNCHANGED <<raw, pc, next>>
    BY <1>10 DEF Close
  <2>2. CASE held[Bulk(u)] # None
    <3>1. Release(Bulk(u))
      BY <1>10, <2>2 DEF Close
    <3>2. PoolMove /\ held' = [held EXCEPT ![Bulk(u)] = None] /\ DataTyped
      BY <1>a, <2>2, <3>1, GiveMoves, DataMoves DEF Release
    <3>3. QED BY <2>1, <3>2, BulkMoves
  <2>3. CASE held[Bulk(u)] = None
    <3>1. UNCHANGED pool /\ DataTyped
      BY <1>10, <2>3, DataMoves DEF Close
    <3>2. QED BY <1>a, <1>c, <2>1, <2>3, <3>1, ThreadMoves
  <2>4. QED BY <2>2, <2>3
<1>11. QED
  BY <1>1, <1>2, <1>3, <1>4, <1>5, <1>6, <1>7, <1>8, <1>9, <1>10 DEF RunThread

\* A reader holds a connection of its own.
LEMMA ReadKeeps ==
  ASSUME PoolAssumption, ConnInv, NEW r \in Readers, Read(r)
  PROVE  PoolMove /\ TypeInv' /\ ControlInv'
<1> USE HolderOf, Params DEF ConnInv
<1> DEFINE h == <<r, "reader">>
<1>1. h \in Holders /\ UNCHANGED <<raw, pc, thread, next>>
  BY DEF Read
<1>2. \E c \in Conns \cup {None} : PoolMove /\ DataTyped /\ held' = [held EXCEPT ![h] = c]
  <2>1. CASE held[h] = None /\ (\E c \in Conns : Take(h, c)) /\ UNCHANGED data
    BY <1>1, <2>1, TakeMoves, DataMoves
  <2>2. CASE held[h] # None /\ Release(h)
    <3>1. held[h] \in Conns
      BY <1>1, <2>2, PoolSets
    <3>2. QED BY <1>1, <2>2, <3>1, GiveMoves, DataMoves DEF Release
  <2>3. QED BY <2>1, <2>2 DEF Read
<1>3. ASSUME NEW u \in Uploads
      PROVE  /\ held'[Handler(u)] = held[Handler(u)] /\ held'[Session(u)] = held[Session(u)]
             /\ held'[Bulk(u)] = held[Bulk(u)]
  BY <1>1, <1>2 DEF PoolInv
<1>4. ControlInv'
  BY <1>1, <1>3 DEF ControlInv
<1>5. QED BY <1>1, <1>2, <1>4 DEF TypeInv, DataTyped

LEMMA ConnInitially == PoolAssumption /\ Init => ConnInv
<1> SUFFICES ASSUME PoolAssumption, Init PROVE ConnInv
  OBVIOUS
<1>1. TypeInv
  BY DEF Init, TypeInv, HandlerPcs, ThreadPcs
<1>2. PoolInv
  <2>1. InPool = {} /\ InUse = {}
    BY DEF Init, InPool, InUse
  <2>2. Cardinality(open) = 0
    BY FS_EmptySet DEF Init
  <2>3. QED BY <2>1, <2>2, Params DEF Init, PoolInv
<1>3. ControlInv
  BY HolderOf DEF Init, ControlInv, HandlerHolds, SessionHolds, BulkHolds, Threadless
<1>4. QED BY <1>1, <1>2, <1>3 DEF ConnInv

LEMMA ConnStep == PoolAssumption /\ ConnInv /\ [Next]_vars => ConnInv'
<1> SUFFICES ASSUME PoolAssumption, ConnInv, [Next]_vars PROVE ConnInv'
  OBVIOUS
<1>1. CASE UNCHANGED vars
  <2>1. TypeInv'
    BY <1>1 DEF vars, data, ConnInv, TypeInv
  <2>2. PoolMove
    BY <1>1 DEF vars, PoolMove
  <2>3. ControlInv'
    BY <1>1 DEF vars, pool, ConnInv, ControlInv
  <2>4. QED BY <2>1, <2>2, <2>3, PoolKept DEF ConnInv
<1>2. ASSUME NEW u \in Uploads, Handle(u) \/ RunThread(u) PROVE ConnInv'
  BY <1>2, HandleKeeps, ThreadKeeps, PoolKept DEF ConnInv
<1>3. ASSUME NEW r \in Readers, Read(r) PROVE ConnInv'
  BY <1>3, ReadKeeps, PoolKept DEF ConnInv
<1>4. QED BY <1>1, <1>2, <1>3 DEF Next

\* A queue without repetition has as many elements as it is long.
LEMMA LengthOfIdle ==
  ASSUME PoolInv
  PROVE  Len(idle) = Cardinality(InPool)
<1>1. Len(idle) \in Nat /\ DOMAIN idle = 1 .. Len(idle)
  BY DEF PoolInv
<1>2. idle \in Bijection(1 .. Len(idle), InPool)
  <2>1. idle \in [1 .. Len(idle) -> InPool]
    BY <1>1 DEF PoolInv, InPool
  <2>2. \A c \in InPool : \E i \in 1 .. Len(idle) : idle[i] = c
    BY <1>1 DEF InPool
  <2>3. QED BY <2>1, <2>2 DEF PoolInv, Bijection, Injection, Surjection, IsInjective
<1>3. QED BY <1>1, <1>2, FS_CountingElements DEF ExistsBijection

\* No connection is in two hands, idle and in use, or open and in neither, and
\* there are never more than the pool allows (PoolOK): for every pool size, and
\* whatever uploads, threads and other requests do, repeated layers included.
THEOREM PoolStaysSound == ASSUME PoolAssumption PROVE Spec => []PoolOK
<1>1. ConnInv => PoolOK
  BY LengthOfIdle DEF ConnInv, PoolInv, PoolOK
<1>2. QED BY <1>1, ConnInitially, ConnStep, PTL DEF Spec

\* When every upload and every thread has ended, by whatever path, only requests
\* still running hold a connection (NothingLeaks).
THEOREM ConnectionsComeBack == ASSUME PoolAssumption PROVE Spec => []NothingLeaks
<1>1. ConnInv => NothingLeaks
  <2> SUFFICES ASSUME ConnInv, Ended, NEW h \in Holders
               PROVE  held[h] = None \/ h[1] \in Readers
    BY DEF NothingLeaks
  <2>1. CASE h \in Readers \X {"reader"}
    BY <2>1
  <2>2. CASE h \in Uploads \X {"handler", "session", "bulk"}
    <3>1. PICK u \in Uploads : h \in {Handler(u), Session(u), Bulk(u)}
      BY <2>2 DEF Handler, Session, Bulk
    <3>2. pc[u] \in {"done", "error"} /\ thread[u] \in {"none", "done"}
      BY DEF Ended
    <3>3. QED
      BY <3>1, <3>2 DEF ConnInv, ControlInv, HandlerHolds, SessionHolds, BulkHolds, MayHoldBulk
  <2>3. QED BY <2>1, <2>2 DEF Holders
<1>2. QED BY <1>1, ConnInitially, ConnStep, PTL DEF Spec

----------------------------------------------------------------------------
(* What is written is not lost, as long as no statement of a handler fails *)
(* on a connection that is no longer its own.                              *)

\* While a holder keeps its connection, what was written over it stays written:
\* nobody rolls it back, though others may commit it.
LEMMA StaysWritten ==
  ASSUME PoolAssumption, ConnInv, RepeatLayers = {}, broken = {}, [Next]_vars,
         NEW h \in Holders, held[h] # None, held'[h] = held[h],
         NEW w, w \in Written(held[h])
  PROVE  w \in stored' \cup txn'[held[h]]
<1> DEFINE c == held[h]
<1>a. c \in Conns /\ c \in InUse /\ c \notin InPool /\ DOMAIN txn = Conns
  BY PoolSets DEF ConnInv, PoolInv, TypeInv
<1>b. w \in stored \/ w \in txn[c]
  BY DEF Written
<1> DEFINE Kept == w \in stored' \cup txn'[c]
<1> HIDE DEF c
<1>1. UNCHANGED data => Kept
  BY <1>b DEF data
<1>2. ASSUME NEW d \in Conns, Commit(d) PROVE Kept
  BY <1>a, <1>b, <1>2 DEF Commit, Rollback, Committed, ConnInv, TypeInv
<1>3. ASSUME NEW d \in Conns, NEW x, Execute(d, x) PROVE Kept
  BY <1>a, <1>b, <1>3 DEF Execute, ConnInv, TypeInv
<1>4. ASSUME NEW g, Refuse(g) PROVE Kept
  <2>1. CASE txn' = txn /\ stored' = stored
    BY <1>b, <2>1
  <2>2. CASE idle # <<>> /\ txn' = [txn EXCEPT ![Head(idle)] = {}] /\ stored' = stored
    <3>1. Head(idle) # c
      BY <1>a, <2>2, TailOfIdle DEF ConnInv, PoolInv, InPool
    <3>2. QED BY <1>a, <1>b, <2>2, <3>1
  <2>3. QED BY <1>4, <2>1, <2>2 DEF Refuse
<1>5. ASSUME NEW g \in Holders, held[g] # None, Release(g) PROVE Kept
  <2>1. held[g] # c
    <3>1. held'[g] = None
      BY <1>5 DEF Release, GiveBack, ConnInv, PoolInv
    <3>2. g # h
      BY <1>5, <3>1
    <3>3. QED BY <1>5, <3>2 DEF ConnInv, PoolInv, c
  <2>2. txn' = [txn EXCEPT ![held[g]] = {}] /\ stored' = stored
    BY <1>5 DEF Release, Rollback
  <2>3. QED BY <1>a, <1>b, <2>1, <2>2
<1>6. ASSUME stored \subseteq stored', txn' = txn PROVE Kept
  BY <1>b, <1>6
<1>7. ASSUME NEW u \in Uploads, Handle(u) PROVE Kept
  <2>a. raw[u] \in open => raw[u] \in Conns
    BY PoolSets DEF ConnInv
  <2>b. Handler(u) \in Holders
    BY HolderOf
  <2>1. CASE Open(u)
    BY <1>1, <1>4, <2>1 DEF Open
  <2>2. CASE MarkPending(u)
    BY <1>6, <2>2 DEF MarkPending
  <2>3. CASE StartThread(u)
    BY <1>1, <1>4, <2>3 DEF StartThread
  <2>4. CASE InsertLayers(u)
    BY <1>1, <1>3, <2>4, <2>a DEF InsertLayers, Usable
  <2>5. CASE CommitLayers(u)
    BY <1>1, <1>2, <2>5, <2>a DEF CommitLayers
  <2>6. CASE Answer(u)
    <3>1. held[Handler(u)] # None
      BY <2>6 DEF Answer, ConnInv, ControlInv, HandlerHolds
    <3>2. QED BY <1>5, <2>6, <2>b, <3>1 DEF Answer
  <2>7. QED BY <1>7, <2>1, <2>2, <2>3, <2>4, <2>5, <2>6 DEF Handle
<1>8. ASSUME NEW u \in Uploads, RunThread(u) PROVE Kept
  <2>a. Session(u) \in Holders /\ Bulk(u) \in Holders
    BY HolderOf
  <2>b. /\ held[Bulk(u)] # None => held[Bulk(u)] \in Conns
        /\ held[Session(u)] # None => held[Session(u)] \in Conns
    BY <2>a, PoolSets DEF ConnInv
  <2>c. /\ thread[u] \in {"insert", "batch"} => held[Bulk(u)] # None
        /\ thread[u] \in SessionHolds => held[Session(u)] # None
    BY DEF ConnInv, ControlInv, BulkHolds
  <2>1. ASSUME NEW from, NEW status, NEW to, NEW otherwise,
               Report(u, from, status, to, otherwise)
        PROVE  Kept
    BY <1>3, <1>4, <2>1 DEF Report
  <2>2. ASSUME NEW from \in SessionHolds, NEW to, Reported(u, from, to) PROVE Kept
    BY <1>2, <2>2, <2>b, <2>c DEF Reported, CommitAndRelease
  <2>3. CASE MarkProcessing(u) \/ MarkComplete(u) \/ MarkFailed(u)
    BY <2>1, <2>2, <2>3 DEF MarkProcessing, MarkComplete, MarkFailed, SessionHolds
  <2>4. CASE TakeBulk(u)
    BY <1>1, <1>4, <2>4 DEF TakeBulk
  <2>5. CASE Acquire(u) \/ BatchFails(u) \/ Finish(u)
    BY <1>1, <2>5 DEF Acquire, BatchFails, Finish
  <2>6. CASE InsertBatch(u)
    BY <1>3, <2>6, <2>b, <2>c DEF InsertBatch
  <2>7. CASE CommitBatch(u)
    BY <1>2, <2>7, <2>b, <2>c DEF CommitBatch
  <2>8. CASE Close(u)
    BY <1>1, <1>5, <2>8, <2>a DEF Close
  <2>9. QED BY <1>8, <2>3, <2>4, <2>5, <2>6, <2>7, <2>8 DEF RunThread
<1>9. ASSUME NEW r \in Readers, Read(r) PROVE Kept
  <2>1. <<r, "reader">> \in Holders
    BY HolderOf
  <2>2. QED BY <1>1, <1>5, <1>9, <2>1 DEF Read
<1>10. ASSUME UNCHANGED vars PROVE Kept
  BY <1>1, <1>10 DEF vars
<1>11. Kept
  BY <1>7, <1>8, <1>9, <1>10 DEF Next
<1>12. QED BY <1>11 DEF c

\* A step that adds at most W to what is written, and uncommits and breaks nothing.
Adds(W) == broken' = {} /\ stored \subseteq stored' /\ AllWritten' \subseteq AllWritten \cup W

\* What the operations on connections add.
LEMMA OperationAdds ==
  ASSUME TypeInv, PoolInv, broken = {}
  PROVE  /\ UNCHANGED data => Adds({})
         /\ \A c \in Conns : \A W : Commit(c) \/ (Rollback(c) /\ UNCHANGED stored) => Adds(W)
         /\ \A c \in Conns : \A w : Execute(c, w) => Adds({w})
         /\ \A w : stored' = stored \cup {w} /\ UNCHANGED <<txn, broken>> => Adds({w})
         /\ \A h, W : Refuse(h) => Adds(W)
<1> USE DEF TypeInv
<1>1. UNCHANGED data => Adds({})
  BY DEF data, Adds, AllWritten
<1>2. ASSUME NEW c \in Conns, NEW S, stored' = stored \cup S, S \subseteq txn[c], Rollback(c),
             NEW W
      PROVE  Adds(W)
  <2>1. \A d \in Conns : txn'[d] \subseteq txn[d]
    BY <1>2 DEF Rollback
  <2>2. S \subseteq AllWritten
    BY <1>2 DEF AllWritten
  <2>3. AllWritten' \subseteq AllWritten
    BY <1>2, <2>1, <2>2 DEF AllWritten
  <2>4. QED BY <1>2, <2>3 DEF Adds, Rollback
<1>3. ASSUME NEW c \in Conns, NEW W, Commit(c) \/ (Rollback(c) /\ UNCHANGED stored)
      PROVE  Adds(W)
  <2>1. CASE Commit(c)
    BY <1>2, <2>1 DEF Commit, Committed
  <2>2. CASE Rollback(c) /\ UNCHANGED stored
    <3>1. stored' = stored \cup {} /\ {} \subseteq txn[c] /\ Rollback(c)
      BY <2>2
    <3>2. QED BY <1>2, <3>1
  <2>3. QED BY <1>3, <2>1, <2>2
<1>4. ASSUME NEW c \in Conns, NEW w, Execute(c, w) PROVE Adds({w})
  <2>1. \A d \in Conns : txn'[d] \subseteq txn[d] \cup {w}
    BY <1>4 DEF Execute
  <2>2. AllWritten' \subseteq AllWritten \cup {w}
    BY <1>4, <2>1 DEF AllWritten, Execute
  <2>3. QED BY <1>4, <2>2 DEF Adds, Execute
<1>5. ASSUME NEW w, stored' = stored \cup {w}, UNCHANGED <<txn, broken>> PROVE Adds({w})
  BY <1>5 DEF Adds, AllWritten
<1>6. ASSUME NEW h, NEW W, Refuse(h) PROVE Adds(W)
  <2>1. CASE UNCHANGED <<pool, txn, broken>> /\ UNCHANGED stored
    BY <2>1 DEF Adds, AllWritten
  <2>2. CASE idle # <<>> /\ Rollback(Head(idle)) /\ UNCHANGED stored
    <3>1. Head(idle) \in Conns
      BY <2>2 DEF PoolInv
    <3>2. QED BY <1>3, <2>2, <3>1
  <2>3. QED BY <1>6, <2>1, <2>2 DEF Refuse, Rollback
<1>7. QED BY <1>1, <1>3, <1>4, <1>5, <1>6

\* No step writes that u's dependencies are complete but the thread of u, behind
\* its last batch.
LEMMA WhoCompletes ==
  ASSUME PoolAssumption, ConnInv, RepeatLayers = {}, broken = {}, [Next]_vars
  PROVE  /\ broken' = {} /\ stored \subseteq stored'
         /\ \A u \in Uploads : thread[u] # "finish" /\ Mark(u, "complete") \in AllWritten'
              => Mark(u, "complete") \in AllWritten
<1> DEFINE Others(W) == \A u \in Uploads : thread[u] # "finish" => Mark(u, "complete") \notin W
<1> SUFFICES \E W : Adds(W) /\ Others(W)
  BY DEF Adds
<1>a. TypeInv /\ PoolInv /\ ControlInv
  BY DEF ConnInv
<1>b. Others({}) /\ \A u \in Uploads : \A x : \A n : x # "complete" => Others({<<u, x, n>>})
  BY DEF Mark
<1>c. ASSUME UNCHANGED data \/ \E h : Refuse(h) PROVE \E W : Adds(W) /\ Others(W)
  BY <1>a, <1>b, <1>c, OperationAdds
<1>d. ASSUME NEW h \in Holders, held[h] # None, Release(h) \/ CommitAndRelease(h)
      PROVE  \E W : Adds(W) /\ Others(W)
  <2>1. held[h] \in Conns
    BY <1>a, <1>d, PoolSets
  <2>2. Adds({})
    BY <1>a, <1>d, <2>1, OperationAdds DEF Release, CommitAndRelease
  <2>3. QED BY <1>b, <2>2
<1>1. ASSUME NEW u \in Uploads, Handle(u) PROVE \E W : Adds(W) /\ Others(W)
  <2>a. Handler(u) \in Holders /\ (raw[u] \in open => raw[u] \in Conns)
    BY <1>a, HolderOf, PoolSets
  <2>1. CASE Open(u) \/ StartThread(u)
    BY <1>c, <2>1 DEF Open, StartThread
  <2>2. CASE MarkPending(u)
    <3>1. Adds({<<u, "pending", 0>>})
      BY <1>a, <2>2, OperationAdds DEF MarkPending, Mark
    <3>2. QED BY <1>b, <3>1
  <2>3. CASE InsertLayers(u)
    <3>1. \/ UNCHANGED data
          \/ Execute(raw[u], Mark(u, "layers")) /\ raw[u] \in Conns
      BY <2>3, <2>a DEF InsertLayers, Usable
    <3>2. Adds({}) \/ Adds({<<u, "layers", 0>>})
      BY <1>a, <3>1, OperationAdds DEF Mark
    <3>3. QED BY <1>b, <3>2
  <2>4. CASE CommitLayers(u)
    <3>1. Adds({})
      BY <1>a, <2>4, <2>a, OperationAdds DEF CommitLayers
    <3>2. QED BY <1>b, <3>1
  <2>5. CASE Answer(u)
    <3>1. held[Handler(u)] # None
      BY <1>a, <2>5 DEF Answer, ControlInv, HandlerHolds
    <3>2. QED BY <1>d, <2>5, <2>a, <3>1 DEF Answer
  <2>6. QED BY <1>1, <2>1, <2>2, <2>3, <2>4, <2>5 DEF Handle
<1>2. ASSUME NEW u \in Uploads, RunThread(u) PROVE \E W : Adds(W) /\ Others(W)
  <2>a. Session(u) \in Holders /\ Bulk(u) \in Holders
    BY HolderOf
  <2>b. /\ thread[u] \in {"insert", "batch"} => held[Bulk(u)] \in Conns
        /\ thread[u] \in SessionHolds => held[Session(u)] # None
    BY <1>a, <2>a, PoolSets DEF ControlInv, BulkHolds
  <2>1. ASSUME NEW from, NEW status, NEW to, NEW otherwise,
               Report(u, from, status, to, otherwise), status = "complete" => from = "finish"
        PROVE  \E W : Adds(W) /\ Others(W)
    <3>1. CASE \E c \in Conns : Execute(c, Mark(u, status))
      <4>1. Adds({Mark(u, status)})
        BY <1>a, <3>1, OperationAdds
      <4>2. Others({Mark(u, status)})
        BY <2>1 DEF Mark, Report
      <4>3. QED BY <4>1, <4>2
    <3>2. QED BY <1>c, <2>1, <3>1 DEF Report
  <2>2. ASSUME NEW from \in SessionHolds, NEW to, Reported(u, from, to)
        PROVE  \E W : Adds(W) /\ Others(W)
    BY <1>d, <2>2, <2>a, <2>b DEF Reported
  <2>3. CASE MarkProcessing(u) \/ MarkComplete(u) \/ MarkFailed(u)
    BY <2>1, <2>2, <2>3 DEF MarkProcessing, MarkComplete, MarkFailed, SessionHolds
  <2>4. CASE TakeBulk(u) \/ Acquire(u) \/ BatchFails(u) \/ Finish(u)
    BY <1>c, <2>4 DEF TakeBulk, Acquire, BatchFails, Finish
  <2>5. CASE InsertBatch(u)
    <3>1. Adds({<<u, "batch", next[u]>>})
      BY <1>a, <2>5, <2>b, OperationAdds DEF InsertBatch
    <3>2. QED BY <1>b, <3>1
  <2>6. CASE CommitBatch(u)
    <3>1. Adds({})
      BY <1>a, <2>6, <2>b, OperationAdds DEF CommitBatch
    <3>2. QED BY <1>b, <3>1
  <2>7. CASE Close(u)
    BY <1>c, <1>d, <2>7, <2>a DEF Close
  <2>8. QED BY <1>2, <2>3, <2>4, <2>5, <2>6, <2>7 DEF RunThread
<1>3. ASSUME NEW r \in Readers, Read(r) PROVE \E W : Adds(W) /\ Others(W)
  BY <1>c, <1>d, <1>3, HolderOf DEF Read
<1>4. ASSUME UNCHANGED vars PROVE \E W : Adds(W) /\ Others(W)
  BY <1>c, <1>4 DEF vars
<1>5. QED BY <1>1, <1>2, <1>3, <1>4 DEF Next

\* A step changes what its own sessions and connections hold, and no others.
LEMMA OwnHolders ==
  ASSUME PoolInv
  PROVE  /\ \A v \in Uploads : Handle(v) =>
              /\ \A h \in Holders : h # Handler(v) => held'[h] = held[h]
              /\ denied \subseteq denied'
         /\ \A v \in Uploads : RunThread(v) =>
              /\ \A h \in Holders : h \notin {Session(v), Bulk(v)} => held'[h] = held[h]
              /\ denied \subseteq denied'
         /\ \A r \in Readers : Read(r) =>
              /\ \A h \in Holders : h # <<r, "reader">> => held'[h] = held[h]
              /\ denied \subseteq denied'
<1> DEFINE Only(H) == \A h \in Holders : h \notin H => held'[h] = held[h]
<1>1. ASSUME NEW g, (\E c : Take(g, c)) \/ GiveBack(g) PROVE Only({g})
  BY <1>1 DEF Take, GiveBack, PoolInv
<1>2. ASSUME NEW g, Refuse(g) PROVE held' = held /\ denied \subseteq denied'
  BY <1>2 DEF Refuse, pool
<1>3. UNCHANGED pool => held' = held
  BY DEF pool
<1>4. ASSUME NEW v \in Uploads, Handle(v)
      PROVE  Only({Handler(v)}) /\ denied \subseteq denied'
  <2> USE <1>1, <1>2, <1>3
  <2>1. CASE Open(v)
    BY <2>1 DEF Open
  <2>2. CASE MarkPending(v) \/ Answer(v)
    BY <2>2 DEF MarkPending, Answer, Release
  <2>3. CASE StartThread(v)
    BY <2>3 DEF StartThread
  <2>4. CASE InsertLayers(v) \/ CommitLayers(v)
    BY <2>4 DEF InsertLayers, CommitLayers
  <2>5. QED BY <1>4, <2>1, <2>2, <2>3, <2>4 DEF Handle
<1>5. ASSUME NEW v \in Uploads, RunThread(v)
      PROVE  Only({Session(v), Bulk(v)}) /\ denied \subseteq denied'
  <2> USE <1>1, <1>2, <1>3
  <2>1. ASSUME NEW from, NEW status, NEW to, NEW otherwise,
               Report(v, from, status, to, otherwise) \/ Reported(v, from, to)
        PROVE  Only({Session(v)}) /\ denied \subseteq denied'
    BY <2>1 DEF Report, Reported, CommitAndRelease
  <2>2. CASE MarkProcessing(v) \/ MarkComplete(v) \/ MarkFailed(v)
    BY <2>1, <2>2 DEF MarkProcessing, MarkComplete, MarkFailed
  <2>3. CASE TakeBulk(v)
    BY <2>3 DEF TakeBulk
  <2>4. CASE Close(v)
    BY <2>4 DEF Close, Release
  <2>5. CASE Acquire(v) \/ BatchFails(v) \/ Finish(v) \/ InsertBatch(v) \/ CommitBatch(v)
    BY <2>5 DEF Acquire, BatchFails, Finish, InsertBatch, CommitBatch
  <2>6. QED BY <1>5, <2>2, <2>3, <2>4, <2>5 DEF RunThread
<1>6. ASSUME NEW r \in Readers, Read(r)
      PROVE  Only({<<r, "reader">>}) /\ denied \subseteq denied'
  BY <1>1, <1>6 DEF Read, Release
<1>7. QED BY <1>4, <1>5, <1>6

\* What a step that is not one of u's thread leaves to it.
LEMMA OthersLeave ==
  ASSUME ConnInv, NEW u \in Uploads,
         \/ \E v \in Uploads : Handle(v)
         \/ \E v \in Uploads \ {u} : RunThread(v)
         \/ \E r \in Readers : Read(r)
         \/ UNCHANGED vars
  PROVE  /\ \/ thread'[u] = thread[u]
            \/ thread[u] = "none" /\ thread'[u] = "mark"
         /\ next'[u] = next[u] /\ denied \subseteq denied'
         /\ held'[Session(u)] = held[Session(u)] /\ held'[Bulk(u)] = held[Bulk(u)]
         /\ pc'[u] = "error" => pc[u] = "error" \/ Handler(u) \in denied'
<1> USE HolderOf DEF ConnInv
<1>a. /\ pc \in [Uploads -> HandlerPcs] /\ thread \in [Uploads -> ThreadPcs]
      /\ next \in [Uploads -> Nat \ {0}]
  BY DEF TypeInv
<1>1. ASSUME NEW v \in Uploads, Handle(v)
      PROVE  /\ \/ thread'[u] = thread[u]
                \/ thread[u] = "none" /\ thread'[u] = "mark"
             /\ next'[u] = next[u]
             /\ pc'[u] = "error" => pc[u] = "error" \/ Handler(u) \in denied'
  <2>1. CASE Open(v)
    BY <1>a, <2>1 DEF Open, Go, Refuse
  <2>2. CASE MarkPending(v)
    BY <1>a, <2>2 DEF MarkPending, Go
  <2>3. CASE StartThread(v)
    <3>1. thread[v] = "none"
      BY <2>3 DEF StartThread, ControlInv, Threadless
    <3>2. QED BY <1>a, <2>3, <3>1 DEF StartThread, Go, Refuse
  <2>4. CASE InsertLayers(v)
    BY <1>a, <2>4 DEF InsertLayers, Go
  <2>5. CASE CommitLayers(v)
    BY <1>a, <2>5 DEF CommitLayers, Go
  <2>6. CASE Answer(v)
    BY <1>a, <2>6 DEF Answer, Go
  <2>7. QED BY <1>1, <2>1, <2>2, <2>3, <2>4, <2>5, <2>6 DEF Handle
<1>2. ASSUME NEW v \in Uploads \ {u}, RunThread(v)
      PROVE  thread'[u] = thread[u] /\ next'[u] = next[u] /\ pc' = pc
  <2>1. CASE MarkProcessing(v) \/ MarkComplete(v) \/ MarkFailed(v)
    BY <1>a, <2>1 DEF MarkProcessing, MarkComplete, MarkFailed, Report, Reported, Run
  <2>2. CASE TakeBulk(v) \/ Acquire(v) \/ BatchFails(v) \/ Finish(v) \/ Close(v)
    BY <1>a, <2>2 DEF TakeBulk, Acquire, BatchFails, Finish, Close, Run
  <2>3. CASE InsertBatch(v) \/ CommitBatch(v)
    BY <1>a, <2>3 DEF InsertBatch, CommitBatch, Run
  <2>4. QED BY <1>2, <2>1, <2>2, <2>3 DEF RunThread
<1>3. ASSUME NEW r \in Readers, Read(r)
      PROVE  thread' = thread /\ next' = next /\ pc' = pc
  BY <1>3 DEF Read
<1>4. CASE UNCHANGED vars
  BY <1>4 DEF vars, pool
<1>5. QED BY <1>1, <1>2, <1>3, <1>4, OwnHolders

\* A thread that others leave alone keeps what it has written,
LEMMA OthersSettle ==
  ASSUME PoolAssumption, ConnInv, SettledInv, RepeatLayers = {}, [Next]_vars,
         NEW u \in Uploads,
         \/ \E v \in Uploads : Handle(v)
         \/ \E v \in Uploads \ {u} : RunThread(v)
         \/ \E r \in Readers : Read(r)
         \/ UNCHANGED vars
  PROVE  Outcome(u)' /\ Inserted(u)'
<1> DEFINE s == held[Session(u)]
           b == held[Bulk(u)]
<1>a. broken = {} /\ Outcome(u) /\ Inserted(u)
  BY DEF SettledInv
<1>b. /\ \/ thread'[u] = thread[u]
         \/ thread[u] = "none" /\ thread'[u] = "mark"
      /\ next'[u] = next[u] /\ denied \subseteq denied'
      /\ held'[Session(u)] = s /\ held'[Bulk(u)] = b
      /\ pc'[u] = "error" => pc[u] = "error" \/ Handler(u) \in denied'
  BY OthersLeave
<1>c. /\ Session(u) \in Holders /\ Bulk(u) \in Holders
      /\ thread[u] \in {"finished", "failing"} => s # None
      /\ thread[u] = "batch" => b # None
  BY HolderOf DEF ConnInv, ControlInv, SessionHolds, BulkHolds
<1>d. /\ broken' = {} /\ stored \subseteq stored'
      /\ thread[u] # "finish" /\ Mark(u, "complete") \in AllWritten'
           => Mark(u, "complete") \in AllWritten
  BY <1>a, WhoCompletes
<1>e. /\ s # None => \A w \in Written(s) : w \in stored' \cup txn'[s]
      /\ b # None => \A w \in Written(b) : w \in stored' \cup txn'[b]
  BY <1>a, <1>b, <1>c, StaysWritten
<1> HIDE DEF s, b
<1>1. Outcome(u)'
  <2>1. thread'[u] = "finished" => Mark(u, "complete") \in stored' \cup txn'[s]
    BY <1>a, <1>b, <1>c, <1>e DEF Outcome, s
  <2>2. thread'[u] = "failing" => Mark(u, "failed") \in stored' \cup txn'[s]
    BY <1>a, <1>b, <1>c, <1>e DEF Outcome, s
  <2>3. QED BY <1>a, <1>b, <1>d, <2>1, <2>2 DEF Outcome, Written, Mark, Handler
<1>2. Inserted(u)'
  <2>1. thread'[u] = "batch" => <<u, "batch", next[u]>> \in stored' \cup txn'[b]
    BY <1>a, <1>b, <1>c, <1>e DEF Inserted, b
  <2>2. Mark(u, "complete") \in AllWritten' => next[u] \notin Batches
    BY <1>a, <1>d DEF Inserted
  <2>3. QED BY <1>a, <1>b, <1>d, <2>1, <2>2 DEF Inserted, Written, Mark, Batches
<1>3. QED BY <1>1, <1>2

\* and what its own steps write they find again.
LEMMA ThreadSettles ==
  ASSUME PoolAssumption, ConnInv, SettledInv, RepeatLayers = {}, NEW u \in Uploads, RunThread(u)
  PROVE  Outcome(u)' /\ Inserted(u)'
<1>a. broken = {} /\ Outcome(u) /\ Inserted(u)
  BY DEF SettledInv
<1>b. /\ broken' = {} /\ stored \subseteq stored'
      /\ thread[u] # "finish" /\ Mark(u, "complete") \in AllWritten'
           => Mark(u, "complete") \in AllWritten
  BY <1>a, WhoCompletes DEF Next
<1>c. /\ Session(u) \in Holders /\ Bulk(u) \in Holders
      /\ Bulk(u) # Session(u) /\ denied \subseteq denied'
      /\ thread[u] \in SessionHolds => held[Session(u)] \in Conns
      /\ thread[u] \in BulkHolds => held[Bulk(u)] \in Conns
      /\ thread \in [Uploads -> ThreadPcs] /\ next \in [Uploads -> Nat \ {0}]
      /\ held \in [Holders -> Conns \cup {None}] /\ txn \in [Conns -> SUBSET Writes]
  BY HolderOf, OwnHolders, PoolSets DEF ConnInv, ControlInv, TypeInv, PoolInv
<1>d. pc'[u] = pc[u] => (pc'[u] = "error" => Handler(u) \in denied')
  BY <1>a, <1>c DEF Outcome
<1>e. next'[u] = next[u] =>
        /\ \A n \in Batches : n < next'[u] => <<u, "batch", n>> \in stored'
        /\ Mark(u, "complete") \in AllWritten' => next'[u] \notin Batches
  BY <1>a, <1>b DEF Inserted
<1>1. ASSUME NEW from, NEW status, NEW to, NEW otherwise \in {"fail", "close"},
             Report(u, from, status, to, otherwise),
             <<status, to>> \in {<<"processing", "marked">>, <<"complete", "finished">>,
                                 <<"failed", "failing">>}
      PROVE  Outcome(u)' /\ Inserted(u)'
  <2>1. pc' = pc /\ next' = next
    BY <1>1 DEF Report
  <2>2. CASE \E c \in Conns : Take(Session(u), c) /\ Execute(c, Mark(u, status)) /\ Run(u, to)
    <3>1. PICK c \in Conns : Take(Session(u), c) /\ Execute(c, Mark(u, status)) /\ Run(u, to)
      BY <2>2
    <3>2. thread'[u] = to /\ held'[Session(u)] = c /\ Mark(u, status) \in txn'[c]
      BY <1>c, <3>1 DEF Run, Take, Execute
    <3>3. Outcome(u)'
      BY <1>1, <1>d, <2>1, <3>2 DEF Outcome, Written
    <3>4. Inserted(u)'
      BY <1>1, <1>e, <2>1, <3>2 DEF Inserted
    <3>5. QED BY <3>3, <3>4
  <2>3. CASE Refuse(Session(u)) /\ Run(u, otherwise)
    <3>1. thread'[u] = otherwise /\ Session(u) \in denied'
      BY <1>c, <2>3 DEF Run, Refuse
    <3>2. QED BY <1>d, <1>e, <2>1, <3>1 DEF Outcome, Inserted
  <2>4. QED BY <1>1, <2>2, <2>3 DEF Report
<1>2. ASSUME NEW from, NEW to,
             Reported(u, from, to),
             <<from, to>> \in {<<"marked", "bulk">>, <<"finished", "close">>,
                               <<"failing", "close">>}
      PROVE  Outcome(u)' /\ Inserted(u)'
  <2>1. /\ pc' = pc /\ next' = next /\ thread'[u] = to /\ thread[u] = from
        /\ stored' = stored \cup txn[held[Session(u)]]
    BY <1>a, <1>c, <1>2 DEF Reported, Run, CommitAndRelease, Commit, Committed
  <2>2. \/ to = "bulk"
        \/ Mark(u, "complete") \in stored' \/ Mark(u, "failed") \in stored'
    BY <1>a, <1>2, <2>1 DEF Outcome, Written
  <2>3. to \in {"bulk", "close"}
    BY <1>2
  <2>4. Outcome(u)'
    BY <1>d, <2>1, <2>2, <2>3 DEF Outcome, Mark
  <2>5. QED BY <1>e, <2>1, <2>3, <2>4 DEF Inserted
<1>3. CASE MarkProcessing(u) \/ MarkComplete(u) \/ MarkFailed(u)
  BY <1>1, <1>2, <1>3 DEF MarkProcessing, MarkComplete, MarkFailed
<1>4. CASE TakeBulk(u) \/ Acquire(u) \/ BatchFails(u)
  <2>1. pc' = pc /\ next' = next /\ thread'[u] \in {"wait", "fail", "insert"}
    BY <1>c, <1>4 DEF TakeBulk, Acquire, BatchFails, Run
  <2>2. QED BY <1>d, <1>e, <2>1 DEF Outcome, Inserted
<1>5. CASE Finish(u)
  <2>1. pc' = pc /\ next' = next /\ thread'[u] = "finish" /\ next[u] \notin Batches
    BY <1>c, <1>5 DEF Finish, Run
  <2>2. QED BY <1>d, <1>e, <2>1 DEF Outcome, Inserted, Batches
<1>6. CASE InsertBatch(u)
  <2>1. /\ pc' = pc /\ next' = next /\ thread'[u] = "batch" /\ next[u] \in Batches
        /\ held' = held /\ thread[u] = "insert"
        /\ Execute(held[Bulk(u)], <<u, "batch", next[u]>>)
    BY <1>c, <1>6 DEF InsertBatch, Run, pool
  <2>2. <<u, "batch", next[u]>> \in txn'[held[Bulk(u)]]
    BY <1>c, <2>1 DEF Execute, BulkHolds
  <2>3. Inserted(u)'
    BY <1>e, <2>1, <2>2 DEF Inserted, Written, Batches
  <2>4. QED BY <1>d, <2>1, <2>3 DEF Outcome
<1>7. CASE CommitBatch(u)
  <2>1. /\ pc' = pc /\ thread'[u] = "insert" /\ thread[u] = "batch"
        /\ next'[u] = next[u] + 1 /\ stored' = stored \cup txn[held[Bulk(u)]]
    BY <1>a, <1>c, <1>7 DEF CommitBatch, Run, Commit, Committed
  <2>2. <<u, "batch", next[u]>> \in stored' /\ next[u] \in Batches
    BY <1>a, <2>1 DEF Inserted, Written
  <2>3. \A n \in Batches : n < next'[u] => <<u, "batch", n>> \in stored'
    <3> SUFFICES ASSUME NEW n \in Batches, n < next'[u] PROVE <<u, "batch", n>> \in stored'
      OBVIOUS
    <3>1. n \in Int /\ next[u] \in Nat
      BY <1>c DEF Batches
    <3>2. n < next[u] \/ n = next[u]
      BY <2>1, <3>1
    <3>3. QED BY <1>a, <2>1, <2>2, <3>2 DEF Inserted
  <2>4. Mark(u, "complete") \notin AllWritten'
    BY <1>a, <1>b, <2>1, <2>2 DEF Inserted
  <2>5. Inserted(u)'
    BY <2>1, <2>3, <2>4 DEF Inserted
  <2>6. QED BY <1>d, <2>1, <2>5 DEF Outcome
<1>8. CASE Close(u)
  <2>1. /\ pc' = pc /\ next' = next /\ thread'[u] = "done" /\ thread[u] = "close"
    BY <1>c, <1>8 DEF Close, Run
  <2>2. QED BY <1>a, <1>b, <1>c, <1>d, <1>e, <2>1 DEF Outcome, Inserted, Mark
<1>9. QED BY <1>3, <1>4, <1>5, <1>6, <1>7, <1>8 DEF RunThread

\* Initially nothing is written.
LEMMA SettledInitially == PoolAssumption /\ Init => SettledInv
<1> SUFFICES ASSUME PoolAssumption, Init PROVE SettledInv
  OBVIOUS
<1>1. AllWritten = {}
  BY DEF Init, AllWritten
<1>2. ASSUME NEW u \in Uploads PROVE Outcome(u) /\ Inserted(u)
  <2>1. pc[u] = "start" /\ thread[u] = "none" /\ next[u] = 1
    BY DEF Init
  <2>2. Outcome(u)
    BY <2>1 DEF Outcome
  <2>3. \A n \in Batches : ~ (n < 1)
    BY Params DEF Batches
  <2>4. Inserted(u)
    BY <1>1, <2>1, <2>3 DEF Inserted
  <2>5. QED BY <2>2, <2>4
<1>3. QED BY <1>2 DEF SettledInv, Init

\* The invariant is inductive when no layer chain repeats a digest.
LEMMA SettledStep ==
  ASSUME PoolAssumption, RepeatLayers = {}, ConnInv, SettledInv, [Next]_vars
  PROVE  SettledInv'
<1>1. broken' = {}
  BY WhoCompletes DEF SettledInv
<1>2. ASSUME NEW u \in Uploads PROVE Outcome(u)' /\ Inserted(u)'
  <2>1. \/ RunThread(u)
        \/ \E v \in Uploads : Handle(v)
        \/ \E v \in Uploads \ {u} : RunThread(v)
        \/ \E r \in Readers : Read(r)
        \/ UNCHANGED vars
    BY DEF Next
  <2>2. QED BY <2>1, ThreadSettles, OthersSettle
<1>3. QED BY <1>1, <1>2 DEF SettledInv

\* As long as no layer chain repeats a digest, what happened to the dependencies of a
\* scan is on record when its upload and thread are over, unless one of them was
\* refused a connection (upload_scan, _insert_dependencies_background).
THEOREM ScansSettle ==
  ASSUME PoolAssumption, RepeatLayers = {}
  PROVE  Spec => []SettledUnlessRefused
<1>1. Init => ConnInv /\ SettledInv
  BY ConnInitially, SettledInitially
<1>2. ConnInv /\ SettledInv /\ [Next]_vars => ConnInv' /\ SettledInv'
  BY ConnStep, SettledStep
<1>3. ConnInv /\ SettledInv => SettledUnlessRefused
  <2> SUFFICES ASSUME ConnInv, SettledInv, NEW u \in Uploads, Ended
               PROVE  \/ Mark(u, "complete") \in stored \/ Mark(u, "failed") \in stored
                      \/ {Handler(u), Session(u)} \cap denied # {}
    BY DEF SettledUnlessRefused
  <2>1. /\ pc[u] \in {"done", "error"} /\ thread[u] \in {"none", "done"}
        /\ thread[u] = "none" <=> pc[u] \in Threadless
    BY DEF Ended, ConnInv, ControlInv
  <2>2. Outcome(u)
    BY DEF SettledInv
  <2>3. CASE pc[u] = "error"
    BY <2>2, <2>3 DEF Outcome
  <2>4. CASE pc[u] = "done"
    BY <2>1, <2>2, <2>4 DEF Outcome, Threadless
  <2>5. QED BY <2>1, <2>3, <2>4
<1>4. QED BY <1>1, <1>2, <1>3, PTL DEF Spec

\* As long as no layer chain repeats a digest, the batches of a scan that is reported
\* complete are stored: "[bg] Dependencies complete for scan {scan_id}".
THEOREM CompleteHasBatches ==
  ASSUME PoolAssumption, RepeatLayers = {}
  PROVE  Spec => []CompleteIsInserted
<1>1. Init => ConnInv /\ SettledInv
  BY ConnInitially, SettledInitially
<1>2. ConnInv /\ SettledInv /\ [Next]_vars => ConnInv' /\ SettledInv'
  BY ConnStep, SettledStep
<1>3. ConnInv /\ SettledInv => CompleteIsInserted
  <2> SUFFICES ASSUME ConnInv, SettledInv, NEW u \in Uploads, Mark(u, "complete") \in stored
               PROVE  BatchesOf(u) \subseteq stored
    BY DEF CompleteIsInserted
  <2>1. Inserted(u) /\ Mark(u, "complete") \in AllWritten
    BY DEF SettledInv, AllWritten
  <2>2. next[u] \in Nat \ {0} /\ next[u] \notin 1 .. NBatches
    BY <2>1 DEF Inserted, ConnInv, TypeInv, Batches
  <2>3. \A n \in 1 .. NBatches : n < next[u]
    BY <2>2, Params
  <2>4. QED BY <2>1, <2>3 DEF Inserted, BatchesOf, Batches
<1>4. QED BY <1>1, <1>2, <1>3, PTL DEF Spec

============================================================================
