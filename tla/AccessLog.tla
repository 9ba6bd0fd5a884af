----------------------------- MODULE AccessLog -----------------------------
(***************************************************************************)
(* The access log of server/middleware.py: every worker process queues an  *)
(* entry for a request it has answered, in memory and up to a limit; a     *)
(* daemon thread of the process takes the whole queue every few seconds,   *)
(* writes it in one transaction that may fail, and prunes old rows.        *)
(***************************************************************************)
EXTENDS Naturals, Sequences, FiniteSets

CONSTANTS
  Workers,       \* worker processes
  QueueMax,      \* maxlen of _log_queue
  Retention,     \* _LOG_RETENTION_HOURS, in ticks
  MaxRequests,   \* bound: requests answered
  MaxFaults,     \* bound: failed writes and crashes
  MaxNow         \* bound: the clock

AccessLogAssumption ==
  {QueueMax, Retention, MaxRequests, MaxFaults, MaxNow} \subseteq Nat /\ QueueMax > 0

VARIABLES
  now,
  answered,  \* requests answered so far; the number of a request is its entry
  queue,     \* _log_queue of each worker
  taken,     \* entries of the flush that each worker's thread is writing
  flusher,   \* "sleep" or "write"; "dead" in a mutant
  rows,      \* the access_log table: [id, entry, at, worker]
  lastId,    \* the sequence of its ids
  excused,   \* history: entries lost to overflow, a failed write, a crash, or pruned
  faults

vars == <<now, answered, queue, taken, flusher, rows, lastId, excused, faults>>

Entries(s) == {s[i] : i \in DOMAIN s}

Tick == /\ now < MaxNow
        /\ now' = now + 1
        /\ UNCHANGED <<answered, queue, taken, flusher, rows, lastId, excused, faults>>

\* Mutant: a deque without maxlen.
AppendedUnbounded(w, e) == Append(queue[w], e)

\* A deque at its maxlen drops from the other end.
Appended(w, e) ==
  LET q == Append(queue[w], e)
  IN  IF Len(q) > QueueMax THEN Tail(q) ELSE q

\* The handler has returned: the response is logged on its way out.
Respond(w) ==
  /\ answered < MaxRequests
  /\ answered' = answered + 1
  /\ queue' = [queue EXCEPT ![w] = Appended(w, answered')]
  /\ excused' = excused \cup (Entries(queue[w]) \ Entries(queue'[w]))
  /\ UNCHANGED <<now, taken, flusher, rows, lastId, faults>>

\* The handler has raised: call_next raises too and the code that queues an
\* entry is skipped; the server answers 500 further out.
Raise ==
  /\ answered < MaxRequests
  /\ answered' = answered + 1
  /\ UNCHANGED <<now, queue, taken, flusher, rows, lastId, excused, faults>>

\* The thread wakes: under the lock it copies and clears the queue.
Take(w) ==
  /\ flusher[w] = "sleep" /\ queue[w] # <<>>
  /\ taken' = [taken EXCEPT ![w] = queue[w]]
  /\ queue' = [queue EXCEPT ![w] = <<>>]
  /\ flusher' = [flusher EXCEPT ![w] = "write"]
  /\ UNCHANGED <<now, answered, rows, lastId, excused, faults>>

Old(row) == row.at + Retention < now

\* The rows of a flush, with the next ids and the time of the write.
Added(w) ==
  {[id |-> lastId + i, entry |-> taken[w][i], at |-> now, worker |-> w] : i \in DOMAIN taken[w]}

\* Mutant: the queue is cleared when its entries are safe.
WriteThenClear(w) ==
  /\ flusher[w] = "write"
  /\ rows' = {r \in rows \cup Added(w) : ~Old(r)}
  /\ lastId' = lastId + Len(taken[w])
  /\ excused' = excused \cup {r.entry : r \in {x \in rows : Old(x)}}
  /\ taken' = [taken EXCEPT ![w] = <<>>]
  /\ queue' = [queue EXCEPT ![w] = <<>>]
  /\ flusher' = [flusher EXCEPT ![w] = "sleep"]
  /\ UNCHANGED <<now, answered, faults>>

\* One transaction adds the entries and deletes the rows past their retention.
Write(w) ==
  /\ flusher[w] = "write"
  /\ rows' = {r \in rows \cup Added(w) : ~Old(r)}
  /\ lastId' = lastId + Len(taken[w])
  /\ excused' = excused \cup {r.entry : r \in {x \in rows : Old(x)}}
  /\ taken' = [taken EXCEPT ![w] = <<>>]
  /\ flusher' = [flusher EXCEPT ![w] = "sleep"]
  /\ UNCHANGED <<now, answered, queue, faults>>

\* Mutant: a failed batch goes back to the queue, behind newer entries.
FailAndRequeue(w) ==
  /\ flusher[w] = "write" /\ faults < MaxFaults
  /\ faults' = faults + 1
  /\ queue' = [queue EXCEPT ![w] = @ \o taken[w]]
  /\ taken' = [taken EXCEPT ![w] = <<>>]
  /\ flusher' = [flusher EXCEPT ![w] = "sleep"]
  /\ UNCHANGED <<now, answered, rows, lastId, excused>>

\* The write fails: the exception is logged and the entries are gone.
Fail(w) ==
  /\ flusher[w] = "write" /\ faults < MaxFaults
  /\ faults' = faults + 1
  /\ excused' = excused \cup Entries(taken[w])
  /\ taken' = [taken EXCEPT ![w] = <<>>]
  /\ flusher' = [flusher EXCEPT ![w] = "sleep"]
  /\ UNCHANGED <<now, answered, queue, rows, lastId>>

\* The process dies with its queue and restarts; a write is rolled back.
Crash(w) ==
  /\ faults < MaxFaults
  /\ faults' = faults + 1
  /\ excused' = excused \cup Entries(queue[w]) \cup Entries(taken[w])
  /\ queue' = [queue EXCEPT ![w] = <<>>]
  /\ taken' = [taken EXCEPT ![w] = <<>>]
  /\ flusher' = [flusher EXCEPT ![w] = "sleep"]
  /\ UNCHANGED <<now, answered, rows, lastId>>

Init ==
  /\ now = 0 /\ answered = 0 /\ faults = 0 /\ excused = {} /\ rows = {} /\ lastId = 0
  /\ queue = [w \in Workers |-> <<>>] /\ taken = queue
  /\ flusher = [w \in Workers |-> "sleep"]

\* The server may be left alone.
Quiet == UNCHANGED vars

Next ==
  \/ Tick \/ Raise \/ Quiet
  \/ \E w \in Workers :
       Respond(w) \/ Take(w) \/ Write(w) \/ Fail(w) \/ Crash(w)

\* The thread of a live process goes on waking and finishing its write.
Fairness == \A w \in Workers : WF_vars(Take(w)) /\ WF_vars(Write(w) \/ Fail(w))

Spec == Init /\ [][Next]_vars /\ Fairness

----------------------------------------------------------------------------
(* Properties.                                                             *)

\* Types; a queue never exceeds its limit, and the thread holds entries only
\* while it writes.
TypeOK ==
  /\ now \in 0 .. MaxNow /\ answered \in 0 .. MaxRequests
  /\ \A w \in Workers :
       /\ Len(queue[w]) <= QueueMax
       /\ taken[w] # <<>> => flusher[w] = "write"
  /\ \A r \in rows : r.at <= now /\ r.id <= lastId

Logged == {r.entry : r \in rows}
Waiting(w) == Entries(queue[w]) \cup Entries(taken[w])

\* An entry is lost only to an overflowing queue, a failed write, a crash or the
\* retention: not between the flush thread and the requests that go on logging.
LossIsExcused ==
  \A e \in 1 .. answered :
    (\E w \in Workers : e \in Waiting(w))
      => (\E w \in Workers : e \in Waiting(w)') \/ e \in Logged' \/ e \in excused'

\* No request is in the log twice, and the rows of one worker are in the order in
\* which it answered, whatever failed in between.
LoggedOnceInOrder ==
  \A r, s \in rows : r # s =>
    /\ r.entry # s.entry
    /\ r.worker = s.worker => (r.id < s.id <=> r.entry < s.entry)

============================================================================
