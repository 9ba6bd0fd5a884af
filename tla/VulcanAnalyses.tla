--------------------------- MODULE VulcanAnalyses ---------------------------
(***************************************************************************)
(* One stored CVE impact analysis of server/api/vulcan.py and its trackers *)
(* under concurrent resolve and delete requests.                           *)
(*                                                                         *)
(* A handler reads the analysis, then the trackers, and writes nothing     *)
(* before its commit (autoflush is off in server/db/session.py): the       *)
(* commit sends one statement per changed row, each of which takes the     *)
(* row's lock and keeps it to the end of the transaction.  A resolve       *)
(* updates the analysis before its trackers, a delete removes the trackers *)
(* before the analysis, so the two can wait for each other; PostgreSQL     *)
(* then aborts one of them.  Reads see what is committed.                  *)
(***************************************************************************)
EXTENDS Naturals, Relation

CONSTANTS Resolvers, Deleters,  \* the requests
          Trackers,             \* ids of the trackers
          None

ASSUME AnalysesAssumption ==
  Trackers \subseteq Nat \ {0} /\ None \notin Resolvers \cup Deleters

VARIABLES row,      \* committed rows: absent, or their status and resolver
          lock,     \* row -> the request that has changed it
          pc,       \* request -> where its handler is
          plan,     \* request -> the rows its commit has still to write
          writes,   \* request -> the rows it has written
          answer    \* request -> the status it was answered with

vars == <<row, lock, pc, plan, writes, answer>>

Requests == Resolvers \cup Deleters
Analysis == 0
Rows == {Analysis} \cup Trackers
Absent == [status |-> "absent", by |-> None]
Open == [status |-> "open", by |-> None]
Resolved(r) == [status |-> "resolved", by |-> r]

-----------------------------------------------------------------------------

Init ==
  /\ row = [x \in Rows |-> Absent]
  /\ lock = [x \in Rows |-> None]
  /\ pc = [r \in Requests |-> "start"]
  /\ plan = [r \in Requests |-> {}]
  /\ writes = [r \in Requests |-> {}]
  /\ answer = [r \in Requests |-> None]

\* analyze: the analysis and its trackers are inserted by one transaction.
Analyze ==
  /\ \A x \in Rows : row[x] = Absent /\ lock[x] = None
  /\ \A r \in Requests : pc[r] = "start"
  /\ row' = [x \in Rows |-> Open]
  /\ UNCHANGED <<lock, pc, plan, writes, answer>>

Answer(r, code) ==
  /\ answer' = [answer EXCEPT ![r] = code]
  /\ pc' = [pc EXCEPT ![r] = "done"]

\* get_db closes the session whatever happened: no lock outlives a request.
Release(r) == lock' = [x \in Rows |-> IF lock[x] = r THEN None ELSE lock[x]]

Refuse(r) ==
  /\ pc[r] = "start"
  /\ \/ row[Analysis] = Absent /\ Answer(r, 404)
     \/ r \in Resolvers /\ row[Analysis].status = "resolved" /\ Answer(r, 409)
  /\ UNCHANGED <<row, lock, plan, writes>>

LoadAnalysis(r) ==
  /\ pc[r] = "start"
  /\ row[Analysis] # Absent
  /\ r \in Resolvers => row[Analysis].status # "resolved"
  /\ pc' = [pc EXCEPT ![r] = "loaded"]
  /\ UNCHANGED <<row, lock, plan, writes, answer>>

\* The rows a commit writes.
PlanOf(r) ==
  {Analysis} \cup {t \in Trackers : IF r \in Resolvers THEN row[t].status = "open"
                                                     ELSE row[t] # Absent}

\* The order of the unit of work: updates go from parent to child, deletes from
\* child to parent, rows of a table by their id.
Precedes(r, x, y) ==
  IF r \in Deleters /\ Analysis \in {x, y} THEN y = Analysis ELSE x < y

\* The row that the next statement of r's commit is about.
Upcoming(r) == {x \in plan[r] : \A y \in plan[r] \ {x} : Precedes(r, x, y)}

LoadTrackers(r) ==
  /\ pc[r] = "loaded"
  /\ plan' = [plan EXCEPT ![r] = PlanOf(r)]
  /\ pc' = [pc EXCEPT ![r] = "flush"]
  /\ UNCHANGED <<row, lock, writes, answer>>

\* Mutant: every statement commits on its own.
WriteRowThrough(r) ==
  /\ pc[r] = "flush"
  /\ \E x \in Upcoming(r) :
       /\ lock[x] = None
       /\ r \in Resolvers => row[x] # Absent
       /\ row' = [row EXCEPT ![x] = IF r \in Resolvers THEN Resolved(r) ELSE Absent]
       /\ plan' = [plan EXCEPT ![r] = @ \ {x}]
  /\ UNCHANGED <<lock, writes, pc, answer>>

\* A statement waits for the row's lock; a delete that finds no row goes on.
WriteRow(r) ==
  /\ pc[r] = "flush"
  /\ \E x \in Upcoming(r) :
       /\ lock[x] = None
       /\ r \in Resolvers => row[x] # Absent
       /\ lock' = IF row[x] = Absent THEN lock ELSE [lock EXCEPT ![x] = r]
       /\ writes' = [writes EXCEPT ![r] = @ \cup {x}]
       /\ plan' = [plan EXCEPT ![r] = @ \ {x}]
  /\ UNCHANGED <<row, pc, answer>>

\* Mutant: a failed statement is sent again without a rollback.
RetryStatement(r) == UNCHANGED vars

\* Mutant: what was written before the failure stays.
AbortKeepingWrites(r) ==
  /\ Release(r)
  /\ Answer(r, 500)
  /\ plan' = [plan EXCEPT ![r] = {}]
  /\ writes' = [writes EXCEPT ![r] = {}]
  /\ row' = [x \in Rows |-> IF x \notin writes[r] THEN row[x]
                            ELSE IF r \in Resolvers THEN Resolved(r) ELSE Absent]

\* The transaction rolls back and the request fails with 500.
Abort(r) ==
  /\ Release(r)
  /\ Answer(r, 500)
  /\ plan' = [plan EXCEPT ![r] = {}]
  /\ writes' = [writes EXCEPT ![r] = {}]
  /\ UNCHANGED row

\* An UPDATE that matches no row: the object was deleted meanwhile.
StaleData(r) ==
  /\ pc[r] = "flush" /\ r \in Resolvers
  /\ \E x \in Upcoming(r) : lock[x] = None /\ row[x] = Absent
  /\ Abort(r)

WaitsFor(r, s) == pc[r] = "flush" /\ \E x \in Upcoming(r) : lock[x] = s

\* The database aborts a transaction that waits for itself.
DeadlockDetected(r) ==
  /\ pc[r] = "flush"
  /\ LET waits == [p \in Requests \X Requests |-> WaitsFor(p[1], p[2])]
     IN TransitiveClosure(waits, Requests)[<<r, r>>]
  /\ Abort(r)

Commit(r) ==
  /\ pc[r] = "flush" /\ plan[r] = {}
  /\ row' = [x \in Rows |-> IF x \notin writes[r] THEN row[x]
                            ELSE IF r \in Resolvers THEN Resolved(r) ELSE Absent]
  /\ Release(r)
  /\ Answer(r, IF r \in Resolvers THEN 200 ELSE 204)
  /\ UNCHANGED <<plan, writes>>

\* Every request was answered.
Quiet == (\A r \in Requests : pc[r] = "done") /\ UNCHANGED vars

Handle(r) ==
  \/ Refuse(r) \/ LoadAnalysis(r) \/ LoadTrackers(r)
  \/ WriteRow(r) \/ StaleData(r) \/ DeadlockDetected(r) \/ Commit(r)

Next ==
  \/ Analyze
  \/ \E r \in Requests : Handle(r)
  \/ Quiet

\* The server runs its handlers and the database its deadlock detector.
Spec == Init /\ [][Next]_vars /\ \A r \in Requests : WF_vars(Handle(r))

-----------------------------------------------------------------------------

\* The analysis and its trackers are resolved together and deleted together,
\* however resolves, deletes and their aborts interleave.
AnalysisIsWhole ==
  \A t \in Trackers : row[t].status = row[Analysis].status

\* What the tables name as the resolver was answered 200: an aborted request
\* leaves no trace.
RecordedWasAnswered ==
  \A x \in Rows : row[x].status = "resolved" => answer[row[x].by] = 200

\* A resolve and a delete that wait for each other do not hang: every request
\* is answered.
RequestsEnd == \A r \in Requests : <>(pc[r] = "done")

=============================================================================
