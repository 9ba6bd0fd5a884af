---------------------------- MODULE QueryProofs -----------------------------
(***************************************************************************)
(* Impact analyses: for any number of requests and trackers, the tables    *)
(* name only resolvers that were answered 200, and an analysis and its     *)
(* trackers are resolved and deleted together.  Whatever rows an analysis  *)
(* reads, it counts each product once and covers each container once.      *)
(*                                                                         *)
(* Relationships: whatever requests overlap on any products, a pair has    *)
(* one relationship, a backfill adds only what an SBOM names, and an       *)
(* ancestry goes along build tools, names nothing twice and stops only     *)
(* where no new one leads on.                                              *)
(*                                                                         *)
(* Paged lists: for every page size and whatever is inserted, committed    *)
(* and deleted between the pages, what a reader has read and has still to  *)
(* come is told by how many keys are before a row.                         *)
(*                                                                         *)
(* Layers: with one scan of a product at a time, enrichments that overlap  *)
(* with each other, uploads and removals mark what is shared with base     *)
(* images over what clients had marked, and mark nothing without grounds.  *)
(***************************************************************************)
EXTENDS VulcanAnalyses, Integers, Sequences, FiniteSetTheorems, WellFoundedInduction, TLAPS

Row == [status : {"absent", "open", "resolved"}, by : Requests \cup {None}]

\* A resolver the tables name has ended, and nobody answers a request twice.
Acknowledged(x) ==
  row[x].status = "resolved" =>
    row[x].by \in Requests /\ pc[row[x].by] = "done" /\ answer[row[x].by] = 200

\* Inductive.
AnswerInv ==
  /\ row \in [Rows -> Row]
  /\ pc \in [Requests -> {"start", "loaded", "flush", "done"}]
  /\ DOMAIN answer = Requests /\ answer = [r \in Requests |-> answer[r]]
  /\ \A x \in Rows : Acknowledged(x)

\* A step that writes no row and answers nobody who was answered keeps it,
LEMMA QuietStep ==
  ASSUME AnswerInv, row' = row,
         pc' \in [Requests -> {"start", "loaded", "flush", "done"}],
         answer' = [r \in Requests |-> answer'[r]],
         \A r \in Requests : pc[r] = "done" => pc'[r] = "done" /\ answer'[r] = answer[r]
  PROVE  AnswerInv'
<1>1. ASSUME NEW x \in Rows PROVE Acknowledged(x)'
  BY DEF AnswerInv, Acknowledged
<1>2. DOMAIN answer' = Requests
  OBVIOUS
<1>3. QED BY <1>1, <1>2 DEF AnswerInv

\* and so does an answer to a request that had none.
LEMMA AnswerStep ==
  ASSUME AnswerInv, NEW r \in Requests, NEW code, Answer(r, code), pc[r] # "done", row' = row
  PROVE  AnswerInv'
<1>1. /\ pc' \in [Requests -> {"start", "loaded", "flush", "done"}]
      /\ answer' = [s \in Requests |-> answer'[s]]
  BY DEF AnswerInv, Answer
<1>2. \A s \in Requests : pc[s] = "done" => pc'[s] = "done" /\ answer'[s] = answer[s]
  BY DEF AnswerInv, Answer
<1>3. QED BY <1>1, <1>2, QuietStep

\* A commit names its own request, and answers it in the same step.
LEMMA CommitStep ==
  ASSUME AnswerInv, NEW r \in Requests, Commit(r)
  PROVE  AnswerInv'
<1>1. /\ row' = [x \in Rows |-> IF x \notin writes[r] THEN row[x]
                                ELSE IF r \in Resolvers THEN Resolved(r) ELSE Absent]
      /\ pc[r] = "flush" /\ pc' = [pc EXCEPT ![r] = "done"]
      /\ answer' = [answer EXCEPT ![r] = IF r \in Resolvers THEN 200 ELSE 204]
  BY DEF Commit, Answer
<1>2. Resolved(r) \in Row /\ Absent \in Row
  BY DEF Resolved, Absent, Row
<1>3. row' \in [Rows -> Row]
  BY <1>1, <1>2 DEF AnswerInv
<1>4. /\ pc' \in [Requests -> {"start", "loaded", "flush", "done"}]
      /\ answer' = [s \in Requests |-> answer'[s]] /\ DOMAIN answer' = Requests
  BY <1>1 DEF AnswerInv
<1>5. \A s \in Requests : s # r => pc'[s] = pc[s] /\ answer'[s] = answer[s]
  BY <1>1 DEF AnswerInv
<1>6. ASSUME NEW x \in Rows PROVE Acknowledged(x)'
  <2>1. CASE row'[x] = row[x]
    BY <1>1, <1>5, <2>1 DEF AnswerInv, Acknowledged
  <2>2. CASE row'[x] = Resolved(r) /\ r \in Resolvers
    BY <1>1, <2>2 DEF AnswerInv, Acknowledged, Resolved
  <2>3. CASE row'[x] = Absent
    BY <2>3 DEF Acknowledged, Absent
  <2>4. QED BY <1>1, <2>1, <2>2, <2>3
<1>7. QED BY <1>3, <1>4, <1>6 DEF AnswerInv

\* Every step keeps the invariant.
LEMMA AnswerNext ==
  ASSUME AnswerInv, [Next]_vars
  PROVE  AnswerInv'
<1>1. CASE Analyze
  <2>1. row' = [x \in Rows |-> Open] /\ UNCHANGED <<pc, answer>>
    BY <1>1 DEF Analyze
  <2>2. QED BY <2>1 DEF AnswerInv, Acknowledged, Open, Row
<1>2. ASSUME NEW r \in Requests, Handle(r) PROVE AnswerInv'
  <2>1. CASE Refuse(r)
    BY <2>1, AnswerStep DEF Refuse
  <2>2. CASE LoadAnalysis(r)
    BY <2>2, QuietStep DEF LoadAnalysis, AnswerInv
  <2>3. CASE LoadTrackers(r)
    BY <2>3, QuietStep DEF LoadTrackers, AnswerInv
  <2>4. CASE WriteRow(r)
    BY <2>4, QuietStep DEF WriteRow, AnswerInv
  <2>5. CASE StaleData(r) \/ DeadlockDetected(r)
    <3>1. pc[r] = "flush" /\ Abort(r)
      BY <2>5 DEF StaleData, DeadlockDetected
    <3>2. QED BY <3>1, AnswerStep DEF Abort
  <2>6. CASE Commit(r)
    BY <2>6, CommitStep
  <2>7. QED BY <1>2, <2>1, <2>2, <2>3, <2>4, <2>5, <2>6 DEF Handle
<1>3. CASE UNCHANGED vars
  BY <1>3 DEF vars, AnswerInv, Acknowledged
<1>4. QED BY <1>1, <1>2, <1>3 DEF Next, Quiet

\* An aborted resolve leaves no trace: whoever the analysis or a tracker names as
\* its resolver was answered 200 (RecordedWasAnswered).
THEOREM ResolversWereAnswered == Spec => []RecordedWasAnswered
<1>1. Init => AnswerInv
  BY DEF Init, AnswerInv, Acknowledged, Absent, Row
<1>2. AnswerInv /\ [Next]_vars => AnswerInv'
  BY AnswerNext
<1>3. AnswerInv => RecordedWasAnswered
  BY DEF AnswerInv, Acknowledged, RecordedWasAnswered
<1>4. QED BY <1>1, <1>2, <1>3, PTL DEF Spec

----------------------------------------------------------------------------
(* The analysis and its trackers.                                          *)

\* The rows that a request has written stay as it found them until it ends: it
\* holds them locked, or they were deleted already.
HoldsItsRows(r) ==
  \A x \in writes[r] : IF row[x] = Absent THEN r \notin Resolvers ELSE lock[x] = r

\* What it has written and will write are all rows, as long as that matters: a
\* resolve of an analysis that is open, a delete of one that exists.
CoversRows(r) ==
  row[Analysis].status \in (IF r \in Resolvers THEN {"open"} ELSE {"open", "resolved"})
    => writes[r] \cup plan[r] = Rows

\* Inductive: what AnalysisIsWhole rests on.
WholeInv ==
  /\ AnswerInv
  /\ lock \in [Rows -> Requests \cup {None}]
  /\ plan \in [Requests -> SUBSET Rows] /\ writes \in [Requests -> SUBSET Rows]
  /\ \A x \in Rows : row[x].status = "absent" => row[x] = Absent
  /\ AnalysisIsWhole
  /\ \A r \in Requests :
       /\ pc[r] \in {"start", "loaded"} => writes[r] = {}
       /\ pc[r] = "flush" => HoldsItsRows(r) /\ CoversRows(r)


\* All rows have the status of the analysis.
LEMMA RowsOfOneStatus ==
  ASSUME WholeInv, NEW x \in Rows, NEW y \in Rows
  PROVE  row[x].status = row[y].status
BY DEF WholeInv, AnalysisIsWhole, Rows, Analysis

\* A request that takes no row and gives none keeps the invariant,
LEMMA IdleKeepsWhole ==
  ASSUME WholeInv, AnswerInv', UNCHANGED <<row, lock, plan, writes>>,
         \A r \in Requests : pc'[r] # pc[r] =>
           pc'[r] = "done" \/ (pc[r] = "start" /\ pc'[r] = "loaded")
  PROVE  WholeInv'
<1>1. ASSUME NEW r \in Requests
      PROVE  /\ pc'[r] \in {"start", "loaded"} => writes'[r] = {}
             /\ pc'[r] = "flush" => HoldsItsRows(r)' /\ CoversRows(r)'
  BY DEF WholeInv, HoldsItsRows, CoversRows
<1>2. QED BY <1>1 DEF WholeInv, AnalysisIsWhole

\* one that plans its commit plans to write every row,
LEMMA LoadKeepsWhole ==
  ASSUME WholeInv, AnswerInv', NEW r \in Requests, LoadTrackers(r)
  PROVE  WholeInv'
<1>1. /\ pc[r] = "loaded" /\ pc' = [pc EXCEPT ![r] = "flush"]
      /\ plan' = [plan EXCEPT ![r] = PlanOf(r)]
      /\ UNCHANGED <<row, lock, writes>>
  BY DEF LoadTrackers
<1> DEFINE chosen == PlanOf(r)
<1>2. chosen \in SUBSET Rows
  BY DEF PlanOf, Rows
<1>3. row[Analysis].status \in (IF r \in Resolvers THEN {"open"} ELSE {"open", "resolved"})
        => chosen = Rows
  <2>1. ASSUME NEW t \in Trackers PROVE row[t].status = row[Analysis].status
    BY DEF WholeInv, AnalysisIsWhole
  <2>2. QED BY <2>1 DEF PlanOf, Rows, Absent
<1> HIDE DEF chosen
<1>4. /\ pc'[r] = "flush" /\ plan'[r] = chosen /\ writes[r] = {}
      /\ plan' \in [Requests -> SUBSET Rows]
      /\ \A s \in Requests \ {r} : pc'[s] = pc[s] /\ plan'[s] = plan[s]
  BY <1>1, <1>2 DEF WholeInv, AnswerInv, chosen
<1>5. ASSUME NEW s \in Requests
      PROVE  /\ pc'[s] \in {"start", "loaded"} => writes'[s] = {}
             /\ pc'[s] = "flush" => HoldsItsRows(s)' /\ CoversRows(s)'
  <2>1. CASE s = r
    BY <1>1, <1>3, <1>4, <2>1 DEF HoldsItsRows, CoversRows
  <2>2. CASE s # r
    BY <1>1, <1>4, <2>2 DEF WholeInv, HoldsItsRows, CoversRows
  <2>3. QED BY <2>1, <2>2
<1>6. QED BY <1>1, <1>4, <1>5 DEF WholeInv, AnalysisIsWhole

\* one that writes a row takes it from nobody,
LEMMA WriteKeepsWhole ==
  ASSUME WholeInv, AnswerInv', NEW r \in Requests, WriteRow(r)
  PROVE  WholeInv'
<1>1. PICK x \in Upcoming(r) :
        /\ lock[x] = None
        /\ r \in Resolvers => row[x] # Absent
        /\ lock' = IF row[x] = Absent THEN lock ELSE [lock EXCEPT ![x] = r]
        /\ writes' = [writes EXCEPT ![r] = @ \cup {x}]
        /\ plan' = [plan EXCEPT ![r] = @ \ {x}]
  BY DEF WriteRow
<1>2. pc[r] = "flush" /\ UNCHANGED <<row, pc, answer>>
  BY DEF WriteRow
<1>3. x \in plan[r] /\ x \in Rows
  BY DEF Upcoming, WholeInv
<1>4. /\ writes'[r] = writes[r] \cup {x} /\ plan'[r] = plan[r] \ {x}
      /\ plan' \in [Requests -> SUBSET Rows] /\ writes' \in [Requests -> SUBSET Rows]
      /\ \A s \in Requests \ {r} : writes'[s] = writes[s] /\ plan'[s] = plan[s]
  BY <1>1, <1>3 DEF WholeInv
<1>5. /\ lock' \in [Rows -> Requests \cup {None}]
      /\ \A y \in Rows \ {x} : lock'[y] = lock[y]
      /\ row[x] # Absent => lock'[x] = r
  BY <1>1, <1>3 DEF WholeInv
<1>6. ASSUME NEW s \in Requests, pc[s] = "flush"
      PROVE  HoldsItsRows(s)' /\ CoversRows(s)'
  <2>1. HoldsItsRows(s) /\ CoversRows(s)
    BY <1>6 DEF WholeInv
  <2>2. CASE s = r
    BY <1>1, <1>2, <1>4, <1>5, <2>1, <2>2 DEF HoldsItsRows, CoversRows, WholeInv
  <2>3. CASE s # r
    <3>1. x \in writes[s] => row[x] = Absent
      BY <1>1, <2>1, AnalysesAssumption DEF HoldsItsRows, Requests
    <3>2. QED BY <1>2, <1>4, <1>5, <2>1, <2>3, <3>1 DEF HoldsItsRows, CoversRows, WholeInv
  <2>4. QED BY <2>2, <2>3
<1>7. \A s \in Requests : pc[s] \in {"start", "loaded"} => writes'[s] = {}
  BY <1>2, <1>4 DEF WholeInv
<1>8. QED BY <1>2, <1>4, <1>5, <1>6, <1>7 DEF WholeInv, AnalysisIsWhole

\* one that ends without a commit leaves the rows and the others' locks,
LEMMA AbortKeepsWhole ==
  ASSUME WholeInv, AnswerInv', NEW r \in Requests, Abort(r)
  PROVE  WholeInv'
<1>1. /\ lock' = [x \in Rows |-> IF lock[x] = r THEN None ELSE lock[x]]
      /\ pc' = [pc EXCEPT ![r] = "done"]
      /\ plan' = [plan EXCEPT ![r] = {}] /\ writes' = [writes EXCEPT ![r] = {}]
      /\ row' = row
  BY DEF Abort, Release, Answer
<1>2. /\ pc'[r] = "done"
      /\ plan' \in [Requests -> SUBSET Rows] /\ writes' \in [Requests -> SUBSET Rows]
      /\ lock' \in [Rows -> Requests \cup {None}]
      /\ \A s \in Requests \ {r} : /\ pc'[s] = pc[s] /\ plan'[s] = plan[s]
                                   /\ writes'[s] = writes[s]
  BY <1>1 DEF WholeInv, AnswerInv
<1>3. ASSUME NEW s \in Requests
      PROVE  /\ pc'[s] \in {"start", "loaded"} => writes'[s] = {}
             /\ pc'[s] = "flush" => HoldsItsRows(s)' /\ CoversRows(s)'
  <2>1. CASE s = r
    BY <1>2, <2>1
  <2>2. CASE s # r
    BY <1>1, <1>2, <2>2 DEF WholeInv, HoldsItsRows, CoversRows
  <2>3. QED BY <2>1, <2>2
<1>4. QED BY <1>1, <1>2, <1>3 DEF WholeInv, AnalysisIsWhole

\* and one that commits has written all rows or changes no status.
LEMMA CommitKeepsWhole ==
  ASSUME WholeInv, AnswerInv', NEW r \in Requests, Commit(r)
  PROVE  WholeInv'
<1> DEFINE rest == IF r \in Resolvers THEN Resolved(r) ELSE Absent
<1>1. /\ row' = [x \in Rows |-> IF x \notin writes[r] THEN row[x] ELSE rest]
      /\ lock' = [x \in Rows |-> IF lock[x] = r THEN None ELSE lock[x]]
      /\ pc[r] = "flush" /\ pc' = [pc EXCEPT ![r] = "done"]
      /\ plan[r] = {} /\ plan' = plan /\ writes' = writes
  BY DEF Commit, Release, Answer
<1>2. HoldsItsRows(r) /\ CoversRows(r)
  BY <1>1 DEF WholeInv
<1>3. /\ pc'[r] = "done" /\ \A s \in Requests \ {r} : pc'[s] = pc[s]
      /\ lock' \in [Rows -> Requests \cup {None}]
      /\ \A x \in Rows : lock[x] # r => lock'[x] = lock[x]
      /\ Analysis \in Rows /\ writes[r] \subseteq Rows
      /\ \A x \in Rows : /\ row[x].status \in {"absent", "open", "resolved"}
                         /\ row[x].status = row[Analysis].status
                         /\ row[x].status = "absent" <=> row[x] = Absent
  <2>1. \A x \in Rows : row[x].status = row[Analysis].status
    BY RowsOfOneStatus DEF Rows
  <2>2. \A x \in Rows : row[x].status \in {"absent", "open", "resolved"}
    BY DEF WholeInv, AnswerInv, Row
  <2>3. QED BY <1>1, <2>1, <2>2 DEF WholeInv, AnswerInv, Absent, Rows
<1> DEFINE now == row[Analysis].status
<1>4. /\ \A x, y \in Rows : row'[x].status = row'[y].status
      /\ \A x \in Rows : row'[x].status = "absent" <=> row'[x] = Absent
      /\ row'[Analysis].status = "open" => now = "open"
      /\ row'[Analysis].status # "absent" => now # "absent"
      /\ \A x \in Rows : row[x] = Absent => row'[x] = Absent
      /\ \A x \in Rows : row'[x] = Absent /\ row[x] # Absent => lock[x] = r /\ r \notin Resolvers
                                                              /\ writes[r] = Rows
  <2>1. CASE now = "absent"
    <3>1. \A x \in Rows : row[x] = Absent
      BY <1>3, <2>1
    <3>2. \A x \in Rows : row'[x] = Absent
      BY <1>1, <1>2, <1>3, <3>1 DEF HoldsItsRows
    <3>3. QED BY <1>3, <2>1, <3>1, <3>2 DEF Absent
  <2>2. CASE now # "absent" /\ r \notin Resolvers
    <3>1. writes[r] = Rows
      BY <1>1, <1>2, <1>3, <2>2 DEF CoversRows
    <3>2. \A x \in Rows : row'[x] = Absent
      BY <1>1, <2>2, <3>1
    <3>3. \A x \in Rows : row[x] # Absent /\ lock[x] = r
      BY <1>2, <1>3, <2>2, <3>1 DEF HoldsItsRows
    <3>4. QED BY <1>3, <2>2, <3>1, <3>2, <3>3 DEF Absent
  <2>3. CASE now = "open" /\ r \in Resolvers
    <3>1. writes[r] = Rows
      BY <1>1, <1>2, <1>3, <2>3 DEF CoversRows
    <3>2. \A x \in Rows : row'[x] = Resolved(r)
      BY <1>1, <2>3, <3>1
    <3>3. QED BY <1>3, <2>3, <3>2 DEF Absent, Resolved
  <2>4. CASE now = "resolved" /\ r \in Resolvers
    <3>1. \A x \in Rows : row'[x] = row[x] \/ row'[x] = Resolved(r)
      BY <1>1, <2>4
    <3>2. \A x \in Rows : row'[x].status = "resolved" /\ row[x].status = "resolved"
      BY <1>3, <2>4, <3>1 DEF Resolved
    <3>3. QED BY <1>3, <2>4, <3>2 DEF Absent
  <2>5. QED BY <1>3, <2>1, <2>2, <2>3, <2>4
<1> HIDE DEF rest, now
<1>5. ASSUME NEW s \in Requests, s # r, pc[s] = "flush"
      PROVE  HoldsItsRows(s)' /\ CoversRows(s)'
  <2>1. HoldsItsRows(s) /\ CoversRows(s) /\ writes[s] \subseteq Rows
    BY <1>5 DEF WholeInv
  <2>2. ASSUME NEW x \in writes[s]
        PROVE  IF row'[x] = Absent THEN s \notin Resolvers ELSE lock'[x] = s
    <3>1. IF row[x] = Absent THEN s \notin Resolvers ELSE lock[x] = s
      BY <2>1 DEF HoldsItsRows
    <3>2. CASE row[x] = Absent
      BY <1>4, <2>1, <3>1, <3>2
    <3>3. CASE row[x] # Absent
      <4>1. lock[x] = s /\ lock[x] # r
        BY <1>5, <3>1, <3>3
      <4>2. QED BY <1>3, <1>4, <2>1, <3>3, <4>1
    <3>4. QED BY <3>2, <3>3
  <2>3. HoldsItsRows(s)'
    BY <1>1, <2>2 DEF HoldsItsRows
  <2>4. CoversRows(s)'
    <3>1. now \in {"absent", "open", "resolved"}
      BY <1>3 DEF now
    <3>2. QED BY <1>1, <1>4, <2>1, <3>1 DEF CoversRows, now
  <2>5. QED BY <2>3, <2>4
<1>6. ASSUME NEW s \in Requests
      PROVE  /\ pc'[s] \in {"start", "loaded"} => writes'[s] = {}
             /\ pc'[s] = "flush" => HoldsItsRows(s)' /\ CoversRows(s)'
  <2>1. CASE s = r
    BY <1>3, <2>1
  <2>2. CASE s # r
    BY <1>1, <1>3, <1>5, <2>2 DEF WholeInv
  <2>3. QED BY <2>1, <2>2
<1>7. AnalysisIsWhole'
  BY <1>4 DEF AnalysisIsWhole, Rows
<1>8. QED BY <1>1, <1>3, <1>4, <1>6, <1>7 DEF WholeInv

\* However many resolves and deletes of an analysis meet, whatever they have read
\* and whichever of them the database aborts, the analysis and its trackers have
\* one status (AnalysisIsWhole): the set of rows a commit writes was chosen before
\* the locks were taken, and still covers them.
THEOREM AnalysesStayWhole == Spec => []AnalysisIsWhole
<1>1. Init => WholeInv
  <2> SUFFICES ASSUME Init PROVE WholeInv
    OBVIOUS
  <2>1. AnswerInv
    BY DEF Init, AnswerInv, Acknowledged, Absent, Row
  <2>2. QED BY <2>1 DEF Init, WholeInv, AnalysisIsWhole, Rows, Absent
<1>2. WholeInv /\ [Next]_vars => WholeInv'
  <2> SUFFICES ASSUME WholeInv, [Next]_vars PROVE WholeInv'
    OBVIOUS
  <2>0. AnswerInv'
    BY AnswerNext DEF WholeInv
  <2>1. CASE Analyze
    <3>1. /\ row' = [x \in Rows |-> Open] /\ UNCHANGED <<lock, pc, plan, writes>>
          /\ \A r \in Requests : pc[r] = "start"
      BY <2>1 DEF Analyze
    <3>2. QED BY <2>0, <3>1 DEF WholeInv, AnalysisIsWhole, Open, Rows
  <2>2. ASSUME NEW r \in Requests, Handle(r) PROVE WholeInv'
    <3>1. CASE Refuse(r) \/ LoadAnalysis(r)
      <4>1. /\ UNCHANGED <<row, lock, plan, writes>> /\ pc[r] = "start"
            /\ pc' = [pc EXCEPT ![r] = "done"] \/ pc' = [pc EXCEPT ![r] = "loaded"]
        BY <3>1 DEF Refuse, LoadAnalysis, Answer
      <4>2. \A s \in Requests : pc'[s] # pc[s] =>
              pc'[s] = "done" \/ (pc[s] = "start" /\ pc'[s] = "loaded")
        BY <4>1 DEF WholeInv, AnswerInv
      <4>3. QED BY <2>0, <4>1, <4>2, IdleKeepsWhole
    <3>2. CASE LoadTrackers(r)
      BY <2>0, <3>2, LoadKeepsWhole
    <3>3. CASE WriteRow(r)
      BY <2>0, <3>3, WriteKeepsWhole
    <3>4. CASE StaleData(r) \/ DeadlockDetected(r)
      BY <2>0, <3>4, AbortKeepsWhole DEF StaleData, DeadlockDetected
    <3>5. CASE Commit(r)
      BY <2>0, <3>5, CommitKeepsWhole
    <3>6. QED BY <2>2, <3>1, <3>2, <3>3, <3>4, <3>5 DEF Handle
  <2>3. CASE UNCHANGED vars
    <3>1. UNCHANGED <<row, lock, plan, writes, pc>>
      BY <2>3 DEF vars
    <3>2. QED BY <2>0, <3>1, IdleKeepsWhole
  <2>4. QED BY <2>1, <2>2, <2>3 DEF Next, Quiet
<1>3. WholeInv => AnalysisIsWhole
  BY DEF WholeInv
<1>4. QED BY <1>1, <1>2, <1>3, PTL DEF Spec

----------------------------------------------------------------------------
(* Counting: induction on natural numbers, by a least counterexample.      *)

LEMMA LeastNatural ==
  ASSUME NEW T \in SUBSET Nat, T # {}
  PROVE  \E x \in T : \A y \in T : x <= y
<1>1. PICK x \in T : \A y \in T : ~ (<<y, x>> \in OpToRel(<, Nat))
  <2>1. \E x \in T : \A y \in T : ~ (<<y, x>> \in OpToRel(<, Nat))
    BY WFMin, NatLessThanWellFounded
  <2>2. QED BY <2>1
<1>2. ASSUME NEW y \in T PROVE ~ (y < x)
  BY <1>1 DEF OpToRel
<1>3. QED BY <1>2

\* Finitely many numbers have a highest.
LEMMA HasHighest ==
  ASSUME NEW S \in SUBSET Nat, IsFiniteSet(S), S # {}
  PROVE  \E m \in S : \A s \in S : s <= m
<1> DEFINE Highest(T) == \E m \in T : \A s \in T : s <= m
           Bad == {n \in Nat : \E T \in SUBSET Nat :
                     IsFiniteSet(T) /\ T # {} /\ Cardinality(T) = n /\ ~ Highest(T)}
<1>1. ASSUME Bad # {} PROVE FALSE
  <2>1. PICK n \in Bad : \A k \in Bad : n <= k
    BY <1>1, LeastNatural
  <2>2. PICK T \in SUBSET Nat : /\ IsFiniteSet(T) /\ T # {} /\ Cardinality(T) = n
                               /\ ~ Highest(T)
    BY <2>1
  <2>3. PICK x \in T : TRUE
    BY <2>2
  <2>4. /\ IsFiniteSet(T \ {x}) /\ Cardinality(T \ {x}) = n - 1 /\ T \ {x} \in SUBSET Nat
        /\ n - 1 \in Nat
    <3>1. IsFiniteSet(T \ {x}) /\ Cardinality(T \ {x}) = n - 1
      BY <2>2, <2>3, FS_RemoveElement
    <3>2. n - 1 \in Nat
      BY <3>1, FS_CardinalityType
    <3>3. QED BY <3>1, <3>2
  <2>5. T \ {x} # {}
    BY <2>2, <2>3
  <2>6. n - 1 \notin Bad
    BY <2>1, <2>4
  <2>7. Highest(T \ {x})
    BY <2>4, <2>5, <2>6
  <2>8. PICK m \in T \ {x} : \A s \in T \ {x} : s <= m
    BY <2>7
  <2>9. \A s \in T : s <= (IF m <= x THEN x ELSE m)
    BY <2>3, <2>8
  <2>10. QED BY <2>2, <2>3, <2>8, <2>9
<1>2. Cardinality(S) \in Nat
  BY FS_CardinalityType
<1>3. QED BY <1>1, <1>2

\* They can be listed in their order.
LEMMA HasOrder ==
  ASSUME NEW S \in SUBSET Nat, IsFiniteSet(S)
  PROVE  \E f \in [1 .. Cardinality(S) -> S] :
           \A i, j \in 1 .. Cardinality(S) : i < j => f[i] < f[j]
<1> DEFINE Ordered(T) == \E f \in [1 .. Cardinality(T) -> T] :
                           \A i, j \in 1 .. Cardinality(T) : i < j => f[i] < f[j]
           Bad == {n \in Nat : \E T \in SUBSET Nat :
                     IsFiniteSet(T) /\ Cardinality(T) = n /\ ~ Ordered(T)}
<1>1. ASSUME Bad # {} PROVE FALSE
  <2>1. PICK n \in Bad : \A k \in Bad : n <= k
    BY <1>1, LeastNatural
  <2>2. PICK T \in SUBSET Nat : IsFiniteSet(T) /\ Cardinality(T) = n /\ ~ Ordered(T)
    BY <2>1
  <2>3. T # {}
    <3> SUFFICES ASSUME T = {} PROVE FALSE
      OBVIOUS
    <3>1. Cardinality(T) = 0
      BY FS_EmptySet
    <3>2. 1 .. Cardinality(T) = {}
      BY <3>1
    <3>3. [i \in 1 .. Cardinality(T) |-> 0] \in [1 .. Cardinality(T) -> T]
      BY <3>2
    <3>4. QED BY <2>2, <3>2, <3>3
  <2>4. PICK m \in T : \A s \in T : s <= m
    BY <2>2, <2>3, HasHighest
  <2> DEFINE U == T \ {m}
  <2>5. IsFiniteSet(U) /\ Cardinality(U) = n - 1 /\ U \in SUBSET Nat /\ n - 1 \in Nat
    <3>1. IsFiniteSet(U) /\ Cardinality(U) = n - 1
      BY <2>2, <2>4, FS_RemoveElement
    <3>2. n - 1 \in Nat
      BY <3>1, FS_CardinalityType
    <3>3. QED BY <3>1, <3>2
  <2>6. n - 1 \notin Bad
    BY <2>1, <2>5
  <2>7. PICK g \in [1 .. n - 1 -> U] : \A i, j \in 1 .. n - 1 : i < j => g[i] < g[j]
    BY <2>5, <2>6
  <2> DEFINE f == [i \in 1 .. n |-> IF i = n THEN m ELSE g[i]]
  <2>8. f \in [1 .. n -> T]
    BY <2>1, <2>4, <2>5, <2>7
  <2>9. ASSUME NEW i \in 1 .. n, NEW j \in 1 .. n, i < j PROVE f[i] < f[j]
    <3>1. i \in 1 .. n - 1 /\ g[i] \in U /\ f[i] = g[i]
      BY <2>1, <2>7, <2>9
    <3>2. CASE j = n
      <4>1. f[j] = m
        BY <3>2
      <4>2. g[i] \in Nat /\ m \in Nat /\ g[i] <= m /\ g[i] # m
        BY <2>4, <3>1
      <4>3. QED BY <3>1, <4>1, <4>2
    <3>3. CASE j # n
      BY <2>1, <2>7, <2>9, <3>1, <3>3
    <3>4. QED BY <3>2, <3>3
  <2>10. QED BY <2>2, <2>8, <2>9
<1>2. Cardinality(S) \in Nat
  BY FS_CardinalityType
<1>3. QED BY <1>1, <1>2

----------------------------------------------------------------------------
(* Relationships.                                                          *)

CONSTANTS Products, Containers, Clients, MaxDepth, MaxRequests
VARIABLES alive, rels, req, made

Rel == INSTANCE Relationships

Relationship == [parent : Products, component : Products, type : {"layered", "build_tool"}]
RelRequest ==
  [pc : {"idle", "create", "backfill", "relation", "parent", "answered"},
   quiet : BOOLEAN, rel : Relationship \cup {None}, chain : Seq(Products),
   inferred : BOOLEAN, todo : SUBSET Containers, existing : SUBSET (Products \X Products),
   known : SUBSET Products, adding : SUBSET (Products \X Products)]

\* A pair a backfill will add: an SBOM names it, in the highest version known.
Suggested(e, known) ==
  /\ \E s \in Containers : s.product = e[1] /\ e[2].name \in Rel!BuildTools(s)
  /\ \A p \in known : p.name = e[2].name => p.version <= e[2].version

\* The images the table says p is built with.
BuiltWith(p, table) == {r.component : r \in {x \in table : x.parent = p /\ x.type = "build_tool"}}

\* A walk whose request n has seen no commit goes along build tools that exist, and
\* holds what the table says of the product it is at.
Links(n, table, existing) ==
  /\ \A i \in 1 .. Len(n.chain) : n.chain[i] \in existing
  /\ \A i \in 1 .. Len(n.chain) - 1 :
       (n.inferred /\ i = 1) \/ n.chain[i + 1] \in BuiltWith(n.chain[i], table)
  /\ n.pc = "parent" =>
       IF n.rel = None THEN BuiltWith(n.chain[Len(n.chain)], table) = {}
       ELSE n.rel \in table /\ n.rel.parent = n.chain[Len(n.chain)]
            /\ n.rel.type = "build_tool"
  /\ n.pc = "answered" =>
       \/ Len(n.chain) = MaxDepth + 1
       \/ BuiltWith(n.chain[Len(n.chain)], table) = {}
       \/ \E i \in 1 .. Len(n.chain) : n.chain[i] \in BuiltWith(n.chain[Len(n.chain)], table)

Walk(n, table, existing) ==
  /\ Len(n.chain) \in 1 .. MaxDepth + 1
  /\ n.pc # "answered" => Len(n.chain) <= MaxDepth
  /\ \A i, j \in 1 .. Len(n.chain) : n.chain[i] = n.chain[j] => i = j
  /\ n.quiet => Links(n, table, existing)

RequestHolds(n, table, existing) ==
  /\ n \in RelRequest
  /\ n.pc = "create" => n.rel \in Relationship
  /\ n.pc = "backfill" => /\ \A e \in n.adding : Suggested(e, n.known)
                          /\ \A s \in n.todo : s.product \in Products
  /\ n.pc \in {"relation", "parent", "answered"} => Walk(n, table, existing)

\* Inductive: what each request has read still holds of the tables while nothing was
\* committed since it began.
RelInv ==
  /\ alive \subseteq Products /\ made \in 0 .. MaxRequests
  /\ rels \subseteq Relationship /\ Rel!Accepts(rels, alive)
  /\ req \in [Clients -> RelRequest]
  /\ \A c \in Clients : RequestHolds(req[c], rels, alive)

----------------------------------------------------------------------------
(* The frame of a step.                                                    *)

\* What is left of a request's claims when the tables change under it.
LEMMA DisturbedHolds ==
  ASSUME NEW n \in RelRequest, NEW table, NEW existing, NEW t, NEW e,
         RequestHolds(n, table, existing)
  PROVE  RequestHolds([n EXCEPT !.quiet = FALSE], t, e)
<1> DEFINE m == [n EXCEPT !.quiet = FALSE]
<1>1. /\ m \in RelRequest /\ m.pc = n.pc /\ m.quiet = FALSE /\ m.rel = n.rel
      /\ m.chain = n.chain /\ m.todo = n.todo /\ m.known = n.known /\ m.adding = n.adding
  BY DEF RelRequest
<1> HIDE DEF m
<1>2. RequestHolds(m, t, e)
  BY <1>1 DEF RequestHolds, Walk
<1>3. QED BY <1>2 DEF m

\* A step that reads: only one request changes.
LEMMA RelReadStep ==
  ASSUME RelInv, NEW c \in Clients, NEW n \in RelRequest, RequestHolds(n, rels, alive),
         req' = [req EXCEPT ![c] = n], UNCHANGED <<alive, rels>>, made' \in 0 .. MaxRequests
  PROVE  RelInv'
<1>1. req' \in [Clients -> RelRequest]
  BY DEF RelInv
<1>2. ASSUME NEW d \in Clients PROVE RequestHolds(req'[d], rels', alive')
  BY DEF RelInv
<1>3. Rel!Accepts(rels, alive)'
  BY DEF RelInv, Rel!Accepts
<1>4. (\A d \in Clients : RequestHolds(req[d], rels, alive))'
  BY <1>2
<1>5. QED BY <1>1, <1>3, <1>4 DEF RelInv

\* A commit: its request is over and every other one is disturbed.
LEMMA RelCommitStep ==
  ASSUME RelInv, NEW c \in Clients, Rel!Disturbed(c, Rel!Idle),
         alive' \subseteq alive, rels' \subseteq Relationship, Rel!Accepts(rels', alive'),
         made' \in 0 .. MaxRequests
  PROVE  RelInv'
<1>1. Rel!Idle \in RelRequest /\ Rel!Idle.pc = "idle"
  BY DEF Rel!Idle, RelRequest
<1>2. RequestHolds(Rel!Idle, rels', alive')
  BY <1>1 DEF RequestHolds
<1>3. ASSUME NEW d \in Clients
      PROVE  [req[d] EXCEPT !.quiet = FALSE] \in RelRequest
             /\ RequestHolds([req[d] EXCEPT !.quiet = FALSE], rels', alive')
  <2>1. req[d] \in RelRequest /\ RequestHolds(req[d], rels, alive)
    BY DEF RelInv
  <2>2. [req[d] EXCEPT !.quiet = FALSE] \in RelRequest
    BY <2>1 DEF RelRequest
  <2>3. QED BY <2>1, <2>2, DisturbedHolds
<1>4. req' = [d \in Clients |-> IF d = c THEN Rel!Idle ELSE [req[d] EXCEPT !.quiet = FALSE]]
  BY DEF Rel!Disturbed
<1>5. req' \in [Clients -> RelRequest]
  BY <1>1, <1>3, <1>4
<1>6. ASSUME NEW d \in Clients PROVE RequestHolds(req'[d], rels', alive')
  <2>1. CASE d = c
    BY <1>2, <1>4, <2>1, Zenon
  <2>2. CASE d # c
    BY <1>3, <1>4, <2>2
  <2>3. QED BY <2>1, <2>2
<1>7. Rel!Accepts(rels, alive)'
  BY DEF Rel!Accepts
<1>8. (\A d \in Clients : RequestHolds(req[d], rels, alive))'
  BY <1>6
<1>9. QED BY <1>5, <1>7, <1>8 DEF RelInv

\* A request that is over, and one that failed.
LEMMA RelReturnStep ==
  ASSUME RelInv, NEW c \in Clients, Rel!Return(c), UNCHANGED <<alive, rels, made>>
  PROVE  RelInv'
<1>1. Rel!Idle \in RelRequest /\ Rel!Idle.pc = "idle"
  BY DEF Rel!Idle, RelRequest
<1>2. RequestHolds(Rel!Idle, rels, alive)
  BY <1>1 DEF RequestHolds
<1>3. req' = [req EXCEPT ![c] = Rel!Idle] /\ made' \in 0 .. MaxRequests
  BY DEF Rel!Return, RelInv
<1>4. QED BY <1>1, <1>2, <1>3, RelReadStep

----------------------------------------------------------------------------
(* The steps.                                                              *)

LEMMA BeginCreateKeepsRel ==
  ASSUME RelInv, NEW c \in Clients, Rel!BeginCreate(c), Rel!RelationshipsAssumption
  PROVE  RelInv'
<1>1. PICK p, q \in alive, t \in Rel!Types :
        Rel!Begin(c, [Rel!Idle EXCEPT !.pc = "create",
                                      !.rel = [parent |-> p, component |-> q, type |-> t]])
  BY DEF Rel!BeginCreate
<1> DEFINE r == [parent |-> p, component |-> q, type |-> t]
           n == [Rel!Idle EXCEPT !.pc = "create", !.rel = r]
<1>2. r \in Relationship
  BY DEF RelInv, Relationship, Rel!Types
<1> HIDE DEF r
<1>3. n \in RelRequest /\ n.pc = "create" /\ n.rel = r
  <2>1. Rel!Idle \in RelRequest
    BY DEF Rel!Idle, RelRequest
  <2>2. QED BY <1>2, <2>1 DEF RelRequest
<1>4. /\ req' = [req EXCEPT ![c] = n] /\ UNCHANGED <<alive, rels>>
      /\ made < MaxRequests /\ made' = made + 1
  BY <1>1 DEF Rel!Begin, r
<1> HIDE DEF n
<1>5. RequestHolds(n, rels, alive)
  BY <1>2, <1>3 DEF RequestHolds
<1>6. made' \in 0 .. MaxRequests
  BY <1>4 DEF RelInv, Rel!RelationshipsAssumption
<1>7. QED BY <1>3, <1>4, <1>5, <1>6, RelReadStep

LEMMA BeginBackfillKeepsRel ==
  ASSUME RelInv, NEW c \in Clients, Rel!BeginBackfill(c), Rel!RelationshipsAssumption
  PROVE  RelInv'
<1> DEFINE todo == {s \in Containers : s.product \in alive}
           pairs == {<<r.parent, r.component>> : r \in rels}
           n == [Rel!Idle EXCEPT !.pc = "backfill", !.todo = todo, !.known = alive,
                                 !.existing = pairs]
<1>1. /\ req' = [req EXCEPT ![c] = n] /\ UNCHANGED <<alive, rels>>
      /\ made < MaxRequests /\ made' = made + 1
  BY DEF Rel!BeginBackfill, Rel!Begin
<1>2. pairs \subseteq Products \X Products /\ todo \subseteq Containers
  BY DEF RelInv, Relationship
<1>3. \A s \in todo : s.product \in Products
  BY DEF RelInv
<1> HIDE DEF todo, pairs
<1>4. n \in RelRequest /\ n.pc = "backfill" /\ n.todo = todo /\ n.adding = {}
  <2>1. Rel!Idle \in RelRequest /\ Rel!Idle.adding = {}
    BY DEF Rel!Idle, RelRequest
  <2>2. QED BY <1>2, <2>1 DEF RelRequest, RelInv
<1> HIDE DEF n
<1>5. RequestHolds(n, rels, alive)
  BY <1>3, <1>4 DEF RequestHolds
<1>6. made' \in 0 .. MaxRequests
  BY <1>1 DEF RelInv, Rel!RelationshipsAssumption
<1>7. QED BY <1>1, <1>4, <1>5, <1>6, RelReadStep

LEMMA BeginAncestryKeepsRel ==
  ASSUME RelInv, NEW c \in Clients, Rel!BeginAncestry(c), Rel!RelationshipsAssumption
  PROVE  RelInv'
<1>1. PICK p \in alive : Rel!Begin(c, [Rel!Idle EXCEPT !.pc = "relation", !.chain = <<p>>])
  BY DEF Rel!BeginAncestry
<1> DEFINE n == [Rel!Idle EXCEPT !.pc = "relation", !.chain = <<p>>]
<1>2. <<p>> \in Seq(Products) /\ Len(<<p>>) = 1 /\ <<p>>[1] = p
  BY DEF RelInv
<1>3. n \in RelRequest /\ n.pc = "relation" /\ n.chain = <<p>>
  BY <1>2 DEF Rel!Idle, RelRequest
<1>4. /\ req' = [req EXCEPT ![c] = n] /\ UNCHANGED <<alive, rels>>
      /\ made < MaxRequests /\ made' = made + 1
  BY <1>1 DEF Rel!Begin
<1> HIDE DEF n
<1>5. RequestHolds(n, rels, alive)
  <2>1. Len(n.chain) \in 1 .. MaxDepth + 1 /\ Len(n.chain) <= MaxDepth
    BY <1>2, <1>3 DEF Rel!RelationshipsAssumption
  <2>2. /\ \A i \in 1 .. Len(n.chain) : n.chain[i] \in alive /\ i = 1
        /\ 1 .. Len(n.chain) - 1 = {}
    BY <1>2, <1>3
  <2>3. Links(n, rels, alive)
    BY <1>3, <2>2 DEF Links
  <2>4. Walk(n, rels, alive)
    BY <2>1, <2>2, <2>3 DEF Walk
  <2>5. QED BY <1>3, <2>4 DEF RequestHolds
<1>6. made' \in 0 .. MaxRequests
  BY <1>4 DEF RelInv, Rel!RelationshipsAssumption
<1>7. QED BY <1>3, <1>4, <1>5, <1>6, RelReadStep

LEMMA CreateKeepsRel ==
  ASSUME RelInv, NEW c \in Clients, Rel!Create(c)
  PROVE  RelInv'
<1>1. CASE Rel!Accepts(rels \cup {req[c].rel}, alive)
  <2>1. /\ rels' = rels \cup {req[c].rel} /\ Rel!Disturbed(c, Rel!Idle)
        /\ UNCHANGED <<alive, made>>
    BY <1>1 DEF Rel!Create
  <2>2. req[c].rel \in Relationship
    BY DEF Rel!Create, RelInv, RequestHolds
  <2>3. rels' \subseteq Relationship /\ alive' \subseteq alive /\ made' \in 0 .. MaxRequests
    BY <2>1, <2>2 DEF RelInv
  <2>4. Rel!Accepts(rels', alive')
    BY <1>1, <2>1, Zenon
  <2>5. QED BY <2>1, <2>3, <2>4, RelCommitStep
<1>2. CASE ~ Rel!Accepts(rels \cup {req[c].rel}, alive)
  <2>1. Rel!Return(c) /\ UNCHANGED <<alive, rels, made>>
    BY <1>2 DEF Rel!Create
  <2>2. QED BY <2>1, RelReturnStep
<1>3. QED BY <1>1, <1>2

LEMMA CommitBackfillKeepsRel ==
  ASSUME RelInv, NEW c \in Clients, Rel!CommitBackfill(c)
  PROVE  RelInv'
<1> DEFINE new == Rel!Built(req[c].adding)
<1>1. CASE Rel!Accepts(rels \cup new, alive)
  <2>1. /\ rels' = rels \cup new /\ Rel!Disturbed(c, Rel!Idle)
        /\ UNCHANGED <<alive, made>>
    BY <1>1 DEF Rel!CommitBackfill
  <2>2. req[c].adding \subseteq Products \X Products
    BY DEF RelInv, RelRequest
  <2>3. new \subseteq Relationship
    BY <2>2 DEF Rel!Built, Relationship
  <2>4. rels' \subseteq Relationship /\ alive' \subseteq alive /\ made' \in 0 .. MaxRequests
    BY <2>1, <2>3 DEF RelInv
  <2>5. Rel!Accepts(rels', alive')
    BY <1>1, <2>1, Zenon
  <2>6. QED BY <2>1, <2>4, <2>5, RelCommitStep
<1>2. CASE ~ Rel!Accepts(rels \cup new, alive)
  <2>1. Rel!Return(c) /\ UNCHANGED <<alive, rels, made>>
    BY <1>2 DEF Rel!CommitBackfill
  <2>2. QED BY <2>1, RelReturnStep
<1>3. QED BY <1>1, <1>2

LEMMA DeletesKeepRel ==
  ASSUME RelInv, NEW c \in Clients, Rel!DeleteRelationship(c) \/ Rel!DeleteProduct(c),
         Rel!RelationshipsAssumption
  PROVE  RelInv'
<1>1. CASE Rel!DeleteRelationship(c)
  <2>1. PICK r \in rels : rels' = rels \ {r} /\ Rel!Disturbed(c, Rel!Idle)
                          /\ made < MaxRequests /\ made' = made + 1 /\ UNCHANGED alive
    BY <1>1 DEF Rel!DeleteRelationship
  <2>2. rels' \subseteq Relationship /\ alive' \subseteq alive /\ made' \in 0 .. MaxRequests
    BY <2>1 DEF RelInv, Rel!RelationshipsAssumption
  <2>3. Rel!Accepts(rels', alive')
    BY <2>1 DEF RelInv, Rel!Accepts
  <2>4. QED BY <2>1, <2>2, <2>3, RelCommitStep
<1>2. CASE Rel!DeleteProduct(c)
  <2>1. PICK p \in alive :
          /\ alive' = alive \ {p} /\ made < MaxRequests /\ made' = made + 1
          /\ rels' = {r \in rels : p \notin {r.parent, r.component}}
          /\ Rel!Disturbed(c, Rel!Idle)
    BY <1>2 DEF Rel!DeleteProduct
  <2>2. rels' \subseteq Relationship /\ alive' \subseteq alive /\ made' \in 0 .. MaxRequests
    BY <2>1 DEF RelInv, Rel!RelationshipsAssumption
  <2>3. Rel!Accepts(rels', alive')
    BY <2>1 DEF RelInv, Rel!Accepts
  <2>4. QED BY <2>1, <2>2, <2>3, RelCommitStep
<1>3. QED BY <1>1, <1>2

\* max() of some products is one of them, in the highest version.
LEMMA NewestIsHighest ==
  ASSUME Rel!RelationshipsAssumption, NEW S \in SUBSET Products, S # {}
  PROVE  Rel!Newest(S) \in S /\ \A q \in S : q.version <= Rel!Newest(S).version
<1> DEFINE V == {p.version : p \in S}
           f == [p \in S |-> p.version]
<1>1. IsFiniteSet(S) /\ V \in SUBSET Nat /\ V # {}
  <2>1. IsFiniteSet(Products)
    BY DEF Rel!RelationshipsAssumption, Rel!IsFiniteSet, IsFiniteSet
  <2>2. QED BY <2>1, FS_Subset DEF Rel!RelationshipsAssumption
<1>2. f \in Surjection(S, V)
  BY DEF Surjection
<1>3. IsFiniteSet(V)
  BY <1>1, <1>2, FS_Surjection
<1>4. PICK m \in V : \A v \in V : v <= m
  BY <1>1, <1>3, HasHighest
<1>5. PICK p \in S : p.version = m
  BY <1>4
<1>6. \A q \in S : q.version <= p.version
  BY <1>4, <1>5
<1>7. QED BY <1>6 DEF Rel!Newest

LEMMA BackfillKeepsRel ==
  ASSUME RelInv, NEW c \in Clients, Rel!Backfill(c), Rel!RelationshipsAssumption
  PROVE  RelInv'
<1> DEFINE candidates(x) == {p \in req[c].known : p.name = x}
           bases(s) == IF s.readable /\ s.spdx /\ s.product \in alive
                       THEN {x \in Rel!BuildTools(s) : candidates(x) # {}} ELSE {}
           pairs(s) == {<<s.product, Rel!Newest(candidates(x))>> : x \in bases(s)}
           n(s) == [req[c] EXCEPT !.todo = req[c].todo \ {s},
                                  !.adding = req[c].adding \cup (pairs(s) \ req[c].existing)]
<1>0. /\ req[c] \in RelRequest /\ RequestHolds(req[c], rels, alive) /\ req[c].pc = "backfill"
      /\ req[c].known \subseteq Products /\ req[c].todo \subseteq Containers
      /\ req[c].adding \subseteq Products \X Products
  BY DEF RelInv, Rel!Backfill, RelRequest
<1>1. PICK s \in req[c].todo :
        /\ req' = [req EXCEPT ![c].todo = @ \ {s},
                              ![c].adding = @ \cup (pairs(s) \ req[c].existing)]
        /\ UNCHANGED <<alive, rels, made>>
  BY DEF Rel!Backfill
<1>2. req' = [req EXCEPT ![c] = n(s)]
  BY <1>1 DEF RelInv
<1>3. s.product \in Products /\ s \in Containers
  BY <1>0 DEF RequestHolds
<1>4. ASSUME NEW e \in pairs(s)
      PROVE  e \in Products \X Products /\ Suggested(e, req[c].known)
  <2>1. PICK x \in bases(s) : e = <<s.product, Rel!Newest(candidates(x))>>
    OBVIOUS
  <2>2. x \in Rel!BuildTools(s) /\ candidates(x) # {}
    BY <2>1
  <2>3. candidates(x) \in SUBSET Products
    BY <1>0
  <2>4. /\ Rel!Newest(candidates(x)) \in candidates(x)
        /\ \A q \in candidates(x) : q.version <= Rel!Newest(candidates(x)).version
    BY <2>2, <2>3, NewestIsHighest
  <2>5. /\ e[1] = s.product /\ e[2] \in candidates(x)
        /\ \A q \in candidates(x) : q.version <= e[2].version
    BY <2>1, <2>4
  <2>6. e \in Products \X Products
    BY <1>3, <2>1, <2>3, <2>4
  <2>7. Suggested(e, req[c].known)
    BY <1>3, <2>2, <2>5 DEF Suggested
  <2>8. QED BY <2>6, <2>7
<1> HIDE DEF pairs
<1>5. /\ n(s) \in RelRequest /\ n(s).pc = "backfill" /\ n(s).known = req[c].known
      /\ n(s).todo = req[c].todo \ {s}
      /\ n(s).adding = req[c].adding \cup (pairs(s) \ req[c].existing)
  BY <1>0, <1>4 DEF RelRequest
<1> HIDE DEF n
<1>6. RequestHolds(n(s), rels, alive)
  BY <1>0, <1>4, <1>5 DEF RequestHolds
<1>7. made' \in 0 .. MaxRequests /\ UNCHANGED <<alive, rels>>
  BY <1>1 DEF RelInv
<1>8. QED BY <1>2, <1>5, <1>6, <1>7, RelReadStep

LEMMA RelationKeepsRel ==
  ASSUME RelInv, NEW c \in Clients, Rel!Relation(c), Rel!RelationshipsAssumption
  PROVE  RelInv'
<1> DEFINE found == {r \in rels : r.parent = Rel!Current(c) /\ r.type = "build_tool"}
<1>0. /\ req[c] \in RelRequest /\ RequestHolds(req[c], rels, alive) /\ req[c].pc = "relation"
      /\ Rel!Current(c) = req[c].chain[Len(req[c].chain)] /\ rels \subseteq Relationship
  BY DEF RelInv, Rel!Relation, Rel!Current
<1>1. PICK r \in IF found = {} THEN {None} ELSE found :
        req' = [req EXCEPT ![c].rel = r, ![c].pc = "parent"]
  BY DEF Rel!Relation
<1> DEFINE n == [req[c] EXCEPT !.rel = r, !.pc = "parent"]
<1>2. req' = [req EXCEPT ![c] = n]
  BY <1>1 DEF RelInv
<1>3. /\ n \in RelRequest /\ n.pc = "parent" /\ n.rel = r /\ n.chain = req[c].chain
      /\ n.quiet = req[c].quiet /\ n.inferred = req[c].inferred
  BY <1>0, <1>1 DEF RelRequest
<1>4. IF r = None THEN BuiltWith(Rel!Current(c), rels) = {}
      ELSE r \in rels /\ r.parent = Rel!Current(c) /\ r.type = "build_tool"
  <2>1. None \notin rels
    BY <1>0 DEF Rel!RelationshipsAssumption, Relationship, Rel!Types
  <2>2. found = {} => BuiltWith(Rel!Current(c), rels) = {}
    BY DEF BuiltWith
  <2>3. QED BY <1>1, <2>1, <2>2
<1> HIDE DEF n, found
<1>5. Walk(req[c], rels, alive)
  BY <1>0 DEF RequestHolds
<1>6. n.quiet => Links(n, rels, alive)
  BY <1>0, <1>3, <1>4, <1>5 DEF Links, Walk
<1>7. Walk(n, rels, alive)
  BY <1>0, <1>3, <1>5, <1>6 DEF Walk
<1>8. RequestHolds(n, rels, alive)
  BY <1>3, <1>7 DEF RequestHolds
<1>9. made' \in 0 .. MaxRequests /\ UNCHANGED <<alive, rels>>
  BY DEF RelInv, Rel!Relation
<1>10. QED BY <1>2, <1>3, <1>8, <1>9, RelReadStep

\* _infer_base_name never names the image it is given.
LEMMA InferredIsOther ==
  ASSUME NEW name, Rel!Inferred(name) # None
  PROVE  Rel!Inferred(name) # name
<1>1. name[1] # "ubi9" /\ Rel!Inferred(name) \in {<<"ubi9", "minimal">>, <<"ubi9">>}
  BY DEF Rel!Inferred
<1>2. Rel!Inferred(name)[1] = "ubi9"
  BY <1>1
<1>3. QED BY <1>1, <1>2

\* Where a walk goes on it comes to a product that exists and that it has not met.
LEMMA NextIsNew ==
  ASSUME RelInv, NEW c \in Clients, req[c].pc = "parent", Rel!RelationshipsAssumption,
         NEW next, next = IF Rel!StepUp(c) THEN req[c].rel.component ELSE Rel!Base(c),
         next # None
  PROVE  /\ next \in alive /\ \A i \in 1 .. Len(req[c].chain) : req[c].chain[i] # next
         /\ Rel!StepUp(c) \/ Len(req[c].chain) = 1
<1>0. /\ req[c].chain \in Seq(Products) /\ Len(req[c].chain) \in Nat \ {0}
      /\ Rel!Current(c) = req[c].chain[Len(req[c].chain)]
      /\ DOMAIN req[c].chain = 1 .. Len(req[c].chain)
      /\ Rel!Visited(c) = {req[c].chain[i] : i \in 1 .. Len(req[c].chain)}
  BY DEF RelInv, RequestHolds, RelRequest, Walk, Rel!Current, Rel!Visited, Rel!Range
<1>1. CASE Rel!StepUp(c)
  BY <1>0, <1>1 DEF Rel!StepUp
<1>2. CASE ~ Rel!StepUp(c)
  <2> DEFINE named == {p \in alive : p.name = Rel!Inferred(Rel!Current(c).name)}
  <2>1. Len(req[c].chain) = 1 /\ named # {} /\ next = Rel!Newest(named)
    BY <1>2 DEF Rel!Base
  <2>2. named \in SUBSET Products
    BY DEF RelInv
  <2>3. next \in named
    BY <2>1, <2>2, NewestIsHighest
  <2>4. next \in alive /\ next \in Products /\ next.name = Rel!Inferred(Rel!Current(c).name)
    BY <2>2, <2>3
  <2>5. Rel!Inferred(Rel!Current(c).name) # None
    BY <2>4 DEF Rel!RelationshipsAssumption
  <2>6. next # Rel!Current(c)
    BY <2>4, <2>5, InferredIsOther
  <2>7. QED BY <1>0, <2>1, <2>4, <2>6
<1>3. QED BY <1>1, <1>2

\* A walk that ends where it is,
LEMMA ParentStops ==
  ASSUME RelInv, NEW c \in Clients, req[c].pc = "parent", Rel!RelationshipsAssumption,
         ~ (Rel!StepUp(c) /\ req[c].rel.component # None),
         NEW n \in RelRequest, n.pc = "answered", n.chain = req[c].chain,
         n.quiet = req[c].quiet, n.inferred = req[c].inferred
  PROVE  Walk(n, rels, alive)
<1>0. /\ req[c] \in RelRequest /\ Walk(req[c], rels, alive) /\ rels \subseteq Relationship
      /\ req[c].chain \in Seq(Products) /\ DOMAIN req[c].chain = 1 .. Len(req[c].chain)
  BY DEF RelInv, RequestHolds, RelRequest
<1>1. ASSUME n.quiet, req[c].rel # None, req[c].rel \in rels,
             req[c].rel.parent = req[c].chain[Len(req[c].chain)],
             req[c].rel.type = "build_tool"
      PROVE  \E i \in 1 .. Len(n.chain) :
               n.chain[i] \in BuiltWith(n.chain[Len(n.chain)], rels)
  <2>1. req[c].rel.component \in alive
    BY <1>1 DEF RelInv, Rel!Accepts
  <2>2. req[c].rel.component # None
    BY <2>1 DEF RelInv, Rel!RelationshipsAssumption
  <2>3. req[c].rel.component \in Rel!Visited(c)
    BY <1>1, <2>1, <2>2 DEF Rel!StepUp
  <2>4. PICK i \in 1 .. Len(req[c].chain) : req[c].chain[i] = req[c].rel.component
    BY <1>0, <2>3 DEF Rel!Visited, Rel!Range
  <2>5. req[c].rel.component \in BuiltWith(req[c].chain[Len(req[c].chain)], rels)
    BY <1>1 DEF BuiltWith
  <2>6. QED BY <2>4, <2>5
<1>2. n.quiet => Links(n, rels, alive)
  <2>1. SUFFICES ASSUME n.quiet PROVE Links(n, rels, alive)
    OBVIOUS
  <2>2. Links(req[c], rels, alive)
    BY <1>0, <2>1 DEF Walk
  <2>3. QED BY <1>1, <2>1, <2>2 DEF Links
<1>3. QED BY <1>0, <1>2 DEF Walk

\* and one that goes on.
LEMMA ParentGoesOn ==
  ASSUME RelInv, NEW c \in Clients, req[c].pc = "parent", Rel!RelationshipsAssumption,
         NEW next \in alive, \A i \in 1 .. Len(req[c].chain) : req[c].chain[i] # next,
         Rel!StepUp(c) \/ Len(req[c].chain) = 1,
         Rel!StepUp(c) => next = req[c].rel.component,
         NEW n \in RelRequest, n.chain = Append(req[c].chain, next),
         n.quiet = req[c].quiet,
         n.inferred = (IF Rel!StepUp(c) THEN req[c].inferred ELSE TRUE),
         n.pc = (IF Len(req[c].chain) = MaxDepth THEN "answered" ELSE "relation")
  PROVE  Walk(n, rels, alive)
<1> DEFINE k == Len(req[c].chain)
<1>0. /\ req[c] \in RelRequest /\ Walk(req[c], rels, alive) /\ rels \subseteq Relationship
      /\ req[c].chain \in Seq(Products) /\ next \in Products /\ MaxDepth \in Nat
      /\ k \in 1 .. MaxDepth
  BY DEF RelInv, RequestHolds, RelRequest, Walk, Rel!RelationshipsAssumption
<1>1. /\ Len(n.chain) = k + 1 /\ n.chain[k + 1] = next
      /\ \A i \in 1 .. k : n.chain[i] = req[c].chain[i]
  BY <1>0
<1>2. Len(n.chain) \in 1 .. MaxDepth + 1 /\ (n.pc # "answered" => Len(n.chain) <= MaxDepth)
  BY <1>0, <1>1
<1>3. ASSUME NEW i \in 1 .. k + 1, NEW j \in 1 .. k + 1, n.chain[i] = n.chain[j] PROVE i = j
  <2>1. CASE i \in 1 .. k /\ j \in 1 .. k
    BY <1>0, <1>1, <1>3, <2>1 DEF Walk
  <2>2. CASE i = k + 1 \/ j = k + 1
    BY <1>0, <1>1, <1>3, <2>2
  <2>3. QED BY <1>0, <2>1, <2>2
<1>4. ASSUME n.quiet PROVE Links(n, rels, alive)
  <2>0. Links(req[c], rels, alive)
    BY <1>0, <1>4 DEF Walk
  <2>1. \A i \in 1 .. k + 1 : n.chain[i] \in alive
    BY <1>0, <1>1, <2>0 DEF Links
  <2>2. ASSUME NEW i \in 1 .. k
        PROVE  (n.inferred /\ i = 1) \/ n.chain[i + 1] \in BuiltWith(n.chain[i], rels)
    <3>1. CASE ~ Rel!StepUp(c)
      BY <1>0, <3>1
    <3>2. CASE Rel!StepUp(c) /\ i < k
      <4>1. i \in 1 .. k - 1 /\ i + 1 \in 1 .. k
        BY <1>0, <3>2
      <4>2. (req[c].inferred /\ i = 1) \/ req[c].chain[i + 1] \in BuiltWith(req[c].chain[i], rels)
        BY <2>0, <4>1 DEF Links
      <4>3. QED BY <1>1, <3>2, <4>1, <4>2
    <3>3. CASE Rel!StepUp(c) /\ i = k
      <4>1. /\ req[c].rel \in rels /\ req[c].rel.parent = req[c].chain[k]
            /\ req[c].rel.type = "build_tool"
        BY <2>0, <3>3 DEF Links, Rel!StepUp
      <4>2. next \in BuiltWith(req[c].chain[k], rels)
        BY <3>3, <4>1 DEF BuiltWith
      <4>3. QED BY <1>1, <3>3, <4>2
    <3>4. QED BY <1>0, <3>1, <3>2, <3>3
  <2>3. n.pc = "answered" => Len(n.chain) = MaxDepth + 1
    BY <1>1
  <2>4. n.pc # "parent"
    OBVIOUS
  <2>5. QED BY <1>0, <1>1, <2>1, <2>2, <2>3, <2>4 DEF Links
<1>5. QED BY <1>1, <1>2, <1>3, <1>4 DEF Walk

LEMMA ParentKeepsRel ==
  ASSUME RelInv, NEW c \in Clients, Rel!Parent(c), Rel!RelationshipsAssumption
  PROVE  RelInv'
<1> DEFINE next == IF Rel!StepUp(c) THEN req[c].rel.component ELSE Rel!Base(c)
           chain == IF next = None THEN req[c].chain ELSE Append(req[c].chain, next)
           inferred == IF Rel!StepUp(c) \/ next = None THEN req[c].inferred ELSE TRUE
           at == IF next = None \/ Len(req[c].chain) = MaxDepth THEN "answered" ELSE "relation"
           n == [req[c] EXCEPT !.chain = chain, !.inferred = inferred, !.pc = at]
<1>0. /\ req[c] \in RelRequest /\ req[c].pc = "parent" /\ UNCHANGED <<alive, rels, made>>
      /\ req[c].chain \in Seq(Products) /\ req[c].inferred \in BOOLEAN
  BY DEF RelInv, Rel!Parent, RelRequest
<1>1. req' = [req EXCEPT ![c].chain = chain, ![c].inferred = inferred, ![c].pc = at]
  BY DEF Rel!Parent
<1>2. req' = [req EXCEPT ![c] = n]
  BY <1>1 DEF RelInv
<1>3. next # None => /\ next \in alive /\ \A i \in 1 .. Len(req[c].chain) : req[c].chain[i] # next
                     /\ Rel!StepUp(c) \/ Len(req[c].chain) = 1
  BY <1>0, NextIsNew
<1>4. chain \in Seq(Products)
  BY <1>0, <1>3 DEF RelInv
<1>5. inferred \in BOOLEAN /\ at \in {"answered", "relation"}
  BY <1>0
<1> HIDE DEF chain, inferred, at
<1>6. /\ n \in RelRequest /\ n.chain = chain /\ n.inferred = inferred /\ n.pc = at
      /\ n.quiet = req[c].quiet
  BY <1>0, <1>4, <1>5 DEF RelRequest
<1> HIDE DEF n
<1>7. RequestHolds(n, rels, alive)
  <2>1. Walk(n, rels, alive)
    <3>1. CASE next = None
      <4>1. n.chain = req[c].chain /\ n.inferred = req[c].inferred /\ n.pc = "answered"
        BY <1>6, <3>1 DEF chain, inferred, at
      <4>2. ~ (Rel!StepUp(c) /\ req[c].rel.component # None)
        BY <3>1
      <4>3. QED BY <1>0, <1>6, <4>1, <4>2, ParentStops
    <3>2. CASE next # None
      <4>1. /\ n.chain = Append(req[c].chain, next)
            /\ n.inferred = (IF Rel!StepUp(c) THEN req[c].inferred ELSE TRUE)
            /\ n.pc = (IF Len(req[c].chain) = MaxDepth THEN "answered" ELSE "relation")
            /\ Rel!StepUp(c) => next = req[c].rel.component
        BY <1>6, <3>2 DEF chain, inferred, at
      <4> HIDE DEF next
      <4>2. QED BY <1>0, <1>3, <1>6, <3>2, <4>1, ParentGoesOn
    <3>3. QED BY <3>1, <3>2
  <2>2. QED BY <1>5, <1>6, <2>1 DEF RequestHolds
<1>8. made' \in 0 .. MaxRequests
  BY <1>0 DEF RelInv
<1>9. QED BY <1>0, <1>2, <1>6, <1>7, <1>8, RelReadStep

LEMMA RelNext ==
  ASSUME RelInv, [Rel!Next]_(Rel!vars), Rel!RelationshipsAssumption
  PROVE  RelInv'
<1>1. CASE UNCHANGED Rel!vars
  <2>1. UNCHANGED <<alive, rels, req, made>>
    BY <1>1 DEF Rel!vars
  <2>2. /\ \A c \in Clients : RequestHolds(req'[c], rels', alive')
        /\ Rel!Accepts(rels', alive')
    BY <2>1 DEF RelInv
  <2>3. (\A c \in Clients : RequestHolds(req[c], rels, alive))' /\ Rel!Accepts(rels, alive)'
    BY <2>2
  <2>4. QED BY <2>1, <2>3 DEF RelInv
<1>2. ASSUME NEW c \in Clients, Rel!Handle(c)
      PROVE  RelInv'
  <2>1. CASE Rel!Create(c)
    BY <2>1, CreateKeepsRel
  <2>2. CASE Rel!Backfill(c)
    BY <2>2, BackfillKeepsRel
  <2>3. CASE Rel!CommitBackfill(c)
    BY <2>3, CommitBackfillKeepsRel
  <2>4. CASE Rel!Relation(c)
    BY <2>4, RelationKeepsRel
  <2>5. CASE Rel!Parent(c)
    BY <2>5, ParentKeepsRel
  <2>6. CASE Rel!Answered(c)
    <3>1. Rel!Return(c) /\ UNCHANGED <<alive, rels, made>>
      BY <2>6 DEF Rel!Answered
    <3>2. QED BY <3>1, RelReturnStep
  <2>7. QED BY <1>2, <2>1, <2>2, <2>3, <2>4, <2>5, <2>6 DEF Rel!Handle
<1>3. ASSUME NEW c \in Clients,
             \/ Rel!BeginCreate(c) \/ Rel!DeleteRelationship(c) \/ Rel!DeleteProduct(c)
             \/ Rel!BeginBackfill(c) \/ Rel!BeginAncestry(c)
      PROVE  RelInv'
  BY <1>3, BeginCreateKeepsRel, DeletesKeepRel, BeginBackfillKeepsRel, BeginAncestryKeepsRel
<1>4. QED BY <1>1, <1>2, <1>3 DEF Rel!Next, Rel!Quiet

LEMMA AlwaysRel ==
  ASSUME Rel!RelationshipsAssumption
  PROVE  Rel!Spec => []RelInv
<1>1. Rel!Init => RelInv
  <2>1. Rel!Idle \in RelRequest /\ Rel!Idle.pc = "idle"
    BY DEF Rel!Idle, RelRequest
  <2>2. RequestHolds(Rel!Idle, {}, Products)
    BY <2>1 DEF RequestHolds
  <2>3. QED BY <2>1, <2>2 DEF Rel!Init, RelInv, Rel!Accepts, Rel!RelationshipsAssumption
<1>2. RelInv /\ [Rel!Next]_(Rel!vars) => RelInv'
  BY RelNext
<1>3. QED BY <1>1, <1>2, PTL DEF Rel!Spec

\* Requests keep their types, and a walk its products.
THEOREM RelationshipsTypeCorrect ==
  ASSUME Rel!RelationshipsAssumption
  PROVE  Rel!Spec => []Rel!TypeOK
<1>1. RelInv => Rel!TypeOK
  BY DEF RelInv, RelRequest, Relationship, Rel!TypeOK, Rel!Types, Rel!Range
<1>2. QED BY <1>1, AlwaysRel, PTL

\* A pair of products has one relationship, and both exist, whatever creations,
\* backfills and removals overlap (create_relationship, delete_product,
\* backfill_build_tool_relationships).
THEOREM OneRelation ==
  ASSUME Rel!RelationshipsAssumption
  PROVE  Rel!Spec => []Rel!OneRelationPerPair
<1>1. RelInv => Rel!OneRelationPerPair
  BY DEF RelInv, Rel!OneRelationPerPair
<1>2. QED BY <1>1, AlwaysRel, PTL

\* A backfill relates a container only to an image its SBOM names, in the highest
\* version there was when it began (backfill_build_tool_relationships).
THEOREM BackfillsNameTheTool ==
  ASSUME Rel!RelationshipsAssumption
  PROVE  Rel!Spec => [][Rel!BackfillNamesTheTool]_(Rel!vars)
<1>1. RelInv => Rel!BackfillNamesTheTool
  <2> SUFFICES ASSUME RelInv, NEW c \in Clients, Rel!CommitBackfill(c), NEW r \in rels' \ rels
               PROVE  /\ \E s \in Containers : s.product = r.parent
                                               /\ r.component.name \in Rel!BuildTools(s)
                      /\ ~ \E p \in req[c].known : /\ p.name = r.component.name
                                                   /\ p.version > r.component.version
    BY DEF Rel!BackfillNamesTheTool
  <2>1. r \in Rel!Built(req[c].adding)
    BY DEF Rel!CommitBackfill
  <2>2. PICK e \in req[c].adding : r.parent = e[1] /\ r.component = e[2]
    BY <2>1 DEF Rel!Built
  <2>3. Suggested(e, req[c].known)
    BY DEF RelInv, RequestHolds, Rel!CommitBackfill
  <2>4. e[2] \in Products /\ req[c].known \subseteq Products
    BY DEF RelInv, RelRequest
  <2>5. \A p \in Products : p.version \in Nat
    BY DEF Rel!RelationshipsAssumption
  <2>6. QED BY <2>2, <2>3, <2>4, <2>5 DEF Suggested
<1>2. QED BY <1>1, AlwaysRel, PTL

\* An ancestry no write overlapped names no product twice, goes along build_tool
\* relationships after the inferred one, and stops only where no new one leads on
\* (get_ancestry).
THEOREM AncestriesAreHeritage ==
  ASSUME Rel!RelationshipsAssumption
  PROVE  Rel!Spec => []Rel!AncestryIsHeritage
<1>1. RelInv => Rel!AncestryIsHeritage
  <2> SUFFICES ASSUME RelInv, NEW c \in Clients, req[c].pc = "answered"
               PROVE  /\ Rel!IsInjective(req[c].chain)
                      /\ req[c].quiet =>
                         /\ \A i \in (IF req[c].inferred THEN 2 ELSE 1) .. Len(req[c].chain) - 1 :
                              req[c].chain[i + 1] \in Rel!Tools(req[c].chain[i])
                         /\ \/ Rel!Tools(Rel!Current(c)) = {}
                            \/ Len(req[c].chain) = MaxDepth + 1
                            \/ Rel!Tools(Rel!Current(c)) \cap Rel!Visited(c) # {}
    BY DEF Rel!AncestryIsHeritage
  <2>1. /\ Walk(req[c], rels, alive) /\ req[c].chain \in Seq(Products)
        /\ DOMAIN req[c].chain = 1 .. Len(req[c].chain) /\ Len(req[c].chain) \in Nat
    BY DEF RelInv, RequestHolds, RelRequest
  <2>2. Rel!IsInjective(req[c].chain)
    BY <2>1 DEF Walk, Rel!IsInjective
  <2>3. \A p : Rel!Tools(p) = BuiltWith(p, rels)
    BY DEF Rel!Tools, BuiltWith
  <2>4. SUFFICES ASSUME req[c].quiet
        PROVE  /\ \A i \in (IF req[c].inferred THEN 2 ELSE 1) .. Len(req[c].chain) - 1 :
                    req[c].chain[i + 1] \in Rel!Tools(req[c].chain[i])
               /\ \/ Rel!Tools(Rel!Current(c)) = {}
                  \/ Len(req[c].chain) = MaxDepth + 1
                  \/ Rel!Tools(Rel!Current(c)) \cap Rel!Visited(c) # {}
    BY <2>2
  <2>5. Links(req[c], rels, alive)
    BY <2>1, <2>4 DEF Walk
  <2>6. \A i \in (IF req[c].inferred THEN 2 ELSE 1) .. Len(req[c].chain) - 1 :
          req[c].chain[i + 1] \in Rel!Tools(req[c].chain[i])
    BY <2>1, <2>3, <2>5 DEF Links
  <2>7. \/ Rel!Tools(Rel!Current(c)) = {}
        \/ Len(req[c].chain) = MaxDepth + 1
        \/ Rel!Tools(Rel!Current(c)) \cap Rel!Visited(c) # {}
    BY <2>1, <2>3, <2>5 DEF Links, Rel!Current, Rel!Visited, Rel!Range
  <2>8. QED BY <2>6, <2>7
<1>2. QED BY <1>1, AlwaysRel, PTL

----------------------------------------------------------------------------
(* Paged lists.                                                            *)

CONSTANTS Listed, Systems, Names, Limit, ListLimit, Processes, MaxRows
VARIABLES products, uploads, packages, dependencies, batches, nextId, task, offset, got, stayed,
          pushed, shrank, reply

Pages == INSTANCE PagedQueries WITH Products <- Listed

\* rows holds the keys in their order.
Sorted(rows, keys) ==
  /\ rows \in [1 .. Cardinality(keys) -> keys]
  /\ \A i, j \in 1 .. Cardinality(keys) : i < j => rows[i] < rows[j]
  /\ \A k \in keys : \E i \in 1 .. Cardinality(keys) : rows[i] = k

\* How many keys a list has before k.
Rank(keys, k) == Cardinality({j \in keys : j < k})

LEMMA PagesCount == \A S : Pages!Cardinality(S) = Cardinality(S) /\ Pages!IsFiniteSet(S) = IsFiniteSet(S)
<1>1. ASSUME NEW S PROVE Pages!Cardinality(S) = Cardinality(S)
  BY DEF Pages!Cardinality, Cardinality
<1>2. ASSUME NEW S PROVE Pages!IsFiniteSet(S) = IsFiniteSet(S)
  BY DEF Pages!IsFiniteSet, IsFiniteSet
<1>3. QED BY <1>1, <1>2

LEMMA ListingIsSorted ==
  ASSUME NEW table, NEW keys \in SUBSET Nat, IsFiniteSet(keys),
         keys = Pages!Keys(table, products, dependencies)
  PROVE  Sorted(Pages!Listing(table), keys) /\ Cardinality(keys) \in Nat
<1> DEFINE n == Cardinality(keys)
<1>0. n \in Nat
  BY FS_CardinalityType
<1>1. PICK f \in [1 .. n -> keys] : \A i, j \in 1 .. n : i < j => f[i] < f[j]
  BY HasOrder
<1> DEFINE all == {h \in [1 .. n -> keys] : \A i, j \in 1 .. n : i # j => h[i] # h[j]}
<1>2. Pages!SetToSeqs(keys) = all
  BY PagesCount DEF Pages!SetToSeqs
<1>3. f \in all
  <2> SUFFICES ASSUME NEW i \in 1 .. n, NEW j \in 1 .. n, i # j PROVE f[i] # f[j]
    OBVIOUS
  <2>1. f[i] \in Nat /\ f[j] \in Nat
    BY <1>1
  <2>2. i < j \/ j < i
    BY <1>0
  <2>3. QED BY <1>1, <2>1, <2>2
<1>4. DOMAIN f = 1 .. n
  BY <1>1
<1>5. /\ Pages!Listing(table) \in all
      /\ \A i, j \in DOMAIN Pages!Listing(table) :
           i < j => Pages!Listing(table)[i] < Pages!Listing(table)[j]
  <2>1. Pages!Listing(table) =
          CHOOSE rows \in all : \A i, j \in DOMAIN rows : i < j => rows[i] < rows[j]
    BY <1>2 DEF Pages!Listing
  <2>2. \E rows \in all : \A i, j \in DOMAIN rows : i < j => rows[i] < rows[j]
    BY <1>1, <1>3, <1>4
  <2>3. QED BY <2>1, <2>2, Zenon
<1> DEFINE L == Pages!Listing(table)
<1> HIDE DEF L
<1>6. L \in [1 .. n -> keys] /\ \A i, j \in 1 .. n : i < j => L[i] < L[j]
  BY <1>5 DEF L
<1>7. L \in Injection(1 .. n, keys)
  BY <1>5 DEF L, Injection, IsInjective
<1>8. Cardinality(1 .. n) = n
  BY <1>0, FS_Interval
<1>9. L \in Surjection(1 .. n, keys)
  BY <1>7, <1>8, FS_Injection
<1>10. \A k \in keys : \E i \in 1 .. n : L[i] = k
  BY <1>9 DEF Surjection
<1>11. QED BY <1>0, <1>6, <1>10 DEF Sorted, L

\* A key's position tells how many are before it.
LEMMA RankOfPosition ==
  ASSUME NEW keys \in SUBSET Nat, IsFiniteSet(keys), Cardinality(keys) \in Nat,
         NEW rows, Sorted(rows, keys), NEW i \in 1 .. Cardinality(keys)
  PROVE  Rank(keys, rows[i]) = i - 1
<1> DEFINE S == {j \in keys : j < rows[i]}
           f == [x \in 1 .. i - 1 |-> rows[x]]
           n == Cardinality(keys)
<1>0. /\ rows \in [1 .. n -> keys] /\ \A x, y \in 1 .. n : x < y => rows[x] < rows[y]
      /\ \A k \in keys : \E x \in 1 .. n : rows[x] = k
  BY DEF Sorted
<1>1. \A x \in 1 .. n : rows[x] \in Nat
  BY <1>0
<1>2. f \in [1 .. i - 1 -> S]
  BY <1>0
<1>3. ASSUME NEW x \in 1 .. i - 1, NEW y \in 1 .. i - 1, f[x] = f[y] PROVE x = y
  <2>1. x \in 1 .. n /\ y \in 1 .. n /\ rows[x] = rows[y]
    BY <1>3
  <2>2. x < y \/ y < x \/ x = y
    BY <2>1
  <2>3. QED BY <1>0, <1>1, <2>1, <2>2
<1>4. ASSUME NEW k \in S PROVE \E x \in 1 .. i - 1 : f[x] = k
  <2>1. PICK x \in 1 .. n : rows[x] = k
    BY <1>0
  <2>2. ~ (i < x) /\ i # x
    BY <1>0, <1>1, <2>1
  <2>3. x \in 1 .. i - 1
    BY <2>2
  <2>4. QED BY <2>1, <2>3
<1>5. f \in Bijection(1 .. i - 1, S)
  <2>1. f \in Injection(1 .. i - 1, S)
    BY <1>2, <1>3 DEF Injection, IsInjective
  <2>2. f \in Surjection(1 .. i - 1, S)
    BY <1>2, <1>4 DEF Surjection
  <2>3. QED BY <2>1, <2>2 DEF Bijection
<1>6. IsFiniteSet(1 .. i - 1) /\ Cardinality(1 .. i - 1) = i - 1
  <2>1. 1 \in Int /\ i - 1 \in Int /\ i \in Nat /\ i >= 1
    OBVIOUS
  <2>2. /\ IsFiniteSet(1 .. i - 1)
        /\ Cardinality(1 .. i - 1) = IF 1 > i - 1 THEN 0 ELSE i - 1 - 1 + 1
    BY <2>1, FS_Interval
  <2>3. QED BY <2>1, <2>2
<1>7. ExistsBijection(1 .. i - 1, S)
  BY <1>5 DEF ExistsBijection
<1>8. Cardinality(S) = i - 1
  BY <1>6, <1>7, FS_Bijection
<1>9. QED BY <1>8 DEF Rank

LEMMA RankIsMonotone ==
  ASSUME NEW keys \in SUBSET Nat, NEW more \in SUBSET Nat, IsFiniteSet(more), NEW k \in Nat,
         \A j \in keys : j < k => j \in more
  PROVE  /\ Rank(keys, k) <= Rank(more, k)
         /\ Rank(keys, k) \in Nat /\ Rank(more, k) \in Nat
<1> DEFINE S == {j \in keys : j < k}
           T == {j \in more : j < k}
<1>1. S \in SUBSET T /\ T \in SUBSET more
  OBVIOUS
<1>2. IsFiniteSet(T)
  BY <1>1, FS_Subset
<1>3. IsFiniteSet(S) /\ Cardinality(S) <= Cardinality(T)
  BY <1>1, <1>2, FS_Subset
<1>4. Cardinality(S) \in Nat /\ Cardinality(T) \in Nat
  BY <1>2, <1>3, FS_CardinalityType
<1>5. QED BY <1>3, <1>4 DEF Rank

\* What one page of a list holds.
LEMMA PageHolds ==
  ASSUME NEW T, NEW rows \in Seq(T), NEW from \in Nat, NEW size \in Nat
  PROVE  LET page == Pages!Page(rows, from, size)
         IN  /\ page \in Seq(T) /\ Len(page) \in 0 .. size
             /\ \A i \in 1 .. Len(page) : from + i <= Len(rows) /\ page[i] = rows[from + i]
             /\ Len(page) < size => Len(rows) <= from + Len(page)
<1> DEFINE n == Len(rows)
           to == Pages!Min({from + size, n})
           page == SubSeq(rows, from + 1, to)
<1>0. n \in Nat
  OBVIOUS
<1>1. to = IF from + size <= n THEN from + size ELSE n
  BY <1>0 DEF Pages!Min
<1>2. to \in Nat /\ to <= n /\ to <= from + size
  BY <1>0, <1>1
<1> HIDE DEF to
<1>3. Len(page) = IF from + 1 <= to THEN to - from ELSE 0
  BY <1>0, <1>2
<1>4. \A i \in 1 .. Len(page) : page[i] = rows[from + i] /\ from + i <= n
  BY <1>0, <1>2, <1>3
<1>5. page \in Seq(T)
  BY <1>0, <1>2
<1>6. Len(page) < size => n <= from + Len(page)
  BY <1>0, <1>1, <1>2, <1>3
<1>7. Len(page) \in 0 .. size
  BY <1>0, <1>2, <1>3
<1>8. Pages!Page(rows, from, size) = page
  BY DEF Pages!Page, to
<1> HIDE DEF page
<1>9. QED BY <1>4, <1>5, <1>6, <1>7, <1>8

\* What a reader of a table may rely on after the offset from: nothing was deleted, and
\* what stayed before the offset is read; no row appeared before one that was read, and
\* the place of what is read, deleted or not, is before the offset and was read once.
Paging(keys, from, read, kept, jumped, shrunk) ==
  /\ ~shrunk => /\ kept \subseteq keys
                /\ \A k \in kept : Rank(keys, k) < from => \E i \in 1 .. Len(read) : read[i] = k
  /\ ~jumped =>
       /\ \A i, j \in 1 .. Len(read) : read[i] = read[j] => i = j
       /\ \A i \in 1 .. Len(read) : Rank(keys, read[i]) < from

\* One more page keeps it: its first row is the one at the offset.
LEMMA PageKeepsPaging ==
  ASSUME NEW keys \in SUBSET Nat, IsFiniteSet(keys), Cardinality(keys) \in Nat,
         NEW rows, Sorted(rows, keys),
         NEW from \in Nat, NEW read \in Seq(Nat), NEW kept \in SUBSET Nat,
         NEW jumped \in BOOLEAN, NEW shrunk \in BOOLEAN,
         Paging(keys, from, read, kept, jumped, shrunk),
         NEW page \in Seq(Nat),
         \A i \in 1 .. Len(page) : from + i <= Cardinality(keys) /\ page[i] = rows[from + i]
  PROVE  Paging(keys, from + Len(page), read \o page, kept, jumped, shrunk)
<1> DEFINE n == Cardinality(keys)
           m == Len(page)
           l == Len(read)
           all == read \o page
<1>0. /\ rows \in [1 .. n -> keys] /\ \A i, j \in 1 .. n : i < j => rows[i] < rows[j]
      /\ \A k \in keys : \E i \in 1 .. n : rows[i] = k
      /\ m \in Nat /\ l \in Nat
  BY DEF Sorted
<1>1. /\ Len(all) = l + m /\ \A i \in 1 .. l : all[i] = read[i]
      /\ \A i \in 1 .. m : all[l + i] = page[i]
  BY <1>0
<1> HIDE DEF all
<1>01. \A x \in 1 .. n : Rank(keys, rows[x]) = x - 1
  BY RankOfPosition
<1>2. ASSUME NEW i \in 1 .. m
      PROVE  from + i \in 1 .. n /\ page[i] \in keys /\ Rank(keys, page[i]) = from + i - 1
  <2>1. from + i \in 1 .. n /\ page[i] = rows[from + i]
    BY <1>0
  <2>2. Rank(keys, rows[from + i]) = from + i - 1
    BY <1>01, <2>1
  <2>3. QED BY <1>0, <2>1, <2>2
<1>3. ASSUME ~shrunk, NEW k \in kept, Rank(keys, k) < from + m
      PROVE  \E i \in 1 .. Len(all) : all[i] = k
  <2>1. k \in keys
    BY <1>3 DEF Paging
  <2>2. PICK x \in 1 .. n : rows[x] = k
    BY <1>0, <2>1
  <2>3. Rank(keys, k) = x - 1
    BY <2>2, RankOfPosition
  <2>4. CASE x <= from
    <3>1. Rank(keys, k) < from
      BY <2>3, <2>4
    <3>2. PICK i \in 1 .. l : read[i] = k
      BY <1>3, <3>1 DEF Paging
    <3>3. QED BY <1>0, <1>1, <3>2
  <2>5. CASE x > from
    <3>1. x - from \in 1 .. m /\ x = from + (x - from)
      BY <1>0, <1>3, <2>3, <2>5
    <3>2. PICK y \in 1 .. m : x = from + y
      BY <3>1
    <3>3. page[y] = k
      BY <2>2, <3>2
    <3>4. all[l + y] = k /\ l + y \in 1 .. Len(all)
      BY <1>0, <1>1, <3>3
    <3>5. QED BY <3>4
  <2>6. QED BY <2>4, <2>5
<1>4. ASSUME ~jumped, NEW i \in 1 .. l, NEW j \in 1 .. m
      PROVE  read[i] # page[j]
  <2>1. SUFFICES ASSUME read[i] = page[j] PROVE FALSE
    OBVIOUS
  <2>2. read[i] \in keys /\ Rank(keys, read[i]) = from + j - 1
    BY <1>2, <2>1
  <2>3. Rank(keys, read[i]) < from
    BY <1>4, <2>2 DEF Paging
  <2>4. QED BY <2>2, <2>3
<1>5. ASSUME NEW i \in 1 .. m, NEW j \in 1 .. m, page[i] = page[j] PROVE i = j
  <2>1. from + i - 1 = from + j - 1
    BY <1>2, <1>5
  <2>2. QED BY <2>1
<1>6. ASSUME NEW i \in 1 .. Len(all)
      PROVE  \/ i \in 1 .. l /\ all[i] = read[i]
             \/ i - l \in 1 .. m /\ all[i] = page[i - l] /\ i = l + (i - l)
  <2>1. CASE i <= l
    BY <1>0, <1>1, <2>1
  <2>2. CASE i > l
    <3>1. i - l \in 1 .. m /\ i = l + (i - l)
      BY <1>0, <1>1, <2>2
    <3>2. QED BY <1>1, <3>1
  <2>3. QED BY <1>0, <2>1, <2>2
<1>7. ASSUME ~jumped, NEW i \in 1 .. Len(all), NEW j \in 1 .. Len(all),
             all[i] = all[j]
      PROVE  i = j
  <2>1. CASE i \in 1 .. l /\ all[i] = read[i] /\ j \in 1 .. l /\ all[j] = read[j]
    BY <1>7, <2>1 DEF Paging
  <2>2. CASE i - l \in 1 .. m /\ all[i] = page[i - l] /\ j - l \in 1 .. m /\ all[j] = page[j - l]
    <3>1. i - l = j - l
      BY <1>5, <1>7, <2>2
    <3>2. QED BY <1>0, <3>1
  <2>3. CASE i \in 1 .. l /\ all[i] = read[i] /\ j - l \in 1 .. m /\ all[j] = page[j - l]
    BY <1>4, <1>7, <2>3
  <2>4. CASE i - l \in 1 .. m /\ all[i] = page[i - l] /\ j \in 1 .. l /\ all[j] = read[j]
    BY <1>4, <1>7, <2>4
  <2>5. QED BY <1>6, <2>1, <2>2, <2>3, <2>4
<1>8. ASSUME ~jumped, NEW i \in 1 .. Len(all)
      PROVE  Rank(keys, all[i]) < from + m
  <2>1. CASE i \in 1 .. l /\ all[i] = read[i]
    <3>1. Rank(keys, all[i]) < from
      BY <1>8, <2>1 DEF Paging
    <3>2. all[i] \in Nat
      BY <2>1
    <3>3. Rank(keys, all[i]) \in Nat
      BY <3>2, RankIsMonotone
    <3>4. QED BY <1>0, <3>1, <3>3
  <2>2. CASE i - l \in 1 .. m /\ all[i] = page[i - l]
    <3>1. PICK j \in 1 .. m : all[i] = page[j]
      BY <2>2
    <3>2. Rank(keys, all[i]) = from + j - 1
      BY <1>2, <3>1
    <3>3. QED BY <1>0, <3>2
  <2>3. QED BY <1>6, <2>1, <2>2
<1>10. Len(all) \in Nat /\ (~shrunk => kept \subseteq keys)
  BY <1>0, <1>1 DEF Paging
<1>11. Paging(keys, from + m, all, kept, jumped, shrunk)
  BY <1>3, <1>7, <1>8, <1>10 DEF Paging
<1>12. QED BY <1>11 DEF all

UploadRow == [id : Nat, owner : Pages!Owners, by : Processes]
PackageRow == [id : Nat, name : Names, owner : Pages!Owners, scan : Nat]
DependencyRow == [id : Nat, owner : Listed, scan : Nat]

\* Ids come from one sequence; a process inserts after it has committed.
PageRows ==
  /\ products \subseteq Listed /\ uploads \subseteq UploadRow /\ packages \subseteq PackageRow
  /\ dependencies \subseteq DependencyRow /\ batches \in [Processes -> SUBSET DependencyRow]
  /\ nextId \in Nat
  /\ \A p \in packages : p.id < nextId
  /\ \A p, q \in packages : p.id = q.id => p = q
  /\ \A d \in dependencies : d.id < nextId
  /\ \A x \in Processes : \A e \in batches[x] : e.id < nextId
  /\ Cardinality(Processes) = 1 =>
       \A x \in Processes : \A e \in batches[x] : \A d \in dependencies : d.id < e.id

\* A lone process shows no dependency before one that was read.
ReadInOrder ==
  task = "dependencies" /\ Cardinality(Processes) = 1 =>
    /\ ~pushed
    /\ \A i \in 1 .. Len(got) : got[i] < nextId
    /\ \A x \in Processes : \A e \in batches[x] : \A i \in 1 .. Len(got) : got[i] < e.id

\* Inductive.
PagesInv ==
  /\ PageRows
  /\ task \in {"none", "searched", "done", "products", "dependencies"}
  /\ offset \in Nat /\ got \in Seq(Nat) /\ stayed \in SUBSET Nat
  /\ pushed \in BOOLEAN /\ shrank \in BOOLEAN
  /\ task \in {"products", "dependencies"} =>
       Paging(Pages!Keys(task, products, dependencies), offset, got, stayed, pushed, shrank)
  /\ ReadInOrder
  /\ task = "done" =>
       /\ ~shrank => \A k \in stayed : \E i \in 1 .. Len(got) : got[i] = k
       /\ ~pushed => \A i, j \in 1 .. Len(got) : got[i] = got[j] => i = j
  /\ Pages!ScopedPageIsFull

LEMMA KeysAreFinite ==
  ASSUME Pages!PagesAssumption, NEW prods \in SUBSET Listed, NEW deps \in SUBSET DependencyRow,
         NEW next \in Nat, \A d \in deps : d.id < next, NEW table, NEW keys,
         keys = Pages!Keys(table, prods, deps)
  PROVE  keys \in SUBSET Nat /\ IsFiniteSet(keys) /\ Cardinality(keys) \in Nat
<1>1. CASE table = "products"
  <2>1. keys = prods
    BY <1>1 DEF Pages!Keys
  <2>2. IsFiniteSet(Listed) /\ Listed \in SUBSET Nat
    BY PagesCount DEF Pages!PagesAssumption, Pages!Owners
  <2>3. keys \in SUBSET Nat /\ IsFiniteSet(keys)
    BY <2>1, <2>2, FS_Subset
  <2>4. QED BY <2>3, FS_CardinalityType
<1>2. CASE table = "dependencies"
  <2>1. keys = {d.id : d \in deps}
    BY <1>2 DEF Pages!Keys
  <2>2. keys \in SUBSET Nat /\ \A k \in keys : k <= next
    BY <2>1 DEF DependencyRow
  <2>3. IsFiniteSet(keys)
    BY <2>2, FS_BoundedSetOfNaturals
  <2>4. QED BY <2>2, <2>3, FS_CardinalityType
<1>3. CASE table \notin {"products", "dependencies"}
  <2>1. keys = {}
    BY <1>3 DEF Pages!Keys
  <2>2. QED BY <2>1, FS_EmptySet
<1>4. QED BY <1>1, <1>2, <1>3

\* The same of the tables as they are.
LEMMA StateKeys ==
  ASSUME Pages!PagesAssumption, PageRows, NEW table
  PROVE  /\ Pages!Keys(table, products, dependencies) \in SUBSET Nat
         /\ IsFiniteSet(Pages!Keys(table, products, dependencies))
<1> DEFINE keys == Pages!Keys(table, products, dependencies)
<1>1. /\ products \in SUBSET Listed /\ dependencies \in SUBSET DependencyRow /\ nextId \in Nat
      /\ \A d \in dependencies : d.id < nextId
  BY DEF PageRows
<1>2. \A x : \A prods \in SUBSET Listed, deps \in SUBSET DependencyRow, next \in Nat :
        (\A d \in deps : d.id < next) =>
          Pages!Keys(x, prods, deps) \in SUBSET Nat /\ IsFiniteSet(Pages!Keys(x, prods, deps))
  BY KeysAreFinite
<1>3. keys \in SUBSET Nat /\ IsFiniteSet(keys)
  BY <1>1, <1>2
<1>4. QED BY <1>3

\* Any commit keeps it: rows appear in dependencies from batches, in batches with new ids.
LEMMA EditKeepsPages ==
  ASSUME PagesInv, Pages!PagesAssumption, PageRows', nextId <= nextId', Pages!Commit,
         \A d \in dependencies' :
           d \in dependencies \/ \E x \in Processes : d \in batches[x],
         \A x \in Processes : \A e \in batches'[x] : e \in batches[x] \/ nextId <= e.id
  PROVE  PagesInv'
<1> DEFINE before == Pages!Keys(task, products, dependencies)
           after == Pages!Keys(task, products', dependencies')
<1>1. /\ stayed' = stayed \cap after
      /\ pushed' = (pushed \/ \E k \in after \ before, i \in DOMAIN got : k < got[i])
      /\ shrank' = (shrank \/ before \ after # {})
      /\ UNCHANGED <<task, offset, got, reply>>
  BY DEF Pages!Observed, Pages!Commit
<1>2. before \in SUBSET Nat /\ IsFiniteSet(before)
  <2>1. PageRows
    BY DEF PagesInv
  <2>2. QED BY <2>1, StateKeys
<1>3. after \in SUBSET Nat /\ IsFiniteSet(after)
  BY KeysAreFinite DEF PageRows
<1>5. /\ offset \in Nat /\ got \in Seq(Nat) /\ stayed \in SUBSET Nat /\ nextId \in Nat
      /\ pushed \in BOOLEAN /\ shrank \in BOOLEAN /\ nextId' \in Nat /\ DOMAIN got = 1 .. Len(got)
  BY DEF PagesInv, PageRows
<1>51. pushed' \in BOOLEAN /\ shrank' \in BOOLEAN
  BY <1>1, <1>5
<1>6. task \in {"products", "dependencies"} =>
        Paging(after, offset, got, stayed', pushed', shrank')
  <2> SUFFICES ASSUME task \in {"products", "dependencies"}
               PROVE  Paging(after, offset, got, stayed', pushed', shrank')
    OBVIOUS
  <2>1. Paging(before, offset, got, stayed, pushed, shrank)
    BY DEF PagesInv
  <2> HIDE DEF before, after
  <2>3. ASSUME ~shrank', NEW k \in stayed', Rank(after, k) < offset
        PROVE  \E i \in 1 .. Len(got) : got[i] = k
    <3>1. k \in Nat /\ \A j \in before : j < k => j \in after
      BY <1>1, <1>2, <1>5, <2>3
    <3>2. Rank(before, k) <= Rank(after, k) /\ Rank(before, k) \in Nat /\ Rank(after, k) \in Nat
      BY <1>2, <1>3, <3>1, RankIsMonotone
    <3>3. Rank(before, k) < offset
      BY <1>5, <2>3, <3>2
    <3>4. QED BY <1>1, <2>1, <2>3, <3>3 DEF Paging
  <2>4. ASSUME ~pushed', NEW i \in 1 .. Len(got)
        PROVE  Rank(after, got[i]) < offset
    <3>1. got[i] \in Nat
      BY <1>5
    <3>2. ~pushed /\ \A j \in after : j < got[i] => j \in before
      BY <1>1, <1>5, <2>4
    <3>4. Rank(after, got[i]) <= Rank(before, got[i]) /\ Rank(after, got[i]) \in Nat
          /\ Rank(before, got[i]) \in Nat
      BY <1>2, <1>3, <3>1, <3>2, RankIsMonotone
    <3>5. Rank(before, got[i]) < offset
      BY <2>1, <3>2 DEF Paging
    <3>6. QED BY <1>5, <3>4, <3>5
  <2>6. ~pushed' => \A i, j \in 1 .. Len(got) : got[i] = got[j] => i = j
    BY <1>1, <2>1 DEF Paging
  <2>7. QED BY <1>1, <2>1, <2>3, <2>4, <2>6 DEF Paging
<1>7. task = "done" => after = {} /\ before = {}
  BY DEF Pages!Keys
<1>8. Pages!ScopedPageIsFull'
  BY <1>1 DEF PagesInv, Pages!ScopedPageIsFull
<1>9. stayed' \in SUBSET Nat
  BY <1>1, <1>5
<1>10. task' = "done" =>
         /\ ~shrank' => \A k \in stayed' : \E i \in 1 .. Len(got') : got'[i] = k
         /\ ~pushed' => \A i, j \in 1 .. Len(got') : got'[i] = got'[j] => i = j
  BY <1>1, <1>7 DEF PagesInv
<1>11. after = Pages!Keys(task, products, dependencies)'
  BY <1>1
<1>12. task' \in {"products", "dependencies"} =>
         Paging(Pages!Keys(task, products, dependencies), offset, got, stayed, pushed, shrank)'
  <2> HIDE DEF after, before
  <2>1. QED BY <1>1, <1>6, <1>11
<1>13. /\ task' \in {"none", "searched", "done", "products", "dependencies"}
       /\ offset' \in Nat /\ got' \in Seq(Nat)
  BY <1>1 DEF PagesInv
<1>14. ReadInOrder'
  <2>1. SUFFICES ASSUME task = "dependencies", Cardinality(Processes) = 1
                 PROVE  /\ ~pushed'
                        /\ \A i \in 1 .. Len(got) : got[i] < nextId'
                        /\ \A x \in Processes : \A e \in batches'[x] :
                             \A i \in 1 .. Len(got) : got[i] < e.id
    BY <1>1 DEF ReadInOrder
  <2>2. /\ ~pushed
        /\ \A i \in 1 .. Len(got) : got[i] < nextId
        /\ \A x \in Processes : \A e \in batches[x] : \A i \in 1 .. Len(got) : got[i] < e.id
    BY <2>1 DEF PagesInv, ReadInOrder
  <2>3. \A i \in 1 .. Len(got) : got[i] \in Nat
    BY <1>5
  <2>4. \A i \in 1 .. Len(got) : got[i] < nextId'
    BY <1>5, <2>2, <2>3
  <2>5. ASSUME NEW x \in Processes, NEW e \in batches'[x], NEW i \in 1 .. Len(got)
        PROVE  got[i] < e.id
    <3>1. e.id \in Nat
      BY DEF PageRows, DependencyRow
    <3>2. CASE e \in batches[x]
      BY <2>2, <3>2
    <3>3. CASE nextId <= e.id
      BY <1>5, <2>2, <2>3, <3>1, <3>3
    <3>4. QED BY <3>2, <3>3
  <2>6. ASSUME NEW k \in after \ before, NEW i \in 1 .. Len(got) PROVE ~ (k < got[i])
    <3>1. PICK d \in dependencies' : d.id = k
      BY <2>1, <2>6 DEF Pages!Keys
    <3>2. d \notin dependencies
      BY <2>1, <2>6, <3>1 DEF Pages!Keys
    <3>3. PICK x \in Processes : d \in batches[x]
      BY <3>2
    <3>4. got[i] < k
      BY <2>2, <3>1, <3>3
    <3>5. k \in Nat
      BY <1>3, <2>6
    <3>6. QED BY <2>3, <3>4, <3>5
  <2> HIDE DEF after, before
  <2>7. ~pushed'
    BY <1>1, <1>5, <2>2, <2>6
  <2>8. QED BY <2>4, <2>5, <2>7
<1> HIDE DEF after, before
<1>15. QED BY <1>8, <1>9, <1>10, <1>12, <1>13, <1>14, <1>51 DEF PagesInv

LEMMA CreateKeepsPages ==
  ASSUME PagesInv, Pages!PagesAssumption, NEW p \in Listed, Pages!CreateProduct(p)
  PROVE  PagesInv'
<1>1. /\ products' = products \cup {p} /\ Pages!Commit
      /\ UNCHANGED <<uploads, packages, dependencies, batches, nextId>>
  BY DEF Pages!CreateProduct
<1>2. PageRows' /\ nextId <= nextId'
  BY <1>1 DEF PagesInv, PageRows
<1>3. QED BY <1>1, <1>2, EditKeepsPages

LEMMA InsertScanKeepsPages ==
  ASSUME PagesInv, Pages!PagesAssumption, NEW o \in Pages!Owners, NEW p \in Processes,
         Pages!InsertScan(o, p)
  PROVE  PagesInv'
<1>1. /\ uploads' = uploads \cup {[id |-> nextId, owner |-> o, by |-> p]}
      /\ nextId' = nextId + 1 /\ Pages!Commit
      /\ UNCHANGED <<products, packages, dependencies, batches>>
  BY DEF Pages!InsertScan, Pages!Draws
<1>2. PageRows /\ nextId \in Nat
  BY DEF PagesInv, PageRows
<1>3. /\ \A q \in packages : q.id \in Nat /\ q.id < nextId
      /\ \A d \in dependencies : d.id \in Nat /\ d.id < nextId
      /\ \A x \in Processes : \A e \in batches[x] : e.id \in Nat /\ e.id < nextId
  BY <1>2 DEF PageRows, PackageRow, DependencyRow
<1>4. /\ \A q \in packages : q.id < nextId + 1
      /\ \A d \in dependencies : d.id < nextId + 1
      /\ \A x \in Processes : \A e \in batches[x] : e.id < nextId + 1
  BY <1>2, <1>3
<1>5. uploads' \subseteq UploadRow
  BY <1>1, <1>2 DEF PageRows, UploadRow
<1>6. nextId <= nextId' /\ nextId' \in Nat
  BY <1>1, <1>2
<1>7. PageRows'
  BY <1>1, <1>2, <1>4, <1>5, <1>6 DEF PageRows
<1>8. QED BY <1>1, <1>6, <1>7, EditKeepsPages

LEMMA PackagesKeepPages ==
  ASSUME PagesInv, Pages!PagesAssumption, NEW u \in uploads, NEW names \in SUBSET Names,
         Pages!InsertPackages(u, names)
  PROVE  PagesInv'
<1> DEFINE c == Cardinality(names)
<1>1. c \in Nat /\ Pages!Cardinality(names) = c
  <2>1. IsFiniteSet(names)
    BY PagesCount, FS_Subset DEF Pages!PagesAssumption
  <2>2. QED BY <2>1, PagesCount, FS_CardinalityType
<1>2. PICK s \in Pages!SetToSeqs(names) :
        packages' = packages \cup
          {[id |-> nextId + i - 1, name |-> s[i], owner |-> u.owner, scan |-> u.id] :
             i \in DOMAIN s}
  BY DEF Pages!InsertPackages
<1>3. s \in [1 .. c -> names]
  BY <1>1 DEF Pages!SetToSeqs
<1> HIDE DEF c
<1>4. /\ nextId' = nextId + c /\ Pages!Commit
      /\ UNCHANGED <<products, uploads, dependencies, batches>>
  BY <1>1 DEF Pages!InsertPackages, Pages!Draws
<1> DEFINE entry(i) == [id |-> nextId + i - 1, name |-> s[i], owner |-> u.owner, scan |-> u.id]
           new == {entry(i) : i \in 1 .. c}
<1>5. packages' = packages \cup new
  BY <1>2, <1>3
<1>6. PageRows /\ nextId \in Nat
  BY DEF PagesInv, PageRows
<1>7. u.owner \in Pages!Owners /\ u.id \in Nat
  BY <1>6 DEF PageRows, UploadRow
<1>8. ASSUME NEW p \in new
      PROVE  p \in PackageRow /\ p.id \in Nat /\ nextId <= p.id /\ p.id < nextId + c
  <2>1. PICK i \in 1 .. c : p = entry(i)
    OBVIOUS
  <2>2. nextId + i - 1 \in Nat /\ s[i] \in Names
    BY <1>1, <1>3, <1>6
  <2>3. QED BY <1>1, <1>6, <1>7, <2>1, <2>2 DEF PackageRow
<1>9. ASSUME NEW p \in new, NEW q \in new, p.id = q.id PROVE p = q
  <2>1. PICK i \in 1 .. c : p = entry(i)
    OBVIOUS
  <2>2. PICK j \in 1 .. c : q = entry(j)
    OBVIOUS
  <2>3. nextId + i - 1 = nextId + j - 1
    BY <1>9, <2>1, <2>2
  <2>4. i = j
    BY <1>6, <2>3
  <2>5. QED BY <2>1, <2>2, <2>4
<1> HIDE DEF new
<1>10. nextId <= nextId' /\ nextId' \in Nat
  BY <1>1, <1>4, <1>6
<1>11. /\ \A q \in packages : q \in PackageRow /\ q.id \in Nat /\ q.id < nextId
       /\ \A d \in dependencies : d.id \in Nat /\ d.id < nextId
       /\ \A x \in Processes : \A e \in batches[x] : e.id \in Nat /\ e.id < nextId
  BY <1>6 DEF PageRows, PackageRow, DependencyRow
<1>12. /\ \A q \in packages : q.id < nextId'
       /\ \A d \in dependencies : d.id < nextId'
       /\ \A x \in Processes : \A e \in batches[x] : e.id < nextId'
  BY <1>1, <1>4, <1>6, <1>11
<1>13. packages' \subseteq PackageRow /\ \A p \in packages' : p.id < nextId'
  BY <1>4, <1>5, <1>8, <1>11, <1>12
<1>14. ASSUME NEW p \in packages', NEW q \in packages', p.id = q.id PROVE p = q
  <2>1. CASE p \in packages /\ q \in packages
    BY <1>6, <1>14, <2>1 DEF PageRows
  <2>2. CASE p \in new /\ q \in new
    BY <1>9, <1>14, <2>2
  <2>3. CASE (p \in packages /\ q \in new) \/ (p \in new /\ q \in packages)
    BY <1>6, <1>8, <1>11, <1>14, <2>3
  <2>4. QED BY <1>5, <2>1, <2>2, <2>3
<1>15. PageRows'
  BY <1>4, <1>6, <1>10, <1>12, <1>13, <1>14 DEF PageRows
<1>16. QED BY <1>4, <1>10, <1>15, EditKeepsPages

LEMMA DependencyKeepsPages ==
  ASSUME PagesInv, Pages!PagesAssumption, NEW u \in uploads, Pages!InsertDependency(u)
  PROVE  PagesInv'
<1> DEFINE new == [id |-> nextId, owner |-> u.owner, scan |-> u.id]
<1>1. /\ batches' = [batches EXCEPT ![u.by] = @ \cup {new}]
      /\ nextId' = nextId + 1 /\ u.owner \in Listed /\ Pages!Commit
      /\ UNCHANGED <<products, uploads, packages, dependencies>>
  BY DEF Pages!InsertDependency, Pages!Draws
<1>2. PageRows /\ nextId \in Nat
  BY DEF PagesInv, PageRows
<1>3. u.by \in Processes /\ u.id \in Nat
  BY <1>2 DEF PageRows, UploadRow
<1>4. new \in DependencyRow /\ new.id = nextId
  BY <1>1, <1>2, <1>3 DEF DependencyRow
<1> HIDE DEF new
<1>5. ASSUME NEW x \in Processes
      PROVE  batches'[x] = IF x = u.by THEN batches[x] \cup {new} ELSE batches[x]
  BY <1>1, <1>2 DEF PageRows
<1>6. /\ \A q \in packages : q.id \in Nat /\ q.id < nextId
      /\ \A d \in dependencies : d.id \in Nat /\ d.id < nextId
      /\ \A x \in Processes : \A e \in batches[x] : e.id \in Nat /\ e.id < nextId
  BY <1>2 DEF PageRows, PackageRow, DependencyRow
<1>7. nextId <= nextId' /\ nextId' \in Nat
  BY <1>1, <1>2
<1>8. /\ \A q \in packages : q.id < nextId'
      /\ \A d \in dependencies : d.id < nextId'
      /\ \A x \in Processes : \A e \in batches'[x] : e.id < nextId'
  BY <1>1, <1>2, <1>4, <1>5, <1>6
<1>9. batches' \in [Processes -> SUBSET DependencyRow]
  <2>1. batches' = [x \in Processes |-> batches'[x]]
    BY <1>1, <1>2 DEF PageRows
  <2>2. \A x \in Processes : batches'[x] \in SUBSET DependencyRow
    BY <1>2, <1>4, <1>5 DEF PageRows
  <2>3. QED BY <2>1, <2>2
<1>10. ASSUME Cardinality(Processes) = 1, NEW x \in Processes, NEW e \in batches'[x],
              NEW d \in dependencies
       PROVE  d.id < e.id
  <2>1. e \in batches[x] \/ e = new
    BY <1>5
  <2>2. CASE e \in batches[x]
    BY <1>2, <1>10, <2>2 DEF PageRows
  <2>3. CASE e = new
    BY <1>4, <1>6, <2>3
  <2>4. QED BY <2>1, <2>2, <2>3
<1>11. PageRows'
  BY <1>1, <1>2, <1>7, <1>8, <1>9, <1>10 DEF PageRows
<1>12. \A x \in Processes : \A e \in batches'[x] : e \in batches[x] \/ nextId <= e.id
  <2>1. nextId <= new.id
    BY <1>2, <1>4
  <2>2. QED BY <1>5, <2>1
<1>13. QED BY <1>1, <1>7, <1>11, <1>12, EditKeepsPages

\* A lone process has nothing left to commit when it has committed.
LEMMA BatchKeepsPages ==
  ASSUME PagesInv, Pages!PagesAssumption, NEW p \in Processes,
         Pages!CommitBatch(p) \/ Pages!RollBack(p)
  PROVE  PagesInv'
<1>1. /\ batches' = [batches EXCEPT ![p] = {}] /\ Pages!Commit
      /\ dependencies' = dependencies \cup batches[p] \/ dependencies' = dependencies
      /\ UNCHANGED <<products, uploads, packages, nextId>>
  BY DEF Pages!CommitBatch, Pages!RollBack
<1>2. PageRows /\ nextId \in Nat
  BY DEF PagesInv, PageRows
<1>3. ASSUME NEW x \in Processes PROVE batches'[x] = IF x = p THEN {} ELSE batches[x]
  BY <1>1, <1>2 DEF PageRows
<1>4. batches' \in [Processes -> SUBSET DependencyRow]
  <2>1. batches' = [x \in Processes |-> batches'[x]]
    BY <1>1, <1>2 DEF PageRows
  <2>2. \A x \in Processes : batches'[x] \in SUBSET DependencyRow
    BY <1>2, <1>3 DEF PageRows
  <2>3. QED BY <2>1, <2>2
<1>5. /\ dependencies' \subseteq DependencyRow
      /\ \A d \in dependencies' : d.id < nextId
  BY <1>1, <1>2 DEF PageRows
<1>6. ASSUME Cardinality(Processes) = 1, NEW x \in Processes PROVE batches'[x] = {}
  <2>1. IsFiniteSet(Processes)
    BY PagesCount DEF Pages!PagesAssumption
  <2>2. \E y : Processes = {y}
    BY <1>6, <2>1, FS_Singleton
  <2>3. x = p
    BY <2>2
  <2>4. QED BY <1>3, <2>3
<1>7. \A x \in Processes : \A e \in batches'[x] : e \in batches[x]
  BY <1>3
<1>8. PageRows'
  BY <1>1, <1>2, <1>4, <1>5, <1>6, <1>7 DEF PageRows
<1>9. \A d \in dependencies' : d \in dependencies \/ \E x \in Processes : d \in batches[x]
  BY <1>1
<1>10. nextId <= nextId'
  BY <1>1, <1>2
<1>11. QED BY <1>1, <1>7, <1>8, <1>9, <1>10, EditKeepsPages

\* Deletions take rows away.
LEMMA DeleteKeepsPages ==
  ASSUME PagesInv, Pages!PagesAssumption,
         \/ \E u \in uploads :
              Pages!DeleteDependencies(u) \/ Pages!DeletePackages(u) \/ Pages!DeleteScan(u)
         \/ \E p \in Listed : Pages!DeleteProduct(p)
  PROVE  PagesInv'
<1>1. /\ products' \subseteq products /\ uploads' \subseteq uploads /\ packages' \subseteq packages
      /\ dependencies' \subseteq dependencies /\ Pages!Commit /\ UNCHANGED <<batches, nextId>>
  <2>1. CASE \E u \in uploads : Pages!DeleteDependencies(u)
    BY <2>1 DEF Pages!DeleteDependencies
  <2>2. CASE \E u \in uploads : Pages!DeletePackages(u)
    BY <2>2 DEF Pages!DeletePackages
  <2>3. CASE \E u \in uploads : Pages!DeleteScan(u)
    BY <2>3 DEF Pages!DeleteScan
  <2>4. CASE \E p \in Listed : Pages!DeleteProduct(p)
    BY <2>4 DEF Pages!DeleteProduct
  <2>5. QED BY <2>1, <2>2, <2>3, <2>4
<1>2. PageRows' /\ nextId <= nextId'
  BY <1>1 DEF PagesInv, PageRows
<1>3. /\ \A d \in dependencies' : d \in dependencies
      /\ \A x \in Processes : \A e \in batches'[x] : e \in batches[x]
  BY <1>1
<1>4. QED BY <1>1, <1>2, <1>3, EditKeepsPages

\* Reading starts before the first key: every key is still ahead.
LEMMA StartKeepsPages ==
  ASSUME PagesInv, Pages!PagesAssumption, NEW table \in Pages!Paged, Pages!StartPaging(table)
  PROVE  PagesInv'
<1> DEFINE keys == Pages!Keys(table, products, dependencies)
<1>1. /\ task' = table /\ offset' = 0 /\ got' = <<>> /\ stayed' = keys
      /\ pushed' = FALSE /\ shrank' = FALSE /\ UNCHANGED <<Pages!tables, reply>>
  BY DEF Pages!StartPaging
<1>2. PageRows
  BY DEF PagesInv
<1>3. keys \in SUBSET Nat /\ IsFiniteSet(keys)
  BY <1>2, StateKeys
<1>4. Pages!Keys(task, products, dependencies)' = keys
  BY <1>1 DEF Pages!tables
<1>5. PageRows' /\ Pages!ScopedPageIsFull'
  BY <1>1 DEF PagesInv, PageRows, Pages!ScopedPageIsFull, Pages!tables
<1>6. table \in {"products", "dependencies"}
  BY DEF Pages!Paged
<1> HIDE DEF keys
<1>7. \A k \in keys : Rank(keys, k) \in Nat
  <2>1. ASSUME NEW k \in keys PROVE Rank(keys, k) \in Nat
    BY <1>3, RankIsMonotone
  <2>2. QED BY <2>1
<1>8. Len(<<>>) = 0 /\ <<>> \in Seq(Nat)
  OBVIOUS
<1>9. Paging(keys, 0, <<>>, keys, FALSE, FALSE)
  <2>1. ASSUME NEW k \in keys, Rank(keys, k) < 0 PROVE FALSE
    BY <1>7, <2>1
  <2>2. QED BY <1>8, <2>1 DEF Paging
<1>10. Paging(Pages!Keys(task, products, dependencies), offset, got, stayed, pushed, shrank)'
  BY <1>1, <1>4, <1>9
<1>11. task' \in {"products", "dependencies"} /\ task' # "done"
  BY <1>1, <1>6
<1>12. offset' \in Nat /\ got' \in Seq(Nat) /\ stayed' \in SUBSET Nat
       /\ pushed' \in BOOLEAN /\ shrank' \in BOOLEAN
  BY <1>1, <1>3, <1>8
<1>13. ReadInOrder'
  BY <1>1, <1>8 DEF ReadInOrder
<1>14. QED BY <1>5, <1>10, <1>11, <1>12, <1>13 DEF PagesInv

\* What the next request returns, added to what was read.
LEMMA PageKeepsReading ==
  ASSUME PagesInv, Pages!PagesAssumption, task \in Pages!Paged
  PROVE  /\ Pages!Batch \in Seq(Nat) /\ Len(Pages!Batch) \in 0 .. Limit
         /\ \A i \in 1 .. Len(Pages!Batch) :
              Pages!Batch[i] \in Pages!Keys(task, products, dependencies)
         /\ Paging(Pages!Keys(task, products, dependencies), offset + Len(Pages!Batch),
                   got \o Pages!Batch, stayed, pushed, shrank)
         /\ Len(Pages!Batch) < Limit =>
              \A k \in Pages!Keys(task, products, dependencies) :
                Rank(Pages!Keys(task, products, dependencies), k) < offset + Len(Pages!Batch)
<1> DEFINE keys == Pages!Keys(task, products, dependencies)
           rows == Pages!Listing(task)
           page == Pages!Batch
           n == Cardinality(keys)
<1>1. /\ offset \in Nat /\ got \in Seq(Nat) /\ stayed \in SUBSET Nat /\ pushed \in BOOLEAN
      /\ shrank \in BOOLEAN /\ PageRows /\ Limit \in Nat
  BY DEF PagesInv, PageRows, Pages!PagesAssumption
<1>2. keys \in SUBSET Nat /\ IsFiniteSet(keys)
  BY <1>1, StateKeys
<1>4. Sorted(rows, keys) /\ n \in Nat
  BY <1>2, ListingIsSorted
<1>5. Paging(keys, offset, got, stayed, pushed, shrank)
  BY DEF PagesInv, Pages!Paged
<1>6. page = Pages!Page(rows, offset, Limit)
  BY DEF Pages!Batch
<1> HIDE DEF keys, rows, page
<1>7. rows \in [1 .. n -> keys]
  BY <1>4 DEF Sorted
<1>8. rows \in Seq(Nat) /\ Len(rows) = n
  <2>1. rows \in [1 .. n -> Nat] /\ n \in Nat
    BY <1>2, <1>4, <1>7
  <2> HIDE DEF n
  <2>2. QED BY <2>1
<1>9. /\ page \in Seq(Nat) /\ Len(page) \in 0 .. Limit
      /\ \A i \in 1 .. Len(page) : offset + i <= Len(rows) /\ page[i] = rows[offset + i]
      /\ Len(page) < Limit => Len(rows) <= offset + Len(page)
  BY <1>1, <1>6, <1>8, PageHolds
<1>10. Paging(keys, offset + Len(page), got \o page, stayed, pushed, shrank)
  <2>1. /\ page \in Seq(Nat)
        /\ \A i \in 1 .. Len(page) : offset + i <= Cardinality(keys) /\ page[i] = rows[offset + i]
    BY <1>8, <1>9
  <2>2. QED BY <1>1, <1>2, <1>4, <1>5, <2>1, PageKeepsPaging, ZenonT(60)
<1>11. ASSUME Len(page) < Limit, NEW k \in keys PROVE Rank(keys, k) < offset + Len(page)
  <2>1. PICK x \in 1 .. n : rows[x] = k
    BY <1>4 DEF Sorted
  <2>2. Rank(keys, rows[x]) = x - 1
    BY <1>2, <1>4, RankOfPosition
  <2>3. x <= offset + Len(page) /\ offset + Len(page) \in Nat
    BY <1>1, <1>4, <1>8, <1>9, <1>11
  <2>4. QED BY <2>1, <2>2, <2>3
<1>12. ASSUME NEW i \in 1 .. Len(page) PROVE page[i] \in keys
  <2>1. offset + i \in 1 .. n
    BY <1>1, <1>4, <1>8, <1>9
  <2>2. QED BY <1>7, <1>9, <2>1
<1>13. QED BY <1>9, <1>10, <1>11, <1>12 DEF keys, page

LEMMA NextKeepsPages ==
  ASSUME PagesInv, Pages!PagesAssumption, Pages!NextPage
  PROVE  PagesInv'
<1> DEFINE keys == Pages!Keys(task, products, dependencies)
           page == Pages!Batch
<1>1. /\ task \in Pages!Paged /\ Len(page) = Limit /\ got' = got \o page
      /\ offset' = offset + Limit
      /\ UNCHANGED <<products, uploads, packages, dependencies, batches, nextId, task, stayed,
                     pushed, shrank, reply>>
  BY DEF Pages!NextPage, Pages!tables
<1>2. /\ page \in Seq(Nat)
      /\ Paging(keys, offset + Len(page), got \o page, stayed, pushed, shrank)
      /\ \A i \in 1 .. Len(page) : page[i] \in keys
  BY <1>1, PageKeepsReading
<1>3. keys' = keys
  BY <1>1
<1>31. task = "dependencies" => keys = {d.id : d \in dependencies}
  BY DEF Pages!Keys
<1> HIDE DEF keys, page
<1>4. Paging(keys, offset, got, stayed, pushed, shrank)'
  BY <1>1, <1>2, <1>3
<1>5. PageRows' /\ Pages!ScopedPageIsFull'
  BY <1>1 DEF PagesInv, PageRows, Pages!ScopedPageIsFull
<1>6. /\ task' \in {"products", "dependencies"} /\ task' # "done"
      /\ stayed' \in SUBSET Nat /\ pushed' \in BOOLEAN /\ shrank' \in BOOLEAN
  BY <1>1 DEF PagesInv, Pages!Paged
<1>7. offset' \in Nat /\ got' \in Seq(Nat) /\ got \in Seq(Nat)
  BY <1>1, <1>2 DEF PagesInv, Pages!PagesAssumption
<1>8. ReadInOrder'
  <2>1. SUFFICES ASSUME task = "dependencies", Cardinality(Processes) = 1
                 PROVE  /\ ~pushed
                        /\ \A i \in 1 .. Len(got') : got'[i] < nextId
                        /\ \A x \in Processes : \A e \in batches[x] :
                             \A i \in 1 .. Len(got') : got'[i] < e.id
    BY <1>1 DEF ReadInOrder
  <2>2. /\ ~pushed
        /\ \A i \in 1 .. Len(got) : got[i] < nextId
        /\ \A x \in Processes : \A e \in batches[x] : \A i \in 1 .. Len(got) : got[i] < e.id
    BY <2>1 DEF PagesInv, ReadInOrder
  <2>3. \A k \in keys : /\ k < nextId
                        /\ \A x \in Processes : \A e \in batches[x] : k < e.id
    BY <1>31, <2>1 DEF PagesInv, PageRows
  <2>4. ASSUME NEW i \in 1 .. Len(got')
        PROVE  \/ got'[i] \in keys
               \/ \E j \in 1 .. Len(got) : got'[i] = got[j]
    <3>9. page \in Seq(Nat) /\ got \in Seq(Nat)
      BY <1>2, <1>7
    <3>1. got' = got \o page
      BY <1>1
    <3>11. Len(got') = Len(got) + Len(page) /\ Len(got) \in Nat
      BY <3>9, <3>1
    <3>2. CASE i <= Len(got)
      <4>1. i \in 1 .. Len(got) /\ got'[i] = got[i]
        BY <3>9, <3>1, <3>2, <3>11
      <4>2. QED BY <4>1
    <3>3. CASE i > Len(got)
      <4>1. i - Len(got) \in 1 .. Len(page) /\ got'[i] = page[i - Len(got)]
        BY <3>9, <3>1, <3>3, <3>11
      <4>2. QED BY <1>2, <4>1
    <3>4. QED BY <3>2, <3>3, <3>11
  <2>5. QED BY <2>2, <2>3, <2>4
<1>9. QED BY <1>4, <1>5, <1>6, <1>7, <1>8 DEF PagesInv, keys

\* A short page reaches past the last key.
LEMMA LastKeepsPages ==
  ASSUME PagesInv, Pages!PagesAssumption, Pages!LastPage
  PROVE  PagesInv'
<1> DEFINE keys == Pages!Keys(task, products, dependencies)
           page == Pages!Batch
           all == got \o page
<1>1. /\ task \in Pages!Paged /\ Len(page) < Limit /\ got' = all /\ task' = "done"
      /\ UNCHANGED <<products, uploads, packages, dependencies, batches, nextId, offset, stayed,
                     pushed, shrank, reply>>
  BY DEF Pages!LastPage, Pages!tables
<1>2. /\ page \in Seq(Nat)
      /\ Paging(keys, offset + Len(page), all, stayed, pushed, shrank)
      /\ \A k \in keys : Rank(keys, k) < offset + Len(page)
  BY <1>1, PageKeepsReading
<1>3. all \in Seq(Nat)
  BY <1>2 DEF PagesInv
<1> HIDE DEF keys, page, all
<1>4. ~shrank => \A k \in stayed : \E i \in 1 .. Len(all) : all[i] = k
  BY <1>2 DEF Paging
<1>5. ~pushed => \A i, j \in 1 .. Len(all) : all[i] = all[j] => i = j
  BY <1>2 DEF Paging
<1>6. PageRows' /\ Pages!ScopedPageIsFull'
  BY <1>1 DEF PagesInv, PageRows, Pages!ScopedPageIsFull
<1>7. /\ task' \in {"none", "searched", "done", "products", "dependencies"}
      /\ task' \notin {"products", "dependencies"}
      /\ offset' \in Nat /\ got' \in Seq(Nat) /\ stayed' \in SUBSET Nat
      /\ pushed' \in BOOLEAN /\ shrank' \in BOOLEAN
  BY <1>1, <1>3 DEF PagesInv
<1>8. /\ ~shrank' => \A k \in stayed' : \E i \in 1 .. Len(got') : got'[i] = k
      /\ ~pushed' => \A i, j \in 1 .. Len(got') : got'[i] = got'[j] => i = j
  BY <1>1, <1>4, <1>5
<1>9. QED BY <1>6, <1>7, <1>8 DEF PagesInv, ReadInOrder

LEMMA PrintedKeepsPages ==
  ASSUME PagesInv, Pages!PagesAssumption, Pages!Printed
  PROVE  PagesInv'
<1>1. /\ task' = "none" /\ got' = <<>> /\ offset' = 0 /\ stayed' = {} /\ pushed' = FALSE
      /\ shrank' = FALSE /\ reply' = Pages!NoReply
      /\ UNCHANGED <<products, uploads, packages, dependencies, batches, nextId>>
  BY DEF Pages!Printed, Pages!tables
<1>2. PageRows'
  BY <1>1 DEF PagesInv, PageRows
<1>3. Pages!ScopedPageIsFull'
  BY <1>1 DEF Pages!NoReply, Pages!ScopedPageIsFull
<1>4. <<>> \in Seq(Nat)
  OBVIOUS
<1>5. QED BY <1>1, <1>2, <1>3, <1>4 DEF PagesInv, ReadInOrder

\* Ids name packages, and only finitely many ids were given out.
LEMMA PackagesAreFinite ==
  ASSUME PageRows
  PROVE  IsFiniteSet(packages)
<1> DEFINE ids == 0 .. nextId
           f == [p \in packages |-> p.id]
<1>1. nextId \in Nat /\ \A p \in packages : p.id \in Nat /\ p.id < nextId
  BY DEF PageRows, PackageRow
<1>2. \A p, q \in packages : p.id = q.id => p = q
  BY DEF PageRows
<1>3. f \in Injection(packages, ids)
  <2>1. f \in [packages -> ids]
    BY <1>1
  <2>2. \A p, q \in packages : f[p] = f[q] => p = q
    BY <1>2
  <2>3. QED BY <2>1, <2>2 DEF Injection, IsInjective
<1>4. IsFiniteSet(ids)
  BY <1>1, FS_Interval
<1>5. QED BY <1>3, <1>4, FS_Injection

\* A page that is not full holds every row; the ids of a full one are as many as its rows.
LEMMA PageOfRows ==
  ASSUME NEW S, IsFiniteSet(S), Cardinality(S) \in Nat,
         \A p, q \in S : p.id = q.id => p = q,
         NEW rows \in Pages!SetToSeqs(S), NEW size \in Nat
  PROVE  LET page == Pages!Page(rows, 0, size)
         IN  /\ Pages!ToSet(page) \subseteq S
             /\ Cardinality({p.id : p \in Pages!ToSet(page)}) < size => Pages!ToSet(page) = S
<1> DEFINE c == Cardinality(S)
           page == Pages!Page(rows, 0, size)
           ids == {p.id : p \in Pages!ToSet(page)}
<1>1. rows \in [1 .. c -> S] /\ \A i, j \in 1 .. c : i # j => rows[i] # rows[j]
  BY PagesCount DEF Pages!SetToSeqs
<1>2. \A p \in S : \E i \in 1 .. c : rows[i] = p
  <2>1. rows \in Injection(1 .. c, S)
    BY <1>1 DEF Injection, IsInjective
  <2>2. IsFiniteSet(1 .. c) /\ Cardinality(1 .. c) = c
    BY FS_Interval
  <2>3. rows \in Surjection(1 .. c, S)
    BY <2>1, <2>2, FS_Injection
  <2>4. QED BY <2>3 DEF Surjection
<1> HIDE DEF page
<1>3. rows \in Seq(S) /\ Len(rows) = c
  <2> HIDE DEF c
  <2>1. c \in Nat
    BY DEF c
  <2>2. QED BY <1>1, <2>1
<1>4. /\ page \in Seq(S) /\ Len(page) \in 0 .. size
      /\ \A i \in 1 .. Len(page) : i <= Len(rows) /\ page[i] = rows[i]
      /\ Len(page) < size => Len(rows) <= Len(page)
  <2>1. /\ page \in Seq(S) /\ Len(page) \in 0 .. size
        /\ \A i \in 1 .. Len(page) : 0 + i <= Len(rows) /\ page[i] = rows[0 + i]
        /\ Len(page) < size => Len(rows) <= 0 + Len(page)
    BY <1>3, PageHolds DEF page
  <2>2. \A i \in 1 .. Len(page) : 0 + i = i
    OBVIOUS
  <2>3. 0 + Len(page) = Len(page)
    BY <2>1
  <2>4. QED BY <2>1, <2>2, <2>3
<1>5. Pages!ToSet(page) = {page[i] : i \in 1 .. Len(page)}
  BY <1>4 DEF Pages!ToSet
<1>6. Pages!ToSet(page) \subseteq S
  BY <1>4, <1>5
<1>7. CASE Len(page) < size
  <2>1. ASSUME NEW p \in S PROVE p \in Pages!ToSet(page)
    <3>1. PICK i \in 1 .. c : rows[i] = p
      BY <1>2
    <3>2. i \in 1 .. Len(page)
      BY <1>3, <1>4, <1>7, <3>1
    <3>3. QED BY <1>4, <1>5, <3>1, <3>2
  <2>2. QED BY <1>6, <2>1 DEF page
<1>8. CASE Len(page) = size
  <2> DEFINE f == [i \in 1 .. size |-> page[i].id]
  <2>1. ids = {page[i].id : i \in 1 .. size}
    BY <1>5, <1>8
  <2>2. ASSUME NEW i \in 1 .. size, NEW j \in 1 .. size, f[i] = f[j] PROVE i = j
    <3>1. page[i] \in S /\ page[j] \in S /\ page[i].id = page[j].id
      BY <1>4, <1>8, <2>2
    <3>2. rows[i] = rows[j] /\ i \in 1 .. c /\ j \in 1 .. c
      BY <1>3, <1>4, <1>8, <3>1
    <3>3. QED BY <1>1, <3>2
  <2>3. f \in Bijection(1 .. size, ids)
    <3>1. f \in [1 .. size -> ids] /\ \A k \in ids : \E i \in 1 .. size : f[i] = k
      BY <2>1
    <3>2. QED BY <2>2, <3>1 DEF Bijection, Injection, Surjection, IsInjective
  <2>4. IsFiniteSet(1 .. size) /\ Cardinality(1 .. size) = size
    BY FS_Interval
  <2>5. ExistsBijection(1 .. size, ids)
    BY <2>3 DEF ExistsBijection
  <2> HIDE DEF ids
  <2>6. Cardinality(ids) = size
    BY <2>4, <2>5, FS_Bijection
  <2>7. ~ (Cardinality(ids) < size)
    BY <2>6
  <2>8. QED BY <1>6, <2>7 DEF ids, page
<1>9. Len(page) < size \/ Len(page) = size
  BY <1>4
<1>10. QED BY <1>6, <1>7, <1>8, <1>9 DEF page

LEMMA SearchKeepsPages ==
  ASSUME PagesInv, Pages!PagesAssumption, NEW kind, NEW scope, Pages!Search(kind, scope),
         \/ kind = "search_system_packages" /\ scope \in Systems \cup {Pages!NoFilter}
         \/ kind \in {"search_packages", "list_packages"} /\ scope \in Listed \cup {Pages!NoFilter}
  PROVE  PagesInv'
<1> DEFINE M == Pages!Matching(kind, scope)
           size == Pages!SizeOf(kind)
<1>1. /\ task' = "searched"
      /\ UNCHANGED <<products, uploads, packages, dependencies, batches, nextId, offset, got,
                     stayed, pushed, shrank>>
  BY DEF Pages!Search, Pages!tables
<1>2. PICK rows \in Pages!OrderedByName(M) :
        reply' = [kind |-> kind, scope |-> scope,
                  ids |-> {p.id : p \in Pages!Found(kind, Pages!Page(rows, 0, size))},
                  wanted |-> {p.id : p \in Pages!Wanted(kind, scope)}]
  BY DEF Pages!Search
<1> DEFINE page == Pages!Page(rows, 0, size)
<1>3. PageRows
  BY DEF PagesInv
<1>4. M \subseteq packages /\ M = {p \in packages : scope \in {Pages!NoFilter, p.owner}}
  BY DEF Pages!Matching
<1>5. IsFiniteSet(M) /\ Cardinality(M) \in Nat
  BY <1>3, <1>4, PackagesAreFinite, FS_Subset, FS_CardinalityType
<1>6. rows \in Pages!SetToSeqs(M)
  BY <1>2 DEF Pages!OrderedByName
<1>7. size \in Nat
  BY DEF Pages!SizeOf, Pages!PagesAssumption
<1>8. \A p, q \in M : p.id = q.id => p = q
  BY <1>3, <1>4 DEF PageRows
<1> HIDE DEF M, size, page
<1>9. /\ Pages!ToSet(page) \subseteq M
      /\ Cardinality({p.id : p \in Pages!ToSet(page)}) < size => Pages!ToSet(page) = M
  BY <1>5, <1>6, <1>7, <1>8, PageOfRows DEF page
<1>10. ASSUME scope # Pages!NoFilter
       PROVE  Pages!Found(kind, page) = Pages!ToSet(page) /\ Pages!Wanted(kind, scope) = M
  <2> DEFINE kinds == IF kind = "search_system_packages" THEN Systems ELSE Listed
  <2>1. scope \in kinds
    BY <1>10
  <2>2. \A p \in M : p.owner = scope
    BY <1>4, <1>10
  <2>3. Pages!Found(kind, page) = {p \in Pages!ToSet(page) : p.owner \in kinds}
    BY DEF Pages!Found
  <2>4. Pages!Wanted(kind, scope) =
          {p \in packages : p.owner \in kinds /\ scope \in {Pages!NoFilter, p.owner}}
    BY DEF Pages!Wanted
  <2>5. QED BY <1>4, <1>9, <2>1, <2>2, <2>3, <2>4
<1>11. Pages!ScopedPageIsFull'
  <2>1. /\ reply'.kind = kind /\ reply'.scope = scope
        /\ reply'.ids = {p.id : p \in Pages!Found(kind, page)}
        /\ reply'.wanted = {p.id : p \in Pages!Wanted(kind, scope)}
    BY <1>2 DEF page
  <2>2. SUFFICES ASSUME scope # Pages!NoFilter,
                        Cardinality({p.id : p \in Pages!Found(kind, page)}) < size
                 PROVE  Pages!Wanted(kind, scope) = Pages!Found(kind, page)
    BY <2>1, PagesCount DEF Pages!ScopedPageIsFull, size
  <2>3. QED BY <1>9, <1>10, <2>2
<1>12. PageRows' /\ task' \notin {"done", "products", "dependencies"}
  BY <1>1, <1>3 DEF PageRows
<1>13. /\ task' \in {"none", "searched", "done", "products", "dependencies"}
       /\ offset' \in Nat /\ got' \in Seq(Nat) /\ stayed' \in SUBSET Nat
       /\ pushed' \in BOOLEAN /\ shrank' \in BOOLEAN
  BY <1>1 DEF PagesInv
<1>14. QED BY <1>1, <1>11, <1>12, <1>13 DEF PagesInv, ReadInOrder

LEMMA AlwaysPages ==
  ASSUME Pages!PagesAssumption PROVE Pages!Spec => []PagesInv
<1>1. ASSUME Pages!Init PROVE PagesInv
  <2>1. /\ products = {} /\ uploads = {} /\ packages = {} /\ dependencies = {}
        /\ batches = [p \in Processes |-> {}] /\ nextId = 1 /\ task = "none" /\ offset = 0
        /\ got = <<>> /\ stayed = {} /\ pushed = FALSE /\ shrank = FALSE
        /\ reply = Pages!NoReply
    BY <1>1 DEF Pages!Init
  <2>2. PageRows
    BY <2>1 DEF PageRows
  <2>3. Pages!ScopedPageIsFull
    BY <2>1 DEF Pages!NoReply, Pages!ScopedPageIsFull
  <2>4. got \in Seq(Nat)
    BY <2>1
  <2>5. QED BY <2>1, <2>2, <2>3, <2>4 DEF PagesInv, ReadInOrder
<1>2. ASSUME PagesInv, [Pages!Next]_Pages!vars PROVE PagesInv'
  <2>1. CASE \E p \in Listed : Pages!CreateProduct(p) \/ Pages!DeleteProduct(p)
    BY <1>2, <2>1, CreateKeepsPages, DeleteKeepsPages
  <2>2. CASE \E o \in Pages!Owners, p \in Processes : Pages!InsertScan(o, p)
    BY <1>2, <2>2, InsertScanKeepsPages
  <2>3. CASE \E u \in uploads, names \in SUBSET Names : Pages!InsertPackages(u, names)
    BY <1>2, <2>3, PackagesKeepPages
  <2>4. CASE \E u \in uploads : Pages!InsertDependency(u)
    BY <1>2, <2>4, DependencyKeepsPages
  <2>5. CASE \E p \in Processes : Pages!CommitBatch(p) \/ Pages!RollBack(p)
    BY <1>2, <2>5, BatchKeepsPages
  <2>6. CASE \E u \in uploads :
               Pages!DeleteDependencies(u) \/ Pages!DeletePackages(u) \/ Pages!DeleteScan(u)
    BY <1>2, <2>6, DeleteKeepsPages
  <2>7. CASE \E table \in Pages!Paged : Pages!StartPaging(table)
    BY <1>2, <2>7, StartKeepsPages
  <2>8. CASE Pages!NextPage
    BY <1>2, <2>8, NextKeepsPages
  <2>9. CASE Pages!LastPage
    BY <1>2, <2>9, LastKeepsPages
  <2>10. CASE Pages!Printed
    BY <1>2, <2>10, PrintedKeepsPages
  <2>11. CASE Pages!SearchPackages
    <3>1. PICK scope \in Listed \cup {Pages!NoFilter} : Pages!Search("search_packages", scope)
      BY <2>11 DEF Pages!SearchPackages
    <3>2. QED BY <1>2, <3>1, SearchKeepsPages
  <2>12. CASE Pages!SearchSystemPackages
    <3>1. PICK scope \in Systems \cup {Pages!NoFilter} :
            Pages!Search("search_system_packages", scope)
      BY <2>12 DEF Pages!SearchSystemPackages
    <3>2. QED BY <1>2, <3>1, SearchKeepsPages
  <2>13. CASE Pages!ListAllPackages
    <3>1. PICK p \in Listed : Pages!Search("list_packages", p)
      BY <2>13 DEF Pages!ListAllPackages
    <3>2. QED BY <1>2, <3>1, SearchKeepsPages
  <2>14. CASE UNCHANGED Pages!vars
    <3>1. UNCHANGED <<products, uploads, packages, dependencies, batches, nextId, task, offset,
                      got, stayed, pushed, shrank, reply>>
      BY <2>14 DEF Pages!vars, Pages!tables, Pages!reader
    <3>2. PageRows' /\ Pages!ScopedPageIsFull' /\ ReadInOrder'
      BY <1>2, <3>1 DEF PagesInv, PageRows, Pages!ScopedPageIsFull, ReadInOrder
    <3>3. /\ task' \in {"none", "searched", "done", "products", "dependencies"}
          /\ offset' \in Nat /\ got' \in Seq(Nat) /\ stayed' \in SUBSET Nat
          /\ pushed' \in BOOLEAN /\ shrank' \in BOOLEAN
      BY <1>2, <3>1 DEF PagesInv
    <3>4. Pages!Keys(task, products, dependencies)' = Pages!Keys(task, products, dependencies)
      BY <3>1
    <3>5. task \in {"products", "dependencies"} =>
            Paging(Pages!Keys(task, products, dependencies), offset, got, stayed, pushed, shrank)
      BY <1>2 DEF PagesInv
    <3>6. task' \in {"products", "dependencies"} =>
            Paging(Pages!Keys(task, products, dependencies), offset, got, stayed, pushed, shrank)'
      BY <3>1, <3>4, <3>5
    <3>7. task' = "done" =>
            /\ ~shrank' => \A k \in stayed' : \E i \in 1 .. Len(got') : got'[i] = k
            /\ ~pushed' => \A i, j \in 1 .. Len(got') : got'[i] = got'[j] => i = j
      BY <1>2, <3>1 DEF PagesInv
    <3>8. QED BY <3>2, <3>3, <3>6, <3>7 DEF PagesInv
  <2>15. QED BY <1>2, <2>1, <2>2, <2>3, <2>4, <2>5, <2>6, <2>7, <2>8, <2>9, <2>10, <2>11, <2>12,
                <2>13, <2>14 DEF Pages!Next
<1>3. QED BY <1>1, <1>2, PTL DEF Pages!Spec

\* A listing read page by page while nothing is deleted holds every row that was there
\* from its first request to its last: list_products in client.py, and a caller of
\* /query/dependencies (limit and offset in server/api/products.py and queries.py).
THEOREM ListingsLoseNothing ==
  ASSUME Pages!PagesAssumption PROVE Pages!Spec => []Pages!GrowthLosesNothing
<1>1. ASSUME PagesInv PROVE Pages!GrowthLosesNothing
  <2>1. SUFFICES ASSUME task = "done", ~shrank, NEW k \in stayed PROVE k \in Pages!ToSet(got)
    BY DEF Pages!GrowthLosesNothing
  <2>2. PICK i \in 1 .. Len(got) : got[i] = k
    BY <1>1, <2>1 DEF PagesInv
  <2>3. got \in Seq(Nat)
    BY <1>1 DEF PagesInv
  <2>4. QED BY <2>2, <2>3 DEF Pages!ToSet
<1>2. QED BY <1>1, AlwaysPages, PTL

\* One names a row twice only if a row appeared before one it had read, whatever else is
\* inserted and deleted meanwhile.
THEOREM ListingsRepeatNothing ==
  ASSUME Pages!PagesAssumption PROVE Pages!Spec => []Pages!OnlyInsertsRepeat
<1>1. ASSUME PagesInv PROVE Pages!OnlyInsertsRepeat
  <2>1. SUFFICES ASSUME task \in Pages!Paged \cup {"done"}, ~pushed PROVE Pages!IsInjective(got)
    BY DEF Pages!OnlyInsertsRepeat
  <2>2. \A i, j \in 1 .. Len(got) : got[i] = got[j] => i = j
    BY <1>1, <2>1 DEF PagesInv, Paging, Pages!Paged
  <2>3. DOMAIN got = 1 .. Len(got)
    BY <1>1 DEF PagesInv
  <2>4. QED BY <2>2, <2>3 DEF Pages!IsInjective
<1>2. QED BY <1>1, AlwaysPages, PTL

\* With one server process dependencies become visible in the order of their ids, batch by
\* batch: a listing in progress has named none twice, whatever is inserted, rolled back and
\* deleted meanwhile.  With two processes it may, which OnlyInsertsRepeat allows.
THEOREM DependenciesAreListedOnce ==
  ASSUME Pages!PagesAssumption PROVE Pages!Spec => []Pages!DependenciesListedOnce
<1>1. ASSUME PagesInv PROVE Pages!DependenciesListedOnce
  <2>1. SUFFICES ASSUME task = "dependencies", Cardinality(Processes) = 1
                 PROVE  Pages!IsInjective(got)
    BY PagesCount DEF Pages!DependenciesListedOnce
  <2>2. ~pushed
    BY <1>1, <2>1 DEF PagesInv, ReadInOrder
  <2>3. \A i, j \in 1 .. Len(got) : got[i] = got[j] => i = j
    BY <1>1, <2>1, <2>2 DEF PagesInv, Paging
  <2>4. DOMAIN got = 1 .. Len(got)
    BY <1>1 DEF PagesInv
  <2>5. QED BY <2>3, <2>4 DEF Pages!IsInjective
<1>2. QED BY <1>1, AlwaysPages, PTL

\* The statements of search_packages, search_system_packages and list_all_packages cut the
\* page before they join the owners: a search by owner that returns less than a page has
\* still returned all there is.
THEOREM OwnersSearchesAreWhole ==
  ASSUME Pages!PagesAssumption PROVE Pages!Spec => []Pages!ScopedPageIsFull
<1>1. PagesInv => Pages!ScopedPageIsFull
  BY DEF PagesInv
<1>2. QED BY <1>1, AlwaysPages, PTL

----------------------------------------------------------------------------
(* The analysis as a function of the rows of its query.                    *)

CONSTANTS Inventory, MaxHits
VARIABLES hits, analysis

Dedup == INSTANCE VulcanDedup WITH Products <- Inventory

\* What _run_analysis and _build_trackers return for rows.
Result(rows) ==
  [rhel_repos |-> Dedup!Cardinality(Dedup!Filed(rows, "rhel_repos")),
   base_images |-> Dedup!Cardinality(Dedup!Filed(rows, "base_images")),
   layered |-> Dedup!Cardinality(Dedup!Filed(rows, "layered")),
   app_layer |-> Dedup!Cardinality(Dedup!Filed(rows, "app_layer")),
   trackers |-> Dedup!TrackersFor(rows)]

\* Inductive.
DedupInv ==
  /\ \E n \in Nat : hits \in [1 .. n -> Dedup!Rows]
  /\ analysis # None => analysis = Result(hits)

LEMMA DedupCount == \A S : Dedup!Cardinality(S) = Cardinality(S)
<1>1. ASSUME NEW S PROVE Dedup!Cardinality(S) = Cardinality(S)
  BY DEF Dedup!Cardinality, Cardinality
<1>2. QED BY <1>1

\* The first row of a product decides for all of them,
LEMMA FirstOfProduct ==
  ASSUME NEW n \in Nat, NEW rows \in [1 .. n -> Dedup!Rows], NEW i \in 1 .. n
  PROVE  \E k \in Dedup!FirstHits(rows) : rows[k].product = rows[i].product
<1> DEFINE T == {k \in 1 .. n : rows[k].product = rows[i].product}
<1>1. T \in SUBSET Nat /\ T # {}
  OBVIOUS
<1>2. PICK k \in T : \A x \in T : k <= x
  BY <1>1, LeastNatural
<1>3. \A x \in 1 .. k - 1 : x \in 1 .. n /\ ~ (k <= x)
  BY <1>2
<1>4. \A x \in 1 .. k - 1 : rows[x].product # rows[k].product
  BY <1>2, <1>3
<1>5. DOMAIN rows = 1 .. n
  OBVIOUS
<1>6. k \in Dedup!FirstHits(rows)
  BY <1>2, <1>4, <1>5 DEF Dedup!FirstHits
<1>7. QED BY <1>2, <1>6

\* so there are as many first rows as products.
LEMMA FirstsAreProducts ==
  ASSUME NEW n \in Nat, NEW rows \in [1 .. n -> Dedup!Rows]
  PROVE  /\ IsFiniteSet(Dedup!FirstHits(rows)) /\ Dedup!FirstHits(rows) \subseteq 1 .. n
         /\ Cardinality(Dedup!FirstHits(rows)) = Cardinality({rows[i].product : i \in 1 .. n})
<1> DEFINE F == Dedup!FirstHits(rows)
           P == {rows[i].product : i \in 1 .. n}
           f == [i \in F |-> rows[i].product]
<1>1. F \subseteq 1 .. n
  BY DEF Dedup!FirstHits
<1>2. IsFiniteSet(F)
  BY <1>1, FS_Interval, FS_Subset
<1>3. ASSUME NEW i \in F, NEW k \in F, rows[i].product = rows[k].product PROVE i = k
  <2>1. i \in Nat /\ k \in Nat /\ i >= 1 /\ k >= 1
    BY <1>1
  <2>2. /\ \A x \in 1 .. i - 1 : rows[x].product # rows[i].product
        /\ \A x \in 1 .. k - 1 : rows[x].product # rows[k].product
    BY DEF Dedup!FirstHits
  <2>3. ~ (i < k) /\ ~ (k < i)
    BY <1>3, <2>1, <2>2
  <2>4. QED BY <2>1, <2>3
<1>4. \A p \in P : \E i \in F : rows[i].product = p
  <2>1. ASSUME NEW i \in 1 .. n PROVE \E k \in F : rows[k].product = rows[i].product
    BY FirstOfProduct
  <2>2. QED BY <2>1
<1>5. \A i \in F : rows[i].product \in P
  BY <1>1
<1> HIDE DEF F, P
<1>6. f \in Bijection(F, P)
  <2>1. f \in [F -> P] /\ \A p \in P : \E i \in F : f[i] = p
    BY <1>4, <1>5
  <2>2. \A i, k \in F : f[i] = f[k] => i = k
    BY <1>3
  <2>3. QED BY <2>1, <2>2 DEF Bijection, Injection, Surjection, IsInjective
<1>7. ExistsBijection(F, P)
  BY <1>6 DEF ExistsBijection
<1>8. QED BY <1>1, <1>2, <1>7, FS_Bijection DEF F, P

\* Every first row is filed in one category.
LEMMA FiledInOne ==
  ASSUME NEW rows
  PROVE  /\ Dedup!FirstHits(rows) =
              Dedup!Filed(rows, "rhel_repos") \cup Dedup!Filed(rows, "base_images")
                \cup Dedup!Filed(rows, "layered") \cup Dedup!Filed(rows, "app_layer")
         /\ \A c, d : c # d => Dedup!Filed(rows, c) \cap Dedup!Filed(rows, d) = {}
<1>1. ASSUME NEW hit
      PROVE  Dedup!Category(rows, hit) \in {"rhel_repos", "base_images", "layered", "app_layer"}
  <2>1. CASE hit.product.type # "container"
    BY <2>1 DEF Dedup!Category
  <2>2. CASE hit.product.type = "container" /\ hit.product.tool # None
    BY <2>2 DEF Dedup!Category
  <2>3. CASE hit.product.type = "container" /\ hit.product.tool = None /\ hit.product.base # None
    BY <2>3 DEF Dedup!Category
  <2>4. CASE hit.product.type = "container" /\ hit.product.tool = None /\ hit.product.base = None
    BY <2>4 DEF Dedup!Category
  <2>5. QED BY <2>1, <2>2, <2>3, <2>4
<1>2. \A i \in Dedup!FirstHits(rows) :
        Dedup!Category(rows, rows[i]) \in {"rhel_repos", "base_images", "layered", "app_layer"}
  BY <1>1
<1>3. QED BY <1>2 DEF Dedup!Filed

LEMMA ProductsCounted ==
  ASSUME NEW n \in Nat, NEW rows \in [1 .. n -> Dedup!Rows]
  PROVE  Cardinality(Dedup!Filed(rows, "rhel_repos")) + Cardinality(Dedup!Filed(rows, "base_images"))
           + Cardinality(Dedup!Filed(rows, "layered")) + Cardinality(Dedup!Filed(rows, "app_layer"))
           = Cardinality({rows[i].product : i \in 1 .. n})
<1> DEFINE F == Dedup!FirstHits(rows)
           A == Dedup!Filed(rows, "rhel_repos")
           B == Dedup!Filed(rows, "base_images")
           C == Dedup!Filed(rows, "layered")
           D == Dedup!Filed(rows, "app_layer")
<1>1. IsFiniteSet(F) /\ Cardinality(F) = Cardinality({rows[i].product : i \in 1 .. n})
  BY FirstsAreProducts
<1>2. F = A \cup B \cup C \cup D
  BY FiledInOne
<1>3. A \cap B = {} /\ (A \cup B) \cap C = {} /\ (A \cup B \cup C) \cap D = {}
  <2>1. \A c, d : c # d => Dedup!Filed(rows, c) \cap Dedup!Filed(rows, d) = {}
    BY FiledInOne
  <2>2. A \cap B = {} /\ A \cap C = {} /\ B \cap C = {} /\ A \cap D = {} /\ B \cap D = {} /\ C \cap D = {}
    BY <2>1
  <2> HIDE DEF A, B, C, D
  <2>3. QED BY <2>2
<1> HIDE DEF A, B, C, D, F
<1>4. IsFiniteSet(A) /\ IsFiniteSet(B) /\ IsFiniteSet(C) /\ IsFiniteSet(D)
  BY <1>1, <1>2, FS_Subset
<1>5. /\ Cardinality(A) \in Nat /\ Cardinality(B) \in Nat /\ Cardinality(C) \in Nat
      /\ Cardinality(D) \in Nat
  BY <1>4, FS_CardinalityType
<1>6. ASSUME NEW S, NEW T, IsFiniteSet(S), IsFiniteSet(T), S \cap T = {}
      PROVE  IsFiniteSet(S \cup T) /\ Cardinality(S \cup T) = Cardinality(S) + Cardinality(T)
  <2>1. /\ IsFiniteSet(S \cup T)
        /\ Cardinality(S \cup T) = Cardinality(S) + Cardinality(T) - Cardinality(S \cap T)
    BY <1>6, FS_Union
  <2>2. Cardinality(S \cap T) = 0
    BY <1>6, FS_EmptySet
  <2>3. Cardinality(S) \in Nat /\ Cardinality(T) \in Nat
    BY <1>6, FS_CardinalityType
  <2>4. QED BY <2>1, <2>2, <2>3
<1>7. IsFiniteSet(A \cup B) /\ Cardinality(A \cup B) = Cardinality(A) + Cardinality(B)
  BY <1>3, <1>4, <1>6
<1>8. /\ IsFiniteSet(A \cup B \cup C)
      /\ Cardinality(A \cup B \cup C) = Cardinality(A \cup B) + Cardinality(C)
  BY <1>3, <1>4, <1>6, <1>7
<1>9. Cardinality(A \cup B \cup C \cup D) = Cardinality(A \cup B \cup C) + Cardinality(D)
  BY <1>3, <1>4, <1>6, <1>8
<1>10. QED BY <1>1, <1>2, <1>5, <1>7, <1>8, <1>9 DEF A, B, C, D

LEMMA AtMostOne ==
  ASSUME NEW S, IsFiniteSet(S), Cardinality(S) <= 1, NEW x \in S, NEW y \in S
  PROVE  x = y
<1> SUFFICES ASSUME x # y PROVE FALSE
  OBVIOUS
<1>1. IsFiniteSet({x}) /\ Cardinality({x}) = 1
  BY FS_Singleton
<1>2. Cardinality({x} \cup {y}) = 2
  BY <1>1, FS_AddElement
<1>3. {x} \cup {y} \subseteq S
  OBVIOUS
<1>4. Cardinality({x} \cup {y}) <= Cardinality(S)
  BY <1>3, FS_Subset
<1>5. Cardinality(S) \in Nat
  BY FS_CardinalityType
<1>6. QED BY <1>2, <1>4, <1>5

LEMMA MatchesAreFinite ==
  ASSUME NEW n \in Nat, NEW rows \in [1 .. n -> Dedup!Rows], NEW p
  PROVE  IsFiniteSet(Dedup!Matches(rows, p))
<1> DEFINE L == Dedup!Filed(rows, "layered")
           S == Dedup!Sources(rows)
           f == [i \in L |-> Dedup!BaseSource(rows, rows[i])]
<1>1. IsFiniteSet(L)
  <2>1. IsFiniteSet(Dedup!FirstHits(rows))
    BY FirstsAreProducts
  <2>2. L \subseteq Dedup!FirstHits(rows)
    BY DEF Dedup!Filed
  <2>3. QED BY <2>1, <2>2, FS_Subset
<1>2. S = {Dedup!BaseSource(rows, rows[i]) : i \in L}
  BY DEF Dedup!Sources
<1>3. f \in Surjection(L, S)
  <2> HIDE DEF L, S
  <2>1. QED BY <1>2 DEF Surjection
<1>4. IsFiniteSet(S)
  BY <1>1, <1>3, FS_Surjection
<1>5. Dedup!Matches(rows, p) \subseteq S
  BY DEF Dedup!Matches
<1>6. QED BY <1>4, <1>5, FS_Subset

\* The only match is the last one.
LEMMA OnlyMatch ==
  ASSUME NEW n \in Nat, NEW rows \in [1 .. n -> Dedup!Rows], NEW p, NEW s,
         Dedup!Matches(rows, p) = {s}
  PROVE  Dedup!LastMatch(rows, p) = s
<1> DEFINE C == Dedup!Children(rows, s)
           since(t) == CHOOSE i \in Dedup!Children(rows, t) :
                         \A k \in Dedup!Children(rows, t) : i <= k
<1>1. s \in Dedup!Sources(rows)
  BY DEF Dedup!Matches
<1>2. C # {}
  BY <1>1 DEF Dedup!Sources, Dedup!Children
<1>3. C \in SUBSET Nat
  <2>1. Dedup!FirstHits(rows) \subseteq 1 .. n
    BY FirstsAreProducts
  <2>2. C \subseteq Dedup!FirstHits(rows)
    BY DEF Dedup!Children, Dedup!Filed
  <2> HIDE DEF C
  <2>3. QED BY <2>1, <2>2
<1>4. \E i \in C : \A k \in C : i <= k
  BY <1>2, <1>3, LeastNatural
<1>5. since(s) \in C
  BY <1>4
<1>6. since(s) \in Nat
  BY <1>3, <1>5
<1> HIDE DEF C
<1>7. Dedup!LastMatch(rows, p) =
        CHOOSE t \in Dedup!Matches(rows, p) : \A u \in Dedup!Matches(rows, p) : since(u) <= since(t)
  BY DEF Dedup!LastMatch
<1> HIDE DEF since
<1>8. Dedup!LastMatch(rows, p) = CHOOSE t \in {s} : \A u \in {s} : since(u) <= since(t)
  BY <1>7
<1>9. \E t \in {s} : \A u \in {s} : since(u) <= since(t)
  BY <1>6
<1>10. (CHOOSE t \in {s} : \A u \in {s} : since(u) <= since(t)) \in {s}
  BY <1>9, Zenon
<1>11. QED BY <1>8, <1>10

\* A row built on a base is covered by the tracker of its source: that of the base
\* image that matches it, or one for an image that was not scanned.
LEMMA RowCoveredOnce ==
  ASSUME NEW n \in Nat, NEW rows \in [1 .. n -> Dedup!Rows],
         Cardinality(Dedup!Filed(rows, "base_images")) <= 1,
         \A b \in Dedup!Filed(rows, "base_images") :
           Cardinality(Dedup!Matches(rows, rows[b].product)) <= 1,
         NEW i \in Dedup!Filed(rows, "layered")
  PROVE  Cardinality({t \in Dedup!TrackersFor(rows) : i \in t.covers}) = 1
<1> DEFINE s == Dedup!BaseSource(rows, rows[i])
           B == Dedup!Filed(rows, "base_images")
           covering == {t \in Dedup!TrackersFor(rows) : i \in t.covers}
<1>1. /\ s \in Dedup!Sources(rows)
      /\ \A t : i \in Dedup!Children(rows, t) <=> t = s
  BY DEF Dedup!Sources, Dedup!Children
<1>2. \A b, c \in B : b = c
  <2>1. IsFiniteSet(B)
    <3>1. B \subseteq Dedup!FirstHits(rows)
      BY DEF Dedup!Filed
    <3>2. QED BY <3>1, FirstsAreProducts, FS_Subset
  <2> HIDE DEF B
  <2>2. Cardinality(B) <= 1
    BY DEF B
  <2>3. QED BY <2>1, <2>2, AtMostOne
<1>3. ASSUME NEW b \in B, NEW t \in Dedup!Matches(rows, rows[b].product)
      PROVE  /\ Dedup!BaseTracker(rows, b).covers = Dedup!Children(rows, t)
             /\ t \notin Dedup!Unmatched(rows)
  <2> DEFINE M == Dedup!Matches(rows, rows[b].product)
  <2>1. IsFiniteSet(M) /\ Cardinality(M) <= 1
    BY MatchesAreFinite
  <2>2. \A u \in M : u = t
    BY <2>1, AtMostOne
  <2>3. M = {t}
    BY <2>2
  <2>4. Dedup!LastMatch(rows, rows[b].product) = t
    BY <2>3, OnlyMatch
  <2>5. Dedup!BaseTracker(rows, b).covers = Dedup!Children(rows, t)
    BY <2>3, <2>4 DEF Dedup!BaseTracker
  <2>6. t \notin Dedup!Unmatched(rows)
    BY DEF Dedup!Matches, Dedup!Unmatched
  <2>7. QED BY <2>5, <2>6
<1>4. ASSUME NEW b \in B, Dedup!Matches(rows, rows[b].product) = {}
      PROVE  Dedup!BaseTracker(rows, b).covers = {}
  BY <1>4 DEF Dedup!BaseTracker
<1>5. /\ \A x : Dedup!UnscannedTracker(rows, x).covers = Dedup!Children(rows, x)
      /\ \A x : Dedup!AppTracker(rows, x).covers = {}
  BY DEF Dedup!UnscannedTracker, Dedup!AppTracker
<1>6. Dedup!TrackersFor(rows) =
        {Dedup!BaseTracker(rows, b) : b \in B}
          \cup {Dedup!UnscannedTracker(rows, x) : x \in Dedup!Unmatched(rows)}
          \cup {Dedup!AppTracker(rows, x) : x \in Dedup!Filed(rows, "app_layer")}
  BY DEF Dedup!TrackersFor
<1> HIDE DEF s, B
<1>7. CASE s \in Dedup!Unmatched(rows)
  <2>1. ASSUME NEW b \in B PROVE i \notin Dedup!BaseTracker(rows, b).covers
    <3>1. CASE Dedup!Matches(rows, rows[b].product) = {}
      BY <1>4, <3>1
    <3>2. CASE Dedup!Matches(rows, rows[b].product) # {}
      <4>1. PICK t \in Dedup!Matches(rows, rows[b].product) : TRUE
        BY <3>2
      <4>2. /\ Dedup!BaseTracker(rows, b).covers = Dedup!Children(rows, t)
            /\ t \notin Dedup!Unmatched(rows)
        BY <1>3
      <4>3. QED BY <1>1, <1>7, <4>2
    <3>3. QED BY <3>1, <3>2
  <2>2. covering = {Dedup!UnscannedTracker(rows, s)}
    BY <1>1, <1>5, <1>6, <1>7, <2>1
  <2>3. QED BY <2>2, FS_Singleton
<1>8. CASE s \notin Dedup!Unmatched(rows)
  <2>1. PICK b \in B : s \in Dedup!Matches(rows, rows[b].product)
    BY <1>1, <1>8 DEF Dedup!Unmatched, Dedup!Matches, B
  <2>2. i \in Dedup!BaseTracker(rows, b).covers
    BY <1>1, <1>3, <2>1
  <2>3. covering = {Dedup!BaseTracker(rows, b)}
    BY <1>1, <1>2, <1>5, <1>6, <1>8, <2>2
  <2>4. QED BY <2>3, FS_Singleton
<1>9. QED BY <1>7, <1>8

LEMMA AlwaysDedup == ASSUME Dedup!VulcanAssumption PROVE Dedup!Spec => []DedupInv
<1>1. ASSUME Dedup!Init PROVE DedupInv
  <2>1. PICK n \in 0 .. MaxHits : hits \in [1 .. n -> {r \in Dedup!Rows : Dedup!Possible(r)}]
    BY <1>1 DEF Dedup!Init
  <2>2. n \in Nat /\ hits \in [1 .. n -> Dedup!Rows]
    BY <2>1 DEF Dedup!VulcanAssumption
  <2>3. QED BY <1>1, <2>2 DEF Dedup!Init, DedupInv
<1>2. ASSUME DedupInv, [Dedup!Next]_(Dedup!vars) PROVE DedupInv'
  <2>1. CASE Dedup!Analyze
    <3>1. hits' = hits /\ analysis' = Result(hits)
      BY <2>1 DEF Dedup!Analyze, Result
    <3>2. Result(hits)' = Result(hits)
      BY <3>1
    <3>3. QED BY <1>2, <3>1, <3>2 DEF DedupInv
  <2>2. CASE UNCHANGED Dedup!vars
    <3>1. hits' = hits /\ analysis' = analysis
      BY <2>2 DEF Dedup!vars
    <3>2. Result(hits)' = Result(hits)
      BY <3>1
    <3>3. QED BY <1>2, <3>1, <3>2 DEF DedupInv
  <2>3. QED BY <1>2, <2>1, <2>2 DEF Dedup!Next, Dedup!Stored
<1>3. QED BY <1>1, <1>2, PTL DEF Dedup!Spec

\* Every affected product is counted once and in one category, in whatever order the
\* database returns the rows (_run_analysis).
THEOREM ProductsAreCountedOnce ==
  ASSUME Dedup!VulcanAssumption PROVE Dedup!Spec => []Dedup!EachProductOnce
<1>1. ASSUME DedupInv PROVE Dedup!EachProductOnce
  <2>1. SUFFICES ASSUME analysis # None
                 PROVE  analysis.rhel_repos + analysis.base_images + analysis.layered
                          + analysis.app_layer = Cardinality(Dedup!Affected)
    BY DedupCount DEF Dedup!EachProductOnce
  <2>2. PICK n \in Nat : hits \in [1 .. n -> Dedup!Rows]
    BY <1>1 DEF DedupInv
  <2>3. Dedup!Affected = {hits[i].product : i \in 1 .. n}
    BY <2>2 DEF Dedup!Affected
  <2>4. /\ analysis.rhel_repos = Cardinality(Dedup!Filed(hits, "rhel_repos"))
        /\ analysis.base_images = Cardinality(Dedup!Filed(hits, "base_images"))
        /\ analysis.layered = Cardinality(Dedup!Filed(hits, "layered"))
        /\ analysis.app_layer = Cardinality(Dedup!Filed(hits, "app_layer"))
    BY <1>1, <2>1, DedupCount DEF DedupInv, Result
  <2>5. QED BY <2>2, <2>3, <2>4, ProductsCounted
<1>2. QED BY <1>1, AlwaysDedup, PTL

\* Where at most one base image is affected, and its name matches at most one group, each
\* container built on a base is covered by exactly one tracker (_build_trackers).
THEOREM ContainersAreCoveredOnce ==
  ASSUME Dedup!VulcanAssumption PROVE Dedup!Spec => []Dedup!LayeredCoveredOnce
<1>1. ASSUME DedupInv PROVE Dedup!LayeredCoveredOnce
  <2>1. PICK n \in Nat : hits \in [1 .. n -> Dedup!Rows]
    BY <1>1 DEF DedupInv
  <2>2. Dedup!Scanned = Dedup!Filed(hits, "base_images")
    BY DEF Dedup!Scanned, Dedup!Filed, Dedup!FirstHits
  <2>3. SUFFICES ASSUME analysis # None,
                        Cardinality(Dedup!Filed(hits, "base_images")) <= 1,
                        \A b \in Dedup!Filed(hits, "base_images") :
                          Cardinality(Dedup!Matches(hits, hits[b].product)) <= 1,
                        NEW i \in Dedup!Filed(hits, "layered")
                 PROVE  Cardinality(Dedup!Covering(i)) = 1
    BY <2>2, DedupCount DEF Dedup!LayeredCoveredOnce, Dedup!Layered
  <2>4. Dedup!Covering(i) = {t \in Dedup!TrackersFor(hits) : i \in t.covers}
    BY <1>1, <2>3 DEF Dedup!Covering, DedupInv, Result
  <2>5. QED BY <2>1, <2>3, <2>4, RowCoveredOnce
<1>2. QED BY <1>1, AlwaysDedup, PTL

----------------------------------------------------------------------------
(* The marks of base images: ImageLayers, with one scan of a product at a  *)
(* time.                                                                   *)

CONSTANTS Catalog, Images, Forms, Together, MaxScans, MaxRuns
VARIABLES scans, layers, sources, marking, fresh, runs

Marks == INSTANCE ImageLayers WITH Products <- Catalog, packages <- sources, plan <- marking

Chains == {f.chain : f \in Forms}
StoredScan == [product : Marks!Range(Catalog), chain : Chains, by : {f.by : f \in Forms},
               rows : {f.rows : f \in Forms}, live : BOOLEAN]
Uploaded(scan) ==
  \E f \in Forms : scan.chain = f.chain /\ scan.by = f.by /\ scan.rows = f.rows
Tag == Images \cup {None}
LayerKeys == UNION {{s} \X DOMAIN scans[s].rows : s \in Marks!Live}
PackageKeys == UNION {{s} \X DOMAIN scans[s].chain : s \in Marks!Live}

MarkTypes ==
  /\ scans \in Seq(StoredScan) /\ Len(scans) <= MaxScans
  /\ \A s \in 1 .. Len(scans) : Uploaded(scans[s])
  /\ layers \in [LayerKeys -> Marks!Row]
  /\ sources \in [PackageKeys -> Tag]
  /\ DOMAIN marking = Clients /\ marking = [c \in Clients |-> marking[c]]

OneEach ==
  \A s, t \in Marks!Live : scans[s].product = scans[t].product => s = t

\* A plan may be out of date, but a scan it marks had the layers it read, and those of
\* a base, which some scan had, are the first of them.
Prefix(short, long) ==
  Len(short) < Len(long) /\ \A i \in 1 .. Len(short) : long[i] = short[i]
PlanSound(todo) ==
  /\ todo \in [DOMAIN todo -> [base : Marks!Range(Catalog), below : Chains]]
  /\ DOMAIN todo \subseteq 1 .. Len(scans)
  /\ \A s \in DOMAIN todo :
       /\ Prefix(todo[s].below, scans[s].chain)
       /\ \E t \in 1 .. Len(scans) :
            todo[s].base = scans[t].product /\ todo[s].below = scans[t].chain
PlansSound == \A c \in Clients : marking[c] # None => PlanSound(marking[c])

\* What a row says is its client's word or comes from a scan there was.
Grounded(k) ==
  \/ layers[k] = scans[k[1]].rows[k[2]]
  \/ \E t \in 1 .. Len(scans) :
       /\ layers[k] = [base |-> TRUE, image |-> scans[t].product]
       /\ Marks!StrictlyPrefixes(scans[t].chain, scans[k[1]].chain)
       /\ scans[k[1]].chain[k[2]] \in Marks!Range(scans[t].chain)
RowsGrounded == \A k \in LayerKeys : Grounded(k)

\* A base that shares the most layers with a scan.
Widest(s, u) ==
  /\ u \in Marks!Bases(s)
  /\ \A t \in Marks!Bases(s) : Len(scans[t].chain) <= Len(scans[u].chain)

\* A plan that was read since the last change, and what it leaves behind.
UpToDate(todo) ==
  /\ \A s \in Marks!Live : Marks!Bases(s) # {} => s \in DOMAIN todo
  /\ \A s \in DOMAIN todo : \E u \in Marks!Live :
       Widest(s, u) /\ todo[s].base = scans[u].product /\ todo[s].below = scans[u].chain
MarkedWith(s, u) ==
  \A i \in 1 .. Len(scans[u].chain) :
    /\ layers[<<s, i>>] = [base |-> TRUE, image |-> scans[u].product]
    /\ Marks!Found(s, i) => sources[<<s, i>>] = scans[u].product
AllMarked ==
  \A s \in Marks!Live : Marks!Bases(s) # {} =>
    \E u \in Marks!Live : Widest(s, u) /\ MarkedWith(s, u)

MarksCurrent ==
  fresh => /\ \A c \in Clients : marking[c] # None => UpToDate(marking[c])
           /\ (\A c \in Clients : marking[c] = None) => AllMarked

\* Inductive.
MarkInv == MarkTypes /\ OneEach /\ PlansSound /\ RowsGrounded /\ MarksCurrent

LEMMA MarkFacts ==
  ASSUME Marks!LayersAssumption
  PROVE  /\ Together \in Nat /\ MaxScans \in Nat
         /\ Catalog \in Seq(Marks!Range(Catalog)) /\ None \notin Marks!Range(Catalog)
         /\ Marks!Range(Catalog) \subseteq Images
         /\ \A x \in Chains :
              x \in Seq(Marks!Range(x)) /\ Len(x) \in Nat /\ Len(x) # 0 /\ DOMAIN x = 1 .. Len(x)
         /\ \A f \in Forms :
              /\ f.chain \in Chains /\ DOMAIN f.chain # {}
              /\ f.by \in [DOMAIN f.chain -> {"digest", "index", "none"}]
              /\ f.rows = <<>> \/ f.rows \in [DOMAIN f.chain -> Marks!Row]
              /\ f.tags \in [DOMAIN f.chain -> Tag]
<1>1. ASSUME NEW x \in Chains
      PROVE  x \in Seq(Marks!Range(x)) /\ Len(x) \in Nat /\ Len(x) # 0 /\ DOMAIN x = 1 .. Len(x)
  <2>1. x \in Seq(Marks!Range(x)) /\ x # <<>>
    BY DEF Marks!LayersAssumption, Chains
  <2>2. QED BY <2>1
<1>2. ASSUME NEW f \in Forms
      PROVE  /\ f.chain \in Chains /\ DOMAIN f.chain # {}
             /\ f.by \in [DOMAIN f.chain -> {"digest", "index", "none"}]
             /\ f.rows = <<>> \/ f.rows \in [DOMAIN f.chain -> Marks!Row]
             /\ f.tags \in [DOMAIN f.chain -> Tag]
  <2>1. f.chain \in Chains
    BY DEF Chains
  <2>2. DOMAIN f.chain # {}
    <3>1. PICK x \in Chains : x = f.chain
      BY <2>1
    <3>2. 1 \in 1 .. Len(x) /\ DOMAIN x = 1 .. Len(x)
      BY <1>1
    <3>3. QED BY <3>1, <3>2
  <2>3. QED BY <2>1, <2>2 DEF Marks!LayersAssumption, Tag
<1>3. QED BY <1>1, <1>2 DEF Marks!LayersAssumption

LEMMA MarkCount == \A S : Marks!Cardinality(S) = Cardinality(S)
<1>1. ASSUME NEW S PROVE Marks!Cardinality(S) = Cardinality(S)
  BY DEF Marks!Cardinality, Cardinality
<1>2. QED BY <1>1

\* The scans there are.
LEMMA StoredScans ==
  ASSUME Marks!LayersAssumption, MarkTypes
  PROVE  /\ Len(scans) \in Nat /\ DOMAIN scans = 1 .. Len(scans)
         /\ \A s \in 1 .. Len(scans) :
              /\ scans[s].product \in Marks!Range(Catalog) /\ scans[s].chain \in Chains
              /\ scans[s].by \in [DOMAIN scans[s].chain -> {"digest", "index", "none"}]
              /\ scans[s].rows = <<>> => DOMAIN scans[s].rows = {}
              /\ scans[s].rows # <<>> => DOMAIN scans[s].rows = DOMAIN scans[s].chain
              /\ scans[s].live \in BOOLEAN
              /\ Len(scans[s].chain) \in Nat
              /\ DOMAIN scans[s].chain = 1 .. Len(scans[s].chain)
         /\ \A s : s \in Marks!Live <=> s \in 1 .. Len(scans) /\ scans[s].live
<1>1. Len(scans) \in Nat /\ DOMAIN scans = 1 .. Len(scans)
  BY DEF MarkTypes
<1>2. ASSUME NEW s \in 1 .. Len(scans)
      PROVE  /\ scans[s].product \in Marks!Range(Catalog) /\ scans[s].chain \in Chains
             /\ scans[s].by \in [DOMAIN scans[s].chain -> {"digest", "index", "none"}]
             /\ scans[s].rows = <<>> => DOMAIN scans[s].rows = {}
             /\ scans[s].rows # <<>> => DOMAIN scans[s].rows = DOMAIN scans[s].chain
             /\ scans[s].live \in BOOLEAN
             /\ Len(scans[s].chain) \in Nat
             /\ DOMAIN scans[s].chain = 1 .. Len(scans[s].chain)
  <2>1. scans[s] \in StoredScan
    BY <1>1 DEF MarkTypes
  <2>2. PICK f \in Forms :
          scans[s].chain = f.chain /\ scans[s].by = f.by /\ scans[s].rows = f.rows
    BY DEF MarkTypes, Uploaded
  <2>3. /\ f.chain \in Chains
        /\ f.by \in [DOMAIN f.chain -> {"digest", "index", "none"}]
        /\ f.rows = <<>> \/ f.rows \in [DOMAIN f.chain -> Marks!Row]
    BY MarkFacts
  <2>4. Len(f.chain) \in Nat /\ DOMAIN f.chain = 1 .. Len(f.chain)
    BY <2>3, MarkFacts
  <2>5. f.rows = <<>> => DOMAIN f.rows = {}
    OBVIOUS
  <2>6. f.rows # <<>> => DOMAIN f.rows = DOMAIN f.chain
    BY <2>3
  <2>7. scans[s].product \in Marks!Range(Catalog) /\ scans[s].live \in BOOLEAN
    BY <2>1 DEF StoredScan
  <2>8. QED BY <2>2, <2>3, <2>4, <2>5, <2>6, <2>7
<1>3. QED BY <1>1, <1>2 DEF Marks!Live

LEMMA LayerKeysAre ==
  /\ \A s, i : <<s, i>> \in LayerKeys <=> s \in Marks!Live /\ i \in DOMAIN scans[s].rows
  /\ \A k \in LayerKeys : k = <<k[1], k[2]>>
  /\ \A s, i : <<s, i>> \in PackageKeys <=> s \in Marks!Live /\ i \in DOMAIN scans[s].chain
  /\ \A k \in PackageKeys : k = <<k[1], k[2]>>
BY DEF LayerKeys, PackageKeys

\* A product with one scan: its rows are that scan's layers, in their order.
LEMMA MergedAlone ==
  ASSUME Marks!LayersAssumption, MarkTypes, OneEach, NEW s \in Marks!Live, scans[s].rows # <<>>
  PROVE  /\ Marks!Layered(scans[s].product) = {s}
         /\ Marks!MergedFrom(scans[s].product, s) = scans[s].chain
<1> DEFINE p == scans[s].product
           x == scans[s].chain
           n == Len(x)
           R == Marks!RowsOf(p)
           upto(r) == {q \in R : Marks!NotAfter(q, r, s)}
<1>1. /\ s \in 1 .. Len(scans) /\ x \in Chains
      /\ n \in Nat /\ DOMAIN x = 1 .. n /\ x = [i \in 1 .. n |-> x[i]]
  <2>1. s \in 1 .. Len(scans) /\ x \in Chains
    BY StoredScans
  <2>2. x \in Seq(Marks!Range(x)) /\ n \in Nat /\ DOMAIN x = 1 .. n
    BY <2>1, MarkFacts
  <2> HIDE DEF x, n
  <2>3. x = [i \in 1 .. n |-> x[i]]
    BY <2>2
  <2>4. QED BY <2>1, <2>2, <2>3
<1>2. Marks!Layered(p) = {s}
  BY DEF Marks!Layered, Marks!ScansOf, OneEach
<1>3. R = {<<i, s>> : i \in 1 .. n}
  <2>1. R = (DOMAIN x) \X {s}
    BY <1>2 DEF Marks!RowsOf
  <2>2. QED BY <1>1, <2>1
<1> HIDE DEF p, x, n, R
<1>4. ASSUME NEW m \in Nat
      PROVE  LET T == {<<j, s>> : j \in 1 .. m}
             IN  IsFiniteSet(T) /\ Cardinality(T) = m
  <2> DEFINE T == {<<j, s>> : j \in 1 .. m}
             f == [j \in 1 .. m |-> <<j, s>>]
  <2>1. IsFiniteSet(1 .. m) /\ Cardinality(1 .. m) = m
    <3>1. Cardinality(1 .. m) = IF 1 > m THEN 0 ELSE m - 1 + 1
      BY FS_Interval
    <3>2. IsFiniteSet(1 .. m)
      BY FS_Interval
    <3>3. QED BY <3>1, <3>2
  <2>2. f \in Bijection(1 .. m, T)
    <3>1. f \in [1 .. m -> T]
      OBVIOUS
    <3>2. \A i, j \in 1 .. m : f[i] = f[j] => i = j
      OBVIOUS
    <3>3. \A t \in T : \E j \in 1 .. m : f[j] = t
      OBVIOUS
    <3> HIDE DEF f, T
    <3>4. QED BY <3>1, <3>2, <3>3 DEF Bijection, Injection, Surjection, IsInjective
  <2> HIDE DEF f, T
  <2>3. ExistsBijection(1 .. m, T)
    BY <2>2 DEF ExistsBijection
  <2>4. IsFiniteSet(T) /\ Cardinality(T) = m
    BY <2>1, <2>3, FS_Bijection
  <2>5. QED BY <2>4 DEF T
<1>5. ASSUME NEW i \in 1 .. n PROVE Cardinality(upto(<<i, s>>)) = i
  <2>1. upto(<<i, s>>) = {<<j, s>> : j \in 1 .. i}
    <3>1. ASSUME NEW q \in upto(<<i, s>>) PROVE q \in {<<j, s>> : j \in 1 .. i}
      <4>1. PICK j \in 1 .. n : q = <<j, s>>
        BY <1>3
      <4>2. j <= i
        BY <1>1, <4>1 DEF Marks!NotAfter
      <4>3. QED BY <1>1, <4>1, <4>2
    <3>2. ASSUME NEW j \in 1 .. i PROVE <<j, s>> \in upto(<<i, s>>)
      <4>1. j \in 1 .. n /\ (j < i \/ j = i)
        BY <1>1
      <4>2. QED BY <1>3, <4>1 DEF Marks!NotAfter
    <3>3. QED BY <3>1, <3>2
  <2>2. i \in Nat
    BY <1>1
  <2>3. QED BY <1>4, <2>1, <2>2
<1>6. Cardinality(R) = n
  BY <1>1, <1>3, <1>4
<1> DEFINE place == [m \in 1 .. n |-> CHOOSE r \in R : Cardinality(upto(r)) = m]
<1>7. ASSUME NEW m \in 1 .. n PROVE place[m] = <<m, s>>
  <2>1. <<m, s>> \in R /\ Cardinality(upto(<<m, s>>)) = m
    BY <1>3, <1>5
  <2>2. \A r \in R : Cardinality(upto(r)) = m => r = <<m, s>>
    BY <1>3, <1>5
  <2> HIDE DEF upto
  <2>3. QED BY <2>1, <2>2
<1>8. Marks!MergedFrom(p, s)
        = [m \in 1 .. n |->
             LET r == CHOOSE r \in R : Marks!Cardinality(upto(r)) = m
             IN  scans[r[2]].chain[r[1]]]
  BY <1>6, MarkCount DEF Marks!MergedFrom, R
<1>9. \A m \in 1 .. n :
        (CHOOSE r \in R : Marks!Cardinality(upto(r)) = m) = place[m]
  <2>1. ASSUME NEW m \in 1 .. n
        PROVE  (CHOOSE r \in R : Marks!Cardinality(upto(r)) = m)
                 = (CHOOSE r \in R : Cardinality(upto(r)) = m)
    BY MarkCount, Zenon
  <2> HIDE DEF upto
  <2>2. QED BY <2>1
<1> HIDE DEF place, upto
<1>10. Marks!MergedFrom(p, s)
         = [m \in 1 .. n |-> scans[place[m][2]].chain[place[m][1]]]
  BY <1>8, <1>9
<1>11. ASSUME NEW m \in 1 .. n PROVE scans[place[m][2]].chain[place[m][1]] = x[m]
  BY <1>7 DEF x
<1>12. Marks!MergedFrom(p, s) = [m \in 1 .. n |-> x[m]]
  BY <1>10, <1>11
<1>13. QED BY <1>1, <1>2, <1>12 DEF p, x

LEMMA PrefixesAre ==
  ASSUME Marks!LayersAssumption, NEW x \in Chains, NEW y \in Chains
  PROVE  Marks!StrictlyPrefixes(x, y) <=> Prefix(x, y)
<1>1. /\ Len(x) \in Nat /\ x \in Seq(Marks!Range(x)) /\ DOMAIN x = 1 .. Len(x)
      /\ Len(y) \in Nat /\ y \in Seq(Marks!Range(y))
  BY MarkFacts
<1>2. SubSeq(y, 1, Len(x)) = [i \in 1 .. Len(x) |-> y[i]]
  BY <1>1
<1>3. x = [i \in 1 .. Len(x) |-> x[i]]
  BY <1>1
<1>4. SubSeq(y, 1, Len(x)) = x <=> \A i \in 1 .. Len(x) : y[i] = x[i]
  BY <1>2, <1>3
<1>5. QED BY <1>4 DEF Marks!StrictlyPrefixes, Prefix

LEMMA BasesAre ==
  ASSUME Marks!LayersAssumption, MarkTypes, NEW s \in Marks!Live
  PROVE  Marks!Bases(s)
           = {t \in Marks!Live : /\ scans[s].rows # <<>> /\ scans[t].rows # <<>>
                                 /\ scans[t].product # scans[s].product
                                 /\ Prefix(scans[t].chain, scans[s].chain)}
<1>1. ASSUME NEW t \in Marks!Live
      PROVE  Marks!StrictlyPrefixes(scans[t].chain, scans[s].chain)
               <=> Prefix(scans[t].chain, scans[s].chain)
  BY StoredScans, PrefixesAre
<1>2. QED BY <1>1 DEF Marks!Bases

\* The best base is None when no chain is a strict prefix, and otherwise one of the
\* longest that are: the order of the names leaves one choice.
LEMMA BestIs ==
  ASSUME Marks!LayersAssumption, NEW C, DOMAIN C \subseteq Marks!Range(Catalog),
         \A q \in DOMAIN C : C[q] \in Chains, NEW p \in DOMAIN C
  PROVE  LET found == {q \in DOMAIN C \ {p} : Prefix(C[q], C[p])}
         IN  /\ found = {} => Marks!BestBase(C, p) = None
             /\ found # {} => /\ Marks!BestBase(C, p) \in found
                              /\ \A r \in found : Len(C[r]) <= Len(C[Marks!BestBase(C, p)])
<1> DEFINE found == {q \in DOMAIN C \ {p} : Prefix(C[q], C[p])}
           sought == {q \in DOMAIN C \ {p} : Marks!StrictlyPrefixes(C[q], C[p])}
           wins(q, r) == \/ Len(C[r]) < Len(C[q])
                         \/ Len(C[r]) = Len(C[q]) /\ Marks!Before(q, r)
           best == Marks!BestBase(C, p)
<1>1. sought = found
  BY PrefixesAre
<1>2. \A q \in DOMAIN C : Len(C[q]) \in Nat /\ Len(C[q]) # 0
  BY MarkFacts
<1>3. found # {} => ~ (Len(C[p]) < 2)
  <2>1. ASSUME NEW q \in found PROVE ~ (Len(C[p]) < 2)
    <3>1. Len(C[q]) < Len(C[p])
      BY DEF Prefix
    <3>2. QED BY <1>2, <3>1
  <2>2. QED BY <2>1
<1>4. best = IF Len(C[p]) < 2 \/ sought = {} THEN None
             ELSE CHOOSE q \in sought : \A r \in sought \ {q} : wins(q, r)
  BY DEF Marks!BestBase
<1>5. ASSUME found # {}
      PROVE  \E q \in found : \A r \in found \ {q} : wins(q, r)
  <2> HIDE DEF found
  <2>1. found \subseteq DOMAIN C /\ \A q \in found : Len(C[q]) \in Nat /\ Len(C[q]) < Len(C[p])
    BY <1>2 DEF found, Prefix
  <2>2. Len(C[p]) \in Nat
    BY <1>2
  <2> DEFINE gaps == {Len(C[p]) - Len(C[q]) : q \in found}
  <2>3. gaps \in SUBSET Nat /\ gaps # {}
    BY <1>5, <2>1, <2>2
  <2>4. PICK g \in gaps : \A h \in gaps : g <= h
    <3> HIDE DEF gaps
    <3>1. QED BY <2>3, LeastNatural
  <2>5. PICK q \in found : g = Len(C[p]) - Len(C[q])
    BY <2>4
  <2>6. ASSUME NEW r \in found PROVE Len(C[r]) <= Len(C[q])
    <3>1. g <= Len(C[p]) - Len(C[r])
      BY <2>4
    <3>2. Len(C[r]) \in Nat /\ Len(C[q]) \in Nat
      BY <2>1
    <3> HIDE DEF gaps
    <3>3. QED BY <2>2, <2>5, <3>1, <3>2
  <2> DEFINE places == {i \in DOMAIN Catalog :
                          Catalog[i] \in found /\ Len(C[Catalog[i]]) = Len(C[q])}
  <2>7. /\ DOMAIN Catalog \subseteq Nat
        /\ \A r \in found : \E i \in DOMAIN Catalog : Catalog[i] = r
    <3>1. Catalog \in Seq(Marks!Range(Catalog))
      BY MarkFacts
    <3>2. DOMAIN Catalog = 1 .. Len(Catalog) /\ Len(Catalog) \in Nat
      BY <3>1
    <3>3. QED BY <2>1, <3>2 DEF Marks!Range
  <2>8. places \in SUBSET Nat /\ places # {}
    BY <2>7
  <2>9. PICK i \in places : \A j \in places : i <= j
    <3> HIDE DEF places
    <3>1. QED BY <2>8, LeastNatural
  <2>10. ASSUME NEW r \in found \ {Catalog[i]} PROVE wins(Catalog[i], r)
    <3>1. CASE Len(C[r]) = Len(C[q])
      <4>1. PICK j \in DOMAIN Catalog : Catalog[j] = r
        BY <2>7
      <4>2. j \in places /\ i <= j /\ i # j
        BY <2>9, <3>1, <4>1
      <4>3. i < j
        BY <2>7, <2>9, <4>1, <4>2
      <4>4. Marks!Before(Catalog[i], r)
        BY <2>9, <4>1, <4>3 DEF Marks!Before
      <4>5. QED BY <2>9, <3>1, <4>4
    <3>2. CASE Len(C[r]) # Len(C[q])
      <4>1. Len(C[r]) <= Len(C[q]) /\ Len(C[r]) \in Nat /\ Len(C[q]) \in Nat
        BY <2>1, <2>6
      <4>2. Len(C[r]) < Len(C[q])
        BY <3>2, <4>1
      <4>3. QED BY <2>9, <4>2
    <3>3. QED BY <3>1, <3>2
  <2>11. QED BY <2>9, <2>10
<1>6. found = {} => best = None
  BY <1>1, <1>4
<1>7. ASSUME found # {} PROVE best \in found /\ \A r \in found \ {best} : wins(best, r)
  <2> HIDE DEF found, sought, best, wins
  <2>1. best = CHOOSE q \in found : \A r \in found \ {q} : wins(q, r)
    BY <1>1, <1>3, <1>4, <1>7
  <2>2. QED BY <1>5, <1>7, <2>1
<1>8. ASSUME found # {}, NEW r \in found PROVE Len(C[r]) <= Len(C[best])
  <2>1. best \in found /\ (r = best \/ wins(best, r))
    BY <1>7, <1>8
  <2>2. Len(C[r]) \in Nat /\ Len(C[best]) \in Nat
    BY <1>2, <2>1
  <2>3. Len(C[r]) = Len(C[best]) \/ Len(C[r]) < Len(C[best])
    BY <2>1
  <2> HIDE DEF best, found
  <2>4. QED BY <2>2, <2>3
<1>9. QED BY <1>6, <1>7, <1>8

\* The scans that lead, and the chains a run reads.
Chained == {p \in Marks!Range(Catalog) : Marks!Layered(p) # {}}
Leads(leader) ==
  /\ leader \in [Chained -> Marks!Live]
  /\ \A p \in Chained : leader[p] \in Marks!Layered(p)
ChainsOf(leader) == [p \in Chained |-> Marks!MergedFrom(p, leader[p])]

LEMMA ChainsAre ==
  ASSUME Marks!LayersAssumption, MarkTypes, OneEach, NEW leader, Leads(leader)
  PROVE  /\ \A p \in Chained : /\ leader[p] \in Marks!Live
                               /\ ChainsOf(leader)[p] = scans[leader[p]].chain
                               /\ ChainsOf(leader)[p] \in Chains
         /\ \A p \in Chained : /\ scans[leader[p]].product = p
                               /\ scans[leader[p]].rows # <<>>
         /\ \A s \in Marks!Live : scans[s].rows # <<>> => /\ scans[s].product \in Chained
                                                         /\ leader[scans[s].product] = s
<1>1. ASSUME NEW p \in Chained
      PROVE  /\ leader[p] \in Marks!Live /\ scans[leader[p]].product = p
             /\ scans[leader[p]].rows # <<>>
             /\ ChainsOf(leader)[p] = scans[leader[p]].chain
             /\ ChainsOf(leader)[p] \in Chains
  <2>1. leader[p] \in Marks!Live /\ scans[leader[p]].product = p /\ scans[leader[p]].rows # <<>>
    BY DEF Leads, Marks!Layered, Marks!ScansOf
  <2>2. Marks!MergedFrom(p, leader[p]) = scans[leader[p]].chain
    BY <2>1, MergedAlone
  <2>3. scans[leader[p]].chain \in Chains
    BY <2>1, StoredScans
  <2>4. QED BY <2>1, <2>2, <2>3 DEF ChainsOf
<1>2. ASSUME NEW s \in Marks!Live, scans[s].rows # <<>>
      PROVE  scans[s].product \in Chained /\ leader[scans[s].product] = s
  <2>1. scans[s].product \in Marks!Range(Catalog)
    BY StoredScans
  <2>2. Marks!Layered(scans[s].product) = {s}
    BY <1>2, MergedAlone
  <2>3. scans[s].product \in Chained
    BY <2>1, <2>2 DEF Chained
  <2>4. QED BY <2>2, <2>3 DEF Leads
<1>3. QED BY <1>1, <1>2

\* A scan is planned exactly when it has a base, and the plan names a widest one.
LEMMA PlansAre ==
  ASSUME Marks!LayersAssumption, MarkTypes, OneEach, NEW leader, Leads(leader),
         NEW s \in Marks!Live, scans[s].rows # <<>>
  PROVE  LET best == Marks!BestBase(ChainsOf(leader), scans[s].product)
         IN  /\ best # None <=> Marks!Bases(s) # {}
             /\ best # None => /\ best \in Chained
                               /\ Widest(s, leader[best])
                               /\ scans[leader[best]].product = best
                               /\ ChainsOf(leader)[best] = scans[leader[best]].chain
<1> DEFINE p == scans[s].product
           C == ChainsOf(leader)
           best == Marks!BestBase(C, p)
           found == {q \in DOMAIN C \ {p} : Prefix(C[q], C[p])}
<1>1. DOMAIN C = Chained /\ Chained \subseteq Marks!Range(Catalog)
  BY DEF ChainsOf, Chained
<1>2. /\ p \in Chained /\ leader[p] = s /\ C[p] = scans[s].chain
      /\ \A q \in Chained : C[q] \in Chains
      /\ \A q \in Chained : /\ leader[q] \in Marks!Live /\ C[q] = scans[leader[q]].chain
                            /\ scans[leader[q]].product = q /\ scans[leader[q]].rows # <<>>
      /\ \A t \in Marks!Live : scans[t].rows # <<>> =>
           scans[t].product \in Chained /\ leader[scans[t].product] = t
  BY ChainsAre
<1> HIDE DEF C
<1>3. /\ found = {} => best = None
      /\ found # {} => best \in found /\ \A r \in found : Len(C[r]) <= Len(C[best])
  BY <1>1, <1>2, BestIs
<1> HIDE DEF p, best
<1>4. ASSUME NEW t \in Marks!Bases(s)
      PROVE  /\ scans[t].product \in found /\ t \in Marks!Live
             /\ C[scans[t].product] = scans[t].chain
  <2>1. /\ t \in Marks!Live /\ scans[t].product # p /\ scans[t].rows # <<>>
        /\ Prefix(scans[t].chain, scans[s].chain)
    BY <1>4, BasesAre DEF p
  <2>2. /\ scans[t].product \in Chained /\ leader[scans[t].product] = t
        /\ C[scans[t].product] = scans[t].chain
    BY <1>2, <2>1
  <2>3. QED BY <1>1, <1>2, <2>1, <2>2
<1>5. ASSUME NEW q \in found
      PROVE  leader[q] \in Marks!Bases(s)
  <2>1. q \in Chained /\ q # p /\ Prefix(C[q], C[p])
    BY <1>1
  <2>2. /\ leader[q] \in Marks!Live /\ scans[leader[q]].product # scans[s].product
        /\ scans[leader[q]].rows # <<>>
        /\ Prefix(scans[leader[q]].chain, scans[s].chain)
    BY <1>2, <2>1 DEF p
  <2>3. QED BY <2>2, BasesAre
<1>6. best # None <=> found # {}
  <2>1. \A q \in found : q \in Marks!Range(Catalog)
    BY <1>1
  <2>2. None \notin Marks!Range(Catalog)
    BY MarkFacts
  <2> HIDE DEF found
  <2>3. QED BY <1>3, <2>1, <2>2
<1>7. found # {} <=> Marks!Bases(s) # {}
  <2> HIDE DEF found
  <2>1. QED BY <1>4, <1>5
<1>8. ASSUME best # None
      PROVE  /\ best \in Chained /\ Widest(s, leader[best])
             /\ scans[leader[best]].product = best /\ C[best] = scans[leader[best]].chain
  <2>1. best \in found /\ \A r \in found : Len(C[r]) <= Len(C[best])
    BY <1>3, <1>6, <1>8
  <2>2. best \in Chained /\ leader[best] \in Marks!Bases(s)
    BY <1>1, <1>5, <2>1
  <2>3. scans[leader[best]].product = best /\ C[best] = scans[leader[best]].chain
    BY <1>2, <2>2
  <2>4. ASSUME NEW t \in Marks!Bases(s)
        PROVE  Len(scans[t].chain) <= Len(scans[leader[best]].chain)
    BY <1>4, <2>1, <2>3
  <2>5. QED BY <2>2, <2>3, <2>4 DEF Widest
<1> HIDE DEF found
<1>9. QED BY <1>6, <1>7, <1>8 DEF p, C, best

\* What a run reads is sound and up to date, and it is a plan.
ToMark(leader) ==
  LET C == ChainsOf(leader)
      based == {p \in Chained : Marks!BestBase(C, p) # None}
  IN  [s \in {leader[p] : p \in based} |->
         [base |-> Marks!BestBase(C, scans[s].product),
          below |-> C[Marks!BestBase(C, scans[s].product)]]]

LEMMA ReadPlan ==
  ASSUME Marks!LayersAssumption, MarkTypes, OneEach, NEW leader, Leads(leader)
  PROVE  /\ ToMark(leader) # None
         /\ PlanSound(ToMark(leader)) /\ UpToDate(ToMark(leader))
<1> DEFINE C == ChainsOf(leader)
           best(s) == Marks!BestBase(C, scans[s].product)
           todo == ToMark(leader)
<1>1. DOMAIN todo = {leader[p] : p \in {q \in Chained : Marks!BestBase(C, q) # None}}
  BY DEF ToMark
<1>2. \A s \in DOMAIN todo : todo[s] = [base |-> best(s), below |-> C[best(s)]]
  BY DEF ToMark
<1>3. ASSUME NEW s \in DOMAIN todo
      PROVE  s \in Marks!Live /\ scans[s].rows # <<>> /\ best(s) # None
  <2>1. PICK p \in Chained : s = leader[p] /\ Marks!BestBase(C, p) # None
    BY <1>1
  <2>2. s \in Marks!Live /\ scans[s].product = p /\ scans[s].rows # <<>>
    BY <2>1, ChainsAre
  <2>3. QED BY <2>1, <2>2
<1>4. ASSUME NEW s \in Marks!Live, scans[s].rows # <<>>, best(s) # None PROVE s \in DOMAIN todo
  <2>1. scans[s].product \in Chained /\ leader[scans[s].product] = s
    BY <1>4, ChainsAre
  <2>2. QED BY <1>1, <1>4, <2>1
<1>5. \A s \in Marks!Live : scans[s].rows # <<>> =>
        /\ best(s) # None <=> Marks!Bases(s) # {}
        /\ best(s) # None => /\ best(s) \in Chained /\ Widest(s, leader[best(s)])
                             /\ scans[leader[best(s)]].product = best(s)
                             /\ C[best(s)] = scans[leader[best(s)]].chain
  BY PlansAre
<1>6. todo = [s \in DOMAIN todo |-> todo[s]]
  BY DEF ToMark
<1> HIDE DEF C, best, todo
<1>7. ASSUME NEW s \in DOMAIN todo
      PROVE  /\ s \in 1 .. Len(scans)
             /\ todo[s] \in [base : Marks!Range(Catalog), below : Chains]
             /\ Prefix(todo[s].below, scans[s].chain)
             /\ \E u \in Marks!Live : /\ Widest(s, u) /\ todo[s].base = scans[u].product
                                      /\ todo[s].below = scans[u].chain
                                      /\ u \in 1 .. Len(scans)
  <2> DEFINE u == leader[best(s)]
  <2>1. s \in Marks!Live /\ Widest(s, u) /\ best(s) = scans[u].product
        /\ C[best(s)] = scans[u].chain
    BY <1>3, <1>5
  <2> HIDE DEF u
  <2>2. u \in Marks!Bases(s)
    BY <2>1 DEF Widest
  <2>3. u \in Marks!Live /\ Prefix(scans[u].chain, scans[s].chain)
    BY <2>1, <2>2, BasesAre
  <2>4. scans[u].product \in Marks!Range(Catalog) /\ scans[u].chain \in Chains
        /\ s \in 1 .. Len(scans) /\ u \in 1 .. Len(scans)
    BY <2>1, <2>3, StoredScans
  <2>5. todo[s] = [base |-> scans[u].product, below |-> scans[u].chain]
    BY <1>2, <2>1
  <2>6. QED BY <2>1, <2>3, <2>4, <2>5
<1>8. todo # None
  <2>1. DOMAIN todo \in SUBSET (1 .. MaxScans)
    <3>1. Len(scans) \in Nat /\ Len(scans) <= MaxScans /\ MaxScans \in Nat
      BY StoredScans, MarkFacts DEF MarkTypes
    <3>2. 1 .. Len(scans) \subseteq 1 .. MaxScans
      BY <3>1
    <3>3. QED BY <1>7, <3>2
  <2>2. todo \in [DOMAIN todo -> [base : Marks!Range(Catalog), below : Chains]]
    BY <1>6, <1>7
  <2>3. \A S \in SUBSET (1 .. MaxScans) :
          None \notin [S -> [base : Marks!Range(Catalog), below : Chains]]
    BY DEF Marks!LayersAssumption, Chains
  <2>4. QED BY <2>1, <2>2, <2>3
<1>9. PlanSound(todo)
  BY <1>6, <1>7 DEF PlanSound
<1>10. UpToDate(todo)
  BY <1>4, <1>5, <1>7 DEF UpToDate, Marks!Bases
<1>11. QED BY <1>8, <1>9, <1>10 DEF todo

LEMMA StartMarks ==
  ASSUME Marks!LayersAssumption, Marks!Init
  PROVE  MarkInv
<1>1. scans = <<>> /\ layers = <<>> /\ sources = <<>> /\ fresh = FALSE
      /\ marking = [c \in Clients |-> None]
  BY DEF Marks!Init
<1>2. Marks!Live = {}
  BY <1>1 DEF Marks!Live
<1>3. LayerKeys = {} /\ PackageKeys = {}
  BY <1>2 DEF LayerKeys, PackageKeys
<1>4. MarkTypes
  <2>1. scans \in Seq(StoredScan) /\ Len(scans) <= MaxScans
    BY <1>1, MarkFacts
  <2>2. DOMAIN layers = {} /\ DOMAIN sources = {}
    BY <1>1
  <2>3. layers \in [{} -> Marks!Row] /\ sources \in [{} -> Tag]
    BY <1>1, <2>2
  <2>4. QED BY <1>1, <1>3, <2>1, <2>3 DEF MarkTypes
<1>5. QED BY <1>1, <1>2, <1>3, <1>4
           DEF MarkInv, OneEach, PlansSound, RowsGrounded, MarksCurrent

LEMMA SameScans ==
  ASSUME UNCHANGED scans
  PROVE  /\ Marks!Live' = Marks!Live /\ LayerKeys' = LayerKeys /\ PackageKeys' = PackageKeys
         /\ \A s : Marks!Bases(s)' = Marks!Bases(s)
         /\ \A s, u : Widest(s, u)' <=> Widest(s, u)
<1>1. Marks!Live' = Marks!Live
  BY DEF Marks!Live
<1>2. LayerKeys' = LayerKeys /\ PackageKeys' = PackageKeys
  BY <1>1 DEF LayerKeys, PackageKeys
<1>3. ASSUME NEW s PROVE Marks!Bases(s)' = Marks!Bases(s)
  BY <1>1 DEF Marks!Bases
<1>4. ASSUME NEW s, NEW u PROVE Widest(s, u)' <=> Widest(s, u)
  BY <1>3 DEF Widest
<1>5. QED BY <1>1, <1>2, <1>3, <1>4

LEMMA SameMarks ==
  ASSUME UNCHANGED <<scans, layers, sources>>
  PROVE  /\ RowsGrounded => RowsGrounded'
         /\ AllMarked => AllMarked'
<1>1. ASSUME RowsGrounded PROVE RowsGrounded'
  BY <1>1, SameScans DEF RowsGrounded, Grounded
<1>2. ASSUME NEW s, NEW u, MarkedWith(s, u) PROVE MarkedWith(s, u)'
  BY <1>2 DEF MarkedWith, Marks!Found
<1>3. ASSUME AllMarked PROVE AllMarked'
  BY <1>2, <1>3, SameScans DEF AllMarked
<1>4. QED BY <1>1, <1>3

LEMMA QuietMarks ==
  ASSUME MarkInv, UNCHANGED Marks!vars
  PROVE  MarkInv'
<1>1. UNCHANGED <<scans, layers, sources, marking, fresh>>
  BY DEF Marks!vars
<1>2. MarkTypes' /\ OneEach' /\ RowsGrounded'
  BY <1>1, SameScans, SameMarks DEF MarkInv, MarkTypes, OneEach
<1>3. PlansSound'
  BY <1>1 DEF MarkInv, PlansSound, PlanSound
<1>4. MarksCurrent'
  BY <1>1, SameScans, SameMarks DEF MarkInv, MarksCurrent, UpToDate
<1>5. QED BY <1>2, <1>3, <1>4 DEF MarkInv

\* A run that begins writes nothing, and its plan is up to date.
LEMMA BeginMarks ==
  ASSUME Marks!LayersAssumption, MarkInv, NEW c \in Clients, Marks!BeginEnrich(c)
  PROVE  MarkInv'
<1>1. PICK leader : Leads(leader) /\ marking' = [marking EXCEPT ![c] = ToMark(leader)]
  <2>1. \E leader : Leads(leader) /\ marking' = [marking EXCEPT ![c] = ToMark(leader)]
    BY DEF Marks!BeginEnrich, Leads, ToMark, ChainsOf, Chained
  <2>2. QED BY <2>1
<1> DEFINE todo == ToMark(leader)
<1>2. todo # None /\ PlanSound(todo) /\ UpToDate(todo)
  BY <1>1, ReadPlan DEF MarkInv
<1> HIDE DEF todo
<1>3. /\ UNCHANGED <<scans, layers, sources>> /\ marking[c] = None
      /\ fresh' = (fresh \/ \A d \in Clients : marking[d] = None)
  BY DEF Marks!BeginEnrich
<1>4. DOMAIN marking' = Clients /\ marking' = [d \in Clients |-> marking'[d]]
      /\ marking'[c] = todo /\ \A d \in Clients \ {c} : marking'[d] = marking[d]
  BY <1>1 DEF MarkInv, MarkTypes, todo
<1>6. MarkTypes' /\ OneEach' /\ RowsGrounded'
  BY <1>3, <1>4, SameScans, SameMarks DEF MarkInv, MarkTypes, OneEach
<1>8. PlansSound'
  <2>1. ASSUME NEW d \in Clients, marking'[d] # None PROVE PlanSound(marking'[d])
    BY <1>2, <1>4, <2>1 DEF MarkInv, PlansSound
  <2>2. QED BY <1>3, <2>1 DEF PlansSound, PlanSound
<1>9. ASSUME fresh', NEW d \in Clients, marking'[d] # None PROVE UpToDate(marking'[d])
  <2>1. CASE d = c
    BY <1>2, <1>4, <2>1
  <2>2. CASE d # c
    BY <1>3, <1>4, <1>9, <2>2 DEF MarkInv, MarksCurrent
  <2>3. QED BY <2>1, <2>2
<1>10. MarksCurrent'
  <2>1. ASSUME NEW d \in Clients
        PROVE  (fresh /\ marking[d] # None => UpToDate(marking[d]))'
    BY <1>3, <1>9, SameScans DEF UpToDate
  <2>2. ~ (\A d \in Clients : marking'[d] = None)
    BY <1>2, <1>4
  <2>3. (fresh => \A d \in Clients : marking[d] # None => UpToDate(marking[d]))'
    BY <2>1, Zenon
  <2>4. QED BY <2>2, <2>3 DEF MarksCurrent
<1>11. QED BY <1>6, <1>8, <1>10 DEF MarkInv

\* A plan marks a scan's layers up to its base's, and the packages it finds in them.
LEMMA BelowAre ==
  ASSUME Marks!LayersAssumption, MarkInv, NEW s \in Marks!Live, NEW below \in Chains,
         Prefix(below, scans[s].chain), NEW i \in 1 .. Len(below)
  PROVE  /\ i \in DOMAIN scans[s].chain /\ scans[s].chain[i] \in Marks!Range(below)
         /\ Marks!Found(s, i) => <<s, i>> \in Marks!PackagesBelow(s, below)
<1> DEFINE all == {k \in DOMAIN sources : k[1] = s}
           byDigest == {k \in all : /\ scans[s].by[k[2]] = "digest"
                                    /\ scans[s].chain[k[2]] \in Marks!Range(below)}
<1>1. /\ Len(scans[s].chain) \in Nat /\ DOMAIN scans[s].chain = 1 .. Len(scans[s].chain)
      /\ DOMAIN scans[s].by = DOMAIN scans[s].chain
      /\ Len(below) \in Nat /\ DOMAIN below = 1 .. Len(below)
  BY StoredScans, MarkFacts DEF MarkInv
<1>2. Len(below) < Len(scans[s].chain) /\ scans[s].chain[i] = below[i]
  BY DEF Prefix
<1>3. i \in DOMAIN scans[s].chain /\ scans[s].chain[i] \in Marks!Range(below)
  BY <1>1, <1>2 DEF Marks!Range
<1>4. <<s, i>> \in all /\ \A k \in all : k[2] \in DOMAIN scans[s].chain
  <2>1. DOMAIN sources = PackageKeys
    BY DEF MarkInv, MarkTypes
  <2>2. QED BY <1>3, <2>1, LayerKeysAre
<1>5. Marks!PackagesBelow(s, below)
        = IF byDigest # {} THEN byDigest
          ELSE {k \in all : scans[s].by[k[2]] # "none" /\ k[2] <= Len(below)}
  BY DEF Marks!PackagesBelow
<1>6. CASE scans[s].by[i] = "digest"
  <2>1. <<s, i>> \in byDigest
    BY <1>3, <1>4, <1>6
  <2> HIDE DEF byDigest
  <2>2. Marks!PackagesBelow(s, below) = byDigest
    BY <1>5, <2>1
  <2>3. QED BY <1>3, <2>1, <2>2
<1>7. CASE scans[s].by[i] = "index" /\ \A j \in DOMAIN scans[s].by : scans[s].by[j] # "digest"
  <2>1. byDigest = {}
    BY <1>1, <1>4, <1>7
  <2> HIDE DEF byDigest
  <2>2. <<s, i>> \in {k \in all : scans[s].by[k[2]] # "none" /\ k[2] <= Len(below)}
    BY <1>1, <1>4, <1>7
  <2>3. QED BY <1>3, <1>5, <2>1, <2>2
<1>8. QED BY <1>3, <1>6, <1>7 DEF Marks!Found

\* A run that ends marks what it planned, layers and packages alike.
LEMMA EnrichMarks ==
  ASSUME Marks!LayersAssumption, MarkInv, NEW c \in Clients, Marks!Enrich(c)
  PROVE  MarkInv'
<1> DEFINE todo == marking[c]
<1>1. /\ UNCHANGED <<scans, fresh>> /\ todo # None
      /\ marking' = [marking EXCEPT ![c] = None]
      /\ layers' = [k \in DOMAIN layers |->
           IF Marks!IsMarked(todo, k) THEN [base |-> TRUE, image |-> todo[k[1]].base]
           ELSE layers[k]]
      /\ sources' = [k \in DOMAIN sources |->
           IF k[1] \in DOMAIN todo /\ k \in Marks!PackagesBelow(k[1], todo[k[1]].below)
           THEN todo[k[1]].base ELSE sources[k]]
  BY DEF Marks!Enrich
<1>2. DOMAIN marking' = Clients /\ marking' = [d \in Clients |-> marking'[d]]
      /\ marking'[c] = None /\ \A d \in Clients \ {c} : marking'[d] = marking[d]
  BY <1>1 DEF MarkInv, MarkTypes
<1>3. PlanSound(todo)
  BY <1>1 DEF MarkInv, PlansSound
<1> HIDE DEF todo
<1>4. \A s \in DOMAIN todo :
        /\ todo[s].base \in Marks!Range(Catalog) /\ todo[s].below \in Chains
        /\ Prefix(todo[s].below, scans[s].chain)
        /\ s \in 1 .. Len(scans)
  BY <1>3 DEF PlanSound
<1>5. /\ layers \in [LayerKeys -> Marks!Row] /\ sources \in [PackageKeys -> Tag]
      /\ DOMAIN layers = LayerKeys /\ DOMAIN sources = PackageKeys
  BY DEF MarkInv, MarkTypes
<1>6. MarkTypes'
  <2>1. \A s \in DOMAIN todo : todo[s].base \in Images
    BY <1>4, MarkFacts
  <2>2. layers' \in [LayerKeys -> Marks!Row]
    BY <1>1, <1>5, <2>1 DEF Marks!Row, Marks!IsMarked
  <2>3. sources' \in [PackageKeys -> Tag]
    BY <1>1, <1>5, <2>1 DEF Tag
  <2>4. QED BY <1>1, <1>2, <2>2, <2>3, SameScans DEF MarkInv, MarkTypes
<1>7. OneEach'
  BY <1>1, SameScans DEF MarkInv, OneEach
<1>8. PlansSound'
  <2>1. ASSUME NEW d \in Clients, marking'[d] # None PROVE PlanSound(marking'[d])
    BY <1>2, <2>1 DEF MarkInv, PlansSound
  <2>2. ASSUME NEW d \in Clients, marking'[d] # None PROVE PlanSound(marking[d])'
    <3>1. PlanSound(marking'[d])
      BY <2>1, <2>2
    <3>2. QED BY <1>1, <3>1 DEF PlanSound
  <2>3. QED BY <2>2 DEF PlansSound
<1>9. RowsGrounded'
  <2>1. ASSUME NEW k \in LayerKeys PROVE Grounded(k)'
    <3>1. CASE Marks!IsMarked(todo, k)
      <4>1. /\ k[1] \in DOMAIN todo
            /\ scans[k[1]].chain[k[2]] \in Marks!Range(todo[k[1]].below)
        BY <3>1 DEF Marks!IsMarked
      <4>2. PICK t \in 1 .. Len(scans) :
              todo[k[1]].base = scans[t].product /\ todo[k[1]].below = scans[t].chain
        BY <1>3, <4>1 DEF PlanSound
      <4>3. layers'[k] = [base |-> TRUE, image |-> scans[t].product]
        BY <1>1, <1>5, <3>1, <4>2
      <4>4. scans[t].chain \in Chains /\ scans[k[1]].chain \in Chains
        BY <1>4, <4>1, StoredScans DEF MarkInv
      <4>5. Marks!StrictlyPrefixes(scans[t].chain, scans[k[1]].chain)
        BY <1>4, <4>1, <4>2, <4>4, PrefixesAre
      <4>6. /\ layers'[k] = [base |-> TRUE, image |-> scans'[t].product]
            /\ Marks!StrictlyPrefixes(scans'[t].chain, scans'[k[1]].chain)
            /\ scans'[k[1]].chain[k[2]] \in Marks!Range(scans'[t].chain)
            /\ t \in 1 .. Len(scans')
        BY <1>1, <4>1, <4>2, <4>3, <4>5
      <4>7. QED BY <4>6 DEF Grounded
    <3>2. CASE ~ Marks!IsMarked(todo, k)
      <4>1. layers'[k] = layers[k] /\ Grounded(k)
        BY <1>1, <1>5, <3>2 DEF MarkInv, RowsGrounded
      <4>2. QED BY <1>1, <4>1 DEF Grounded
    <3>3. QED BY <3>1, <3>2
  <2>2. QED BY <1>1, <2>1, SameScans DEF RowsGrounded
<1>10. ASSUME fresh, NEW s \in Marks!Live, Marks!Bases(s) # {}
       PROVE  \E u \in Marks!Live : Widest(s, u) /\ MarkedWith(s, u)'
  <2>1. UpToDate(todo)
    BY <1>1, <1>10 DEF MarkInv, MarksCurrent, todo
  <2>2. s \in DOMAIN todo
    BY <1>10, <2>1 DEF UpToDate
  <2>3. PICK u \in Marks!Live : /\ Widest(s, u) /\ todo[s].base = scans[u].product
                                /\ todo[s].below = scans[u].chain
    BY <2>1, <2>2 DEF UpToDate
  <2>4. ASSUME NEW i \in 1 .. Len(scans[u].chain)
        PROVE  /\ layers'[<<s, i>>] = [base |-> TRUE, image |-> scans[u].product]
               /\ Marks!Found(s, i) => sources'[<<s, i>>] = scans[u].product
    <3>1. /\ i \in DOMAIN scans[s].chain /\ scans[s].chain[i] \in Marks!Range(todo[s].below)
          /\ Marks!Found(s, i) => <<s, i>> \in Marks!PackagesBelow(s, todo[s].below)
      BY <1>4, <2>2, <2>3, BelowAre
    <3>2. DOMAIN scans[s].rows = DOMAIN scans[s].chain
      BY <1>10, StoredScans DEF MarkInv, Marks!Bases
    <3>3. <<s, i>> \in DOMAIN layers /\ <<s, i>> \in DOMAIN sources
      BY <1>5, <3>1, <3>2, LayerKeysAre
    <3>4. Marks!IsMarked(todo, <<s, i>>)
      BY <2>2, <3>1 DEF Marks!IsMarked
    <3>5. layers'[<<s, i>>] = [base |-> TRUE, image |-> scans[u].product]
      BY <1>1, <2>3, <3>3, <3>4
    <3>6. ASSUME Marks!Found(s, i) PROVE sources'[<<s, i>>] = scans[u].product
      BY <1>1, <2>2, <2>3, <3>1, <3>3, <3>6
    <3>7. QED BY <3>5, <3>6
  <2>5. MarkedWith(s, u)'
    BY <1>1, <2>4 DEF MarkedWith, Marks!Found
  <2>6. QED BY <2>3, <2>5
<1>11. MarksCurrent'
  <2>1. ASSUME NEW d \in Clients
        PROVE  (fresh /\ marking[d] # None => UpToDate(marking[d]))'
    <3>1. CASE d = c
      BY <1>2, <3>1
    <3>2. CASE d # c
      BY <1>1, <1>2, <3>2, SameScans DEF MarkInv, MarksCurrent, UpToDate
    <3>3. QED BY <3>1, <3>2
  <2>2. (fresh => \A d \in Clients : marking[d] # None => UpToDate(marking[d]))'
    BY <2>1, Zenon
  <2>3. fresh' => AllMarked'
    BY <1>1, <1>10, SameScans DEF AllMarked
  <2>4. QED BY <2>2, <2>3 DEF MarksCurrent
<1>12. QED BY <1>6, <1>7, <1>8, <1>9, <1>11 DEF MarkInv

\* A scan is stored where none of its product is, with its client's marks.
LEMMA StoreMarks ==
  ASSUME Marks!LayersAssumption, Together <= 1, MarkInv, Marks!StoreScan
  PROVE  MarkInv'
<1>1. PICK p \in Marks!Range(Catalog), f \in Forms :
        LET s == Len(scans) + 1
        IN  /\ s <= MaxScans /\ Marks!Cardinality(Marks!ScansOf(p)) < Together
            /\ scans' = Append(scans, [product |-> p, chain |-> f.chain, by |-> f.by,
                                       rows |-> f.rows, live |-> TRUE])
            /\ layers' = [k \in DOMAIN layers \cup ({s} \X DOMAIN f.rows) |->
                            IF k[1] = s THEN f.rows[k[2]] ELSE layers[k]]
            /\ sources' = [k \in DOMAIN sources \cup ({s} \X DOMAIN f.tags) |->
                             IF k[1] = s THEN f.tags[k[2]] ELSE sources[k]]
            /\ fresh' = FALSE
            /\ UNCHANGED <<marking, runs>>
  BY Zenon DEF Marks!StoreScan
<1>2. PICK s : s = Len(scans) + 1
  OBVIOUS
<1> DEFINE new == [product |-> p, chain |-> f.chain, by |-> f.by, rows |-> f.rows, live |-> TRUE]
<1>3. /\ Len(scans) \in Nat /\ DOMAIN scans = 1 .. Len(scans)
      /\ \A t : t \in Marks!Live <=> t \in 1 .. Len(scans) /\ scans[t].live
  BY StoredScans DEF MarkInv
<1>4. /\ scans' \in Seq(StoredScan) /\ Len(scans') = s /\ DOMAIN scans' = 1 .. s
      /\ scans'[s] = new /\ \A t \in 1 .. Len(scans) : scans'[t] = scans[t]
  <2>1. scans \in Seq(StoredScan) /\ scans' = Append(scans, new)
    BY <1>1 DEF MarkInv, MarkTypes
  <2>2. new \in StoredScan
    BY DEF StoredScan, Chains
  <2> HIDE DEF new
  <2>3. QED BY <1>2, <1>3, <2>1, <2>2
<1>5. /\ Marks!Live' = Marks!Live \cup {s} /\ s \notin Marks!Live
      /\ \A t \in Marks!Live : scans'[t] = scans[t]
  <2>1. \A t : t \in Marks!Live' <=> t \in 1 .. s /\ scans'[t].live
    BY <1>4 DEF Marks!Live
  <2>2. 1 .. s = (1 .. Len(scans)) \cup {s} /\ s \notin 1 .. Len(scans)
    BY <1>2, <1>3
  <2>3. scans'[s].live
    BY <1>4
  <2>4. QED BY <1>3, <1>4, <2>1, <2>2, <2>3
<1>6. /\ scans'[s].product = p /\ scans'[s].chain = f.chain /\ scans'[s].by = f.by
      /\ scans'[s].rows = f.rows
  BY <1>4
<1>61. \A t \in 1 .. s : Uploaded(scans'[t])
  <2>1. \A t \in 1 .. Len(scans) : Uploaded(scans[t])
    BY DEF MarkInv, MarkTypes
  <2>2. Uploaded(scans'[s])
    BY <1>6 DEF Uploaded
  <2>3. \A t \in 1 .. s : t \in 1 .. Len(scans) \/ t = s
    BY <1>2, <1>3
  <2>4. QED BY <1>4, <2>1, <2>2, <2>3
<1>7. /\ s <= MaxScans /\ Marks!Cardinality(Marks!ScansOf(p)) < Together
      /\ layers' = [k \in DOMAIN layers \cup ({s} \X DOMAIN f.rows) |->
                      IF k[1] = s THEN f.rows[k[2]] ELSE layers[k]]
      /\ sources' = [k \in DOMAIN sources \cup ({s} \X DOMAIN f.tags) |->
                       IF k[1] = s THEN f.tags[k[2]] ELSE sources[k]]
      /\ fresh' = FALSE /\ marking' = marking
  BY <1>1, <1>2
<1> HIDE DEF new
<1>8. /\ DOMAIN layers = LayerKeys /\ layers \in [LayerKeys -> Marks!Row]
      /\ DOMAIN sources = PackageKeys /\ sources \in [PackageKeys -> Tag]
  BY DEF MarkInv, MarkTypes
<1>9. /\ f.tags \in [DOMAIN f.chain -> Tag]
      /\ f.rows \in [DOMAIN f.rows -> Marks!Row]
  <2>1. f.tags \in [DOMAIN f.chain -> Tag]
        /\ (f.rows = <<>> \/ f.rows \in [DOMAIN f.chain -> Marks!Row])
    BY MarkFacts
  <2>2. CASE f.rows = <<>>
    <3>1. <<>> \in [DOMAIN <<>> -> Marks!Row]
      OBVIOUS
    <3>2. QED BY <2>1, <2>2, <3>1
  <2>3. CASE f.rows \in [DOMAIN f.chain -> Marks!Row]
    BY <2>1, <2>3
  <2>4. QED BY <2>1, <2>2, <2>3
<1>10. /\ LayerKeys' = LayerKeys \cup ({s} \X DOMAIN f.rows)
       /\ PackageKeys' = PackageKeys \cup ({s} \X DOMAIN f.chain)
  BY <1>5, <1>6 DEF LayerKeys, PackageKeys
<1>11. MarkTypes'
  <2>1. /\ \A k \in LayerKeys : k[1] # s
        /\ \A k \in PackageKeys : k[1] # s
    BY <1>5, LayerKeysAre
  <2>2. layers' \in [LayerKeys' -> Marks!Row]
    <3>1. ASSUME NEW k \in LayerKeys' PROVE layers'[k] \in Marks!Row
      <4>1. CASE k \in LayerKeys
        BY <1>7, <1>8, <2>1, <4>1
      <4>2. CASE k \in {s} \X DOMAIN f.rows
        BY <1>7, <1>9, <4>2
      <4>3. QED BY <1>10, <4>1, <4>2
    <3>2. layers' = [k \in LayerKeys' |-> layers'[k]]
      BY <1>7, <1>8, <1>10
    <3>3. QED BY <3>1, <3>2
  <2>3. sources' \in [PackageKeys' -> Tag]
    <3>1. DOMAIN f.tags = DOMAIN f.chain
      BY <1>9
    <3>2. ASSUME NEW k \in PackageKeys' PROVE sources'[k] \in Tag
      <4>1. CASE k \in PackageKeys
        BY <1>7, <1>8, <2>1, <4>1
      <4>2. CASE k \in {s} \X DOMAIN f.chain
        BY <1>7, <1>9, <3>1, <4>2
      <4>3. QED BY <1>10, <4>1, <4>2
    <3>3. sources' = [k \in PackageKeys' |-> sources'[k]]
      BY <1>7, <1>8, <1>10, <3>1
    <3>4. QED BY <3>2, <3>3
  <2>4. QED BY <1>4, <1>7, <1>61, <2>2, <2>3 DEF MarkInv, MarkTypes
<1>12. Marks!ScansOf(p) = {}
  <2>1. IsFiniteSet(Marks!ScansOf(p))
    <3>1. Marks!ScansOf(p) \subseteq 1 .. Len(scans)
      BY <1>3 DEF Marks!ScansOf
    <3>2. IsFiniteSet(1 .. Len(scans))
      BY <1>3, FS_Interval
    <3>3. QED BY <3>1, <3>2, FS_Subset
  <2>2. Cardinality(Marks!ScansOf(p)) < Together /\ Together \in Nat
    BY <1>7, MarkCount, MarkFacts
  <2>3. Cardinality(Marks!ScansOf(p)) \in Nat
    BY <2>1, FS_CardinalityType
  <2>4. Cardinality(Marks!ScansOf(p)) = 0
    BY <2>2, <2>3
  <2>5. QED BY <2>1, <2>4, FS_EmptySet
<1>13. OneEach'
  <2>1. \A t \in Marks!Live : scans'[t].product # p
    BY <1>5, <1>12 DEF Marks!ScansOf
  <2>2. QED BY <1>5, <1>6, <2>1 DEF MarkInv, OneEach
<1>14. PlansSound'
  <2>1. ASSUME NEW c \in Clients, marking[c] # None PROVE PlanSound(marking[c])'
    <3>1. PlanSound(marking[c])
      BY <2>1 DEF MarkInv, PlansSound
    <3>2. 1 .. Len(scans) \subseteq 1 .. Len(scans')
      BY <1>2, <1>3, <1>4
    <3>3. QED BY <1>4, <1>7, <3>1, <3>2 DEF PlanSound
  <2>2. QED BY <1>7, <2>1 DEF PlansSound, PlanSound
<1>15. RowsGrounded'
  <2>1. ASSUME NEW k \in LayerKeys PROVE Grounded(k)'
    <3>1. k[1] \in Marks!Live /\ k[1] # s /\ Grounded(k)
      BY <1>5, LayerKeysAre DEF MarkInv, RowsGrounded
    <3>2. layers'[k] = layers[k] /\ scans'[k[1]] = scans[k[1]]
      BY <1>5, <1>7, <1>8, <3>1
    <3>3. 1 .. Len(scans) \subseteq 1 .. Len(scans')
      BY <1>2, <1>3, <1>4
    <3>4. QED BY <1>4, <3>1, <3>2, <3>3 DEF Grounded
  <2>2. ASSUME NEW i \in DOMAIN f.rows PROVE Grounded(<<s, i>>)'
    <3>1. layers'[<<s, i>>] = f.rows[i]
      BY <1>7
    <3>2. QED BY <1>6, <3>1 DEF Grounded
  <2>3. QED BY <1>10, <2>1, <2>2 DEF RowsGrounded
<1>16. MarksCurrent'
  BY <1>7 DEF MarksCurrent
<1>17. QED BY <1>11, <1>13, <1>14, <1>15, <1>16 DEF MarkInv

\* A scan goes with its layers and its packages; what it was stays known.
LEMMA RemoveMarks ==
  ASSUME Marks!LayersAssumption, MarkInv, Marks!RemoveScan
  PROVE  MarkInv'
<1>1. PICK s \in Marks!Live :
        /\ scans' = [scans EXCEPT ![s].live = FALSE]
        /\ layers' = [k \in {l \in DOMAIN layers : l[1] # s} |-> layers[k]]
        /\ sources' = [k \in {l \in DOMAIN sources : l[1] # s} |-> sources[k]]
        /\ fresh' = FALSE
        /\ UNCHANGED <<marking, runs>>
  BY Zenon DEF Marks!RemoveScan
<1>2. /\ Len(scans) \in Nat /\ DOMAIN scans = 1 .. Len(scans)
      /\ \A t : t \in Marks!Live <=> t \in 1 .. Len(scans) /\ scans[t].live
      /\ \A t \in 1 .. Len(scans) : scans[t] \in StoredScan
      /\ scans \in Seq(StoredScan)
  <2>1. Len(scans) \in Nat /\ DOMAIN scans = 1 .. Len(scans) /\ scans \in Seq(StoredScan)
    BY StoredScans DEF MarkInv, MarkTypes
  <2>2. \A t \in 1 .. Len(scans) : scans[t] \in StoredScan
    BY <2>1
  <2>3. QED BY <2>1, <2>2, StoredScans DEF MarkInv
<1>3. \A t \in 1 .. Len(scans) :
        scans'[t] = IF t = s THEN [scans[s] EXCEPT !.live = FALSE] ELSE scans[t]
  BY <1>1, <1>2
<1>5. [scans[s] EXCEPT !.live = FALSE] \in StoredScan
  <2>1. scans[s] \in StoredScan
    BY <1>2
  <2>2. QED BY <2>1 DEF StoredScan
<1>6. /\ scans' \in Seq(StoredScan) /\ Len(scans') = Len(scans)
      /\ DOMAIN scans' = 1 .. Len(scans)
  <2>1. QED BY <1>1, <1>2, <1>5
<1>7. \A t \in 1 .. Len(scans) :
        /\ scans'[t].product = scans[t].product /\ scans'[t].chain = scans[t].chain
        /\ scans'[t].by = scans[t].by /\ scans'[t].rows = scans[t].rows
        /\ scans'[t].live <=> scans[t].live /\ t # s
  <2>1. scans[s] \in StoredScan
    BY <1>2
  <2>2. LET y == [scans[s] EXCEPT !.live = FALSE]
        IN  y.product = scans[s].product /\ y.chain = scans[s].chain
            /\ y.by = scans[s].by /\ y.rows = scans[s].rows /\ y.live = FALSE
    BY <2>1 DEF StoredScan
  <2>3. QED BY <1>3, <2>2
<1>71. \A t \in 1 .. Len(scans) : Uploaded(scans'[t])
  BY <1>7 DEF MarkInv, MarkTypes, Uploaded
<1>8. Marks!Live' = Marks!Live \ {s}
  BY <1>2, <1>6, <1>7 DEF Marks!Live
<1>9. /\ DOMAIN layers = LayerKeys /\ layers \in [LayerKeys -> Marks!Row]
      /\ DOMAIN sources = PackageKeys /\ sources \in [PackageKeys -> Tag]
  BY DEF MarkInv, MarkTypes
<1>10. /\ LayerKeys' = {l \in LayerKeys : l[1] # s}
       /\ PackageKeys' = {l \in PackageKeys : l[1] # s}
  BY <1>2, <1>7, <1>8 DEF LayerKeys, PackageKeys
<1>11. MarkTypes'
  BY <1>1, <1>6, <1>71, <1>9, <1>10 DEF MarkInv, MarkTypes
<1>12. OneEach'
  BY <1>2, <1>7, <1>8 DEF MarkInv, OneEach
<1>13. PlansSound'
  <2>1. ASSUME NEW c \in Clients, marking[c] # None PROVE PlanSound(marking[c])'
    <3>1. PlanSound(marking[c])
      BY <2>1 DEF MarkInv, PlansSound
    <3>2. QED BY <1>1, <1>6, <1>7, <3>1 DEF PlanSound
  <2>2. QED BY <1>1, <2>1 DEF PlansSound, PlanSound
<1>14. RowsGrounded'
  <2>1. ASSUME NEW k \in LayerKeys, k[1] # s PROVE Grounded(k)'
    <3>1. k[1] \in 1 .. Len(scans) /\ Grounded(k)
      BY <1>2, LayerKeysAre DEF MarkInv, RowsGrounded
    <3>2. layers'[k] = layers[k]
      BY <1>1, <1>9, <2>1
    <3>3. QED BY <1>6, <1>7, <3>1, <3>2 DEF Grounded
  <2>2. QED BY <1>10, <2>1 DEF RowsGrounded
<1>15. MarksCurrent'
  BY <1>1 DEF MarksCurrent
<1>16. QED BY <1>11, <1>12, <1>13, <1>14, <1>15 DEF MarkInv

LEMMA AlwaysMarks ==
  ASSUME Marks!LayersAssumption, Together <= 1
  PROVE  Marks!Spec => []MarkInv
<1>1. Marks!Init => MarkInv
  BY StartMarks
<1>2. MarkInv /\ [Marks!Next]_Marks!vars => MarkInv'
  <2> SUFFICES ASSUME MarkInv, [Marks!Next]_Marks!vars PROVE MarkInv'
    OBVIOUS
  <2>1. CASE Marks!StoreScan
    BY <2>1, StoreMarks
  <2>2. CASE Marks!RemoveScan
    BY <2>2, RemoveMarks
  <2>3. ASSUME NEW c \in Clients, Marks!BeginEnrich(c) PROVE MarkInv'
    BY <2>3, BeginMarks
  <2>4. ASSUME NEW c \in Clients, Marks!Enrich(c) PROVE MarkInv'
    BY <2>4, EnrichMarks
  <2>5. CASE Marks!Quiet
    BY <2>5, QuietMarks DEF Marks!Quiet
  <2>6. CASE UNCHANGED Marks!vars
    BY <2>6, QuietMarks
  <2>7. QED BY <2>1, <2>2, <2>3, <2>4, <2>5, <2>6 DEF Marks!Next
<1>3. QED BY <1>1, <1>2, PTL DEF Marks!Spec

\* What is shared with some base is shared with a widest one, which it is marked with.
LEMMA SharedAreMarked ==
  ASSUME Marks!LayersAssumption, MarkInv, Marks!Enriched, NEW s \in Marks!Live,
         NEW i \in Marks!Shared(s)
  PROVE  /\ scans[s].rows # <<>>
         /\ <<s, i>> \in DOMAIN layers /\ <<s, i>> \in DOMAIN sources
         /\ \E u \in Marks!Bases(s) :
              /\ layers[<<s, i>>] = [base |-> TRUE, image |-> scans[u].product]
              /\ Marks!Found(s, i) => sources[<<s, i>>] = scans[u].product
              /\ scans[u].product \in Marks!Range(Catalog)
              /\ \A t \in Marks!Bases(s) : Len(scans[t].chain) <= Len(scans[u].chain)
<1>1. PICK t \in Marks!Bases(s) : i <= Len(scans[t].chain)
  BY DEF Marks!Shared
<1>2. i \in DOMAIN scans[s].chain
  BY DEF Marks!Shared
<1>3. AllMarked
  BY DEF MarkInv, MarksCurrent, Marks!Enriched
<1>4. PICK u \in Marks!Live : Widest(s, u) /\ MarkedWith(s, u)
  BY <1>1, <1>3 DEF AllMarked
<1>5. u \in Marks!Bases(s) /\ \A x \in Marks!Bases(s) : Len(scans[x].chain) <= Len(scans[u].chain)
  BY <1>4 DEF Widest
<1>6. t \in Marks!Live /\ scans[s].rows # <<>>
  BY <1>1 DEF Marks!Bases
<1>7. /\ Len(scans[t].chain) \in Nat /\ Len(scans[u].chain) \in Nat
      /\ Len(scans[s].chain) \in Nat
      /\ DOMAIN scans[s].chain = 1 .. Len(scans[s].chain)
      /\ DOMAIN scans[s].rows = DOMAIN scans[s].chain
      /\ scans[u].product \in Marks!Range(Catalog)
  BY <1>4, <1>6, StoredScans DEF MarkInv
<1>8. i \in 1 .. Len(scans[u].chain)
  BY <1>1, <1>2, <1>5, <1>7
<1>9. /\ layers[<<s, i>>] = [base |-> TRUE, image |-> scans[u].product]
      /\ Marks!Found(s, i) => sources[<<s, i>>] = scans[u].product
  BY <1>4, <1>8 DEF MarkedWith
<1>10. <<s, i>> \in DOMAIN layers /\ <<s, i>> \in DOMAIN sources
  BY <1>2, <1>7, LayerKeysAre DEF MarkInv, MarkTypes
<1>11. QED BY <1>5, <1>6, <1>7, <1>9, <1>10

\* Once the last run has read what is stored, every layer that a container shares with
\* base images is marked, with the one that shares the most, whatever clients had marked.
THEOREM BasesGetTheirMarks ==
  ASSUME Marks!LayersAssumption, Together <= 1
  PROVE  Marks!Spec => []Marks!BasesAreMarked
<1>1. MarkInv => Marks!BasesAreMarked
  <2> SUFFICES ASSUME MarkInv, Marks!Enriched, NEW s \in Marks!Live, NEW i \in Marks!Shared(s)
               PROVE  \E u \in Marks!Bases(s) :
                        /\ layers[<<s, i>>] = [base |-> TRUE, image |-> scans[u].product]
                        /\ \A t \in Marks!Bases(s) : Len(scans[t].chain) <= Len(scans[u].chain)
    BY DEF Marks!BasesAreMarked
  <2>1. QED BY SharedAreMarked
<1>2. QED BY <1>1, AlwaysMarks, PTL

\* Then the packages that a run finds in shared layers, by digest or by position, carry
\* the mark of their layer and not the source image their client sent.
THEOREM PackagesCarryTheMarks ==
  ASSUME Marks!LayersAssumption, Together <= 1
  PROVE  Marks!Spec => []Marks!PackagesFollowLayers
<1>1. MarkInv => Marks!PackagesFollowLayers
  <2> SUFFICES ASSUME MarkInv, Marks!Enriched, NEW s \in Marks!Live, NEW i \in Marks!Shared(s),
                      Marks!Found(s, i)
               PROVE  sources[<<s, i>>] = layers[<<s, i>>].image
    BY DEF Marks!PackagesFollowLayers
  <2>1. PICK u \in Marks!Bases(s) :
          /\ layers[<<s, i>>] = [base |-> TRUE, image |-> scans[u].product]
          /\ (Marks!Found(s, i) => sources[<<s, i>>] = scans[u].product)
    BY SharedAreMarked
  <2>2. QED BY <2>1
<1>2. QED BY <1>1, AlwaysMarks, PTL

\* Then a search for base packages finds every package that names a shared layer by
\* digest, and the image it names is a base image of its product.
THEOREM LayerQueriesAgree ==
  ASSUME Marks!LayersAssumption, Together <= 1
  PROVE  Marks!Spec => []Marks!QueriesAgree
<1>1. MarkInv => Marks!QueriesAgree
  <2> SUFFICES ASSUME MarkInv, Marks!Enriched, NEW s \in Marks!Live, NEW i \in Marks!Shared(s)
               PROVE  /\ scans[s].by[i] = "digest" => <<s, i>> \in Marks!BasePackages
                      /\ Marks!Found(s, i) /\ s = Marks!Latest(scans[s].product) =>
                           sources[<<s, i>>] \in Marks!BaseImages(scans[s].product)
    BY DEF Marks!QueriesAgree
  <2>1. /\ scans[s].rows # <<>>
        /\ <<s, i>> \in DOMAIN layers /\ <<s, i>> \in DOMAIN sources
    BY SharedAreMarked
  <2>2. PICK u \in Marks!Bases(s) :
          /\ layers[<<s, i>>] = [base |-> TRUE, image |-> scans[u].product]
          /\ (Marks!Found(s, i) => sources[<<s, i>>] = scans[u].product)
          /\ scans[u].product \in Marks!Range(Catalog)
    BY SharedAreMarked
  <2>3. ASSUME scans[s].by[i] = "digest" PROVE <<s, i>> \in Marks!BasePackages
    <3>1. i \in DOMAIN scans[s].rows
      BY <2>1, LayerKeysAre DEF MarkInv, MarkTypes
    <3>2. layers[<<s, i>>] \in Marks!JoinedRows(<<s, i>>)
      BY <2>3, <3>1 DEF Marks!JoinedRows
    <3>3. layers[<<s, i>>].base
      BY <2>2
    <3>4. QED BY <2>1, <3>2, <3>3 DEF Marks!BasePackages
  <2>4. ASSUME Marks!Found(s, i), s = Marks!Latest(scans[s].product)
        PROVE  sources[<<s, i>>] \in Marks!BaseImages(scans[s].product)
    <3>1. layers[<<s, i>>].base /\ layers[<<s, i>>].image = scans[u].product
      BY <2>2
    <3>2. scans[u].product # None
      BY <2>2, MarkFacts
    <3>3. sources[<<s, i>>] = layers[<<s, i>>].image
      BY <2>2, <2>4, <3>1
    <3>4. QED BY <2>1, <2>4, <3>1, <3>2, <3>3 DEF Marks!BaseImages
  <2>5. QED BY <2>3, <2>4
<1>2. QED BY <1>1, AlwaysMarks, PTL

\* Whenever a run read and whenever it wrote, a layer is marked as its client marked it,
\* or with the product of a scan there was, whose layers it is one of.
THEOREM MarksComeFromScans ==
  ASSUME Marks!LayersAssumption, Together <= 1
  PROVE  Marks!Spec => []Marks!MarksHaveGrounds
<1>1. MarkInv => Marks!MarksHaveGrounds
  <2> SUFFICES ASSUME MarkInv, NEW k \in DOMAIN layers
               PROVE  \/ layers[k] = scans[k[1]].rows[k[2]]
                      \/ \E t \in DOMAIN scans :
                           /\ layers[k] = [base |-> TRUE, image |-> scans[t].product]
                           /\ Marks!StrictlyPrefixes(scans[t].chain, scans[k[1]].chain)
                           /\ scans[k[1]].chain[k[2]] \in Marks!Range(scans[t].chain)
    BY DEF Marks!MarksHaveGrounds
  <2>1. Grounded(k) /\ DOMAIN scans = 1 .. Len(scans)
    BY StoredScans DEF MarkInv, MarkTypes, RowsGrounded
  <2>2. QED BY <2>1 DEF Grounded
<1>2. QED BY <1>1, AlwaysMarks, PTL

=============================================================================
