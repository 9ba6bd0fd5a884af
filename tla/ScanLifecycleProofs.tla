------------------------ MODULE ScanLifecycleProofs ------------------------
(***************************************************************************)
(* What ScanLifecycle guarantees for every number of requests, processes,  *)
(* product names, batches and crashes: the types of its state; that no     *)
(* settled scan has a storage key that dangles; and, of the background     *)
(* dependency threads, that one at a time inserts in a process and that    *)
(* deps_status only moves forward although handler and thread both write   *)
(* it; of an ingest, that rows outlive strangers' removals, that an        *)
(* answered scan is indexed and has its keys and a complete one all its    *)
(* dependencies; and what one request at a time adds to that.              *)
(***************************************************************************)
EXTENDS ScanLifecycle, FiniteSetTheorems, TLAPS

USE DEF Pcs, Finals

\* What TypeOK says of one handler's record.
LEMMA RequestOf ==
  ASSUME TypeOK, NEW r \in Requests
  PROVE  /\ req[r] \in Request
         /\ req[r].pc \in Pcs /\ req[r].stage \in Nat /\ req[r].op \in AllOps
         /\ req[r].doomed \subseteq Requests /\ req[r].todo \subseteq Requests
         /\ req[r].keys \subseteq Requests \X SbomKinds
         /\ req[r].pid \in Requests \cup {None}
         /\ req[r].body \in SUBSET Parts
BY DEF TypeOK, Request

\* Updating a field of a request record with a value of its type.
LEMMA SetPc ==
  ASSUME NEW q \in Request, NEW label \in Pcs
  PROVE  [q EXCEPT !.pc = label] \in Request
BY DEF Request

\* The same for the scans it will delete,
LEMMA SetDoomed ==
  ASSUME NEW q \in Request, NEW S \in SUBSET Requests
  PROVE  [q EXCEPT !.doomed = S] \in Request
BY DEF Request

\* for those whose objects are not deleted yet,
LEMMA SetTodo ==
  ASSUME NEW q \in Request, NEW S \in SUBSET Requests
  PROVE  [q EXCEPT !.todo = S] \in Request
BY DEF Request

\* for the storage keys it read,
LEMMA SetKeys ==
  ASSUME NEW q \in Request, NEW K \in SUBSET (Requests \X SbomKinds)
  PROVE  [q EXCEPT !.keys = K] \in Request
BY DEF Request

\* and for the stage of its removal plan.
LEMMA SetStage ==
  ASSUME NEW q \in Request, NEW n \in Nat
  PROVE  [q EXCEPT !.stage = n] \in Request
BY DEF Request

\* Moving to another program point keeps the type of req.
LEMMA GotoType ==
  ASSUME NEW r \in Requests, NEW label \in Pcs, TypeOK, Goto(r, label)
  PROVE  req' \in [Requests -> Request]
BY DEF TypeOK, Goto, Request

\* Failing keeps every type.
LEMMA FailType ==
  ASSUME NEW r \in Requests, TypeOK, Fail(r)
  PROVE  TypeOK'
BY GotoType DEF TypeOK, Fail, db, history

\* The arrival of a request keeps every type.
LEMMA BeginType ==
  ASSUME TypeOK, NEW r \in Requests, Begin(r)
  PROVE  TypeOK'
<1>1. ASSUME NEW o \in Ingest, BeginIngest(r, o) PROVE TypeOK'
  <2>1. PICK n \in Names, b \in Bodies, p \in Procs :
          req' = [req EXCEPT ![r] =
            [Unborn EXCEPT !.op = o, !.name = n, !.body = b, !.home = p,
               !.pc = IF o # "upload" /\ "malformed" \in b THEN "rejected"
                      ELSE "resolve"]]
    BY <1>1 DEF BeginIngest
  <2>2. b \in SUBSET Parts /\ o \in AllOps
    BY ConstantsAssumption DEF AllOps
  <2>3. [Unborn EXCEPT !.op = o, !.name = n, !.body = b, !.home = p,
           !.pc = IF o # "upload" /\ "malformed" \in b THEN "rejected"
                  ELSE "resolve"] \in Request
    BY <2>2 DEF Request, Unborn
  <2>4. req' \in [Requests -> Request]
    BY <2>1, <2>3 DEF TypeOK
  <2>5. QED BY <1>1, <2>4 DEF TypeOK, BeginIngest, db, history
<1>2. CASE BeginDeleteScan(r)
  <2>1. PICK t \in Requests, p \in Procs : req' = [req EXCEPT ![r] =
          [Unborn EXCEPT !.op = "delete_scan", !.doomed = {t}, !.home = p,
             !.pc = "find"]]
    BY <1>2 DEF BeginDeleteScan
  <2>2. [Unborn EXCEPT !.op = "delete_scan", !.doomed = {t}, !.home = p,
           !.pc = "find"] \in Request
    BY DEF Request, Unborn, AllOps
  <2>3. req' \in [Requests -> Request]
    BY <2>1, <2>2 DEF TypeOK
  <2>4. QED BY <1>2, <2>3 DEF TypeOK, BeginDeleteScan, db, history
<1>3. CASE BeginDeleteProduct(r)
  <2>1. PICK n \in Names, p \in Procs : req' = [req EXCEPT ![r] =
          [Unborn EXCEPT !.op = "delete_product", !.name = n, !.home = p,
             !.pc = "resolve"]]
    BY <1>3 DEF BeginDeleteProduct
  <2>2. [Unborn EXCEPT !.op = "delete_product", !.name = n, !.home = p,
           !.pc = "resolve"] \in Request
    BY DEF Request, Unborn, AllOps
  <2>3. req' \in [Requests -> Request]
    BY <2>1, <2>2 DEF TypeOK
  <2>4. QED BY <1>3, <2>3 DEF TypeOK, BeginDeleteProduct, db, history
<1>4. "upload" \in Ingest /\ "import" \in Ingest /\ "packages" \in Ingest
  BY DEF Ingest
<1>5. QED
  BY <1>1, <1>2, <1>3, <1>4, Zenon DEF Begin, BeginUpload, BeginImport, BeginPackages

\* Reading the scans to remove keeps the type of req.
LEMMA DoomType ==
  ASSUME TypeOK, NEW r \in Requests, NEW S \in SUBSET Requests, NEW label \in Pcs,
         Doom(r, S, label)
  PROVE  req' \in [Requests -> Request]
<1>1. KeysOf(S) \subseteq Requests \X SbomKinds
  BY DEF KeysOf
<1>2. [req[r] EXCEPT !.doomed = S, !.todo = S, !.keys = KeysOf(S), !.pc = label]
        \in Request
  <2>1. [req[r] EXCEPT !.doomed = S, !.todo = S] \in Request
    BY RequestOf, SetDoomed, SetTodo
  <2>2. [req[r] EXCEPT !.doomed = S, !.todo = S, !.keys = KeysOf(S)] \in Request
    BY <1>1, <2>1, SetKeys
  <2>3. QED BY <2>2, SetPc
<1>3. QED BY <1>2 DEF TypeOK, Doom

\* Finding the product and the scan to replace or delete keeps every type.
LEMMA FindType ==
  ASSUME TypeOK, NEW r \in Requests,
         \/ ResolveProduct(r) \/ CreateProduct(r)
         \/ FindExisting(r) \/ FindScan(r) \/ FindScansOfProduct(r)
  PROVE  TypeOK'
<1>1. CASE ResolveProduct(r)
  BY <1>1 DEF ResolveProduct, TypeOK, Request, db, history
<1>2. CASE CreateProduct(r)
  BY <1>2, FailType DEF CreateProduct, TypeOK, Request, db, history
<1>3. CASE FindExisting(r)
  <2>1. req' \in [Requests -> Request]
    BY <1>3, DoomType, GotoType DEF FindExisting, ScansOf
  <2>2. QED BY <1>3, <2>1 DEF FindExisting, TypeOK, db, history
<1>4. CASE FindScan(r)
  <2>1. req' \in [Requests -> Request]
    BY <1>4, DoomType, GotoType DEF FindScan, TypeOK, Request
  <2>2. QED BY <1>4, <2>1 DEF FindScan, TypeOK, db, history
<1>5. CASE FindScansOfProduct(r)
  <2>1. req' \in [Requests -> Request]
    BY <1>5, DoomType DEF FindScansOfProduct, ScansOf
  <2>2. QED BY <1>5, <2>1 DEF FindScansOfProduct, TypeOK, db, history
<1>6. QED BY <1>1, <1>2, <1>3, <1>4, <1>5

\* Deleting rows only ever takes away from a scan row, or the row itself.
LEMMA AfterDeleteType ==
  ASSUME TypeOK, NEW s \in Requests, NEW ts
  PROVE  AfterDelete(s, ts) \in ScanRow
BY DEF TypeOK, AfterDelete, ScanRow, NoRow, Statuses

\* Every step of a removal keeps every type.
LEMMA RemoveType ==
  ASSUME TypeOK, NEW r \in Requests,
         \/ PurgeObjects(r) \/ DeleteRows(r)
         \/ DeleteProductRows(r) \/ CommitProductDelete(r)
  PROVE  TypeOK'
<1>1. CASE PurgeObjects(r)
  <2>1. PICK s \in req[r].todo :
          /\ \E G \in PurgeOutcomes(s, PurgeSet(r, s)) : objects' = objects \ G
          /\ req' = [req EXCEPT ![r].todo = @ \ {s},
                                ![r].keys = {k \in @ : k[1] # s},
                                ![r].pc =
               IF req[r].todo # {s} THEN "purge"
               ELSE IF req[r].op = "delete_product" THEN "stmts" ELSE "delete"]
    BY <1>1 DEF PurgeObjects
  <2>2. objects' \subseteq Requests \X Kinds
    BY <2>1 DEF TypeOK
  <2>3. {k \in req[r].keys : k[1] # s} \subseteq Requests \X SbomKinds
    BY DEF TypeOK, Request
  <2>4. ASSUME NEW label \in Pcs
        PROVE  [req[r] EXCEPT !.todo = @ \ {s}, !.keys = {k \in @ : k[1] # s},
                              !.pc = label] \in Request
    <3>1. [req[r] EXCEPT !.todo = @ \ {s}] \in Request
      BY RequestOf, SetTodo
    <3>2. [[req[r] EXCEPT !.todo = @ \ {s}] EXCEPT !.keys = {k \in req[r].keys : k[1] # s}]
            \in Request
      BY <2>3, <3>1, SetKeys
    <3>3. [[req[r] EXCEPT !.todo = @ \ {s}] EXCEPT !.keys = {k \in @ : k[1] # s}]
            = [[req[r] EXCEPT !.todo = @ \ {s}] EXCEPT !.keys = {k \in req[r].keys : k[1] # s}]
      OBVIOUS
    <3>4. QED BY <3>2, <3>3, SetPc
  <2>5. req' \in [Requests -> Request]
    BY <2>1, <2>4 DEF TypeOK
  <2>6. QED BY <1>1, <2>2, <2>5 DEF TypeOK, PurgeObjects, db, history
<1>2. CASE DeleteRows(r)
  <2>1. PICK s \in req[r].doomed :
          LET plan == RemovalPlan(req[r].op)
              last == req[r].stage = Len(plan)
          IN  /\ scan' = [scan EXCEPT ![s] = AfterDelete(s, plan[req[r].stage])]
              /\ req' = [req EXCEPT
                   ![r].stage = IF last THEN 1 ELSE @ + 1,
                   ![r].pc = IF ~last THEN "delete"
                             ELSE IF req[r].op \in Ingest THEN "insert" ELSE "done"]
    BY <1>2 DEF DeleteRows
  <2>2. s \in Requests
    BY DEF TypeOK, Request
  <2>3. scan' \in [Requests -> ScanRow]
    BY <2>1, <2>2, AfterDeleteType DEF TypeOK
  <2>4. ASSUME NEW n \in Nat, NEW label \in Pcs
        PROVE  [req[r] EXCEPT !.stage = n, !.pc = label] \in Request
    BY RequestOf, SetStage, SetPc
  <2>5. req[r].stage + 1 \in Nat
    BY RequestOf
  <2>6. req' \in [Requests -> Request]
    BY <2>1, <2>4, <2>5 DEF TypeOK
  <2>7. QED BY <1>2, <2>3, <2>6 DEF TypeOK, DeleteRows, db, history
<1>3. CASE DeleteProductRows(r)
  <2>1. ScansOf(req[r].pid) \subseteq Requests
    BY DEF ScansOf
  <2>2. [req[r] EXCEPT !.todo = ScansOf(req[r].pid), !.pc = "commit"] \in Request
    BY <2>1, RequestOf, SetTodo, SetPc
  <2>3. req' \in [Requests -> Request]
    BY <1>3, <2>2 DEF DeleteProductRows, TypeOK
  <2>4. QED BY <1>3, <2>3 DEF TypeOK, DeleteProductRows, db, history
<1>4. CASE CommitProductDelete(r)
  <2>1. req' \in [Requests -> Request]
    BY <1>4, GotoType DEF CommitProductDelete
  <2>2. scan' \in [Requests -> ScanRow]
    <3>1. NoRow \in ScanRow
      BY DEF NoRow, ScanRow, Statuses
    <3>2. QED BY <1>4, <3>1 DEF CommitProductDelete, TypeOK, db
  <2>3. product' \in [Names -> Requests \cup {None}]
    BY <1>4 DEF CommitProductDelete, TypeOK, db
  <2>4. torn' \subseteq Requests /\ answered' = answered /\ crashes' = crashes
    BY <1>4, RequestOf DEF CommitProductDelete, TypeOK, history
  <2>5. UNCHANGED <<objects, thread, sem>>
    BY <1>4 DEF CommitProductDelete
  <2>6. QED BY <2>1, <2>2, <2>3, <2>4, <2>5 DEF TypeOK
<1>5. QED BY <1>1, <1>2, <1>3, <1>4

\* Inserting the scan row and storing its objects keeps every type.
LEMMA StoreType ==
  ASSUME TypeOK, NEW r \in Requests,
         \/ RejectUpload(r) \/ InsertScan(r) \/ PutObjects(r) \/ PutFails(r)
  PROVE  TypeOK'
<1>1. CASE RejectUpload(r)
  BY <1>1, GotoType DEF RejectUpload, TypeOK, db, history
<1>2. CASE InsertScan(r)
  <2>1. [NoRow EXCEPT !.live = TRUE, !.pid = req[r].pid] \in ScanRow
    BY DEF TypeOK, Request, ScanRow, NoRow, Statuses
  <2>2. QED
    BY <1>2, <2>1, FailType, GotoType DEF InsertScan, TypeOK, history
<1>3. CASE PutObjects(r)
  <2>1. objects' \subseteq Requests \X Kinds
    BY <1>3 DEF PutObjects, TypeOK, PutKinds, Kinds, SbomKinds
  <2>2. req' \in [Requests -> Request]
    BY <1>3 DEF PutObjects, TypeOK, Request
  <2>3. QED BY <1>3, <2>1, <2>2 DEF PutObjects, TypeOK, db, history
<1>4. CASE PutFails(r)
  <2>1. objects' \subseteq Requests \X Kinds
    BY <1>4 DEF PutFails, TypeOK, PutKinds, Kinds, SbomKinds
  <2>2. QED BY <1>4, <2>1, GotoType DEF PutFails, TypeOK, db, history
<1>5. QED BY <1>1, <1>2, <1>3, <1>4

\* Indexing packages and files and starting the thread keeps every type.
LEMMA IndexType ==
  ASSUME TypeOK, NEW r \in Requests,
         \/ InsertPackages(r) \/ ExpireSession(r) \/ FlushKeys(r)
         \/ SelectPackageIds(r) \/ InsertFiles(r) \/ MarkPending(r) \/ StartThread(r)
  PROVE  TypeOK'
<1> USE DEF AfterLayers, AfterDeps, AfterFiles, AfterIds, AfterPackages
<1>1. CASE InsertPackages(r)
  <2>1. scan' \in [Requests -> ScanRow] \/ Fail(r)
    BY <1>1 DEF InsertPackages, TypeOK, ScanRow, Tables
  <2>2. Goto(r, AfterPackages(r)) \/ Fail(r)
    BY <1>1 DEF InsertPackages
  <2>3. req' \in [Requests -> Request] \/ Fail(r)
    BY <2>2, GotoType
  <2>4. QED BY <1>1, <2>1, <2>3, FailType DEF InsertPackages, TypeOK, history
<1>2. CASE ExpireSession(r)
  <2>1. req' \in [Requests -> Request]
    BY <1>2 DEF ExpireSession, TypeOK, Request
  <2>2. QED BY <1>2, <2>1 DEF ExpireSession, TypeOK, db, history
<1>3. Flushed(r) \subseteq SbomKinds
  BY DEF Flushed, PutKinds, SbomKinds, TypeOK, ScanRow
<1>4. CASE FlushKeys(r)
  <2>1. scan' \in [Requests -> ScanRow] \/ Fail(r)
    BY <1>4, <1>3 DEF FlushKeys, TypeOK, ScanRow
  <2>2. req' \in [Requests -> Request] \/ Fail(r)
    BY <1>4 DEF FlushKeys, TypeOK, Request
  <2>3. QED BY <1>4, <2>1, <2>2, FailType DEF FlushKeys, TypeOK, history
<1>5. CASE SelectPackageIds(r)
  <2>1. req' \in [Requests -> Request]
    BY <1>5 DEF SelectPackageIds, TypeOK, Request
  <2>2. QED BY <1>5, <2>1 DEF SelectPackageIds, TypeOK, db, history
<1>6. CASE InsertFiles(r)
  <2>1. scan' \in [Requests -> ScanRow] \/ Fail(r)
    BY <1>6 DEF InsertFiles, TypeOK, ScanRow, Tables
  <2>2. Goto(r, AfterFiles(r)) \/ Fail(r)
    BY <1>6 DEF InsertFiles
  <2>3. req' \in [Requests -> Request] \/ Fail(r)
    BY <2>2, GotoType
  <2>4. QED BY <1>6, <2>1, <2>3, FailType DEF InsertFiles, TypeOK, history
<1>7. CASE MarkPending(r)
  <2>1. scan' \in [Requests -> ScanRow] \/ Fail(r)
    BY <1>7, <1>3 DEF MarkPending, TypeOK, ScanRow, Statuses
  <2>2. req' \in [Requests -> Request] \/ Fail(r)
    BY <1>7 DEF MarkPending, TypeOK, Request
  <2>3. QED BY <1>7, <2>1, <2>2, FailType DEF MarkPending, TypeOK, history
<1>8. CASE StartThread(r)
  <2>1. thread' \in [Requests -> Thread] \/ Fail(r)
    <3>1. ASSUME NEW linked \in BOOLEAN
          PROVE  [pc |-> "mark", next |-> 1, linked |-> linked] \in Thread
      BY DEF Thread, ThreadPcs
    <3>2. QED BY <1>8, <3>1 DEF StartThread, TypeOK
  <2>2. req' \in [Requests -> Request] \/ Fail(r)
    BY <1>8, GotoType DEF StartThread
  <2>3. QED BY <1>8, <2>1, <2>2, FailType DEF StartThread, TypeOK, db, history
<1>9. QED BY <1>1, <1>2, <1>4, <1>5, <1>6, <1>7, <1>8

\* The last steps of an ingest keep every type.
LEMMA FinishType ==
  ASSUME TypeOK, NEW r \in Requests,
         \/ InsertLayers(r) \/ PutAttestation(r) \/ InsertAttestations(r)
         \/ Answer(r) \/ TagConflict(r)
  PROVE  TypeOK'
<1>1. CASE InsertLayers(r)
  <2>1. scan' \in [Requests -> ScanRow]
    <3>1. [scan[r] EXCEPT !.tables = @ \cup {"layers"}] \in ScanRow
      BY DEF TypeOK, ScanRow, Tables
    <3>2. QED BY <1>1, <3>1 DEF InsertLayers, TypeOK
  <2>2. req' \in [Requests -> Request]
    <3>1. AfterLayers(r) \in Pcs
      BY DEF AfterLayers
    <3>2. ASSUME NEW shared \in BOOLEAN
          PROVE  [req[r] EXCEPT !.aborted = shared, !.pc = AfterLayers(r)] \in Request
      <4>1. [req[r] EXCEPT !.aborted = shared] \in Request
        BY RequestOf DEF Request
      <4>2. QED BY <3>1, <4>1, SetPc
    <3>3. \/ Goto(r, AfterLayers(r))
          \/ \E shared \in BOOLEAN :
               req' = [req EXCEPT ![r].aborted = shared, ![r].pc = AfterLayers(r)]
      BY <1>1 DEF InsertLayers
    <3>4. QED BY <3>1, <3>2, <3>3, GotoType DEF TypeOK
  <2>3. QED BY <1>1, <2>1, <2>2 DEF InsertLayers, TypeOK, history
<1>2. CASE PutAttestation(r)
  <2>1. objects' \subseteq Requests \X Kinds
    BY <1>2 DEF PutAttestation, TypeOK, Kinds
  <2>2. req' \in [Requests -> Request]
    BY <1>2, GotoType DEF PutAttestation
  <2>3. QED BY <1>2, <2>1, <2>2 DEF PutAttestation, TypeOK, db, history
<1>3. CASE InsertAttestations(r)
  <2>1. Flushed(r) \subseteq SbomKinds
    BY DEF Flushed, PutKinds, SbomKinds, TypeOK, ScanRow
  <2>2. scan' \in [Requests -> ScanRow]
    <3>1. [scan[r] EXCEPT !.tables = @ \cup {"attestations"}, !.keys = Flushed(r)]
            \in ScanRow
      BY <2>1 DEF TypeOK, ScanRow, Tables
    <3>2. QED BY <1>3, <3>1 DEF InsertAttestations, TypeOK
  <2>3. req' \in [Requests -> Request]
    BY <1>3 DEF InsertAttestations, TypeOK, Request
  <2>4. QED BY <1>3, <2>2, <2>3 DEF InsertAttestations, TypeOK, history
<1>4. CASE Answer(r)
  <2>1. scan' \in [Requests -> ScanRow] \/ Fail(r)
    BY <1>4 DEF Answer, TypeOK, ScanRow, Tables
  <2>2. req' \in [Requests -> Request] \/ Fail(r)
    BY <1>4 DEF Answer, TypeOK, Request
  <2>3. QED BY <1>4, <2>1, <2>2, FailType DEF Answer, TypeOK
<1>5. CASE TagConflict(r)
  BY <1>5, FailType DEF TagConflict
<1>6. QED BY <1>1, <1>2, <1>3, <1>4, <1>5

\* Every step of a dependency thread keeps every type.
LEMMA ThreadType ==
  ASSUME TypeOK, NEW s \in Requests, RunThread(s)
  PROVE  TypeOK'
<1> USE DEF ThreadPcs
<1>1. ASSUME NEW status \in Statuses, SetStatus(s, status)
      PROVE  scan' \in [Requests -> ScanRow]
  BY <1>1 DEF SetStatus, TypeOK, ScanRow
<1>2. CASE MarkProcessing(s)
  BY <1>2, <1>1 DEF MarkProcessing, TypeOK, Thread, Statuses, history
<1>3. CASE AcquireSemaphore(s)
  BY <1>3 DEF AcquireSemaphore, TypeOK, Thread, db, history
<1>4. CASE InsertBatch(s)
  <2>1. scan' \in [Requests -> ScanRow]
    BY <1>4 DEF InsertBatch, TypeOK, ScanRow
  <2>2. thread' \in [Requests -> Thread]
    BY <1>4 DEF InsertBatch, TypeOK, Thread
  <2>3. QED BY <1>4, <2>1, <2>2 DEF InsertBatch, TypeOK, history
<1>5. CASE BatchFails(s)
  BY <1>5 DEF BatchFails, TypeOK, Thread, db, history
<1>6. CASE ReleaseSemaphore(s)
  BY <1>6 DEF ReleaseSemaphore, TypeOK, Thread, db, history
<1>7. CASE MarkOutcome(s)
  BY <1>7, <1>1 DEF MarkOutcome, TypeOK, Thread, Statuses, history
<1>8. QED BY <1>2, <1>3, <1>4, <1>5, <1>6, <1>7 DEF RunThread

\* A crash of a process keeps every type.
LEMMA CrashType ==
  ASSUME TypeOK, NEW p \in Procs, Crash(p)
  PROVE  TypeOK'
<1>1. req' \in [Requests -> Request]
  <2>1. ASSUME NEW r \in Requests
        PROVE  [req[r] EXCEPT !.pc = "killed"] \in Request
    BY RequestOf, SetPc
  <2>2. QED BY <2>1 DEF Crash, TypeOK
<1>2. thread' \in [Requests -> Thread]
  BY DEF Crash, TypeOK, Thread, ThreadPcs
<1>3. crashes' \in 0 .. MaxCrashes
  BY ConstantsAssumption DEF Crash, TypeOK
<1>4. QED BY <1>1, <1>2, <1>3 DEF Crash, TypeOK, db

\* The server starts with empty stores and no request.
LEMMA TypeInitially == Init => TypeOK
<1>1. Unborn \in Request /\ NoRow \in ScanRow /\ NoThread \in Thread
  BY DEF Unborn, Request, NoRow, ScanRow, NoThread, Thread, ThreadPcs, Statuses,
         AllOps, Ingest
<1>2. QED BY <1>1, ConstantsAssumption DEF Init, TypeOK

\* Every step keeps every variable in its type.
LEMMA TypeStep == TypeOK /\ [Next]_vars => TypeOK'
<1> SUFFICES ASSUME TypeOK, [Next]_vars PROVE TypeOK'
  OBVIOUS
<1>1. ASSUME NEW r \in Requests, Handle(r) PROVE TypeOK'
  BY <1>1, FindType, RemoveType, StoreType, IndexType, FinishType DEF Handle
<1>2. CASE UNCHANGED vars
  BY <1>2 DEF vars, TypeOK
<1>3. QED
  BY <1>1, <1>2, BeginType, ThreadType, CrashType DEF Next, Quiet

\* The type invariant holds for every instance: whatever the requests, the
\* processes and the crashes, deps_status stays one of the column's values and
\* every handler stays at a point of its program.
THEOREM TypeCorrect == Spec => []TypeOK
BY TypeInitially, TypeStep, PTL DEF Spec

----------------------------------------------------------------------------
(* Storage keys: StorageInv is inductive.                                  *)

\* Program points of an ingest that has its scan row.
WorkPcs == {"put", "packages", "expire", "flush", "ids", "files", "pending",
            "start", "layers", "att_put", "att_row", "answer"}

\* What every step of such an ingest has in common.
WorkStep(r) ==
  /\ req[r].pc \in WorkPcs
  /\ req'[r].pc \in (WorkPcs \cup Finals) \ {"put"}
  /\ req'[r].op = req[r].op /\ req'[r].doomed = req[r].doomed
  /\ \A s \in Requests : s # r => req'[s] = req[s] /\ scan'[s] = scan[s]
  /\ torn' = torn /\ objects \subseteq objects'
  /\ scan'[r].live = scan[r].live /\ scan'[r].pid = scan[r].pid
  /\ req'[r].dirty => req[r].dirty \/ {r} \X PutKinds(r) \subseteq objects'
  /\ req'[r].pc = "att_row" => <<r, "attestation">> \in objects'
  /\ scan'[r].keys \subseteq
       scan[r].keys \cup (IF req[r].dirty THEN PutKinds(r) ELSE {})
  /\ "attestations" \in scan'[r].tables =>
       "attestations" \in scan[r].tables \/ req[r].pc = "att_row"

\* Such a step keeps what ControlInv says of every handler.
LEMMA WorkControl ==
  ASSUME TypeOK, ControlInv, NEW r \in Requests, WorkStep(r)
  PROVE  ControlInv'
<1>1. ASSUME NEW q \in Requests
      PROVE  /\ req'[q].pc \in PreInsertPcs \cup RemovalPcs \cup {"put"} => req'[q] = req[q]
             /\ req[q].pc \in PreInsertPcs => req'[q] = req[q]
             /\ req[q].pc \notin PreInsertPcs => req'[q].pc \notin PreInsertPcs
             /\ scan'[q].live = scan[q].live /\ scan'[q].pid = scan[q].pid
  BY DEF WorkStep, WorkPcs, PreInsertPcs, RemovalPcs
<1> SUFFICES ASSUME NEW q \in Requests PROVE Control(q)'
  BY DEF ControlInv
<1> Control(q)
  BY DEF ControlInv
<1>2. CleanBeforePut(q)'
  BY <1>1 DEF Control, CleanBeforePut
<1>3. InsertedOnce(q)'
  BY <1>1 DEF Control, InsertedOnce, Live
<1>4. OwnProgram(q)'
  BY <1>1 DEF Control, OwnProgram, PreInsertPcs
<1>5. OneDoomed(q)'
  BY <1>1 DEF Control, OneDoomed, PreInsertPcs
<1>6. DoomedAreOld(q)'
  BY <1>1 DEF Control, DoomedAreOld, TypeOK, Request, RemovalPcs, Live
<1>7. QED BY <1>2, <1>3, <1>4, <1>5, <1>6 DEF Control

\* Such a step settles and unsettles no scan.
LEMMA WorkSettled ==
  ASSUME NEW r \in Requests, WorkStep(r), NEW s \in Requests
  PROVE  Settled(s)' <=> Settled(s)
<1>1. ASSUME NEW q \in Requests
      PROVE  /\ req'[q].pc \in RemovalPcs <=> req[q].pc \in RemovalPcs
             /\ req'[q].doomed = req[q].doomed
  BY DEF WorkStep, WorkPcs, RemovalPcs
<1>2. QED BY <1>1 DEF Settled, Removing, Live, WorkStep

\* Such a step leaves every settled scan's keys naming stored objects.
LEMMA WorkStored ==
  ASSUME NEW r \in Requests, WorkStep(r), StoredInv, NoDanglingKey
  PROVE  StoredInv' /\ NoDanglingKey'
<1>1. ASSUME NEW s \in Requests, Settled(s)', s # r
      PROVE  /\ req'[s].dirty => {s} \X PutKinds(s)' \subseteq objects'
             /\ req'[s].pc = "att_row" => <<s, "attestation">> \in objects'
             /\ {s} \X NamedKinds(s)' \subseteq objects'
  <2>1. Settled(s)
    BY <1>1, WorkSettled
  <2>2. scan'[s] = scan[s] /\ req'[s] = req[s] /\ objects \subseteq objects'
    BY <1>1 DEF WorkStep
  <2>3. QED
    BY <2>1, <2>2 DEF StoredInv, NoDanglingKey, NamedKinds, PutKinds
<1>2. ASSUME Settled(r)'
      PROVE  /\ req'[r].dirty => {r} \X PutKinds(r)' \subseteq objects'
             /\ req'[r].pc = "att_row" => <<r, "attestation">> \in objects'
             /\ {r} \X NamedKinds(r)' \subseteq objects'
  <2>1. Settled(r) /\ objects \subseteq objects'
    BY <1>2, WorkSettled DEF WorkStep
  <2>2. PutKinds(r)' = PutKinds(r)
    BY DEF WorkStep, PutKinds
  <2>3. req[r].dirty => {r} \X PutKinds(r) \subseteq objects
    BY <2>1 DEF StoredInv
  <2>4. {r} \X scan[r].keys \subseteq objects
    BY <2>1 DEF NoDanglingKey, NamedKinds
  <2>5. {r} \X scan'[r].keys \subseteq objects'
    BY <2>1, <2>3, <2>4 DEF WorkStep
  <2>6. "attestations" \in scan'[r].tables => <<r, "attestation">> \in objects'
    BY <2>1 DEF WorkStep, StoredInv, NoDanglingKey, NamedKinds
  <2>7. QED BY <2>1, <2>2, <2>3, <2>5, <2>6 DEF WorkStep, NamedKinds
<1>3. QED BY <1>1, <1>2 DEF StoredInv, NoDanglingKey

\* An ingest that fails takes such a step.
LEMMA FailIsWork ==
  ASSUME TypeOK, NEW r \in Requests, req[r].pc \in WorkPcs, Fail(r)
  PROVE  WorkStep(r)
BY DEF WorkStep, WorkPcs, Fail, Goto, TypeOK, Request, db, history

\* A step that writes some columns of the ingest's own row and moves on.
LEMMA RowIsWork ==
  ASSUME TypeOK, NEW r \in Requests, req[r].pc \in WorkPcs,
         NEW row, scan' = [scan EXCEPT ![r] = row],
         row.live = scan[r].live, row.pid = scan[r].pid,
         row.keys \subseteq
           scan[r].keys \cup (IF req[r].dirty THEN PutKinds(r) ELSE {}),
         "attestations" \in row.tables =>
           "attestations" \in scan[r].tables \/ req[r].pc = "att_row",
         NEW q, req' = [req EXCEPT ![r] = q],
         q.pc \in (WorkPcs \cup Finals) \ {"put", "att_row"},
         q.op = req[r].op, q.doomed = req[r].doomed, q.dirty => req[r].dirty,
         UNCHANGED <<objects, torn>>
  PROVE  WorkStep(r)
BY DEF WorkStep, TypeOK

\* Every step of an ingest after its INSERT is such a step.
LEMMA HandlersWork ==
  ASSUME TypeOK, NEW r \in Requests,
         \/ PutObjects(r) \/ PutFails(r)
         \/ InsertPackages(r) \/ ExpireSession(r) \/ FlushKeys(r)
         \/ SelectPackageIds(r) \/ InsertFiles(r) \/ MarkPending(r) \/ StartThread(r)
         \/ InsertLayers(r) \/ PutAttestation(r) \/ InsertAttestations(r)
         \/ Answer(r) \/ TagConflict(r)
  PROVE  WorkStep(r)
<1> USE DEF WorkPcs
<1>0. /\ scan \in [Requests -> ScanRow] /\ req \in [Requests -> Request]
      /\ scan[r] \in ScanRow /\ req[r] \in Request
  BY DEF TypeOK
<1> DEFINE Next1 == (WorkPcs \cup Finals) \ {"put", "att_row"}
<1>a. /\ AfterLayers(r) \in Next1 /\ AfterDeps(r) \in Next1 /\ AfterFiles(r) \in Next1
      /\ AfterIds(r) \in Next1 /\ AfterPackages(r) \in Next1
  BY DEF AfterLayers, AfterDeps, AfterFiles, AfterIds, AfterPackages
<1>b. ASSUME NEW label \in Next1, NEW t \in {"packages", "files", "layers"},
             scan' = [scan EXCEPT ![r].tables = @ \cup {t}],
             req[r].pc \in WorkPcs, Goto(r, label), UNCHANGED <<objects, torn>>
      PROVE  WorkStep(r)
  <2> DEFINE row == [scan[r] EXCEPT !.tables = @ \cup {t}]
             q == [req[r] EXCEPT !.pc = label]
  <2>1. /\ req' = [req EXCEPT ![r] = q]
        /\ q.pc \in Next1 /\ q.op = req[r].op /\ q.doomed = req[r].doomed
        /\ q.dirty = req[r].dirty
    BY <1>0, <1>b DEF Goto, Request
  <2>2. scan' = [scan EXCEPT ![r] = row]
    BY <1>b
  <2>3. /\ row.live = scan[r].live /\ row.pid = scan[r].pid /\ row.keys = scan[r].keys
        /\ "attestations" \in row.tables => "attestations" \in scan[r].tables
    BY <1>0 DEF ScanRow
  <2> HIDE DEF row, q
  <2>4. QED BY <1>b, <2>1, <2>2, <2>3, RowIsWork
<1>c. ASSUME NEW label \in Next1, UNCHANGED scan,
             req[r].pc \in WorkPcs, Goto(r, label), UNCHANGED <<objects, torn>>
      PROVE  WorkStep(r)
  BY <1>0, <1>c DEF Goto, WorkStep, Request
<1>1. CASE PutObjects(r)
  BY <1>0, <1>1 DEF PutObjects, WorkStep, db, history
<1>2. CASE PutFails(r)
  BY <1>0, <1>2 DEF PutFails, WorkStep, db, history, Goto
<1>3. CASE InsertPackages(r)
  <2>1. CASE Live(r)
    <3>1. /\ scan' = [scan EXCEPT ![r].tables = @ \cup {"packages"}]
          /\ req[r].pc \in WorkPcs /\ Goto(r, AfterPackages(r)) /\ UNCHANGED <<objects, torn>>
      BY <2>1, <1>3 DEF InsertPackages, history
    <3>2. QED BY <3>1, <1>a, <1>b
  <2>2. CASE ~Live(r)
    BY <2>2, <1>3, FailIsWork DEF InsertPackages
  <2>3. QED BY <2>1, <2>2
<1>4. CASE ExpireSession(r)
  BY <1>0, <1>4 DEF ExpireSession, WorkStep, db, history
<1>5. CASE FlushKeys(r)
  <2>1. CASE Live(r)
    BY <2>1, <1>0, <1>5, RowIsWork DEF FlushKeys, Flushed, history, Request, ScanRow
  <2>2. CASE ~Live(r)
    BY <2>2, <1>5, FailIsWork DEF FlushKeys
  <2>3. QED BY <2>1, <2>2
<1>6. CASE SelectPackageIds(r)
  BY <1>0, <1>6, <1>a DEF SelectPackageIds, WorkStep, db, history
<1>7. CASE InsertFiles(r)
  <2>1. CASE req[r].found /\ "packages" \notin scan[r].tables
    BY <2>1, <1>7, FailIsWork DEF InsertFiles
  <2>2. CASE req[r].found /\ "packages" \in scan[r].tables
    <3>1. /\ scan' = [scan EXCEPT ![r].tables = @ \cup {"files"}]
          /\ req[r].pc \in WorkPcs /\ Goto(r, AfterFiles(r)) /\ UNCHANGED <<objects, torn>>
      BY <2>2, <1>7 DEF InsertFiles, history
    <3>2. QED BY <3>1, <1>a, <1>b
  <2>3. CASE ~req[r].found
    BY <2>3, <1>7, <1>a, <1>c DEF InsertFiles, history
  <2>4. QED BY <2>1, <2>2, <2>3
<1>8. CASE MarkPending(r)
  <2>1. CASE Live(r)
    BY <2>1, <1>0, <1>8, RowIsWork DEF MarkPending, Flushed, history, Request, ScanRow
  <2>2. CASE ~Live(r)
    BY <2>2, <1>8, FailIsWork DEF MarkPending
  <2>3. QED BY <2>1, <2>2
<1>9. CASE StartThread(r)
  <2>1. CASE Live(r)
    BY <2>1, <1>9, <1>a, <1>c DEF StartThread, db, history
  <2>2. CASE ~Live(r)
    BY <2>2, <1>9, FailIsWork DEF StartThread
  <2>3. QED BY <2>1, <2>2
<1>10. CASE InsertLayers(r)
  <2>1. CASE Live(r) /\ "dup_layers" \notin req[r].body
    <3>1. /\ scan' = [scan EXCEPT ![r].tables = @ \cup {"layers"}]
          /\ req[r].pc \in WorkPcs /\ Goto(r, AfterLayers(r)) /\ UNCHANGED <<objects, torn>>
      BY <2>1, <1>10 DEF InsertLayers, history
    <3>2. QED BY <3>1, <1>a, <1>b
  <2>2. CASE ~(Live(r) /\ "dup_layers" \notin req[r].body)
    <3>1. PICK shared : req' = [req EXCEPT ![r] =
            [req[r] EXCEPT !.aborted = shared, !.pc = AfterLayers(r)]]
      BY <2>2, <1>10 DEF InsertLayers
    <3>2. UNCHANGED <<scan, objects, torn>>
      BY <2>2, <1>10 DEF InsertLayers, history
    <3>3. QED BY <1>0, <1>10, <1>a, <3>1, <3>2 DEF WorkStep, Request, InsertLayers
  <2>3. QED BY <2>1, <2>2
<1>11. CASE PutAttestation(r)
  <2>1. CASE objects' = objects \cup {<<r, "attestation">>} /\ Goto(r, "att_row")
    BY <2>1, <1>0, <1>11 DEF PutAttestation, WorkStep, db, history, Goto
  <2>2. CASE Goto(r, "answer") /\ UNCHANGED objects
    BY <2>2, <1>11, <1>c DEF PutAttestation, db, history
  <2>3. QED BY <2>1, <2>2, <1>11 DEF PutAttestation
<1>12. CASE InsertAttestations(r)
  BY <1>0, <1>12 DEF InsertAttestations, Flushed, WorkStep, history, ScanRow
<1>13. CASE Answer(r)
  <2>1. CASE Live(r) /\ ~req[r].aborted
    <3>1. "attestations" \notin req[r].body \cap {"tags"}
      OBVIOUS
    <3>2. QED BY <2>1, <3>1, <1>0, <1>13, RowIsWork DEF Answer, ScanRow, Request
  <2>2. CASE ~(Live(r) /\ ~req[r].aborted)
    BY <2>2, <1>13, FailIsWork DEF Answer
  <2>3. QED BY <2>1, <2>2
<1>14. CASE TagConflict(r)
  BY <1>14, FailIsWork DEF TagConflict
<1>15. QED
  BY <1>1, <1>2, <1>3, <1>4, <1>5, <1>6, <1>7, <1>8, <1>9, <1>10, <1>11, <1>12,
     <1>13, <1>14

----------------------------------------------------------------------------
(* Before the scan row: a handler reads, and decides what to remove.       *)

\* Program points from which nothing has been stored or removed yet.
EarlyPcs == {"idle", "resolve", "create", "find", "insert"}

\* What every step from there has in common.
EarlyStep(r) ==
  /\ req[r].pc \in EarlyPcs
  /\ req'[r].pc \in EarlyPcs \cup {"purge", "stmts"} \cup Finals
  /\ \A s \in Requests : s # r => req'[s] = req[s]
  /\ UNCHANGED <<scan, objects, torn>>
  /\ ~req'[r].dirty
  /\ OwnProgram(r)' /\ OneDoomed(r)'
  /\ req'[r].pc \in {"purge", "stmts"} =>
       /\ req'[r].todo = req'[r].doomed
       /\ \A s \in req'[r].doomed :
            /\ s \in Requests /\ Live(s)
            /\ req'[r].op = "delete_product" => scan[s].pid = req'[r].pid

\* A handler that only reads settles no scan.
LEMMA EarlySettles ==
  ASSUME NEW r \in Requests, EarlyStep(r), NEW s \in Requests, Settled(s)'
  PROVE  Settled(s) /\ scan'[s] = scan[s]
<1>1. Live(s) /\ s \notin torn
  BY DEF Settled, Live, EarlyStep
<1>2. ASSUME NEW q \in Requests, req[q].pc \in RemovalPcs PROVE req'[q] = req[q]
  BY <1>2 DEF EarlyStep, EarlyPcs, RemovalPcs
<1>3. ~Removing(s)
  BY <1>2 DEF Settled, Removing
<1>4. QED BY <1>1, <1>3 DEF Settled, EarlyStep

\* A handler that only reads keeps every part of StorageInv: what it is about to
\* remove has a live row, so the ingest behind it is past its INSERT.
LEMMA EarlyKeeps ==
  ASSUME TypeOK, ControlInv, StoredInv, NoDanglingKey, NEW r \in Requests, EarlyStep(r)
  PROVE  ControlInv' /\ StoredInv' /\ NoDanglingKey'
<1>1. ~Live(r)
  BY DEF ControlInv, Control, InsertedOnce, EarlyStep, EarlyPcs, PreInsertPcs
<1>2. ASSUME NEW q \in Requests, q # r PROVE Control(q)'
  <2>1. Control(q) /\ req'[q] = req[q] /\ UNCHANGED scan
    BY <1>2 DEF ControlInv, EarlyStep
  <2>2. ASSUME NEW s \in Requests, req[s].pc \notin PreInsertPcs
        PROVE  req'[s].pc \notin PreInsertPcs
    BY <2>2 DEF EarlyStep, EarlyPcs, PreInsertPcs
  <2>3. DoomedAreOld(q)'
    BY <2>1, <2>2 DEF Control, DoomedAreOld, TypeOK, Request, Live
  <2>4. QED
    BY <2>1, <2>3 DEF Control, CleanBeforePut, InsertedOnce, OwnProgram, OneDoomed, Live
<1>3. Control(r)'
  <2>1. InsertedOnce(r)' /\ CleanBeforePut(r)'
    BY <1>1 DEF InsertedOnce, CleanBeforePut, EarlyStep, Live
  <2>2. ASSUME NEW s \in Requests, Live(s) PROVE req'[s].pc \notin PreInsertPcs
    BY <1>1, <2>2 DEF ControlInv, Control, InsertedOnce, EarlyStep
  <2>3. req'[r].pc \in RemovalPcs => req'[r].pc \in {"purge", "stmts"}
    BY DEF EarlyStep, EarlyPcs, RemovalPcs
  <2>4. DoomedAreOld(r)'
    BY <2>2, <2>3 DEF DoomedAreOld, EarlyStep
  <2>5. QED BY <2>1, <2>4 DEF Control, EarlyStep
<1>4. ASSUME NEW s \in Requests, Settled(s)'
      PROVE  Settled(s) /\ s # r
  BY <1>1, <1>4, EarlySettles DEF Settled
<1>5. StoredInv' /\ NoDanglingKey'
  BY <1>4 DEF StoredInv, NoDanglingKey, NamedKinds, PutKinds, EarlyStep
<1>6. QED BY <1>2, <1>3, <1>5 DEF ControlInv

\* An arriving request starts at its first program point with nothing read.
LEMMA BeginIsEarly ==
  ASSUME TypeOK, NEW r \in Requests, Begin(r)
  PROVE  EarlyStep(r)
<1> USE DEF EarlyStep, EarlyPcs, OwnProgram, OneDoomed, TypeOK, db, history, CanBegin
<1>1. ASSUME NEW o \in Ingest, BeginIngest(r, o) PROVE EarlyStep(r)
  <2>1. PICK n \in Names, b \in Bodies, p \in Procs :
          req' = [req EXCEPT ![r] =
            [Unborn EXCEPT !.op = o, !.name = n, !.body = b, !.home = p,
               !.pc = IF o # "upload" /\ "malformed" \in b THEN "rejected"
                      ELSE "resolve"]]
    BY <1>1 DEF BeginIngest
  <2>2. req[r].pc = "idle" /\ UNCHANGED <<scan, objects, torn>>
    BY <1>1 DEF BeginIngest
  <2>3. /\ req'[r].pc \in {"rejected", "resolve"} /\ ~req'[r].dirty
        /\ req'[r].op # "delete_scan"
        /\ \A s \in Requests : s # r => req'[s] = req[s]
    BY <2>1 DEF Unborn, Ingest
  <2>4. QED BY <2>2, <2>3
<1>2. CASE BeginDeleteScan(r)
  <2>1. PICK t \in Requests, p \in Procs : req' = [req EXCEPT ![r] =
          [Unborn EXCEPT !.op = "delete_scan", !.doomed = {t}, !.home = p,
             !.pc = "find"]]
    BY <1>2 DEF BeginDeleteScan
  <2>2. QED BY <1>2, <2>1 DEF BeginDeleteScan, Unborn
<1>3. CASE BeginDeleteProduct(r)
  <2>1. PICK n \in Names, p \in Procs : req' = [req EXCEPT ![r] =
          [Unborn EXCEPT !.op = "delete_product", !.name = n, !.home = p,
             !.pc = "resolve"]]
    BY <1>3 DEF BeginDeleteProduct
  <2>2. QED BY <1>3, <2>1 DEF BeginDeleteProduct, Unborn
<1>4. "upload" \in Ingest /\ "import" \in Ingest /\ "packages" \in Ingest
  BY DEF Ingest
<1>5. QED
  BY <1>1, <1>2, <1>3, <1>4, Zenon DEF Begin, BeginUpload, BeginImport, BeginPackages

\* A failure or a change of program point before the INSERT removes nothing.
LEMMA GotoIsEarly ==
  ASSUME TypeOK, ControlInv, NEW r \in Requests, req[r].pc \in EarlyPcs,
         NEW label \in {"insert", "rejected", "error"}, Goto(r, label),
         UNCHANGED <<scan, objects, torn>>
  PROVE  EarlyStep(r)
<1>1. ~req[r].dirty
  BY DEF ControlInv, Control, CleanBeforePut, EarlyPcs, PreInsertPcs
<1>2. /\ req'[r].pc = label /\ req'[r].dirty = req[r].dirty
      /\ \A s \in Requests : s # r => req'[s] = req[s]
  BY DEF Goto, TypeOK, Request
<1>3. QED
  BY <1>1, <1>2 DEF EarlyStep, EarlyPcs, OwnProgram, OneDoomed

\* Reading the scans to remove.
LEMMA DoomIsEarly ==
  ASSUME TypeOK, ControlInv, NEW r \in Requests, req[r].pc = "find",
         NEW S \in SUBSET Requests, NEW label \in {"purge", "stmts"}, Doom(r, S, label),
         UNCHANGED <<scan, objects, torn>>,
         \A s \in S : Live(s) /\ (req[r].op = "delete_product" => scan[s].pid = req[r].pid),
         label = "stmts" => req[r].op = "delete_product",
         req[r].op # "delete_product" => \E t \in Requests : S = {t}
  PROVE  EarlyStep(r)
<1>1. ~req[r].dirty
  BY DEF ControlInv, Control, CleanBeforePut, PreInsertPcs
<1>2. /\ req'[r].pc = label /\ req'[r].dirty = req[r].dirty /\ req'[r].op = req[r].op
      /\ req'[r].doomed = S /\ req'[r].todo = S /\ req'[r].pid = req[r].pid
      /\ \A s \in Requests : s # r => req'[s] = req[s]
  BY DEF Doom, TypeOK, Request
<1>3. QED
  BY <1>1, <1>2 DEF EarlyStep, EarlyPcs, OwnProgram, OneDoomed

\* The reads of every handler are early steps.
LEMMA FindIsEarly ==
  ASSUME TypeOK, ControlInv, NEW r \in Requests,
         \/ ResolveProduct(r) \/ CreateProduct(r)
         \/ FindExisting(r) \/ FindScan(r) \/ FindScansOfProduct(r)
         \/ RejectUpload(r)
  PROVE  EarlyStep(r)
<1> USE DEF EarlyPcs
<1>0. req[r] \in Request /\ req[r].op \in AllOps /\ req[r].doomed \subseteq Requests
  BY RequestOf
<1>1. CASE ResolveProduct(r)
  <2>1. ~req[r].dirty
    BY <1>1 DEF ControlInv, Control, CleanBeforePut, PreInsertPcs, ResolveProduct
  <2>2. /\ req'[r].pc \in {"find", "rejected", "create"}
        /\ req'[r].pc = "find" => req'[r].op = req[r].op
        /\ req'[r].dirty = req[r].dirty /\ req'[r].doomed = req[r].doomed
        /\ req'[r].op = req[r].op
        /\ \A s \in Requests : s # r => req'[s] = req[s]
    BY <1>0, <1>1 DEF ResolveProduct, TypeOK, Request
  <2>3. req[r].op # "delete_scan"
    BY <1>1 DEF ControlInv, Control, OwnProgram, ResolveProduct
  <2>4. QED
    BY <1>1, <2>1, <2>2, <2>3
    DEF EarlyStep, OwnProgram, OneDoomed, ResolveProduct, db, history
<1>2. CASE CreateProduct(r)
  <2>1. ~req[r].dirty /\ req[r].op # "delete_scan"
    BY <1>2 DEF ControlInv, Control, CleanBeforePut, OwnProgram, PreInsertPcs, CreateProduct
  <2>2. CASE product[req[r].name] = None
    <3>1. /\ req'[r].pc = "find" /\ req'[r].dirty = req[r].dirty /\ req'[r].op = req[r].op
          /\ \A s \in Requests : s # r => req'[s] = req[s]
      BY <1>0, <1>2, <2>2 DEF CreateProduct, TypeOK, Request
    <3>2. QED
      BY <1>2, <2>1, <2>2, <3>1
      DEF EarlyStep, OwnProgram, OneDoomed, CreateProduct, history
  <2>3. CASE ~(product[req[r].name] = None)
    BY <1>2, <2>3, GotoIsEarly DEF CreateProduct, Fail, db, history
  <2>4. QED BY <2>2, <2>3
<1>3. CASE FindExisting(r)
  <2>1. req[r].pc = "find" /\ req[r].op # "delete_product" /\ UNCHANGED <<scan, objects, torn>>
    BY <1>3 DEF FindExisting, Ingest, db, history
  <2>2. ASSUME NEW s \in ScansOf(req[r].pid), Doom(r, {s}, "purge")
        PROVE  EarlyStep(r)
    BY <2>1, <2>2, DoomIsEarly DEF ScansOf
  <2>3. CASE Goto(r, "insert")
    BY <2>1, <2>3, GotoIsEarly
  <2>4. QED BY <1>3, <2>2, <2>3 DEF FindExisting
<1>4. CASE FindScan(r)
  <2>1. /\ req[r].pc = "find" /\ req[r].op = "delete_scan" /\ UNCHANGED <<scan, objects, torn>>
    BY <1>4 DEF FindScan, db, history
  <2>2. CASE \A s \in req[r].doomed : Live(s)
    <3>1. \E t \in Requests : req[r].doomed = {t}
      BY <2>1 DEF ControlInv, Control, OneDoomed
    <3>2. Doom(r, req[r].doomed, "purge")
      BY <2>2, <1>4 DEF FindScan
    <3>3. QED BY <1>0, <2>1, <2>2, <3>1, <3>2, DoomIsEarly
  <2>3. CASE ~(\A s \in req[r].doomed : Live(s))
    BY <1>4, <2>1, <2>3, GotoIsEarly DEF FindScan
  <2>4. QED BY <2>2, <2>3
<1>5. CASE FindScansOfProduct(r)
  <2> DEFINE S == ScansOf(req[r].pid)
  <2>1. /\ req[r].pc = "find" /\ req[r].op = "delete_product"
        /\ UNCHANGED <<scan, objects, torn>>
        /\ Doom(r, S, "stmts") \/ Doom(r, S, "purge")
    BY <1>5 DEF FindScansOfProduct, db, history
  <2>2. S \in SUBSET Requests /\ \A s \in S : Live(s) /\ scan[s].pid = req[r].pid
    BY DEF ScansOf
  <2>3. QED BY <2>1, <2>2, DoomIsEarly
<1>6. CASE RejectUpload(r)
  BY <1>6, GotoIsEarly DEF RejectUpload, db, history
<1>7. QED BY <1>1, <1>2, <1>3, <1>4, <1>5, <1>6

----------------------------------------------------------------------------
(* Removing a scan.                                                        *)

\* What every step of a removal has in common: a scan it leaves settled was
\* settled before and lost nothing.
RemovalStep(r) ==
  /\ req[r].pc \in RemovalPcs
  /\ req'[r].pc \in RemovalPcs \cup {"insert", "done", "error"}
  /\ \A q \in Requests : q # r => req'[q] = req[q]
  /\ req'[r].op = req[r].op /\ req'[r].doomed = req[r].doomed
  /\ req'[r].pid = req[r].pid /\ req'[r].dirty = req[r].dirty
  /\ req'[r].pc = "purge" => req[r].pc = "purge" /\ req'[r].todo \subseteq req[r].todo
  /\ req'[r].pc = "delete" => req[r].op # "delete_product"
  /\ req'[r].pc \in {"stmts", "commit"} => req[r].op = "delete_product"
  /\ torn \subseteq torn'
  /\ \A s \in Requests : Live(s)' => Live(s) /\ scan'[s].pid = scan[s].pid
  /\ \A s \in Requests :
       Settled(s)' => /\ s \notin req[r].doomed
                      /\ scan'[s] = scan[s]
                      /\ \A k \in objects : k[1] = s => k \in objects'

\* A removal settles no scan, and leaves what it leaves settled as it was.
LEMMA RemovalSettles ==
  ASSUME NEW r \in Requests, RemovalStep(r), NEW s \in Requests, Settled(s)'
  PROVE  Settled(s) /\ scan'[s] = scan[s]
<1>1. Live(s) /\ s \notin torn /\ s \notin req[r].doomed /\ scan'[s] = scan[s]
  BY DEF Settled, RemovalStep
<1>2. ~Removing(s)
  BY <1>1 DEF Settled, Removing, RemovalStep
<1>3. QED BY <1>1, <1>2 DEF Settled

\* A removal keeps every part of StorageInv.
LEMMA RemovalKeeps ==
  ASSUME TypeOK, ControlInv, StoredInv, NoDanglingKey, NEW r \in Requests, RemovalStep(r)
  PROVE  ControlInv' /\ StoredInv' /\ NoDanglingKey'
<1>1. ~Live(r) => req[r].pc \in PreInsertPcs
  BY DEF RemovalStep, RemovalPcs, PreInsertPcs
<1>2. req[r].pc \in PreInsertPcs /\ ~Live(r) /\ ~req[r].dirty
  BY DEF RemovalStep, RemovalPcs, PreInsertPcs, ControlInv, Control, InsertedOnce,
         CleanBeforePut
<1>3. ASSUME NEW q \in Requests PROVE Control(q)'
  <2>0. Control(q) /\ \A s \in Requests : Live(s)' => Live(s) /\ scan'[s].pid = scan[s].pid
    BY DEF ControlInv, RemovalStep
  <2>1. CleanBeforePut(q)' /\ InsertedOnce(q)'
    BY <1>2, <2>0 DEF Control, CleanBeforePut, InsertedOnce, RemovalStep
  <2>2. OwnProgram(q)'
    BY <2>0 DEF Control, OwnProgram, RemovalStep, RemovalPcs
  <2>3. OneDoomed(q)'
    BY <2>0 DEF Control, OneDoomed, OwnProgram, RemovalStep, RemovalPcs
  <2>4. ASSUME NEW s \in Requests, req[s].pc \notin PreInsertPcs
        PROVE  req'[s].pc \notin PreInsertPcs
    BY <1>2, <2>4 DEF RemovalStep
  <2>5. /\ req'[q].doomed = req[q].doomed /\ req'[q].pid = req[q].pid /\ req'[q].op = req[q].op
        /\ req'[q].pc \in RemovalPcs => req[q].pc \in RemovalPcs
        /\ req'[q].pc = "purge" => req[q].pc = "purge" /\ req'[q].todo \subseteq req[q].todo
        /\ req[q].doomed \subseteq Requests
    BY RequestOf DEF RemovalStep
  <2>6. DoomedAreOld(q)'
    BY <2>0, <2>4, <2>5 DEF Control, DoomedAreOld
  <2>7. QED BY <2>1, <2>2, <2>3, <2>6 DEF Control
<1>4. ASSUME NEW s \in Requests, Settled(s)'
      PROVE  /\ Settled(s) /\ s # r /\ scan'[s] = scan[s] /\ req'[s] = req[s]
             /\ \A k \in objects : k[1] = s => k \in objects'
  <2>1. Settled(s) /\ scan'[s] = scan[s]
    BY <1>4, RemovalSettles
  <2>2. s # r
    BY <1>2, <2>1 DEF Settled
  <2>3. QED BY <1>4, <2>1, <2>2 DEF RemovalStep
<1>5. ASSUME NEW s \in Requests, Settled(s)', NEW K, {s} \X K \subseteq objects
      PROVE  {s} \X K \subseteq objects'
  <2>1. \A k \in {s} \X K : k[1] = s
    OBVIOUS
  <2>2. QED BY <1>4, <1>5, <2>1
<1>6. NoDanglingKey'
  <2> SUFFICES ASSUME NEW s \in Requests, Settled(s)'
               PROVE  {s} \X NamedKinds(s)' \subseteq objects'
    BY DEF NoDanglingKey
  <2>1. NamedKinds(s)' = NamedKinds(s)
    BY <1>4 DEF NamedKinds
  <2>2. QED BY <1>4, <1>5, <2>1 DEF NoDanglingKey
<1>7. StoredInv'
  <2> SUFFICES ASSUME NEW s \in Requests, Settled(s)'
               PROVE  /\ req'[s].dirty => {s} \X PutKinds(s)' \subseteq objects'
                      /\ req'[s].pc = "att_row" => <<s, "attestation">> \in objects'
    BY DEF StoredInv
  <2>1. PutKinds(s)' = PutKinds(s) /\ req'[s] = req[s]
    BY <1>4 DEF PutKinds
  <2>2. <<s, "attestation">> \in objects => <<s, "attestation">> \in objects'
    BY <1>4
  <2>3. QED BY <1>4, <1>5, <2>1, <2>2 DEF StoredInv
<1>8. QED BY <1>3, <1>6, <1>7 DEF ControlInv

\* Objects are deleted while the removal still has their scan in hand.
LEMMA PurgeIsRemoval ==
  ASSUME TypeOK, ControlInv, NEW r \in Requests, PurgeObjects(r)
  PROVE  RemovalStep(r)
<1>1. PICK s \in req[r].todo :
        /\ \E G \in PurgeOutcomes(s, PurgeSet(r, s)) : objects' = objects \ G
        /\ req' = [req EXCEPT ![r].todo = @ \ {s},
                              ![r].keys = {k \in @ : k[1] # s},
                              ![r].pc =
             IF req[r].todo # {s} THEN "purge"
             ELSE IF req[r].op = "delete_product" THEN "stmts" ELSE "delete"]
  BY DEF PurgeObjects
<1>2. \A k \in PurgeSet(r, s) : k[1] = s
  BY DEF PurgeSet
<1>3. PICK G \in SUBSET PurgeSet(r, s) : objects' = objects \ G
  BY <1>1 DEF PurgeOutcomes
<1>4. \A k \in objects : k[1] # s => k \in objects'
  BY <1>2, <1>3
<1>5. /\ req[r].pc = "purge" /\ UNCHANGED <<scan, torn>>
      /\ s \in req[r].doomed
  BY DEF PurgeObjects, db, history, ControlInv, Control, DoomedAreOld
<1>6. /\ req'[r].pc \in {"purge", "stmts", "delete"}
      /\ req'[r].pc = "stmts" => req[r].op = "delete_product"
      /\ req'[r].pc = "delete" => req[r].op # "delete_product"
      /\ req'[r].op = req[r].op /\ req'[r].doomed = req[r].doomed
      /\ req'[r].pid = req[r].pid /\ req'[r].dirty = req[r].dirty
      /\ req'[r].todo \subseteq req[r].todo
      /\ \A q \in Requests : q # r => req'[q] = req[q]
  <2> DEFINE K == {k \in req[r].keys : k[1] # s}
             T == req[r].todo \ {s}
             label == IF req[r].todo # {s} THEN "purge"
                      ELSE IF req[r].op = "delete_product" THEN "stmts" ELSE "delete"
  <2>1. req' = [req EXCEPT ![r].todo = T, ![r].keys = K, ![r].pc = label]
    BY <1>1
  <2>2. /\ label \in {"purge", "stmts", "delete"} /\ T \subseteq req[r].todo
        /\ label = "stmts" => req[r].op = "delete_product"
        /\ label = "delete" => req[r].op # "delete_product"
    OBVIOUS
  <2> HIDE DEF K, T, label
  <2>3. QED BY <2>1, <2>2 DEF TypeOK, Request
<1>7. ASSUME NEW t \in Requests, Settled(t)' PROVE t \notin req[r].doomed
  BY <1>6, <1>7 DEF Settled, Removing, RemovalPcs
<1>8. QED
  BY <1>4, <1>5, <1>6, <1>7 DEF RemovalStep, RemovalPcs, Live

\* The last group of every removal plan takes the scan row itself.
LEMMA PlanEndsWithScan ==
  ASSUME NEW o
  PROVE  /\ Len(RemovalPlan(o)) \in Nat
         /\ "scans" \in RemovalPlan(o)[Len(RemovalPlan(o))]
<1>1. CASE o = "upload"
  <2>1. RemovalPlan(o) = UploadRemoval
    BY <1>1 DEF RemovalPlan
  <2>2. Len(UploadRemoval) = 5 /\ UploadRemoval[5] = {"scans"}
    BY DEF UploadRemoval
  <2>3. QED BY <2>1, <2>2
<1>2. CASE o = "import"
  <2>1. RemovalPlan(o) = ImportRemoval
    BY <1>2 DEF RemovalPlan
  <2>2. Len(ImportRemoval) = 7 /\ ImportRemoval[7] = {"scans"}
    BY DEF ImportRemoval
  <2>3. QED BY <2>1, <2>2
<1>3. CASE o # "upload" /\ o # "import"
  <2>1. RemovalPlan(o) = OneTransaction
    BY <1>3 DEF RemovalPlan
  <2>2. Len(OneTransaction) = 1 /\ "scans" \in OneTransaction[1]
    BY DEF OneTransaction
  <2>3. QED BY <2>1, <2>2
<1>4. QED BY <1>1, <1>2, <1>3

\* Rows are deleted one group at a time, the scan row last, and only then is
\* the removal over.
LEMMA DeleteIsRemoval ==
  ASSUME TypeOK, ControlInv, NEW r \in Requests, DeleteRows(r)
  PROVE  RemovalStep(r)
<1> DEFINE plan == RemovalPlan(req[r].op)
           last == req[r].stage = Len(plan)
<1>1. PICK s \in req[r].doomed :
        /\ scan' = [scan EXCEPT ![s] = AfterDelete(s, plan[req[r].stage])]
        /\ req' = [req EXCEPT
             ![r].stage = IF last THEN 1 ELSE @ + 1,
             ![r].pc = IF ~last THEN "delete"
                       ELSE IF req[r].op \in Ingest THEN "insert" ELSE "done"]
  BY DEF DeleteRows
<1>2. /\ req[r].pc = "delete" /\ UNCHANGED <<objects, torn>> /\ s \in Requests
      /\ req[r].op # "delete_product"
  BY RequestOf DEF DeleteRows, history, ControlInv, Control, OwnProgram
<1>3. req[r].doomed = {s}
  BY <1>2 DEF ControlInv, Control, OneDoomed
<1>4. /\ req'[r].pc \in {"delete", "insert", "done"}
      /\ req'[r].pc # "delete" => last
      /\ req'[r].op = req[r].op /\ req'[r].doomed = req[r].doomed
      /\ req'[r].pid = req[r].pid /\ req'[r].dirty = req[r].dirty
      /\ \A q \in Requests : q # r => req'[q] = req[q]
  BY <1>1 DEF TypeOK, Request
<1>5. \A t \in Requests : t # s => scan'[t] = scan[t]
  BY <1>1, <1>2 DEF TypeOK
<1>6. scan'[s] = AfterDelete(s, plan[req[r].stage])
  BY <1>1, <1>2 DEF TypeOK
<1>7. Live(s)' => Live(s) /\ scan'[s].pid = scan[s].pid
  BY <1>2, <1>6 DEF AfterDelete, Live, NoRow, TypeOK, ScanRow
<1>8. last => ~Live(s)'
  BY <1>6, PlanEndsWithScan DEF AfterDelete, Live, NoRow
<1>9. ASSUME NEW t \in Requests, Settled(t)' PROVE t # s
  <2>1. CASE req'[r].pc = "delete"
    BY <2>1, <1>3, <1>4, <1>9 DEF Settled, Removing, RemovalPcs
  <2>2. CASE req'[r].pc # "delete"
    BY <2>2, <1>4, <1>8, <1>9 DEF Settled
  <2>3. QED BY <2>1, <2>2
<1>10. QED
  BY <1>2, <1>3, <1>4, <1>5, <1>7, <1>9 DEF RemovalStep, RemovalPcs, Live

\* A product delete takes the locks it needs, then commits everything or
\* leaves what it had started torn.
LEMMA ProductDeleteIsRemoval ==
  ASSUME TypeOK, ControlInv, NEW r \in Requests,
         DeleteProductRows(r) \/ CommitProductDelete(r)
  PROVE  RemovalStep(r)
<1>0. req[r] \in Request /\ req \in [Requests -> Request]
  BY DEF TypeOK
<1>1. CASE DeleteProductRows(r)
  <2>1. /\ req[r].pc = "stmts" /\ UNCHANGED <<scan, objects, torn>>
        /\ req[r].op = "delete_product"
    BY <1>1 DEF DeleteProductRows, db, history, ControlInv, Control, OwnProgram
  <2>2. /\ req'[r].pc = "commit"
        /\ req'[r].op = req[r].op /\ req'[r].doomed = req[r].doomed
        /\ req'[r].pid = req[r].pid /\ req'[r].dirty = req[r].dirty
        /\ \A q \in Requests : q # r => req'[q] = req[q]
    BY <1>0, <1>1 DEF DeleteProductRows, Request
  <2>3. ASSUME NEW t \in Requests, Settled(t)' PROVE t \notin req[r].doomed
    BY <2>2, <2>3 DEF Settled, Removing, RemovalPcs
  <2>4. QED BY <2>1, <2>2, <2>3 DEF RemovalStep, RemovalPcs, Live
<1>2. CASE CommitProductDelete(r)
  <2>1. /\ req[r].pc = "commit" /\ UNCHANGED objects /\ req[r].op = "delete_product"
    BY <1>2 DEF CommitProductDelete, ControlInv, Control, OwnProgram
  <2>2. /\ req'[r].pc \in {"done", "error"}
        /\ req'[r].op = req[r].op /\ req'[r].doomed = req[r].doomed
        /\ req'[r].pid = req[r].pid /\ req'[r].dirty = req[r].dirty
        /\ \A q \in Requests : q # r => req'[q] = req[q]
    BY <1>0, <1>2 DEF CommitProductDelete, Goto, Request
  <2>3. \A s \in req[r].doomed : Live(s) => s \in ScansOf(req[r].pid)
    BY <1>0, <2>1 DEF ControlInv, Control, DoomedAreOld, RemovalPcs, ScansOf, Request
  <2>4. CASE ScansOf(req[r].pid) \subseteq req[r].todo
    <3>1. /\ scan' = [s \in Requests |-> IF s \in req[r].todo THEN NoRow ELSE scan[s]]
          /\ torn' = torn
      BY <1>2, <2>4 DEF CommitProductDelete, history
    <3>2. \A s \in Requests : Live(s)' => s \notin req[r].todo /\ scan'[s] = scan[s]
      BY <3>1 DEF Live, NoRow
    <3>3. ASSUME NEW s \in Requests, Settled(s)' PROVE s \notin req[r].doomed
      BY <3>2, <3>3, <2>3, <2>4 DEF Settled, Live
    <3>4. QED BY <2>1, <2>2, <3>1, <3>2, <3>3 DEF RemovalStep, RemovalPcs, Live, Settled
  <2>5. CASE ~(ScansOf(req[r].pid) \subseteq req[r].todo)
    <3>1. scan' = scan /\ torn' = torn \cup {s \in req[r].doomed : Live(s)}
      BY <1>2, <2>5 DEF CommitProductDelete, db
    <3>2. ASSUME NEW s \in Requests, Settled(s)' PROVE s \notin req[r].doomed
      BY <3>1, <3>2 DEF Settled, Live
    <3>3. QED BY <2>1, <2>2, <3>1, <3>2 DEF RemovalStep, RemovalPcs, Live
  <2>6. QED BY <2>4, <2>5
<1>3. QED BY <1>1, <1>2

----------------------------------------------------------------------------
(* The remaining steps, and the theorem.                                   *)

\* A new row names nothing, and no removal under way has read it.
LEMMA InsertKeeps ==
  ASSUME TypeOK, ControlInv, StoredInv, NoDanglingKey, NEW r \in Requests, InsertScan(r)
  PROVE  ControlInv' /\ StoredInv' /\ NoDanglingKey'
<1> DEFINE row == [NoRow EXCEPT !.live = TRUE, !.pid = req[r].pid]
<1>1. CASE Fail(r)
  BY <1>1, GotoIsEarly, EarlyKeeps DEF Fail, InsertScan, EarlyPcs, db, history
<1>2. CASE scan' = [scan EXCEPT ![r] = row] /\ Goto(r, "put") /\ UNCHANGED <<objects, torn>>
  <2>1. req[r].pc = "insert" /\ ~req[r].dirty
    BY DEF InsertScan, ControlInv, Control, CleanBeforePut, PreInsertPcs
  <2>2. /\ req'[r] = [req[r] EXCEPT !.pc = "put"]
        /\ \A q \in Requests : q # r => req'[q] = req[q] /\ scan'[q] = scan[q]
        /\ scan'[r] = row
    BY <1>2 DEF Goto, TypeOK
  <2>3. req'[r].pc = "put" /\ ~req'[r].dirty /\ NamedKinds(r)' = {}
    BY <2>1, <2>2 DEF TypeOK, Request, NamedKinds, NoRow
  <2>4. ASSUME NEW q \in Requests PROVE Control(q)'
    <3>1. CASE q = r
      BY <2>3, <3>1 DEF Control, CleanBeforePut, InsertedOnce, OwnProgram, OneDoomed,
                        DoomedAreOld, PreInsertPcs, RemovalPcs
    <3>2. CASE q # r
      <4>1. Control(q) /\ req'[q] = req[q] /\ scan'[q] = scan[q]
        BY <2>2, <3>2 DEF ControlInv
      <4>2. req[q].pc \in RemovalPcs =>
              \A s \in req[q].doomed : s # r /\ req'[s] = req[s] /\ scan'[s] = scan[s]
        BY <2>1, <2>2, <4>1, RequestOf DEF Control, DoomedAreOld, PreInsertPcs
      <4>3. DoomedAreOld(q)'
        BY <4>1, <4>2 DEF Control, DoomedAreOld, Live, RemovalPcs
      <4>4. QED
        BY <4>1, <4>3
        DEF Control, CleanBeforePut, InsertedOnce, OwnProgram, OneDoomed, Live
    <3>3. QED BY <3>1, <3>2
  <2>5. ASSUME NEW s \in Requests, Settled(s)', s # r
        PROVE  Settled(s) /\ scan'[s] = scan[s] /\ req'[s] = req[s]
    <3>1. ASSUME NEW q \in Requests, req[q].pc \in RemovalPcs PROVE req'[q] = req[q]
      BY <2>1, <2>2, <3>1 DEF RemovalPcs
    <3>2. QED BY <1>2, <2>2, <2>5, <3>1 DEF Settled, Removing, Live
  <2>6. StoredInv' /\ NoDanglingKey'
    <3>1. ASSUME NEW s \in Requests, Settled(s)', s # r
          PROVE  /\ req'[s].dirty => {s} \X PutKinds(s)' \subseteq objects'
                 /\ req'[s].pc = "att_row" => <<s, "attestation">> \in objects'
                 /\ {s} \X NamedKinds(s)' \subseteq objects'
      BY <1>2, <2>5, <3>1 DEF StoredInv, NoDanglingKey, PutKinds, NamedKinds
    <3>2. {r} \X NamedKinds(r)' \subseteq objects'
      BY <2>3
    <3>3. QED BY <2>3, <3>1, <3>2 DEF StoredInv, NoDanglingKey
  <2>7. QED BY <2>4, <2>6 DEF ControlInv
<1>3. QED BY <1>1, <1>2 DEF InsertScan, history

\* The background thread writes deps_status and dependency rows, nothing that
\* an SBOM or attestation is found by.
LEMMA ThreadKeeps ==
  ASSUME TypeOK, ControlInv, StoredInv, NoDanglingKey, NEW s \in Requests, RunThread(s)
  PROVE  ControlInv' /\ StoredInv' /\ NoDanglingKey'
<1>1. UNCHANGED <<req, objects, torn>>
  BY DEF RunThread, MarkProcessing, AcquireSemaphore, InsertBatch, BatchFails,
         ReleaseSemaphore, MarkOutcome, history
<1>2. ASSUME NEW q \in Requests
      PROVE  /\ scan'[q].live = scan[q].live /\ scan'[q].pid = scan[q].pid
             /\ scan'[q].keys = scan[q].keys /\ scan'[q].tables = scan[q].tables
  BY DEF RunThread, MarkProcessing, AcquireSemaphore, InsertBatch, BatchFails,
         ReleaseSemaphore, MarkOutcome, SetStatus, TypeOK, ScanRow, db
<1>3. ControlInv'
  <2> SUFFICES ASSUME NEW q \in Requests PROVE Control(q)'
    BY DEF ControlInv
  <2>1. Control(q)
    BY DEF ControlInv
  <2>2. DoomedAreOld(q)'
    BY <1>1, <1>2, <2>1, RequestOf DEF Control, DoomedAreOld, Live
  <2>3. QED
    BY <1>1, <1>2, <2>1, <2>2
    DEF Control, CleanBeforePut, InsertedOnce, OwnProgram, OneDoomed, Live
<1>4. \A q \in Requests : Settled(q)' <=> Settled(q)
  BY <1>1, <1>2 DEF Settled, Removing, Live
<1>5. \A q \in Requests : NamedKinds(q)' = NamedKinds(q) /\ PutKinds(q)' = PutKinds(q)
  BY <1>1, <1>2 DEF NamedKinds, PutKinds
<1>6. QED BY <1>1, <1>3, <1>4, <1>5 DEF StoredInv, NoDanglingKey

\* A crash settles no scan: what a victim was removing is torn.
LEMMA CrashSettles ==
  ASSUME TypeOK, NEW p \in Procs, Crash(p), NEW s \in Requests, Settled(s)'
  PROVE  Settled(s)
<1> DEFINE victims == {r \in Requests : Active(r) /\ req[r].home = p}
<1>1. /\ UNCHANGED scan
      /\ req' = [r \in Requests |->
                   IF r \in victims THEN [req[r] EXCEPT !.pc = "killed"] ELSE req[r]]
      /\ torn' = torn \cup {t \in Requests : Live(t) /\
                   \E r \in victims : req[r].pc \in RemovalPcs /\ t \in req[r].doomed}
  BY DEF Crash, db
<1> HIDE DEF victims
<1>2. Live(s) /\ s \notin torn
  BY <1>1 DEF Settled, Live
<1>3. ASSUME NEW q \in Requests, req[q].pc \in RemovalPcs, s \in req[q].doomed
      PROVE  FALSE
  <2>1. q \notin victims
    BY <1>1, <1>2, <1>3 DEF Settled
  <2>2. req'[q] = req[q]
    BY <1>1, <2>1
  <2>3. QED BY <1>3, <2>2 DEF Settled, Removing
<1>4. QED BY <1>2, <1>3 DEF Settled, Removing

\* A crash forgets which removals were under way, and leaves their scans torn.
LEMMA CrashKeeps ==
  ASSUME TypeOK, ControlInv, StoredInv, NoDanglingKey, NEW p \in Procs, Crash(p)
  PROVE  ControlInv' /\ StoredInv' /\ NoDanglingKey'
<1> DEFINE victims == {r \in Requests : Active(r) /\ req[r].home = p}
<1>1. /\ UNCHANGED <<scan, objects>>
      /\ req' = [r \in Requests |->
                   IF r \in victims THEN [req[r] EXCEPT !.pc = "killed"] ELSE req[r]]
      /\ torn' = torn \cup {s \in Requests : Live(s) /\
                   \E r \in victims : req[r].pc \in RemovalPcs /\ s \in req[r].doomed}
  BY DEF Crash, db
<1> HIDE DEF victims
<1>2. ASSUME NEW q \in Requests
      PROVE  /\ q \notin victims => req'[q] = req[q]
             /\ q \in victims => req'[q].pc = "killed"
             /\ req'[q].op = req[q].op /\ req'[q].dirty = req[q].dirty
  BY <1>1 DEF TypeOK, Request
<1>3. ControlInv'
  <2> SUFFICES ASSUME NEW q \in Requests PROVE Control(q)'
    BY DEF ControlInv
  <2>1. CASE q \in victims
    BY <1>2, <2>1 DEF Control, CleanBeforePut, InsertedOnce, OwnProgram, OneDoomed,
                      DoomedAreOld, PreInsertPcs, RemovalPcs
  <2>2. CASE q \notin victims
    <3>1. Control(q) /\ req'[q] = req[q]
      BY <1>2, <2>2 DEF ControlInv
    <3>2. \A s \in Requests : req[s].pc \notin PreInsertPcs => req'[s].pc \notin PreInsertPcs
      BY <1>2 DEF PreInsertPcs
    <3>3. DoomedAreOld(q)'
      BY <1>1, <3>1, <3>2, RequestOf DEF Control, DoomedAreOld, Live
    <3>4. QED
      BY <1>1, <3>1, <3>3
      DEF Control, CleanBeforePut, InsertedOnce, OwnProgram, OneDoomed, Live
  <2>3. QED BY <2>1, <2>2
<1>4. \A s \in Requests : Settled(s)' => Settled(s)
  BY CrashSettles
<1>5. \A s \in Requests : /\ PutKinds(s)' = PutKinds(s) /\ NamedKinds(s)' = NamedKinds(s)
                          /\ req'[s].pc = "att_row" => req[s].pc = "att_row"
  BY <1>1, <1>2 DEF PutKinds, NamedKinds
<1>6. StoredInv' /\ NoDanglingKey'
  BY <1>1, <1>2, <1>4, <1>5 DEF StoredInv, NoDanglingKey
<1>7. QED BY <1>3, <1>6

\* The invariant holds when the server starts,
LEMMA StorageInitially == Init => StorageInv
<1> SUFFICES ASSUME Init PROVE StorageInv
  OBVIOUS
<1>1. \A r \in Requests : req[r] = Unborn /\ scan[r] = NoRow
  BY DEF Init
<1>2. ControlInv
  BY <1>1 DEF ControlInv, Control, CleanBeforePut, InsertedOnce, OwnProgram, OneDoomed,
              DoomedAreOld, RemovalPcs, Unborn, NoRow, Live
<1>3. StoredInv /\ NoDanglingKey
  BY <1>1 DEF StoredInv, NoDanglingKey, Settled, Live, NoRow
<1>4. QED BY <1>2, <1>3, TypeInitially DEF StorageInv

\* and every step keeps it.
LEMMA StorageStep == StorageInv /\ [Next]_vars => StorageInv'
<1> SUFFICES ASSUME StorageInv, [Next]_vars PROVE StorageInv'
  OBVIOUS
<1> USE DEF StorageInv
<1>0. TypeOK'
  BY TypeStep
<1>1. ASSUME NEW r \in Requests, Begin(r) PROVE StorageInv'
  BY <1>0, <1>1, BeginIsEarly, EarlyKeeps
<1>2. ASSUME NEW r \in Requests, RunThread(r) PROVE StorageInv'
  BY <1>0, <1>2, ThreadKeeps
<1>3. ASSUME NEW r \in Requests, Handle(r) PROVE StorageInv'
  <2>1. CASE \/ ResolveProduct(r) \/ CreateProduct(r)
             \/ FindExisting(r) \/ FindScan(r) \/ FindScansOfProduct(r)
             \/ RejectUpload(r)
    BY <1>0, <2>1, FindIsEarly, EarlyKeeps
  <2>2. CASE \/ PurgeObjects(r) \/ DeleteRows(r)
             \/ DeleteProductRows(r) \/ CommitProductDelete(r)
    BY <1>0, <2>2, PurgeIsRemoval, DeleteIsRemoval, ProductDeleteIsRemoval, RemovalKeeps
  <2>3. CASE InsertScan(r)
    BY <1>0, <2>3, InsertKeeps
  <2>4. CASE \/ PutObjects(r) \/ PutFails(r)
             \/ InsertPackages(r) \/ ExpireSession(r) \/ FlushKeys(r)
             \/ SelectPackageIds(r) \/ InsertFiles(r) \/ MarkPending(r) \/ StartThread(r)
             \/ InsertLayers(r) \/ PutAttestation(r) \/ InsertAttestations(r)
             \/ Answer(r) \/ TagConflict(r)
    BY <1>0, <2>4, HandlersWork, WorkControl, WorkStored
  <2>5. QED BY <1>3, <2>1, <2>2, <2>3, <2>4 DEF Handle
<1>4. ASSUME NEW p \in Procs, Crash(p) PROVE StorageInv'
  BY <1>0, <1>4, CrashKeeps
<1>5. CASE UNCHANGED vars
  <2>1. TypeOK' /\ ControlInv'
    BY <1>0, <1>5 DEF vars, ControlInv, Control, CleanBeforePut, InsertedOnce, OwnProgram,
                      OneDoomed, DoomedAreOld, Live
  <2>2. StoredInv' /\ NoDanglingKey'
    BY <1>5 DEF vars, StoredInv, NoDanglingKey, Settled, Removing, Live, NamedKinds, PutKinds
  <2>3. QED BY <2>1, <2>2
<1>6. QED
  BY <1>1, <1>2, <1>3, <1>4, <1>5 DEF Next, Quiet

\* Whoever reads a storage key out of a settled scan finds the object, in every
\* instance and whatever the interleaving (NoDanglingKey).
THEOREM NoDanglingKeys == Spec => []NoDanglingKey
<1>1. StorageInv => NoDanglingKey
  BY DEF StorageInv
<1>2. QED BY <1>1, StorageInitially, StorageStep, PTL DEF Spec

----------------------------------------------------------------------------
(* The background dependency threads.                                     *)

USE DEF PreInsertPcs, PreStartPcs

\* What a handler's step leaves alone: the other requests, every request's
\* process, the semaphores; and it never goes back to before the thread's start.
Stays(r) ==
  /\ \A s \in Requests : req'[s].home = req[s].home
  /\ \A s \in Requests : s # r => req'[s] = req[s]
  /\ req[r].pc # "idle" /\ req'[r].pc # "idle"
  /\ req'[r].pc \in PreStartPcs => req[r].pc \in PreStartPcs \ {"start"}
  /\ sem' = sem

\* Going to a later point of the program is such a step,
LEMMA GotoStays ==
  ASSUME TypeOK, NEW r \in Requests, NEW label \in Pcs, Goto(r, label),
         label # "idle", req[r].pc # "idle", sem' = sem,
         label \in PreStartPcs => req[r].pc \in PreStartPcs \ {"start"}
  PROVE  Stays(r)
BY DEF TypeOK, Goto, Request, Stays

\* and so is failing.
LEMMA FailStays ==
  ASSUME TypeOK, NEW r \in Requests, Fail(r), req[r].pc # "idle"
  PROVE  Stays(r)
BY GotoStays DEF Fail

\* Reading the scans to remove is such a step.
LEMMA DoomStays ==
  ASSUME TypeOK, NEW r \in Requests, NEW S, NEW label \in {"purge", "stmts"},
         Doom(r, S, label), req[r].pc = "find", sem' = sem
  PROVE  Stays(r)
<1>1. /\ req'[r].pc = label /\ req'[r].home = req[r].home
      /\ \A s \in Requests : s # r => req'[s] = req[s]
  BY DEF TypeOK, Request, Doom
<1>2. QED BY <1>1 DEF Stays

\* Finding the product and the scan to replace is such a step.
LEMMA FindStays ==
  ASSUME TypeOK, NEW r \in Requests,
         \/ ResolveProduct(r) \/ CreateProduct(r)
         \/ FindExisting(r) \/ FindScan(r) \/ FindScansOfProduct(r)
  PROVE  Stays(r) /\ thread' = thread
<1> USE DEF TypeOK, Request, Stays, Doom, Goto
<1>1. CASE ResolveProduct(r)
  BY <1>1 DEF ResolveProduct
<1>2. CASE CreateProduct(r)
  BY <1>2, FailStays DEF CreateProduct, Fail
<1>3. CASE FindExisting(r)
  <2>1. ASSUME NEW s \in Requests, Doom(r, {s}, "purge") PROVE Stays(r)
    BY <1>3, <2>1, DoomStays DEF FindExisting
  <2>2. CASE Goto(r, "insert")
    BY <1>3, <2>2, GotoStays DEF FindExisting
  <2>3. QED BY <1>3, <2>1, <2>2 DEF FindExisting, ScansOf
<1>4. CASE FindScan(r)
  <2>1. CASE \A s \in req[r].doomed : Live(s)
    BY <1>4, <2>1, DoomStays DEF FindScan
  <2>2. CASE ~\A s \in req[r].doomed : Live(s)
    BY <1>4, <2>2, GotoStays DEF FindScan
  <2>3. QED BY <2>1, <2>2
<1>5. CASE FindScansOfProduct(r)
  BY <1>5, DoomStays DEF FindScansOfProduct
<1>6. QED BY <1>1, <1>2, <1>3, <1>4, <1>5

\* Removing a scan is such a step.
LEMMA RemoveStays ==
  ASSUME TypeOK, NEW r \in Requests,
         \/ PurgeObjects(r) \/ DeleteRows(r) \/ DeleteProductRows(r)
         \/ CommitProductDelete(r) \/ RejectUpload(r)
  PROVE  Stays(r) /\ thread' = thread
<1> USE DEF TypeOK, Request, Stays, Goto
<1>1. CASE PurgeObjects(r)
  <2>1. PICK s \in req[r].todo :
          req' = [req EXCEPT ![r].todo = @ \ {s},
                             ![r].keys = {k \in @ : k[1] # s},
                             ![r].pc =
            IF req[r].todo # {s} THEN "purge"
            ELSE IF req[r].op = "delete_product" THEN "stmts" ELSE "delete"]
    BY <1>1 DEF PurgeObjects
  <2> DEFINE K == {k \in req[r].keys : k[1] # s}
             T == req[r].todo \ {s}
             label == IF req[r].todo # {s} THEN "purge"
                      ELSE IF req[r].op = "delete_product" THEN "stmts" ELSE "delete"
  <2>2. req' = [req EXCEPT ![r].todo = T, ![r].keys = K, ![r].pc = label]
    BY <2>1
  <2>3. label \in {"purge", "stmts", "delete"}
    OBVIOUS
  <2> HIDE DEF K, T, label
  <2>4. /\ req'[r].pc = label /\ req'[r].home = req[r].home
        /\ \A t \in Requests : t # r => req'[t] = req[t]
    BY <2>2
  <2>5. /\ \A t \in Requests : req'[t].home = req[t].home
        /\ req[r].pc = "purge" /\ sem' = sem /\ thread' = thread
    BY <1>1, <2>4 DEF PurgeObjects
  <2>6. QED BY <2>3, <2>4, <2>5
<1>2. CASE DeleteRows(r)
  BY <1>2 DEF DeleteRows
<1>3. CASE DeleteProductRows(r)
  BY <1>3 DEF DeleteProductRows
<1>4. CASE CommitProductDelete(r)
  BY <1>4 DEF CommitProductDelete
<1>5. CASE RejectUpload(r)
  BY <1>5 DEF RejectUpload
<1>6. QED BY <1>1, <1>2, <1>3, <1>4, <1>5

\* Ingesting the new scan is such a step, but for the one that starts a thread.
LEMMA IngestStays ==
  ASSUME TypeOK, NEW r \in Requests,
         \/ InsertScan(r) \/ PutObjects(r) \/ PutFails(r) \/ InsertPackages(r)
         \/ ExpireSession(r) \/ FlushKeys(r) \/ SelectPackageIds(r)
         \/ InsertFiles(r) \/ MarkPending(r)
  PROVE  Stays(r) /\ thread' = thread
<1> USE DEF TypeOK, Request, Stays, Goto, Fail
<1>1. CASE InsertScan(r)
  BY <1>1 DEF InsertScan
<1>2. CASE PutObjects(r)
  BY <1>2 DEF PutObjects
<1>3. CASE PutFails(r)
  BY <1>3 DEF PutFails
<1>4. CASE InsertPackages(r)
  BY <1>4 DEF InsertPackages, AfterPackages, AfterDeps, AfterLayers
<1>5. CASE ExpireSession(r)
  BY <1>5 DEF ExpireSession
<1>6. CASE FlushKeys(r)
  <2>1. CASE Live(r)
    BY <1>6, <2>1 DEF FlushKeys
  <2>2. CASE ~Live(r)
    BY <1>6, <2>2, FailStays DEF FlushKeys
  <2>3. QED BY <2>1, <2>2
<1>7. CASE SelectPackageIds(r)
  BY <1>7 DEF SelectPackageIds, AfterIds
<1>8. CASE InsertFiles(r)
  BY <1>8 DEF InsertFiles, AfterFiles, AfterDeps, AfterLayers
<1>9. CASE MarkPending(r)
  BY <1>9 DEF MarkPending
<1>10. QED BY <1>1, <1>2, <1>3, <1>4, <1>5, <1>6, <1>7, <1>8, <1>9

\* Finishing an ingest is such a step.
LEMMA FinishStays ==
  ASSUME TypeOK, NEW r \in Requests,
         \/ InsertLayers(r) \/ PutAttestation(r) \/ InsertAttestations(r)
         \/ Answer(r) \/ TagConflict(r)
  PROVE  Stays(r) /\ thread' = thread
<1> USE DEF TypeOK, Request, Stays, Goto, Fail
<1>1. CASE InsertLayers(r)
  <2>1. CASE Goto(r, AfterLayers(r))
    BY <1>1, <2>1, GotoStays DEF InsertLayers, AfterLayers
  <2>2. ASSUME NEW shared \in BOOLEAN,
               req' = [req EXCEPT ![r].aborted = shared, ![r].pc = AfterLayers(r)]
        PROVE  Stays(r)
    <3>1. AfterLayers(r) \in {"att_put", "answer"}
      BY DEF AfterLayers
    <3>2. req'[r].pc = AfterLayers(r) /\ req'[r].home = req[r].home
      BY <2>2
    <3>3. \A s \in Requests : s # r => req'[s] = req[s]
      BY <2>2
    <3>4. QED BY <1>1, <3>1, <3>2, <3>3 DEF InsertLayers
  <2>3. QED BY <1>1, <2>1, <2>2 DEF InsertLayers
<1>2. CASE PutAttestation(r)
  BY <1>2 DEF PutAttestation
<1>3. CASE InsertAttestations(r)
  BY <1>3 DEF InsertAttestations
<1>4. CASE Answer(r)
  <2>1. CASE Live(r) /\ ~req[r].aborted
    BY <1>4, <2>1 DEF Answer
  <2>2. CASE ~(Live(r) /\ ~req[r].aborted)
    BY <1>4, <2>2, FailStays DEF Answer
  <2>3. QED BY <2>1, <2>2
<1>5. CASE TagConflict(r)
  BY <1>5 DEF TagConflict
<1>6. QED BY <1>1, <1>2, <1>3, <1>4, <1>5

\* Starting the thread is such a step too, and the last before the thread.
LEMMA StartStays ==
  ASSUME TypeOK, NEW r \in Requests, StartThread(r)
  PROVE  /\ Stays(r) /\ req[r].pc = "start"
         /\ \/ thread' = thread
            \/ /\ req'[r].pc \notin PreStartPcs
               /\ thread'[r].pc = "mark"
               /\ \A s \in Requests : s # r => thread'[s] = thread[s]
<1>1. CASE Live(r)
  <2>1. PICK linked \in BOOLEAN :
          thread' = [thread EXCEPT ![r] = [pc |-> "mark", next |-> 1, linked |-> linked]]
    BY <1>1 DEF StartThread
  <2>2. DEFINE label == IF req[r].op = "upload" THEN AfterDeps(r) ELSE "answer"
  <2>3. label \in {"layers", "att_put", "answer"} /\ Goto(r, label)
    BY <1>1 DEF StartThread, AfterDeps, AfterLayers
  <2>4. req'[r].pc = label
    BY <2>3 DEF Goto, TypeOK, Request
  <2>5. Stays(r)
    BY <1>1, <2>3, GotoStays DEF StartThread
  <2>6. QED BY <2>1, <2>3, <2>4, <2>5 DEF StartThread, TypeOK
<1>2. CASE ~Live(r)
  BY <1>2, FailStays DEF StartThread, Fail
<1>3. QED BY <1>1, <1>2

----------------------------------------------------------------------------
(* The handlers' writes to deps_status.                                    *)

\* A row that still lives has the status it had.
RowStays(s) == Live(s)' => Live(s) /\ scan'[s].status = scan[s].status

\* Handlers write the status of no row but their own: a new one has none, and
\* MarkPending announces the dependencies.
WritesStatus(r) ==
  /\ \A s \in Requests : s # r => RowStays(s)
  /\ \/ RowStays(r)
     \/ req[r].pc = "insert" /\ scan'[r].status = "null"
     \/ req[r].pc = "pending" /\ scan'[r].status = "pending" /\ req'[r].pc = "start"

\* Removing a scan leaves no status behind, and no other row's status changed.
LEMMA RemovalStatus ==
  ASSUME TypeOK, NEW r \in Requests,
         DeleteRows(r) \/ CommitProductDelete(r)
  PROVE  \A s \in Requests : RowStays(s)
<1> USE DEF TypeOK, RowStays, Live
<1>1. CASE DeleteRows(r)
  <2>1. PICK s \in req[r].doomed :
          \E ts : scan' = [scan EXCEPT ![s] = AfterDelete(s, ts)]
    BY <1>1 DEF DeleteRows
  <2> PICK ts : scan' = [scan EXCEPT ![s] = AfterDelete(s, ts)]
    BY <2>1
  <2>2. s \in Requests /\ scan[s] \in ScanRow
    BY DEF Request
  <2>3. AfterDelete(s, ts).live => /\ scan[s].live
                                   /\ AfterDelete(s, ts).status = scan[s].status
    BY <2>2 DEF AfterDelete, NoRow, ScanRow
  <2>4. scan'[s] = AfterDelete(s, ts) /\ \A t \in Requests : t # s => scan'[t] = scan[t]
    BY <2>2
  <2>5. QED BY <2>3, <2>4
<1>2. CASE CommitProductDelete(r)
  <2>1. CASE UNCHANGED scan
    BY <2>1
  <2>2. CASE scan' = [s \in Requests |-> IF s \in req[r].todo THEN NoRow ELSE scan[s]]
    BY <2>2 DEF NoRow
  <2>3. QED BY <1>2, <2>1, <2>2 DEF CommitProductDelete, db
<1>3. QED BY <1>1, <1>2

\* What any handler writes.
LEMMA HandleStatus ==
  ASSUME TypeOK, NEW r \in Requests, Handle(r)
  PROVE  WritesStatus(r)
<1> USE DEF TypeOK, WritesStatus, RowStays, Live, db, Fail
<1>1. CASE UNCHANGED scan
  BY <1>1
<1>2. CASE DeleteRows(r) \/ CommitProductDelete(r)
  BY <1>2, RemovalStatus
<1>3. CASE InsertScan(r)
  <2>1. CASE scan' = [scan EXCEPT ![r] = [NoRow EXCEPT !.live = TRUE, !.pid = req[r].pid]]
    BY <1>3, <2>1 DEF InsertScan, NoRow
  <2>2. QED BY <1>1, <1>3, <2>1 DEF InsertScan
<1>4. CASE MarkPending(r)
  <2>1. CASE scan' = [scan EXCEPT ![r].status = "pending", ![r].keys = Flushed(r)]
    <3>1. req[r].pc = "pending" /\ scan'[r].status = "pending"
      BY <1>4, <2>1 DEF MarkPending, ScanRow
    <3>2. \A s \in Requests : s # r => scan'[s] = scan[s]
      BY <2>1
    <3>3. CASE req'[r].pc = "start"
      BY <3>1, <3>2, <3>3
    <3>4. CASE Goto(r, "error") /\ UNCHANGED scan
      BY <1>1, <3>4
    <3>5. QED BY <1>4, <3>3, <3>4 DEF MarkPending, Request
  <2>2. QED BY <1>1, <1>4, <2>1 DEF MarkPending
<1>5. ASSUME NEW T \in SUBSET Tables, scan' = [scan EXCEPT ![r].tables = @ \cup T]
      PROVE  WritesStatus(r)
  BY <1>5 DEF ScanRow
<1>6. CASE InsertPackages(r) \/ InsertFiles(r) \/ InsertLayers(r)
  <2>1. CASE \E T \in {{"packages"}, {"files"}, {"layers"}} :
               scan' = [scan EXCEPT ![r].tables = @ \cup T]
    BY <1>5, <2>1 DEF Tables
  <2>2. CASE ~\E T \in {{"packages"}, {"files"}, {"layers"}} :
                scan' = [scan EXCEPT ![r].tables = @ \cup T]
    <3>1. UNCHANGED scan
      BY <1>6, <2>2 DEF InsertPackages, InsertFiles, InsertLayers
    <3>2. QED BY <1>1, <3>1
  <2>3. QED BY <2>1, <2>2
<1>7. CASE FlushKeys(r)
  <2>1. CASE scan' = [scan EXCEPT ![r].keys = Flushed(r)]
    BY <2>1 DEF ScanRow
  <2>2. QED BY <1>1, <1>7, <2>1 DEF FlushKeys
<1>8. CASE InsertAttestations(r)
  <2>1. CASE scan' = [scan EXCEPT ![r].tables = @ \cup {"attestations"},
                                  ![r].keys = Flushed(r)]
    BY <2>1 DEF ScanRow
  <2>2. QED BY <1>1, <1>8, <2>1 DEF InsertAttestations
<1>9. CASE Answer(r)
  <2>1. CASE scan' = [scan EXCEPT ![r].tables = @ \cup (req[r].body \cap {"tags"})]
    <3>1. req[r].body \cap {"tags"} \in SUBSET Tables
      BY DEF Tables
    <3>2. QED BY <1>5, <2>1, <3>1
  <2>2. QED BY <1>1, <1>9, <2>1 DEF Answer
<1>10. CASE \/ ResolveProduct(r) \/ CreateProduct(r)
            \/ FindExisting(r) \/ FindScan(r) \/ FindScansOfProduct(r)
  BY <1>1, <1>10 DEF ResolveProduct, CreateProduct, FindExisting, FindScan,
                     FindScansOfProduct
<1>11. CASE \/ PurgeObjects(r) \/ DeleteProductRows(r) \/ RejectUpload(r)
            \/ PutObjects(r) \/ PutFails(r) \/ ExpireSession(r)
  BY <1>1, <1>11 DEF PurgeObjects, DeleteProductRows, RejectUpload, PutObjects,
                     PutFails, ExpireSession
<1>12. CASE \/ SelectPackageIds(r) \/ StartThread(r) \/ PutAttestation(r) \/ TagConflict(r)
  BY <1>1, <1>12 DEF SelectPackageIds, StartThread, PutAttestation, TagConflict
<1>13. QED
  BY <1>2, <1>3, <1>4, <1>6, <1>7, <1>8, <1>9, <1>10, <1>11, <1>12 DEF Handle

----------------------------------------------------------------------------
(* Every step keeps the invariant.                                         *)

\* A handler's step leaves the semaphores and the other threads alone.
LEMMA HandleStays ==
  ASSUME TypeOK, NEW r \in Requests, Handle(r)
  PROVE  /\ Stays(r)
         /\ \/ thread' = thread
            \/ /\ req[r].pc = "start" /\ req'[r].pc \notin PreStartPcs
               /\ thread'[r].pc = "mark"
               /\ \A s \in Requests : s # r => thread'[s] = thread[s]
<1>1. CASE \/ ResolveProduct(r) \/ CreateProduct(r)
           \/ FindExisting(r) \/ FindScan(r) \/ FindScansOfProduct(r)
  BY <1>1, FindStays
<1>2. CASE \/ PurgeObjects(r) \/ DeleteRows(r) \/ DeleteProductRows(r)
           \/ CommitProductDelete(r) \/ RejectUpload(r)
  BY <1>2, RemoveStays
<1>3. CASE \/ InsertScan(r) \/ PutObjects(r) \/ PutFails(r) \/ InsertPackages(r)
           \/ ExpireSession(r) \/ FlushKeys(r) \/ SelectPackageIds(r)
           \/ InsertFiles(r) \/ MarkPending(r)
  BY <1>3, IngestStays
<1>4. CASE \/ InsertLayers(r) \/ PutAttestation(r) \/ InsertAttestations(r)
           \/ Answer(r) \/ TagConflict(r)
  BY <1>4, FinishStays
<1>5. CASE StartThread(r)
  BY <1>5, StartStays
<1>6. QED BY <1>1, <1>2, <1>3, <1>4, <1>5 DEF Handle

\* So it keeps the invariant, and moves a status forward only.
LEMMA HandleKeeps ==
  ASSUME ThreadInv, TypeOK', NEW r \in Requests, Handle(r)
  PROVE  ThreadInv' /\ StatusMovesForward
<1> USE DEF ThreadInv
<1>1. Stays(r) /\ WritesStatus(r)
  BY HandleStays, HandleStatus
<1>2. \/ thread' = thread
      \/ /\ req[r].pc = "start" /\ req'[r].pc \notin PreStartPcs
         /\ thread'[r].pc = "mark"
         /\ \A s \in Requests : s # r => thread'[s] = thread[s]
  BY HandleStays
<1>3. ASSUME NEW s \in Requests
      PROVE  \/ thread'[s].pc = thread[s].pc
             \/ /\ s = r /\ thread'[s].pc = "mark" /\ req[s].pc = "start"
                /\ req'[s].pc \notin PreStartPcs
  BY <1>2, Zenon
<1>4. \A s \in Requests : req[s].pc \in PreStartPcs => thread[s].pc = "none"
  BY DEF ThreadsInv, ThreadOfStarted
<1>5. ASSUME NEW s \in Requests PROVE ThreadOfStarted(s)'
  BY <1>1, <1>3, <1>4 DEF ThreadsInv, ThreadOfStarted, Stays
<1>6. ASSUME NEW s \in Requests PROVE StatusOfThread(s)'
  <2>1. StatusOfThread(s)
    BY DEF ThreadsInv
  <2>2. CASE RowStays(s)
    BY <1>1, <1>3, <1>4, <2>1, <2>2 DEF StatusOfThread, RowStays, Stays, Live
  <2>3. CASE s = r /\ req[r].pc = "insert" /\ scan'[r].status = "null"
    BY <1>3, <1>4, <2>3 DEF StatusOfThread
  <2>4. CASE /\ s = r /\ req[r].pc = "pending" /\ scan'[r].status = "pending"
             /\ req'[r].pc = "start"
    BY <1>3, <1>4, <2>4 DEF StatusOfThread
  <2>5. QED BY <1>1, <2>2, <2>3, <2>4 DEF WritesStatus
<1>7. HeldAtHome'
  BY <1>1 DEF HeldAtHome, Stays, TypeOK
<1>8. OneInserterPerProcess'
  <2>1. \A s \in Requests : thread'[s].pc = "insert" <=> thread[s].pc = "insert"
    BY <1>3, <1>4
  <2>2. \A s \in Requests : req'[s].home = req[s].home
    BY <1>1 DEF Stays
  <2>3. sem' = sem
    BY <1>1 DEF Stays
  <2>4. QED BY <2>1, <2>2, <2>3 DEF OneInserterPerProcess, TypeOK
<1>9. StatusMovesForward
  <2> SUFFICES ASSUME NEW s \in Requests, Live(s), scan[s].status # scan'[s].status, Live(s)'
               PROVE  Rank[scan[s].status] < Rank[scan'[s].status]
    BY DEF StatusMovesForward
  <2>1. ~RowStays(s)
    BY DEF RowStays
  <2>2. s = r /\ scan[s].status = "null" /\ scan'[s].status = "pending"
    BY <1>1, <2>1 DEF WritesStatus, ThreadsInv, StatusOfThread
  <2>3. QED BY <2>2 DEF Rank
<1>10. QED BY <1>5, <1>6, <1>7, <1>8, <1>9 DEF ThreadsInv

\* The arrival of a request gives it a process and starts no thread.
LEMMA BeginKeeps ==
  ASSUME ThreadInv, TypeOK', NEW r \in Requests, Begin(r)
  PROVE  ThreadInv' /\ StatusMovesForward
<1> USE DEF ThreadInv
<1>1. PICK q : req' = [req EXCEPT ![r] = q] /\ q.home \in Procs
  <2>1. ASSUME NEW o, BeginIngest(r, o)
        PROVE  \E q : req' = [req EXCEPT ![r] = q] /\ q.home \in Procs
    <3>1. PICK n \in Names, b \in Bodies, p \in Procs :
            req' = [req EXCEPT ![r] =
              [Unborn EXCEPT !.op = o, !.name = n, !.body = b, !.home = p,
                 !.pc = IF o # "upload" /\ "malformed" \in b THEN "rejected"
                        ELSE "resolve"]]
      BY <2>1 DEF BeginIngest
    <3> DEFINE q == [Unborn EXCEPT !.op = o, !.name = n, !.body = b, !.home = p,
                       !.pc = IF o # "upload" /\ "malformed" \in b THEN "rejected"
                              ELSE "resolve"]
    <3>2. q.home = p
      BY DEF Unborn
    <3>3. req' = [req EXCEPT ![r] = q]
      BY <3>1
    <3> HIDE DEF q
    <3>4. QED BY <3>2, <3>3
  <2>2. CASE BeginDeleteScan(r)
    <3>1. PICK t \in Requests, p \in Procs : req' = [req EXCEPT ![r] =
            [Unborn EXCEPT !.op = "delete_scan", !.doomed = {t}, !.home = p,
               !.pc = "find"]]
      BY <2>2 DEF BeginDeleteScan
    <3> DEFINE q == [Unborn EXCEPT !.op = "delete_scan", !.doomed = {t}, !.home = p,
                       !.pc = "find"]
    <3>2. q.home = p
      BY DEF Unborn
    <3>3. req' = [req EXCEPT ![r] = q]
      BY <3>1
    <3> HIDE DEF q
    <3>4. QED BY <3>2, <3>3
  <2>3. CASE BeginDeleteProduct(r)
    <3>1. PICK n \in Names, p \in Procs : req' = [req EXCEPT ![r] =
            [Unborn EXCEPT !.op = "delete_product", !.name = n, !.home = p,
               !.pc = "resolve"]]
      BY <2>3 DEF BeginDeleteProduct
    <3> DEFINE q == [Unborn EXCEPT !.op = "delete_product", !.name = n, !.home = p,
                       !.pc = "resolve"]
    <3>2. q.home = p
      BY DEF Unborn
    <3>3. req' = [req EXCEPT ![r] = q]
      BY <3>1
    <3> HIDE DEF q
    <3>4. QED BY <3>2, <3>3
  <2>4. QED
    BY <2>1, <2>2, <2>3 DEF Begin, BeginUpload, BeginImport, BeginPackages
<1>2. req[r].pc = "idle" /\ UNCHANGED <<scan, thread, sem>>
  BY DEF Begin, BeginUpload, BeginImport, BeginPackages, BeginIngest, BeginDeleteScan,
         BeginDeleteProduct, CanBegin, db
<1>3. /\ req'[r].home \in Procs
      /\ \A s \in Requests : s # r => req'[s] = req[s]
  BY <1>1 DEF TypeOK
<1>4. thread[r].pc = "none"
  BY <1>2 DEF ThreadsInv, ThreadOfStarted
<1>5. ThreadsInv'
  BY <1>2, <1>3, <1>4 DEF ThreadsInv, ThreadOfStarted, StatusOfThread, Live
<1>6. \A p \in Procs : sem[p] # r
  BY <1>4, ConstantsAssumption DEF OneInserterPerProcess
<1>7. HeldAtHome' /\ OneInserterPerProcess'
  BY <1>2, <1>3, <1>4, <1>6 DEF HeldAtHome, OneInserterPerProcess, TypeOK
<1>8. QED BY <1>2, <1>5, <1>7 DEF StatusMovesForward

\* A thread's step keeps the order of the semaphore and of the statuses.
LEMMA RunThreadKeeps ==
  ASSUME ThreadInv, TypeOK', NEW s \in Requests, RunThread(s)
  PROVE  ThreadInv' /\ StatusMovesForward
<1> USE DEF ThreadInv
<1>1. /\ req' = req /\ req[s].pc \notin PreStartPcs /\ req[s].home \in Procs
      /\ \A t \in Requests : t # s => thread'[t] = thread[t]
      /\ thread[s].pc # "none"
  <2>1. thread[s].pc # "none" /\ req' = req
    BY DEF RunThread, MarkProcessing, AcquireSemaphore, InsertBatch, BatchFails,
           ReleaseSemaphore, MarkOutcome
  <2>2. \A t \in Requests : t # s => thread'[t] = thread[t]
    BY DEF RunThread, MarkProcessing, AcquireSemaphore, InsertBatch, BatchFails,
           ReleaseSemaphore, MarkOutcome, TypeOK
  <2>3. req[s].pc \notin PreStartPcs
    BY <2>1 DEF ThreadsInv, ThreadOfStarted
  <2>4. req[s].home \in Procs
    BY <2>3 DEF ThreadsInv, ThreadOfStarted
  <2>5. QED BY <2>1, <2>2, <2>3, <2>4
<1>2. \A t \in Requests : ThreadOfStarted(t)'
  BY <1>1 DEF ThreadsInv, ThreadOfStarted
<1>3. ASSUME \A t \in Requests : RowStays(t), NEW label,
             thread'[s].pc = label,
             \/ thread[s].pc = "wait" /\ label = "insert"
             \/ thread[s].pc = "insert" /\ label \in {"insert", "succeed", "fail"}
      PROVE  StatusMovesForward /\ \A t \in Requests : StatusOfThread(t)'
  BY <1>1, <1>3 DEF ThreadsInv, StatusOfThread, StatusMovesForward, RowStays, Live
<1>4. ASSUME NEW status \in {"processing", "complete", "failed"}, NEW label,
             SetStatus(s, status), thread'[s].pc = label,
             \/ thread[s].pc = "mark" /\ status = "processing" /\ label = "wait"
             \/ /\ thread[s].pc \in {"succeed", "fail"} /\ label = "done"
                /\ status # "processing"
      PROVE  StatusMovesForward /\ \A t \in Requests : StatusOfThread(t)'
  <2>1. /\ Live(s)' => Live(s) /\ scan'[s].status = status
        /\ \A t \in Requests : t # s => scan'[t] = scan[t]
    BY <1>4 DEF SetStatus, Live, TypeOK, ScanRow
  <2>2. Live(s) => Rank[scan[s].status] < Rank[status]
    <3>1. CASE thread[s].pc = "mark" /\ status = "processing"
      BY <3>1 DEF ThreadsInv, StatusOfThread, Rank
    <3>2. CASE thread[s].pc \in {"succeed", "fail"} /\ status # "processing"
      BY <3>2 DEF ThreadsInv, StatusOfThread, Rank
    <3>3. QED BY <1>4, <3>1, <3>2
  <2>3. StatusMovesForward
    BY <2>1, <2>2 DEF StatusMovesForward
  <2>4. \A t \in Requests : StatusOfThread(t)'
    BY <1>1, <1>4, <2>1 DEF ThreadsInv, StatusOfThread, Live
  <2>5. QED BY <2>3, <2>4
<1>5. ASSUME sem' = sem, thread'[s].pc = "insert" <=> thread[s].pc = "insert"
      PROVE  HeldAtHome' /\ OneInserterPerProcess'
  BY <1>1, <1>5 DEF HeldAtHome, OneInserterPerProcess, TypeOK
<1>6. ASSUME sem' = [sem EXCEPT ![req[s].home] = None],
             thread[s].pc = "insert", thread'[s].pc # "insert"
      PROVE  HeldAtHome' /\ OneInserterPerProcess'
  <2>1. sem[req[s].home] = s
    BY <1>6 DEF OneInserterPerProcess
  <2>2. \A p \in Procs : p # req[s].home => sem'[p] = sem[p] /\ sem[p] # s
    BY <1>1, <1>6, ConstantsAssumption DEF HeldAtHome, TypeOK
  <2>3. \A t \in Requests : t # s /\ thread[t].pc = "insert" => req[t].home # req[s].home
    BY <2>1 DEF OneInserterPerProcess
  <2>4. sem'[req[s].home] = None
    BY <1>1, <1>6 DEF TypeOK
  <2>5. HeldAtHome'
    BY <1>1, <2>2, <2>4 DEF HeldAtHome
  <2>6. \A t \in Requests : thread'[t].pc = "insert" => sem'[req'[t].home] = t
    BY <1>1, <1>6, <2>2, <2>3 DEF ThreadsInv, ThreadOfStarted, OneInserterPerProcess
  <2>7. \A p \in Procs : sem'[p] # None => thread'[sem'[p]].pc = "insert"
    BY <1>1, <2>2, <2>4 DEF OneInserterPerProcess, TypeOK
  <2>8. QED BY <2>5, <2>6, <2>7 DEF OneInserterPerProcess
<1>7. ASSUME UNCHANGED db PROVE \A t \in Requests : RowStays(t)
  BY <1>7 DEF db, RowStays, Live
<1>8. CASE MarkProcessing(s)
  <2>1. thread'[s].pc = "wait" /\ thread[s].pc = "mark" /\ sem' = sem
        /\ SetStatus(s, "processing")
    BY <1>8 DEF MarkProcessing, TypeOK, Thread
  <2>2. QED BY <1>2, <1>4, <1>5, <2>1 DEF ThreadsInv
<1>9. CASE AcquireSemaphore(s)
  <2>1. /\ thread'[s].pc = "insert" /\ thread[s].pc = "wait" /\ UNCHANGED db
        /\ sem' = [sem EXCEPT ![req[s].home] = s] /\ sem[req[s].home] = None
    BY <1>9 DEF AcquireSemaphore, TypeOK, Thread
  <2>2. HeldAtHome'
    BY <1>1, <2>1 DEF HeldAtHome, TypeOK
  <2>3. sem'[req[s].home] = s /\ \A p \in Procs : p # req[s].home => sem'[p] = sem[p]
    BY <1>1, <2>1 DEF TypeOK
  <2>4. ASSUME NEW t \in Requests, thread'[t].pc = "insert"
        PROVE  sem'[req'[t].home] = t
    <3>1. CASE t = s
      BY <1>1, <2>3, <3>1
    <3>2. CASE t # s
      <4>1. sem[req[t].home] = t /\ req[t].home \in Procs
        BY <1>1, <2>4, <3>2 DEF OneInserterPerProcess, ThreadsInv, ThreadOfStarted
      <4>2. req[t].home # req[s].home
        BY <2>1, <4>1, ConstantsAssumption
      <4>3. QED BY <1>1, <2>3, <4>1, <4>2
    <3>3. QED BY <3>1, <3>2
  <2>5. \A p \in Procs : sem'[p] # None => thread'[sem'[p]].pc = "insert"
    BY <1>1, <2>1, <2>3 DEF OneInserterPerProcess, TypeOK
  <2>6. QED BY <1>2, <1>3, <1>7, <2>1, <2>2, <2>4, <2>5 DEF OneInserterPerProcess, ThreadsInv
<1>10. CASE InsertBatch(s)
  <2>1. thread'[s].pc = "insert" /\ thread[s].pc = "insert" /\ sem' = sem
    BY <1>10 DEF InsertBatch, TypeOK, Thread
  <2>2. \A t \in Requests : RowStays(t)
    BY <1>10 DEF InsertBatch, RowStays, Live, TypeOK, ScanRow
  <2>3. QED BY <1>2, <1>3, <1>5, <2>1, <2>2 DEF ThreadsInv
<1>11. CASE BatchFails(s) \/ ReleaseSemaphore(s)
  <2>1. /\ thread'[s].pc \in {"fail", "succeed"} /\ thread[s].pc = "insert"
        /\ sem' = [sem EXCEPT ![req[s].home] = None] /\ UNCHANGED db
    BY <1>11 DEF BatchFails, ReleaseSemaphore, TypeOK, Thread
  <2>2. QED BY <1>2, <1>3, <1>6, <1>7, <2>1 DEF ThreadsInv
<1>12. CASE MarkOutcome(s)
  <2>1. /\ thread'[s].pc = "done" /\ thread[s].pc \in {"succeed", "fail"} /\ sem' = sem
        /\ SetStatus(s, "complete") \/ SetStatus(s, "failed")
    BY <1>12 DEF MarkOutcome, TypeOK, Thread
  <2>2. QED BY <1>2, <1>4, <1>5, <2>1 DEF ThreadsInv
<1>13. QED BY <1>8, <1>9, <1>10, <1>11, <1>12 DEF RunThread

\* A crash frees the semaphore of its process together with its holder.
LEMMA CrashKeepsThreads ==
  ASSUME ThreadInv, TypeOK', NEW p \in Procs, Crash(p)
  PROVE  ThreadInv' /\ StatusMovesForward
<1> USE DEF ThreadInv
<1>1. scan' = scan /\ sem' = [sem EXCEPT ![p] = None]
  BY DEF Crash, db
<1>2. \A r \in Requests : /\ req'[r].home = req[r].home
                          /\ req'[r].pc \in {req[r].pc, "killed"}
                          /\ req'[r].pc = "killed" => req[r].pc # "idle"
  <2>1. ASSUME NEW r \in Requests
        PROVE  \/ req'[r] = req[r]
               \/ req'[r] = [req[r] EXCEPT !.pc = "killed"] /\ Active(r)
    <3> DEFINE victims == {q \in Requests : Active(q) /\ req[q].home = p}
    <3>1. req'[r] = IF r \in victims THEN [req[r] EXCEPT !.pc = "killed"] ELSE req[r]
      BY DEF Crash
    <3>2. r \in victims => Active(r)
      OBVIOUS
    <3> HIDE DEF victims
    <3>3. CASE r \in victims
      BY <3>1, <3>2, <3>3, Zenon
    <3>4. CASE r \notin victims
      BY <3>1, <3>4, Zenon
    <3>5. QED BY <3>3, <3>4
  <2>2. \A r \in Requests : req[r] \in Request
    BY DEF TypeOK
  <2>3. ASSUME NEW r \in Requests, req'[r] = [req[r] EXCEPT !.pc = "killed"], Active(r)
        PROVE  req'[r].home = req[r].home /\ req'[r].pc = "killed" /\ req[r].pc # "idle"
    BY <2>2, <2>3 DEF Request, Active
  <2>4. ASSUME NEW r \in Requests PROVE req[r].pc = "killed" => req[r].pc # "idle"
    OBVIOUS
  <2>5. QED BY <2>1, <2>3, <2>4
<1>3. ASSUME NEW s \in Requests
      PROVE  \/ /\ thread'[s].pc = thread[s].pc
                /\ req[s].home = p => thread[s].pc # "insert"
             \/ req[s].home = p /\ thread[s].pc # "none" /\ thread'[s].pc = "dead"
             \/ req[s].home # p /\ thread'[s].pc = thread[s].pc
  BY DEF Crash, TypeOK, Thread
<1>4. ASSUME NEW s \in Requests PROVE ThreadOfStarted(s)' /\ StatusOfThread(s)'
  BY <1>1, <1>2, <1>3 DEF ThreadsInv, ThreadOfStarted, StatusOfThread, Live
<1>5. HeldAtHome'
  BY <1>1, <1>2 DEF HeldAtHome, TypeOK
<1>6. ASSUME NEW s \in Requests, thread'[s].pc = "insert" PROVE sem'[req'[s].home] = s
  <2>1. thread[s].pc = "insert" /\ req[s].home # p
    BY <1>3, <1>6
  <2>2. sem[req[s].home] = s
    BY <2>1 DEF OneInserterPerProcess
  <2>3. req[s].home \in Procs
    BY <2>1 DEF ThreadsInv, ThreadOfStarted
  <2>4. QED BY <1>1, <1>2, <2>1, <2>2, <2>3 DEF TypeOK
<1>7. ASSUME NEW o \in Procs, sem'[o] # None PROVE thread'[sem'[o]].pc = "insert"
  <2>1. o # p /\ sem'[o] = sem[o]
    BY <1>1, <1>7 DEF TypeOK
  <2>2. sem[o] \in Requests /\ thread[sem[o]].pc = "insert" /\ req[sem[o]].home = o
    BY <1>7, <2>1 DEF OneInserterPerProcess, HeldAtHome, TypeOK
  <2>3. QED BY <1>3, <2>1, <2>2
<1>8. QED BY <1>1, <1>4, <1>5, <1>6, <1>7 DEF StatusMovesForward, OneInserterPerProcess, ThreadsInv

\* Every step keeps the invariant and moves every status forward only.
LEMMA StepKeeps == ThreadInv /\ [Next]_vars => ThreadInv' /\ StatusMovesForward
<1> SUFFICES ASSUME ThreadInv, [Next]_vars PROVE ThreadInv' /\ StatusMovesForward
  OBVIOUS
<1>1. TypeOK'
  BY TypeStep DEF ThreadInv
<1>2. CASE UNCHANGED vars
  BY <1>1, <1>2 DEF vars, ThreadInv, ThreadsInv, ThreadOfStarted, StatusOfThread, HeldAtHome,
                    OneInserterPerProcess, StatusMovesForward, Live
<1>3. CASE \E r \in Requests : Begin(r) \/ Handle(r) \/ RunThread(r)
  BY <1>1, <1>3, BeginKeeps, HandleKeeps, RunThreadKeeps
<1>4. CASE \E p \in Procs : Crash(p)
  BY <1>1, <1>4, CrashKeepsThreads
<1>5. QED BY <1>2, <1>3, <1>4 DEF Next, Quiet

\* The invariant holds when the server starts.
LEMMA ThreadInvInitially == Init => ThreadInv
<1> SUFFICES ASSUME Init PROVE ThreadInv
  OBVIOUS
<1>1. \A r \in Requests : /\ req[r] = Unborn /\ scan[r] = NoRow /\ thread[r] = NoThread
  BY DEF Init
<1>2. ThreadsInv
  BY <1>1 DEF ThreadsInv, ThreadOfStarted, StatusOfThread, Unborn, NoRow, NoThread, Live
<1>3. HeldAtHome /\ OneInserterPerProcess
  BY <1>1 DEF Init, HeldAtHome, OneInserterPerProcess, NoThread
<1>4. QED BY <1>2, <1>3, TypeInitially DEF ThreadInv

\* One dependency thread of a process at a time parses and inserts, however
\* many scans, processes and crashes there are (OneInserterPerProcess).
THEOREM OneInserter == Spec => []OneInserterPerProcess
<1>1. ThreadInv => OneInserterPerProcess
  BY DEF ThreadInv
<1>2. QED BY <1>1, ThreadInvInitially, StepKeeps, PTL DEF Spec

\* deps_status of a living scan only moves forward, whatever the interleaving of
\* its handler, its thread and its removal (DepsStatusForward).
THEOREM StatusForward == Spec => DepsStatusForward
<1>1. ThreadInv /\ [Next]_vars => [StatusMovesForward]_vars
  BY StepKeeps
<1>2. QED BY <1>1, ThreadInvInitially, StepKeeps, PTL DEF Spec, DepsStatusForward

USE DEF Pcs, Finals, PreInsertPcs, PreStartPcs

----------------------------------------------------------------------------
(* What every step leaves of the scans it is not about.                    *)

\* A handler does not change what its request asked for, and breaks no
\* transaction before its own row.
LEMMA HandleOwn ==
  ASSUME TypeOK, NEW r \in Requests, Handle(r)
  PROVE  /\ req'[r].op = req[r].op /\ req'[r].body = req[r].body
         /\ req[r].pc \in PreInsertPcs => req'[r].aborted = req[r].aborted
<1> USE DEF TypeOK, Request
<1> DEFINE Own == /\ req'[r].op = req[r].op /\ req'[r].body = req[r].body
                  /\ req[r].pc \in PreInsertPcs => req'[r].aborted = req[r].aborted
<1>a. ASSUME NEW label, Goto(r, label) PROVE Own
  BY <1>a DEF Goto
<1>b. ASSUME Fail(r) PROVE Own
  BY <1>a, <1>b DEF Fail
<1>c. ASSUME NEW S, NEW label, Doom(r, S, label)
      PROVE  Own
  <2> DEFINE K == KeysOf(S)
  <2>1. req' = [req EXCEPT ![r].doomed = S, ![r].todo = S, ![r].keys = K, ![r].pc = label]
    BY <1>c DEF Doom
  <2> HIDE DEF K
  <2>2. QED BY <2>1
<1>1. CASE ResolveProduct(r) \/ CreateProduct(r)
  BY <1>1, <1>b DEF ResolveProduct, CreateProduct
<1>2. CASE FindExisting(r) \/ FindScan(r) \/ FindScansOfProduct(r) \/ RejectUpload(r)
  BY <1>2, <1>a, <1>c DEF FindExisting, FindScan, FindScansOfProduct, RejectUpload
<1>3. CASE PurgeObjects(r)
  <2>1. PICK T, K, label : req' = [req EXCEPT ![r].todo = T, ![r].keys = K, ![r].pc = label]
    <3>1. PICK s \in req[r].todo :
            req' = [req EXCEPT ![r].todo = @ \ {s},
                               ![r].keys = {k \in @ : k[1] # s},
                               ![r].pc =
              IF req[r].todo # {s} THEN "purge"
              ELSE IF req[r].op = "delete_product" THEN "stmts" ELSE "delete"]
      BY <1>3 DEF PurgeObjects
    <3> DEFINE K == {k \in req[r].keys : k[1] # s}
               T == req[r].todo \ {s}
               label == IF req[r].todo # {s} THEN "purge"
                        ELSE IF req[r].op = "delete_product" THEN "stmts" ELSE "delete"
    <3>2. req' = [req EXCEPT ![r].todo = T, ![r].keys = K, ![r].pc = label]
      BY <3>1
    <3> HIDE DEF K, T, label
    <3>3. QED BY <3>2
  <2>2. QED BY <2>1
<1>4. CASE DeleteRows(r) \/ DeleteProductRows(r) \/ CommitProductDelete(r)
  BY <1>4, <1>a DEF DeleteRows, DeleteProductRows, CommitProductDelete
<1>5. CASE InsertScan(r) \/ PutObjects(r) \/ PutFails(r)
  BY <1>5, <1>a, <1>b DEF InsertScan, PutObjects, PutFails
<1>6. CASE InsertPackages(r) \/ ExpireSession(r) \/ FlushKeys(r)
  BY <1>6, <1>a, <1>b DEF InsertPackages, ExpireSession, FlushKeys
<1>7. CASE SelectPackageIds(r) \/ InsertFiles(r) \/ MarkPending(r) \/ StartThread(r)
  <2>1. CASE SelectPackageIds(r)
    BY <2>1 DEF SelectPackageIds
  <2>2. CASE InsertFiles(r)
    BY <2>2, <1>a, <1>b DEF InsertFiles
  <2>3. CASE MarkPending(r)
    BY <2>3, <1>b DEF MarkPending
  <2>4. CASE StartThread(r)
    BY <2>4, <1>a, <1>b DEF StartThread
  <2>5. QED BY <1>7, <2>1, <2>2, <2>3, <2>4
<1>8. CASE InsertLayers(r)
  <2>1. CASE Goto(r, AfterLayers(r))
    BY <2>1, <1>a
  <2>2. req[r].pc \notin PreInsertPcs
    BY <1>8 DEF InsertLayers, PreInsertPcs
  <2>3. ASSUME NEW shared \in BOOLEAN, NEW label,
               req' = [req EXCEPT ![r].aborted = shared, ![r].pc = label]
        PROVE  Own
    BY <2>2, <2>3
  <2>4. QED BY <1>8, <2>1, <2>3 DEF InsertLayers
<1>9. CASE PutAttestation(r) \/ InsertAttestations(r) \/ Answer(r) \/ TagConflict(r)
  BY <1>9, <1>a, <1>b DEF PutAttestation, InsertAttestations, Answer, TagConflict, PreInsertPcs
<1>10. QED
  BY <1>1, <1>2, <1>3, <1>4, <1>5, <1>6, <1>7, <1>8, <1>9 DEF Handle

\* Only Answer answers.
LEMMA HandleAnswers ==
  ASSUME TypeOK, NEW r \in Requests, Handle(r)
  PROVE  \/ answered' = answered
         \/ /\ answered' = answered \cup {r} /\ req[r].pc = "answer" /\ req'[r].pc = "done"
            /\ scan'[r].keys = scan[r].keys /\ scan[r].tables \subseteq scan'[r].tables
<1>1. CASE Answer(r) /\ answered' # answered
  <2>1. /\ scan' = [scan EXCEPT ![r].tables = @ \cup (req[r].body \cap {"tags"})]
        /\ req' = [req EXCEPT ![r].dirty = FALSE, ![r].pc = "done"]
        /\ answered' = answered \cup {r} /\ req[r].pc = "answer"
    BY <1>1 DEF Answer, Fail, history
  <2>2. QED BY <2>1 DEF TypeOK, Request, ScanRow
<1>2. CASE ~Answer(r)
  <2>1. CASE \/ ResolveProduct(r) \/ CreateProduct(r)
             \/ FindExisting(r) \/ FindScan(r) \/ FindScansOfProduct(r)
             \/ PurgeObjects(r) \/ DeleteRows(r) \/ DeleteProductRows(r)
             \/ CommitProductDelete(r) \/ RejectUpload(r)
    BY <2>1 DEF ResolveProduct, CreateProduct, FindExisting, FindScan, FindScansOfProduct,
                PurgeObjects, DeleteRows, DeleteProductRows, CommitProductDelete,
                RejectUpload, Fail, history
  <2>2. CASE \/ InsertScan(r) \/ PutObjects(r) \/ PutFails(r)
             \/ InsertPackages(r) \/ ExpireSession(r) \/ FlushKeys(r)
             \/ SelectPackageIds(r) \/ InsertFiles(r) \/ MarkPending(r) \/ StartThread(r)
             \/ InsertLayers(r) \/ PutAttestation(r) \/ InsertAttestations(r)
             \/ TagConflict(r)
    BY <2>2 DEF InsertScan, PutObjects, PutFails, InsertPackages, ExpireSession, FlushKeys,
                SelectPackageIds, InsertFiles, MarkPending, StartThread, InsertLayers,
                PutAttestation, InsertAttestations, TagConflict, Fail, history
  <2>3. QED BY <1>2, <2>1, <2>2 DEF Handle
<1>3. QED BY <1>1, <1>2

\* A request that has ended takes no step, and one that has not arrived none but
\* its first.
LEMMA HandlersAreActive ==
  ASSUME NEW r \in Requests, Handle(r)
  PROVE  Active(r)
<1> USE DEF Active
<1>1. CASE \/ ResolveProduct(r) \/ CreateProduct(r)
           \/ FindExisting(r) \/ FindScan(r) \/ FindScansOfProduct(r)
           \/ PurgeObjects(r) \/ DeleteRows(r) \/ DeleteProductRows(r)
           \/ CommitProductDelete(r) \/ RejectUpload(r)
  BY <1>1 DEF ResolveProduct, CreateProduct, FindExisting, FindScan, FindScansOfProduct,
              PurgeObjects, DeleteRows, DeleteProductRows, CommitProductDelete,
              RejectUpload
<1>2. CASE \/ InsertScan(r) \/ PutObjects(r) \/ PutFails(r)
           \/ InsertPackages(r) \/ ExpireSession(r) \/ FlushKeys(r)
           \/ SelectPackageIds(r) \/ InsertFiles(r) \/ MarkPending(r) \/ StartThread(r)
           \/ InsertLayers(r) \/ PutAttestation(r) \/ InsertAttestations(r)
           \/ Answer(r) \/ TagConflict(r)
  BY <1>2 DEF InsertScan, PutObjects, PutFails, InsertPackages, ExpireSession, FlushKeys,
              SelectPackageIds, InsertFiles, MarkPending, StartThread, InsertLayers,
              PutAttestation, InsertAttestations, Answer, TagConflict
<1>3. QED BY <1>1, <1>2 DEF Handle

\* The steps of a handler before its own scan row, and those after it.
Before(r) ==
  \/ ResolveProduct(r) \/ CreateProduct(r)
  \/ FindExisting(r) \/ FindScan(r) \/ FindScansOfProduct(r)
  \/ PurgeObjects(r) \/ DeleteRows(r) \/ DeleteProductRows(r)
  \/ CommitProductDelete(r) \/ RejectUpload(r)

After(r) ==
  \/ PutObjects(r) \/ PutFails(r)
  \/ InsertPackages(r) \/ ExpireSession(r) \/ FlushKeys(r)
  \/ SelectPackageIds(r) \/ InsertFiles(r) \/ MarkPending(r) \/ StartThread(r)
  \/ InsertLayers(r) \/ PutAttestation(r) \/ InsertAttestations(r)
  \/ Answer(r) \/ TagConflict(r)

\* Before its own row a handler settles no scan and rewrites no row that is
\* left settled.
LEMMA BeforeSettles ==
  ASSUME TypeOK, ControlInv, NEW r \in Requests, Before(r),
         NEW s \in Requests, Settled(s)'
  PROVE  Settled(s) /\ scan'[s] = scan[s]
<1>1. CASE \/ ResolveProduct(r) \/ CreateProduct(r)
           \/ FindExisting(r) \/ FindScan(r) \/ FindScansOfProduct(r)
           \/ RejectUpload(r)
  BY <1>1, FindIsEarly, EarlySettles
<1>2. CASE \/ PurgeObjects(r) \/ DeleteRows(r)
           \/ DeleteProductRows(r) \/ CommitProductDelete(r)
  BY <1>2, PurgeIsRemoval, DeleteIsRemoval, ProductDeleteIsRemoval, RemovalSettles
<1>3. QED BY <1>1, <1>2 DEF Before

\* A row that still lives has the keys it had.
KeepsKeys(s) == Live(s)' => Live(s) /\ scan'[s].keys = scan[s].keys

\* Before its own row a handler takes keys out of no row that it leaves alive.
LEMMA BeforeKeepsKeys ==
  ASSUME TypeOK, NEW r \in Requests, Before(r), NEW s \in Requests
  PROVE  KeepsKeys(s)
<1> USE DEF TypeOK, KeepsKeys, Live
<1>1. CASE UNCHANGED scan
  BY <1>1
<1>2. CASE DeleteRows(r)
  <2>a. PICK t \in req[r].doomed : \E ts : scan' = [scan EXCEPT ![t] = AfterDelete(t, ts)]
    BY <1>2 DEF DeleteRows
  <2>1. PICK ts : scan' = [scan EXCEPT ![t] = AfterDelete(t, ts)]
    BY <2>a
  <2>2. t \in Requests /\ scan[t] \in ScanRow
    BY DEF Request
  <2>3. AfterDelete(t, ts).live => /\ scan[t].live
                                   /\ AfterDelete(t, ts).keys = scan[t].keys
    BY <2>2 DEF AfterDelete, NoRow, ScanRow
  <2>4. scan'[t] = AfterDelete(t, ts) /\ \A u \in Requests : u # t => scan'[u] = scan[u]
    BY <2>1, <2>2
  <2>5. QED BY <2>3, <2>4
<1>3. CASE CommitProductDelete(r)
  BY <1>1, <1>3 DEF CommitProductDelete, db, NoRow
<1>4. CASE \/ ResolveProduct(r) \/ CreateProduct(r)
           \/ FindExisting(r) \/ FindScan(r) \/ FindScansOfProduct(r)
           \/ PurgeObjects(r) \/ DeleteProductRows(r) \/ RejectUpload(r)
  BY <1>1, <1>4 DEF ResolveProduct, CreateProduct, FindExisting, FindScan,
                    FindScansOfProduct, PurgeObjects, DeleteProductRows, RejectUpload,
                    Fail, db
<1>5. QED BY <1>2, <1>3, <1>4 DEF Before

\* Only an INSERT gives a request a row of its own, and it is an empty one.
LEMMA InsertRow ==
  ASSUME TypeOK, ControlInv, NEW r \in Requests, InsertScan(r)
  PROVE  /\ req[r].pc = "insert"
         /\ \A s \in Requests : s # r => req'[s] = req[s] /\ scan'[s] = scan[s]
         /\ \A s \in Requests : s # r /\ Settled(s)' => Settled(s)
         /\ \/ scan' = scan /\ req'[r].pc = "error"
            \/ /\ req'[r].pc = "put" /\ scan'[r].keys = {} /\ scan'[r].deps = {}
               /\ scan'[r].status = "null"
<1> DEFINE row == [NoRow EXCEPT !.live = TRUE, !.pid = req[r].pid]
<1>1. req[r].pc = "insert" /\ torn' = torn
  BY DEF InsertScan, Fail, history
<1>2. CASE Fail(r)
  BY <1>1, <1>2 DEF Fail, Goto, TypeOK, Request, db, Settled, Removing, RemovalPcs, Live
<1>3. CASE scan' = [scan EXCEPT ![r] = row] /\ Goto(r, "put")
  <2>1. /\ scan'[r] = row /\ req'[r].pc = "put"
        /\ \A s \in Requests : s # r => req'[s] = req[s] /\ scan'[s] = scan[s]
    BY <1>3 DEF Goto, TypeOK, Request
  <2>2. row.keys = {} /\ row.deps = {} /\ row.status = "null"
    BY DEF NoRow
  <2>3. \A q \in Requests : req[q].pc \in RemovalPcs => req'[q] = req[q]
    BY <1>1, <2>1 DEF RemovalPcs
  <2>4. \A s \in Requests : s # r /\ Settled(s)' => Settled(s)
    BY <1>1, <2>1, <2>3 DEF Settled, Removing, Live
  <2>5. QED BY <1>1, <2>1, <2>2, <2>4
<1>4. QED BY <1>2, <1>3 DEF InsertScan

----------------------------------------------------------------------------
(* What an ingest itself writes.                                           *)

\* What IndexInv says of a handler, and of the row it writes.
Filed(r) == OwnIngest(r) /\ Indexed(r) /\ KeysOfFlushed(r)

\* An ingest that fails leaves nothing to be said of it.
LEMMA FailFiles ==
  ASSUME TypeOK, NEW r \in Requests, req[r].pc \in WorkPcs, Fail(r), OwnIngest(r),
         r \notin answered
  PROVE  Filed(r)' /\ scan' = scan
<1>1. /\ req'[r].pc = "error" /\ req'[r].op = req[r].op /\ req'[r].body = req[r].body
      /\ answered' = answered /\ scan' = scan
  BY DEF TypeOK, Request, Fail, Goto, db, history
<1>2. QED
  BY <1>1 DEF Filed, OwnIngest, Indexed, KeysOfFlushed, IndexedPcs, FiledPcs

\* The steps that store and index, up to the file rows.
LEMMA IndexFiles ==
  ASSUME TypeOK, NEW r \in Requests, Filed(r), r \notin answered,
         \/ PutObjects(r) \/ PutFails(r) \/ InsertPackages(r)
         \/ ExpireSession(r) \/ FlushKeys(r)
         \/ SelectPackageIds(r) \/ InsertFiles(r)
  PROVE  Filed(r)' /\ scan'[r].deps = scan[r].deps
<1> USE DEF Filed, OwnIngest, Indexed, KeysOfFlushed, IndexedPcs, FiledPcs, FlushesFirst
<1>0. /\ req[r] \in Request /\ scan[r] \in ScanRow
      /\ req \in [Requests -> Request] /\ scan \in [Requests -> ScanRow]
  BY DEF TypeOK
<1>w. WorkStep(r) /\ (Settled(r)' <=> Settled(r)) /\ (Live(r)' <=> Live(r))
  <2>1. WorkStep(r)
    BY HandlersWork
  <2>2. QED BY <2>1, WorkSettled DEF WorkStep, Live
<1>o. req'[r].op = req[r].op /\ req'[r].body = req[r].body
  BY HandleOwn DEF Handle
<1>1. CASE PutObjects(r)
  BY <1>0, <1>1, <1>o DEF PutObjects, db, history, Request
<1>2. CASE PutFails(r)
  BY <1>0, <1>2, <1>o DEF PutFails, Goto, db, history, Request
<1>3. CASE InsertPackages(r)
  <2>1. CASE Live(r)
    <3>1. /\ req[r].pc = "packages" /\ answered' = answered
          /\ req'[r].pc = AfterPackages(r) /\ req'[r].dirty = req[r].dirty
          /\ scan'[r].tables = scan[r].tables \cup {"packages"}
          /\ scan'[r].deps = scan[r].deps
      BY <1>0, <1>3, <2>1 DEF InsertPackages, Goto, history, Request, ScanRow
    <3>2. OwnIngest(r)'
      BY <1>o, <3>1 DEF AfterPackages, AfterDeps, AfterLayers
    <3>3. Indexed(r)'
      BY <1>o, <3>1 DEF AfterPackages, AfterDeps, AfterLayers
    <3>4. KeysOfFlushed(r)'
      BY <1>o, <1>w, <3>1 DEF AfterPackages, AfterDeps, AfterLayers
    <3>5. QED BY <3>1, <3>2, <3>3, <3>4
  <2>2. CASE ~Live(r)
    BY <1>3, <2>2, FailFiles DEF InsertPackages, WorkPcs
  <2>3. QED BY <2>1, <2>2
<1>4. CASE ExpireSession(r)
  <2>1. /\ req[r].pc = "expire" /\ answered' = answered /\ scan' = scan
        /\ req'[r].pc \in {"ids", "answer"}
    BY <1>0, <1>4 DEF ExpireSession, db, history, Request
  <2>2. QED BY <1>o, <1>w, <2>1
<1>5. CASE FlushKeys(r)
  <2>1. CASE Live(r)
    <3>1. /\ req[r].pc = "flush" /\ answered' = answered
          /\ req'[r].pc = "answer"
          /\ scan'[r].tables = scan[r].tables /\ scan'[r].deps = scan[r].deps
          /\ scan'[r].keys = Flushed(r)
      BY <1>0, <1>5, <2>1 DEF FlushKeys, history, Request, ScanRow
    <3>2. PutKinds(r)' = PutKinds(r)
      BY <1>o DEF PutKinds
    <3>3. QED BY <1>o, <1>w, <3>1, <3>2 DEF Flushed
  <2>2. CASE ~Live(r)
    BY <1>5, <2>2, FailFiles DEF FlushKeys, WorkPcs
  <2>3. QED BY <2>1, <2>2
<1>6. CASE SelectPackageIds(r)
  <2>1. /\ req[r].pc = "ids" /\ answered' = answered /\ scan' = scan
        /\ req'[r].pc = AfterIds(r) /\ req'[r].dirty = req[r].dirty
        /\ req'[r].found = ("packages" \in scan[r].tables)
    <3> DEFINE b == "packages" \in scan[r].tables
    <3>1. req' = [req EXCEPT ![r].found = b, ![r].pc = AfterIds(r)]
      BY <1>6 DEF SelectPackageIds
    <3> HIDE DEF b
    <3>2. /\ req'[r].pc = AfterIds(r) /\ req'[r].dirty = req[r].dirty
          /\ req'[r].found = b
      BY <1>0, <3>1 DEF Request
    <3>3. QED BY <1>6, <3>2 DEF SelectPackageIds, db, history, b
  <2>2. QED BY <1>o, <1>w, <2>1 DEF AfterIds
<1>7. CASE InsertFiles(r)
  <2>1. CASE req[r].found /\ "packages" \notin scan[r].tables
    BY <1>7, <2>1, FailFiles DEF InsertFiles, WorkPcs
  <2>2. CASE ~(req[r].found /\ "packages" \notin scan[r].tables)
    <3>1. /\ req[r].pc = "files" /\ answered' = answered
          /\ req'[r].pc = AfterFiles(r) /\ req'[r].dirty = req[r].dirty
          /\ scan'[r].tables =
               scan[r].tables \cup (IF req[r].found THEN {"files"} ELSE {})
          /\ scan'[r].deps = scan[r].deps
      BY <1>0, <1>7, <2>2 DEF InsertFiles, Goto, history, Request, ScanRow
    <3>2. OwnIngest(r)'
      BY <1>o, <3>1 DEF AfterFiles, AfterDeps, AfterLayers
    <3>3. Indexed(r)'
      BY <1>o, <1>w, <3>1 DEF AfterFiles, AfterDeps, AfterLayers
    <3>4. KeysOfFlushed(r)'
      BY <1>o, <1>w, <3>1 DEF AfterFiles, AfterDeps, AfterLayers
    <3>5. QED BY <3>1, <3>2, <3>3, <3>4
  <2>3. QED BY <2>1, <2>2
<1>8. QED BY <1>1, <1>2, <1>3, <1>4, <1>5, <1>6, <1>7

\* The steps that announce dependencies, store layers and attestations, and
\* answer.
LEMMA FinishFiles ==
  ASSUME TypeOK, NEW r \in Requests, Filed(r), r \notin answered,
         \/ MarkPending(r) \/ StartThread(r)
         \/ InsertLayers(r) \/ PutAttestation(r) \/ InsertAttestations(r)
         \/ Answer(r) \/ TagConflict(r)
  PROVE  Filed(r)' /\ scan'[r].deps = scan[r].deps
<1> USE DEF Filed, OwnIngest, Indexed, KeysOfFlushed, IndexedPcs, FiledPcs, FlushesFirst
<1>0. /\ req[r] \in Request /\ scan[r] \in ScanRow
      /\ req \in [Requests -> Request] /\ scan \in [Requests -> ScanRow]
  BY DEF TypeOK
<1>w. WorkStep(r) /\ (Settled(r)' <=> Settled(r)) /\ (Live(r)' <=> Live(r))
  <2>1. WorkStep(r)
    BY HandlersWork
  <2>2. QED BY <2>1, WorkSettled DEF WorkStep, Live
<1>o. /\ req'[r].op = req[r].op /\ req'[r].body = req[r].body
      /\ PutKinds(r)' = PutKinds(r)
  BY HandleOwn DEF Handle, PutKinds
<1>1. CASE MarkPending(r)
  <2>1. CASE Live(r)
    <3>1. /\ req[r].pc = "pending" /\ answered' = answered
          /\ req'[r].pc = "start"
          /\ scan'[r].tables = scan[r].tables /\ scan'[r].deps = scan[r].deps
          /\ scan'[r].keys = Flushed(r)
      BY <1>0, <1>1, <2>1 DEF MarkPending, history, Request, ScanRow
    <3>2. QED BY <1>o, <1>w, <3>1 DEF Flushed
  <2>2. CASE ~Live(r)
    BY <1>1, <2>2, FailFiles DEF MarkPending, WorkPcs
  <2>3. QED BY <2>1, <2>2
<1>2. CASE StartThread(r)
  <2>1. CASE Live(r)
    <3>1. /\ req[r].pc = "start" /\ answered' = answered /\ scan' = scan
          /\ req'[r].pc \in {"layers", "att_put", "answer"}
      BY <1>0, <1>2, <2>1
      DEF StartThread, Goto, db, history, Request, AfterDeps, AfterLayers
    <3>2. QED BY <1>o, <1>w, <3>1
  <2>2. CASE ~Live(r)
    BY <1>2, <2>2, FailFiles DEF StartThread, WorkPcs
  <2>3. QED BY <2>1, <2>2
<1>3. CASE InsertLayers(r)
  <2>1. /\ req[r].pc = "layers" /\ answered' = answered
        /\ scan'[r].tables \in {scan[r].tables, scan[r].tables \cup {"layers"}}
        /\ scan'[r].keys = scan[r].keys /\ scan'[r].deps = scan[r].deps
    <3>1. /\ req[r].pc = "layers" /\ answered' = answered
          /\ \/ scan' = [scan EXCEPT ![r].tables = @ \cup {"layers"}]
             \/ scan' = scan
      BY <1>3, Zenon DEF InsertLayers, history
    <3>2. QED BY <1>0, <3>1 DEF ScanRow
  <2>2. req'[r].pc = AfterLayers(r)
    <3>1. CASE Goto(r, AfterLayers(r))
      BY <1>0, <3>1 DEF Goto, Request
    <3>2. ASSUME NEW shared \in BOOLEAN, NEW label,
                 req' = [req EXCEPT ![r].aborted = shared, ![r].pc = label]
          PROVE  req'[r].pc = label
      BY <1>0, <3>2 DEF Request
    <3>3. QED BY <1>3, <3>1, <3>2 DEF InsertLayers
  <2>3. QED BY <1>o, <1>w, <2>1, <2>2 DEF AfterLayers
<1>4. CASE PutAttestation(r)
  <2>1. /\ req[r].pc = "att_put" /\ answered' = answered /\ scan' = scan
        /\ req'[r].pc \in {"att_row", "answer"}
    BY <1>0, <1>4 DEF PutAttestation, Goto, db, history, Request
  <2>2. QED BY <1>o, <1>w, <2>1
<1>5. CASE InsertAttestations(r)
  <2>1. /\ req[r].pc = "att_row" /\ answered' = answered
        /\ req'[r].pc = "answer"
        /\ scan[r].tables \subseteq scan'[r].tables /\ scan'[r].deps = scan[r].deps
        /\ scan'[r].keys \in {scan[r].keys, PutKinds(r)}
    BY <1>0, <1>5 DEF InsertAttestations, Flushed, history, Request, ScanRow
  <2>2. QED BY <1>o, <1>w, <2>1
<1>6. CASE Answer(r)
  <2>1. CASE Live(r) /\ ~req[r].aborted
    <3>1. /\ req[r].pc = "answer" /\ answered' = answered \cup {r}
          /\ req'[r].pc = "done"
          /\ scan[r].tables \subseteq scan'[r].tables /\ scan'[r].deps = scan[r].deps
          /\ scan'[r].keys = scan[r].keys
      BY <1>0, <1>6, <2>1 DEF Answer, Request, ScanRow
    <3>2. QED BY <1>o, <1>w, <3>1
  <2>2. CASE ~(Live(r) /\ ~req[r].aborted)
    BY <1>6, <2>2, FailFiles DEF Answer, WorkPcs
  <2>3. QED BY <2>1, <2>2
<1>7. CASE TagConflict(r)
  BY <1>7, FailFiles DEF TagConflict, WorkPcs
<1>8. QED BY <1>1, <1>2, <1>3, <1>4, <1>5, <1>6, <1>7

\* The thread an ingest starts has its first batch ahead of it.
LEMMA AfterThread ==
  ASSUME TypeOK, NEW r \in Requests, After(r)
  PROVE  \/ thread'[r] = thread[r]
         \/ req[r].pc = "start" /\ thread'[r].pc = "mark" /\ thread'[r].next = 1
<1>1. CASE StartThread(r)
  <2>1. CASE Live(r)
    <3>1. PICK linked \in BOOLEAN :
            thread' = [thread EXCEPT ![r] = [pc |-> "mark", next |-> 1, linked |-> linked]]
      BY <1>1, <2>1 DEF StartThread
    <3>2. QED BY <1>1, <3>1 DEF StartThread, TypeOK
  <2>2. CASE ~Live(r)
    BY <1>1, <2>2 DEF StartThread, Fail
  <2>3. QED BY <2>1, <2>2
<1>2. CASE ~StartThread(r)
  BY <1>2, IngestStays, FinishStays DEF After
<1>3. QED BY <1>1, <1>2

\* An ingest's own steps keep what its thread has inserted.
LEMMA AfterDepsOfThread ==
  ASSUME TypeOK, ThreadsInv, NEW r \in Requests, After(r), DepsOfThread(r),
         scan'[r].deps = scan[r].deps
  PROVE  DepsOfThread(r)'
<1>1. Settled(r)' => Settled(r)
  BY HandlersWork, WorkSettled DEF After
<1>2. /\ ThreadOfStarted(r) /\ StatusOfThread(r)
  BY DEF ThreadsInv
<1>3. Handle(r)
  BY DEF After, Handle
<1>4. Live(r)' => \/ scan'[r].status = scan[r].status
                  \/ scan'[r].status \in {"null", "pending"}
  BY <1>3, HandleStatus DEF WritesStatus, RowStays
<1>5. \/ thread'[r] = thread[r]
      \/ /\ thread'[r].pc = "mark" /\ thread'[r].next = 1
         /\ thread[r].pc = "none"
  BY <1>2, AfterThread DEF ThreadOfStarted
<1>6. 1 \in 1 .. NBatches + 1 /\ 1 .. 1 - 1 = {}
  BY ConstantsAssumption
<1>7. QED
  BY <1>1, <1>2, <1>4, <1>5, <1>6 DEF DepsOfThread, StatusOfThread, Settled

----------------------------------------------------------------------------
(* Every step keeps IndexInv.                                              *)

\* What IndexInv says of a scan nobody is ingesting any more.
Indexes(s) == Filed(s) /\ DepsOfThread(s)

\* A step that leaves a scan's request and thread alone, and its row if it is
\* left settled, keeps what is said of the scan.
LEMMA OthersIndex ==
  ASSUME NEW s \in Requests, Indexes(s), req'[s] = req[s], thread'[s] = thread[s],
         s \in answered' <=> s \in answered,
         Settled(s)' => Settled(s) /\ scan'[s] = scan[s], KeepsKeys(s)
  PROVE  Indexes(s)'
BY DEF Indexes, Filed, OwnIngest, Indexed, KeysOfFlushed, FlushesFirst, PutKinds,
       DepsOfThread, KeepsKeys

\* A handler keeps IndexInv.
LEMMA HandleIndexes ==
  ASSUME IngestInv, NEW r \in Requests, Handle(r)
  PROVE  IndexInv'
<1> USE DEF IngestInv, StorageInv, ThreadInv
<1>1. \A s \in Requests : Indexes(s)
  BY DEF IndexInv, Indexes, Filed
<1>2. r \notin answered
  BY <1>1, HandlersAreActive DEF Active, Indexes, Filed, OwnIngest
<1>3. Before(r) \/ InsertScan(r) \/ After(r)
  BY DEF Handle, Before, After
<1>4. ASSUME NEW s \in Requests, s # r PROVE Indexes(s)'
  <2>1. req'[s] = req[s] /\ thread'[s] = thread[s]
    BY <1>4, HandleStays DEF Stays
  <2>2. s \in answered' <=> s \in answered
    BY <1>4, HandleAnswers
  <2>3. /\ Settled(s)' => Settled(s) /\ scan'[s] = scan[s]
        /\ KeepsKeys(s)
    <3>1. CASE Before(r)
      BY <3>1, BeforeSettles, BeforeKeepsKeys
    <3>2. CASE InsertScan(r)
      BY <1>4, <3>2, InsertRow DEF KeepsKeys, Live
    <3>3. CASE After(r)
      <4>1. WorkStep(r)
        BY <3>3, HandlersWork DEF After
      <4>2. QED BY <1>4, <4>1, WorkSettled DEF WorkStep, KeepsKeys, Live
    <3>4. QED BY <1>3, <3>1, <3>2, <3>3
  <2>4. QED BY <1>1, <2>1, <2>2, <2>3, OthersIndex
<1>5. Indexes(r)'
  <2> USE DEF Indexes, Filed, OwnIngest, Indexed, KeysOfFlushed, DepsOfThread,
              IndexedPcs, FiledPcs
  <2>1. /\ req'[r].op = req[r].op /\ req'[r].body = req[r].body
        /\ req[r].pc # "answer" => r \notin answered'
    BY <1>2, HandleOwn, HandleAnswers
  <2>2. CASE Before(r)
    <3>1. /\ req[r].pc \in PreInsertPcs
          /\ req'[r].pc \in PreInsertPcs \cup Finals
      <4>1. CASE EarlyStep(r)
        BY <4>1 DEF EarlyStep, EarlyPcs
      <4>2. CASE RemovalStep(r)
        BY <4>2 DEF RemovalStep, RemovalPcs
      <4>3. QED
        BY <2>2, <4>1, <4>2, FindIsEarly, PurgeIsRemoval, DeleteIsRemoval,
           ProductDeleteIsRemoval DEF Before
    <3>2. ~Live(r)'
      BY <2>2, <3>1, BeforeKeepsKeys DEF KeepsKeys, ControlInv, Control, InsertedOnce
    <3>3. QED BY <1>1, <2>1, <3>1, <3>2 DEF Settled
  <2>3. CASE InsertScan(r)
    <3>1. /\ req[r].pc = "insert" /\ req'[r].pc \in {"error", "put"}
          /\ req'[r].pc = "error" => scan' = scan
          /\ req'[r].pc = "put" => scan'[r].deps = {} /\ scan'[r].status = "null"
      BY <2>3, InsertRow
    <3>2. thread[r].pc = "none" /\ ~Live(r)
      BY <3>1 DEF ThreadsInv, ThreadOfStarted, ControlInv, Control, InsertedOnce
    <3>3. thread'[r].pc = "none"
      BY <2>3, <3>2, IngestStays
    <3>4. Live(r)' => req'[r].pc = "put"
      BY <3>1, <3>2 DEF Live
    <3>5. QED BY <1>1, <2>1, <3>1, <3>3, <3>4 DEF Settled
  <2>4. CASE After(r)
    <3>1. Filed(r)' /\ scan'[r].deps = scan[r].deps
      BY <1>1, <1>2, <2>4, IndexFiles, FinishFiles DEF After
    <3>2. DepsOfThread(r)'
      BY <1>1, <2>4, <3>1, AfterDepsOfThread
    <3>3. QED BY <3>1, <3>2
  <2>5. QED BY <1>3, <2>2, <2>3, <2>4
<1>6. QED BY <1>4, <1>5 DEF IndexInv, Indexes, Filed

\* A thread inserts the batches in order, and succeeds behind the last.
LEMMA RunThreadIndexes ==
  ASSUME IngestInv, NEW s \in Requests, RunThread(s)
  PROVE  IndexInv'
<1> USE DEF IngestInv, StorageInv, ThreadInv
<1>1. \A t \in Requests : Indexes(t)
  BY DEF IndexInv, Indexes, Filed
<1>2. /\ UNCHANGED <<req, torn, answered>>
      /\ \A t \in Requests : t # s => scan'[t] = scan[t] /\ thread'[t] = thread[t]
  BY DEF RunThread, MarkProcessing, AcquireSemaphore, InsertBatch, BatchFails,
         ReleaseSemaphore, MarkOutcome, SetStatus, TypeOK, db, history
<1>3. /\ scan'[s].live = scan[s].live /\ scan'[s].keys = scan[s].keys
      /\ scan'[s].tables = scan[s].tables
  BY DEF RunThread, MarkProcessing, AcquireSemaphore, InsertBatch, BatchFails,
         ReleaseSemaphore, MarkOutcome, SetStatus, TypeOK, ScanRow, db
<1>4. \A t \in Requests : Settled(t)' <=> Settled(t)
  BY <1>2, <1>3 DEF Settled, Removing, Live
<1>5. ASSUME NEW t \in Requests, t # s PROVE Indexes(t)'
  BY <1>1, <1>2, <1>4, <1>5, OthersIndex DEF KeepsKeys, Live
<1>6. Filed(s)'
  BY <1>1, <1>2, <1>3, <1>4
  DEF Indexes, Filed, OwnIngest, Indexed, KeysOfFlushed, FlushesFirst, PutKinds, Live
<1>7. DepsOfThread(s)'
  <2> SUFFICES ASSUME Settled(s)
               PROVE  /\ thread'[s].pc = "none" => scan'[s].deps = {}
                      /\ thread'[s].pc \in {"mark", "wait", "insert"} =>
                           /\ thread'[s].next \in 1 .. NBatches + 1
                           /\ scan'[s].deps = 1 .. thread'[s].next - 1
                      /\ thread'[s].pc = "succeed" \/ scan'[s].status = "complete"
                           => scan'[s].deps = Batches
    BY <1>4 DEF DepsOfThread
  <2>0. /\ Live(s) /\ scan[s] \in ScanRow /\ thread[s] \in Thread /\ NBatches \in Nat
        /\ DepsOfThread(s)
    BY <1>1, ConstantsAssumption DEF Settled, TypeOK, Indexes
  <2>1. CASE MarkProcessing(s)
    <3>1. /\ thread'[s].pc = "wait" /\ thread'[s].next = thread[s].next
          /\ thread[s].pc = "mark"
          /\ scan'[s].status = "processing" /\ scan'[s].deps = scan[s].deps
      BY <2>0, <2>1 DEF MarkProcessing, SetStatus, TypeOK, ScanRow, Thread
    <3>2. QED BY <2>0, <3>1 DEF DepsOfThread
  <2>2. CASE AcquireSemaphore(s)
    <3>1. /\ thread'[s].pc = "insert" /\ thread'[s].next = thread[s].next
          /\ thread[s].pc = "wait" /\ scan' = scan
      BY <2>0, <2>2 DEF AcquireSemaphore, db, TypeOK, Thread
    <3>2. QED BY <2>0, <3>1 DEF DepsOfThread
  <2>3. CASE InsertBatch(s)
    <3>1. /\ thread'[s].pc = "insert" /\ thread'[s].next = thread[s].next + 1
          /\ thread[s].pc = "insert" /\ thread[s].next \in Batches
          /\ scan'[s].deps = scan[s].deps \cup {thread[s].next}
          /\ scan'[s].status = scan[s].status
      BY <2>0, <2>3 DEF InsertBatch, TypeOK, ScanRow, Thread
    <3>2. scan[s].deps = 1 .. thread[s].next - 1
      BY <2>0, <3>1 DEF DepsOfThread
    <3>3. /\ thread'[s].next \in 1 .. NBatches + 1
          /\ scan'[s].deps = 1 .. thread'[s].next - 1
      BY <2>0, <3>1, <3>2 DEF Batches, Thread
    <3>4. scan[s].status = "complete" => scan'[s].deps = Batches
      BY <2>0, <3>1 DEF DepsOfThread
    <3>5. QED BY <3>1, <3>3, <3>4
  <2>4. CASE BatchFails(s)
    <3>1. thread'[s].pc = "fail" /\ scan' = scan
      BY <2>0, <2>4 DEF BatchFails, db, TypeOK, Thread
    <3>2. QED BY <2>0, <3>1 DEF DepsOfThread
  <2>5. CASE ReleaseSemaphore(s)
    <3>1. /\ thread'[s].pc = "succeed" /\ scan' = scan
          /\ thread[s].pc = "insert" /\ thread[s].next \notin Batches
      BY <2>0, <2>5 DEF ReleaseSemaphore, db, TypeOK, Thread
    <3>2. /\ thread[s].next \in 1 .. NBatches + 1
          /\ scan[s].deps = 1 .. thread[s].next - 1
      BY <2>0, <3>1 DEF DepsOfThread
    <3>3. thread[s].next = NBatches + 1
      BY <2>0, <3>1, <3>2 DEF Batches
    <3>4. scan[s].deps = Batches
      BY <2>0, <3>2, <3>3 DEF Batches
    <3>5. QED BY <3>1, <3>4
  <2>6. CASE MarkOutcome(s)
    <3>1. /\ thread'[s].pc = "done" /\ thread[s].pc \in {"succeed", "fail"}
          /\ scan'[s].deps = scan[s].deps
          /\ scan'[s].status = IF thread[s].pc = "succeed" THEN "complete" ELSE "failed"
      BY <2>0, <2>6 DEF MarkOutcome, SetStatus, TypeOK, ScanRow, Thread
    <3>2. QED BY <2>0, <3>1 DEF DepsOfThread
  <2>7. QED BY <2>1, <2>2, <2>3, <2>4, <2>5, <2>6 DEF RunThread
<1>8. QED BY <1>5, <1>6, <1>7 DEF IndexInv, Indexes, Filed

\* A request arrives at the start of its program, with a body its endpoint
\* accepts.
LEMMA BeginStarts ==
  ASSUME TypeOK, NEW r \in Requests, Begin(r)
  PROVE  /\ req'[r].pc \in {"rejected", "resolve", "find"}
         /\ req'[r].op \in {"import", "packages"} => "files" \notin req'[r].body
<1>1. ASSUME NEW o \in Ingest, BeginIngest(r, o)
      PROVE  /\ req'[r].pc \in {"rejected", "resolve"}
             /\ req'[r].op \in {"import", "packages"} => "files" \notin req'[r].body
  <2>1. PICK n \in Names, b \in Bodies, p \in Procs :
          /\ b \subseteq PartsOf[o]
          /\ req' = [req EXCEPT ![r] =
               [Unborn EXCEPT !.op = o, !.name = n, !.body = b, !.home = p,
                  !.pc = IF o # "upload" /\ "malformed" \in b THEN "rejected"
                         ELSE "resolve"]]
    BY <1>1 DEF BeginIngest
  <2>2. /\ req'[r].op = o /\ req'[r].body = b
        /\ req'[r].pc \in {"rejected", "resolve"}
    BY <2>1 DEF Unborn, TypeOK
  <2>3. o \in {"import", "packages"} => "files" \notin PartsOf[o]
    BY DEF PartsOf
  <2>4. QED BY <2>1, <2>2, <2>3
<1>2. CASE BeginDeleteScan(r)
  <2>1. PICK t \in Requests, p \in Procs : req' = [req EXCEPT ![r] =
          [Unborn EXCEPT !.op = "delete_scan", !.doomed = {t}, !.home = p,
             !.pc = "find"]]
    BY <1>2 DEF BeginDeleteScan
  <2>2. QED BY <2>1 DEF Unborn, TypeOK
<1>3. CASE BeginDeleteProduct(r)
  <2>1. PICK n \in Names, p \in Procs : req' = [req EXCEPT ![r] =
          [Unborn EXCEPT !.op = "delete_product", !.name = n, !.home = p,
             !.pc = "resolve"]]
    BY <1>3 DEF BeginDeleteProduct
  <2>2. QED BY <2>1 DEF Unborn, TypeOK
<1>4. "upload" \in Ingest /\ "import" \in Ingest /\ "packages" \in Ingest
  BY DEF Ingest
<1>5. QED
  BY <1>1, <1>2, <1>3, <1>4 DEF Begin, BeginUpload, BeginImport, BeginPackages

\* A request arrives with nothing written.
LEMMA BeginIndexes ==
  ASSUME IngestInv, NEW r \in Requests, Begin(r)
  PROVE  IndexInv'
<1> USE DEF IngestInv, StorageInv, ThreadInv
<1>1. \A s \in Requests : Indexes(s)
  BY DEF IndexInv, Indexes, Filed
<1>2. /\ req[r].pc = "idle" /\ UNCHANGED <<scan, thread, answered>>
      /\ \A s \in Requests : s # r => req'[s] = req[s]
  BY BeginIsEarly
  DEF Begin, BeginUpload, BeginImport, BeginPackages, BeginIngest, BeginDeleteScan,
      BeginDeleteProduct, CanBegin, db, history, EarlyStep
<1>3. ~Live(r) /\ r \notin answered
  BY <1>1, <1>2 DEF ControlInv, Control, InsertedOnce, Indexes, Filed, OwnIngest
<1>4. ASSUME NEW s \in Requests, s # r PROVE Indexes(s)'
  BY <1>1, <1>2, <1>4, BeginIsEarly, EarlySettles, OthersIndex DEF KeepsKeys, Live
<1>5. /\ req'[r].pc \in {"rejected", "resolve", "find"}
      /\ req'[r].op \in {"import", "packages"} => "files" \notin req'[r].body
  BY BeginStarts
<1>6. Indexes(r)'
  BY <1>2, <1>3, <1>5
  DEF Indexes, Filed, OwnIngest, Indexed, KeysOfFlushed, DepsOfThread, Settled, Live
<1>7. QED BY <1>4, <1>6 DEF IndexInv, Indexes, Filed

\* A crash ends handlers and threads where they are.
LEMMA CrashIndexes ==
  ASSUME IngestInv, NEW p \in Procs, Crash(p)
  PROVE  IndexInv'
<1> USE DEF IngestInv, StorageInv, ThreadInv
<1> DEFINE victims == {r \in Requests : Active(r) /\ req[r].home = p}
<1>1. UNCHANGED <<scan, answered>>
  BY DEF Crash, db
<1> SUFFICES ASSUME NEW s \in Requests PROVE Indexes(s)'
  BY DEF IndexInv, Indexes, Filed
<1>2. Indexes(s)
  BY DEF IndexInv, Indexes, Filed
<1>3. Settled(s)' => Settled(s)
  BY CrashSettles
<1>4. /\ req'[s].op = req[s].op /\ req'[s].body = req[s].body
      /\ req'[s].dirty = req[s].dirty /\ req'[s].found = req[s].found
      /\ req'[s].pc \in {req[s].pc, "killed"}
      /\ req[s].pc = "done" => req'[s].pc = "done"
  <2>1. req'[s] = IF s \in victims THEN [req[s] EXCEPT !.pc = "killed"] ELSE req[s]
    BY DEF Crash
  <2>2. s \in victims => req[s].pc # "done"
    BY DEF Active
  <2> HIDE DEF victims
  <2>3. CASE s \in victims
    BY <2>1, <2>2, <2>3 DEF TypeOK, Request
  <2>4. CASE s \notin victims
    BY <2>1, <2>4
  <2>5. QED BY <2>3, <2>4
<1>5. \/ thread'[s] = thread[s]
      \/ thread'[s].pc = "dead"
  BY DEF Crash, TypeOK, Thread
<1>6. QED
  BY <1>1, <1>2, <1>3, <1>4, <1>5
  DEF Indexes, Filed, OwnIngest, Indexed, KeysOfFlushed, FlushesFirst, PutKinds,
      DepsOfThread, IndexedPcs, FiledPcs, Live

\* The invariant holds when the server starts,
LEMMA IngestInitially == Init => IngestInv
<1> SUFFICES ASSUME Init PROVE IngestInv
  OBVIOUS
<1>1. \A s \in Requests : req[s] = Unborn /\ scan[s] = NoRow
  BY DEF Init
<1>2. IndexInv
  BY <1>1 DEF Init, IndexInv, OwnIngest, Indexed, KeysOfFlushed, DepsOfThread, Settled,
              Live, NoRow, Unborn
<1>3. QED BY <1>2, StorageInitially, ThreadInvInitially DEF IngestInv

\* and every step keeps it.
LEMMA IngestStep == IngestInv /\ [Next]_vars => IngestInv'
<1> SUFFICES ASSUME IngestInv, [Next]_vars PROVE IngestInv'
  OBVIOUS
<1>1. StorageInv' /\ ThreadInv'
  BY StorageStep, StepKeeps DEF IngestInv
<1>2. CASE UNCHANGED vars
  <2>1. \A s \in Requests : (Settled(s)' <=> Settled(s)) /\ (Live(s)' <=> Live(s))
    BY <1>2 DEF vars, Settled, Removing, Live
  <2>2. IndexInv'
    BY <1>2, <2>1 DEF vars, IngestInv, IndexInv, OwnIngest, Indexed, KeysOfFlushed,
                      FlushesFirst, PutKinds, DepsOfThread
  <2>3. QED BY <1>1, <2>2 DEF IngestInv
<1>3. CASE \E r \in Requests : Begin(r) \/ Handle(r) \/ RunThread(r)
  BY <1>1, <1>3, BeginIndexes, HandleIndexes, RunThreadIndexes DEF IngestInv
<1>4. CASE \E p \in Procs : Crash(p)
  BY <1>1, <1>4, CrashIndexes DEF IngestInv
<1>5. QED BY <1>2, <1>3, <1>4 DEF Next, Quiet

\* A 201 tells the truth: while nobody takes the scan apart its packages are in
\* the database, and its files if the body had any (AnsweredIsIndexed).
THEOREM AnsweredScansIndexed == Spec => []AnsweredIsIndexed
<1>1. IngestInv => AnsweredIsIndexed
  <2> SUFFICES ASSUME IngestInv, NEW s \in answered, Settled(s)
               PROVE  {"packages"} \cup (req[s].body \cap {"files"}) \subseteq scan[s].tables
    BY DEF AnsweredIsIndexed
  <2>1. s \in Requests
    BY DEF IngestInv, StorageInv, TypeOK
  <2>2. QED BY <2>1 DEF IngestInv, IndexInv, Indexed
<1>2. QED BY <1>1, IngestInitially, IngestStep, PTL DEF Spec

\* The handlers that flush before they expire the session answer with the keys
\* in the row, and no step of anyone takes them out while the row lives
\* (FlushedKeysSurvive).
THEOREM KeysSurvive == Spec => []FlushedKeysSurvive
<1>1. IngestInv => FlushedKeysSurvive
  <2> SUFFICES ASSUME IngestInv, NEW s \in answered, Live(s), FlushesFirst(s)
               PROVE  scan[s].keys = PutKinds(s)
    BY DEF FlushedKeysSurvive, FlushesFirst
  <2>1. s \in Requests
    BY DEF IngestInv, StorageInv, TypeOK
  <2>2. QED BY <2>1 DEF IngestInv, IndexInv, KeysOfFlushed
<1>2. QED BY <1>1, IngestInitially, IngestStep, PTL DEF Spec

\* No batch of a complete scan is missing, however its thread was interleaved
\* with its own handler and with removals (CompleteMeansAllDeps).
THEOREM CompleteHasAllDeps == Spec => []CompleteMeansAllDeps
<1>1. IngestInv => CompleteMeansAllDeps
  BY DEF IngestInv, IndexInv, DepsOfThread, CompleteMeansAllDeps
<1>2. QED BY <1>1, IngestInitially, IngestStep, PTL DEF Spec

----------------------------------------------------------------------------
(* Rows outlive strangers.                                                 *)

\* Until its scan row is inserted or gone, a handler that kills a row has it in
\* hand.
LEMMA BeforeSpares ==
  ASSUME TypeOK, NEW r \in Requests, Before(r),
         NEW s \in Requests, Live(s), ~Live(s)'
  PROVE  Removing(s) \/ Locked(s)
<1> USE DEF TypeOK
<1>1. CASE UNCHANGED scan
  BY <1>1 DEF Live
<1>2. CASE DeleteRows(r)
  <2>a. PICK t \in req[r].doomed : \E ts : scan' = [scan EXCEPT ![t] = AfterDelete(t, ts)]
    BY <1>2 DEF DeleteRows
  <2>1. PICK ts : scan' = [scan EXCEPT ![t] = AfterDelete(t, ts)]
    BY <2>a
  <2>2. s = t
    BY <2>1 DEF Live, Request
  <2>3. QED BY <1>2, <2>2 DEF DeleteRows, Removing, RemovalPcs
<1>3. CASE CommitProductDelete(r)
  <2>1. CASE s \in req[r].todo
    BY <1>3, <2>1 DEF CommitProductDelete, Locked
  <2>2. CASE s \notin req[r].todo
    BY <1>1, <1>3, <2>2 DEF CommitProductDelete, Live, db
  <2>3. QED BY <2>1, <2>2
<1>4. CASE \/ ResolveProduct(r) \/ CreateProduct(r)
           \/ FindExisting(r) \/ FindScan(r) \/ FindScansOfProduct(r)
           \/ PurgeObjects(r) \/ DeleteProductRows(r) \/ RejectUpload(r)
  BY <1>1, <1>4 DEF ResolveProduct, CreateProduct, FindExisting, FindScan,
                    FindScansOfProduct, PurgeObjects, DeleteProductRows, RejectUpload,
                    Fail, db
<1>5. QED BY <1>2, <1>3, <1>4 DEF Before

\* No step takes a scan row that no removal has read.
LEMMA StepSpares == StorageInv /\ [Next]_vars => OnlyDoomedDisappear
<1> SUFFICES ASSUME StorageInv, [Next]_vars, NEW s \in Requests, Live(s), ~Live(s)'
             PROVE  Removing(s) \/ Locked(s)
  BY DEF OnlyDoomedDisappear
<1> USE DEF StorageInv
<1>1. scan' # scan
  BY DEF Live
<1>2. ASSUME NEW r \in Requests, Handle(r) PROVE Removing(s) \/ Locked(s)
  <2>1. CASE Before(r)
    BY <2>1, BeforeSpares
  <2>2. CASE InsertScan(r)
    <3>1. s = r /\ req[r].pc = "insert"
      BY <2>2, InsertRow DEF Live
    <3>2. QED BY <3>1 DEF ControlInv, Control, InsertedOnce
  <2>3. CASE After(r)
    <3>1. WorkStep(r)
      BY <2>3, HandlersWork DEF After
    <3>2. QED BY <3>1 DEF WorkStep, Live
  <2>4. QED BY <1>2, <2>1, <2>2, <2>3 DEF Handle, Before, After
<1>3. ASSUME NEW r \in Requests, Begin(r) PROVE FALSE
  BY <1>1, <1>3, BeginIsEarly DEF EarlyStep
<1>4. ASSUME NEW r \in Requests, RunThread(r) PROVE FALSE
  <2>1. scan'[s].live = scan[s].live
    BY <1>4 DEF RunThread, MarkProcessing, AcquireSemaphore, InsertBatch, BatchFails,
                ReleaseSemaphore, MarkOutcome, SetStatus, TypeOK, ScanRow, db
  <2>2. QED BY <2>1 DEF Live
<1>5. ASSUME NEW p \in Procs, Crash(p) PROVE FALSE
  BY <1>1, <1>5 DEF Crash, db
<1>6. CASE UNCHANGED vars
  BY <1>1, <1>6 DEF vars
<1>7. QED BY <1>2, <1>3, <1>4, <1>5, <1>6 DEF Next, Quiet

\* A scan row disappears only while a removal that read it is under way
\* (RowsOutliveStrangers).
THEOREM StrangersSpareRows == Spec => RowsOutliveStrangers
<1>1. StorageInv /\ [Next]_vars => [OnlyDoomedDisappear]_vars
  BY StepSpares
<1>2. QED BY <1>1, StorageInitially, StorageStep, PTL DEF Spec, RowsOutliveStrangers

----------------------------------------------------------------------------
(* One request at a time.                                                  *)

\* A request arrives when nobody is served.
LEMMA ArrivesAlone ==
  ASSUME MaxActive <= 1, OneActive, NEW r \in Requests, NEW p \in Procs, CanBegin(r, p)
  PROVE  NobodyActive
<1> DEFINE S == {q \in Requests : Active(q)}
<1>1. ASSUME NEW q \in S PROVE FALSE
  <2>1. S = {q}
    BY DEF OneActive
  <2>2. Cardinality({q}) = 1
    BY FS_Singleton
  <2>3. Cardinality(S) < MaxActive
    BY DEF CanBegin
  <2> HIDE DEF S
  <2>4. QED BY <2>1, <2>2, <2>3, ConstantsAssumption
<1>2. QED BY <1>1 DEF NobodyActive

\* The process a request arrives at.
LEMMA BeginCan ==
  ASSUME NEW r \in Requests, Begin(r)
  PROVE  \E p \in Procs : CanBegin(r, p)
BY Zenon DEF Begin, BeginUpload, BeginImport, BeginPackages, BeginIngest, BeginDeleteScan,
             BeginDeleteProduct

\* The requests served after a step were served before it, or arrive with it.
LEMMA OneActiveStep ==
  ASSUME MaxActive <= 1, StorageInv, OneActive, Next
  PROVE  OneActive'
<1> USE DEF StorageInv
<1>1. ASSUME NEW r \in Requests, Begin(r) PROVE OneActive'
  <2>1. NobodyActive
    BY <1>1, BeginCan, ArrivesAlone
  <2>2. \A s \in Requests : s # r => req'[s] = req[s]
    BY <1>1, BeginIsEarly DEF EarlyStep
  <2>3. QED BY <2>1, <2>2 DEF NobodyActive, OneActive, Active
<1>2. ASSUME NEW r \in Requests, Handle(r) PROVE OneActive'
  <2>1. Active(r) /\ \A s \in Requests : s # r => req'[s] = req[s]
    BY <1>2, HandlersAreActive, HandleStays DEF Stays
  <2>2. QED BY <2>1 DEF OneActive, Active
<1>3. ASSUME NEW s \in Requests, RunThread(s) PROVE OneActive'
  <2>1. req' = req
    BY <1>3 DEF RunThread, MarkProcessing, AcquireSemaphore, InsertBatch, BatchFails,
                ReleaseSemaphore, MarkOutcome
  <2>2. QED BY <2>1 DEF OneActive, Active
<1>4. ASSUME NEW p \in Procs, Crash(p) PROVE OneActive'
  <2> DEFINE victims == {r \in Requests : Active(r) /\ req[r].home = p}
  <2>1. \A r \in Requests :
          req'[r] = IF r \in victims THEN [req[r] EXCEPT !.pc = "killed"] ELSE req[r]
    BY <1>4 DEF Crash
  <2> HIDE DEF victims
  <2>2. \A r \in Requests : Active(r)' => Active(r)
    BY <2>1 DEF Active, TypeOK, Request
  <2>3. QED BY <2>2 DEF OneActive
<1>5. CASE Quiet
  BY <1>5 DEF Quiet, vars, OneActive, Active
<1>6. QED BY <1>1, <1>2, <1>3, <1>4, <1>5 DEF Next

\* What a step leaves of every row but the one it inserts.
KeepsProduct(s) == Live(s)' => Live(s) /\ scan'[s].pid = scan[s].pid

\* Every handler's step but the INSERT, and every thread's step and crash, adds
\* no scan to a product.
LEMMA AddsNoScan ==
  ASSUME StorageInv, Next, NEW s \in Requests, ~InsertScan(s)
  PROVE  KeepsProduct(s)
<1> USE DEF StorageInv, KeepsProduct
<1>1. ASSUME NEW r \in Requests, Begin(r) PROVE KeepsProduct(s)
  BY <1>1, BeginIsEarly DEF EarlyStep, Live
<1>2. ASSUME NEW r \in Requests, Handle(r) PROVE KeepsProduct(s)
  <2>1. CASE EarlyStep(r)
    BY <2>1 DEF EarlyStep, Live
  <2>2. CASE RemovalStep(r)
    BY <2>2 DEF RemovalStep
  <2>3. CASE InsertScan(r)
    <3>1. s # r
      BY <2>3
    <3>2. QED BY <2>3, <3>1, InsertRow DEF Live
  <2>4. CASE WorkStep(r)
    BY <2>4 DEF WorkStep, Live
  <2>5. QED
    BY <1>2, <2>1, <2>2, <2>3, <2>4, FindIsEarly, PurgeIsRemoval, DeleteIsRemoval,
       ProductDeleteIsRemoval, HandlersWork DEF Handle
<1>3. ASSUME NEW t \in Requests, RunThread(t) PROVE KeepsProduct(s)
  <2>1. scan'[s].live = scan[s].live /\ scan'[s].pid = scan[s].pid
    BY <1>3 DEF RunThread, MarkProcessing, AcquireSemaphore, InsertBatch, BatchFails,
                ReleaseSemaphore, MarkOutcome, SetStatus, TypeOK, ScanRow, db
  <2>2. QED BY <2>1 DEF Live
<1>4. ASSUME NEW p \in Procs, Crash(p) PROVE KeepsProduct(s)
  BY <1>4 DEF Crash, db, Live
<1>5. CASE Quiet
  BY <1>5 DEF Quiet, vars, Live
<1>6. QED BY <1>1, <1>2, <1>3, <1>4, <1>5 DEF Next

\* What an ingest has found, purged or deleted is all its product had.
LEMMA HandleHasInHand ==
  ASSUME StorageInv, OneScanEach, NEW r \in Requests, HasInHand(r), Handle(r)
  PROVE  HasInHand(r)'
<1> USE DEF StorageInv, HasInHand
<1>0. /\ req \in [Requests -> Request] /\ req[r] \in Request
      /\ scan \in [Requests -> ScanRow] /\ req'[r].op = req[r].op
  BY HandleOwn DEF TypeOK
<1>1. CASE req'[r].pc \notin {"purge", "delete", "insert"}
  BY <1>1
<1>2. CASE ResolveProduct(r) \/ CreateProduct(r)
  <2>1. req'[r].pc \in {"find", "create", "rejected", "error"}
    BY <1>0, <1>2 DEF ResolveProduct, CreateProduct, Fail, Goto, Request
  <2>2. QED BY <1>1, <2>1
<1>3. CASE FindExisting(r)
  <2>1. ASSUME NEW s \in ScansOf(req[r].pid), Doom(r, {s}, "purge")
        PROVE  HasInHand(r)'
    <3>1. /\ req'[r].pc = "purge" /\ req'[r].doomed = {s} /\ req'[r].pid = req[r].pid
      BY <1>0, <2>1 DEF Doom, Request
    <3>2. UNCHANGED scan
      BY <1>3 DEF FindExisting, db
    <3>3. ScansOf(req[r].pid)' = ScansOf(req[r].pid)
      BY <3>1, <3>2 DEF ScansOf, Live
    <3>4. ScansOf(req[r].pid) \subseteq {s}
      BY <2>1 DEF ScansOf, OneScanEach
    <3>5. QED BY <3>1, <3>3, <3>4
  <2>2. CASE ScansOf(req[r].pid) = {} /\ Goto(r, "insert")
    <3>1. req'[r].pc = "insert" /\ req'[r].pid = req[r].pid
      BY <1>0, <2>2 DEF Goto, Request
    <3>2. UNCHANGED scan
      BY <1>3 DEF FindExisting, db
    <3>3. QED BY <2>2, <3>1, <3>2 DEF ScansOf, Live
  <2>3. QED BY <1>3, <2>1, <2>2 DEF FindExisting
<1>4. CASE FindScan(r) \/ FindScansOfProduct(r)
  <2>1. req[r].op \notin Ingest
    BY <1>4 DEF FindScan, FindScansOfProduct, Ingest
  <2>2. req'[r].pc # "insert"
    BY <1>0, <1>4 DEF FindScan, FindScansOfProduct, Goto, Doom, Request
  <2>3. QED BY <1>0, <2>1, <2>2
<1>5. CASE PurgeObjects(r)
  <2>1. RemovalStep(r) /\ UNCHANGED scan /\ req[r].pc = "purge"
    BY <1>5, PurgeIsRemoval DEF PurgeObjects, db
  <2>2. ScansOf(req[r].pid)' = ScansOf(req[r].pid)
    BY <2>1 DEF RemovalStep, ScansOf, Live
  <2>3. req'[r].pc # "insert"
    <3>1. PICK s \in req[r].todo :
            req' = [req EXCEPT ![r].todo = @ \ {s},
                               ![r].keys = {k \in @ : k[1] # s},
                               ![r].pc =
              IF req[r].todo # {s} THEN "purge"
              ELSE IF req[r].op = "delete_product" THEN "stmts" ELSE "delete"]
      BY <1>5 DEF PurgeObjects
    <3> DEFINE K == {k \in req[r].keys : k[1] # s}
               T == req[r].todo \ {s}
               label == IF req[r].todo # {s} THEN "purge"
                        ELSE IF req[r].op = "delete_product" THEN "stmts" ELSE "delete"
    <3>2. req' = [req EXCEPT ![r].todo = T, ![r].keys = K, ![r].pc = label]
      BY <3>1
    <3>3. label # "insert"
      OBVIOUS
    <3> HIDE DEF K, T, label
    <3>4. QED BY <1>0, <3>2, <3>3
  <2>4. QED BY <1>0, <2>1, <2>2, <2>3 DEF RemovalStep
<1>6. CASE DeleteRows(r)
  <2>1. RemovalStep(r) /\ req[r].pc = "delete"
    BY <1>6, DeleteIsRemoval DEF DeleteRows
  <2>2. ScansOf(req[r].pid)' \subseteq ScansOf(req[r].pid)
    BY <2>1 DEF RemovalStep, ScansOf
  <2>3. CASE req'[r].pc = "delete"
    BY <1>0, <2>1, <2>2, <2>3 DEF RemovalStep
  <2>4. CASE req'[r].pc = "insert"
    <3> DEFINE plan == RemovalPlan(req[r].op)
    <3>1. PICK s \in req[r].doomed :
            /\ scan' = [scan EXCEPT ![s] = AfterDelete(s, plan[req[r].stage])]
            /\ req' = [req EXCEPT
                 ![r].stage = IF req[r].stage = Len(plan) THEN 1 ELSE @ + 1,
                 ![r].pc = IF req[r].stage # Len(plan) THEN "delete"
                           ELSE IF req[r].op \in Ingest THEN "insert" ELSE "done"]
      BY <1>6 DEF DeleteRows
    <3>2. req[r].stage = Len(plan)
      BY <1>0, <2>4, <3>1 DEF Request
    <3>3. req[r].doomed = {s} /\ s \in Requests
      BY <1>0, <2>1, <3>1 DEF ControlInv, Control, OneDoomed, OwnProgram, Request
    <3>4. ~Live(s)'
      BY <1>0, <3>1, <3>2, <3>3, PlanEndsWithScan DEF AfterDelete, Live, NoRow
    <3>5. req[r].op \in Ingest
      BY <1>0, <2>4, <3>1 DEF Request
    <3>6. ScansOf(req[r].pid) \subseteq {s}
      BY <2>1, <3>3, <3>5
    <3>7. QED BY <2>2, <2>4, <3>4, <3>6 DEF ScansOf
  <2>5. QED BY <1>1, <2>1, <2>3, <2>4 DEF RemovalStep
<1>7. CASE DeleteProductRows(r) \/ CommitProductDelete(r)
  <2>1. req'[r].pc \in {"commit", "done", "error"}
    BY <1>0, <1>7 DEF DeleteProductRows, CommitProductDelete, Goto, Request
  <2>2. QED BY <1>1, <2>1
<1>8. CASE RejectUpload(r) \/ InsertScan(r)
  <2>1. req'[r].pc \in {"rejected", "put", "error"}
    BY <1>0, <1>8 DEF RejectUpload, InsertScan, Fail, Goto, Request
  <2>2. QED BY <1>1, <2>1
<1>9. CASE After(r)
  <2>1. WorkStep(r)
    BY <1>9, HandlersWork DEF After
  <2>2. QED BY <1>1, <2>1 DEF WorkStep, WorkPcs
<1>10. QED
  BY <1>2, <1>3, <1>4, <1>5, <1>6, <1>7, <1>8, <1>9 DEF Handle, After

\* Every step keeps SerialInv.
LEMMA SerialStep ==
  ASSUME MaxActive <= 1
  PROVE  SerialInv /\ [Next]_vars => SerialInv'
<1> SUFFICES ASSUME SerialInv, [Next]_vars PROVE SerialInv'
  OBVIOUS
<1> USE DEF SerialInv
<1>1. StorageInv'
  BY StorageStep
<1>2. CASE UNCHANGED vars
  BY <1>1, <1>2 DEF vars, OneActive, Active, OneScanEach, Live, HasInHand, ScansOf
<1>3. CASE Next
  <2>1. OneActive'
    BY <1>3, OneActiveStep
  <2>2. OneScanEach'
    <3>1. CASE \A s \in Requests : ~InsertScan(s)
      BY <1>3, <3>1, AddsNoScan DEF OneScanEach, KeepsProduct
    <3>2. ASSUME NEW r \in Requests, InsertScan(r) PROVE OneScanEach'
      <4>1. /\ req[r].pc = "insert"
            /\ \A s \in Requests : s # r => scan'[s] = scan[s]
        BY <3>2, InsertRow DEF StorageInv
      <4>2. scan'[r] = scan[r] \/ scan'[r].pid = req[r].pid
        <5> DEFINE row == [NoRow EXCEPT !.live = TRUE, !.pid = req[r].pid]
        <5>1. row.pid = req[r].pid
          BY DEF NoRow
        <5>2. scan' = scan \/ scan' = [scan EXCEPT ![r] = row]
          BY <3>2, Zenon DEF InsertScan, Fail, db
        <5> HIDE DEF row
        <5>3. QED BY <5>1, <5>2 DEF StorageInv, TypeOK
      <4>3. ScansOf(req[r].pid) = {}
        BY <4>1 DEF HasInHand
      <4>4. QED BY <4>1, <4>2, <4>3 DEF OneScanEach, ScansOf, Live
    <3>3. QED BY <3>1, <3>2
  <2>3. ASSUME NEW q \in Requests PROVE HasInHand(q)'
    <3>1. ASSUME NEW r \in Requests, Begin(r) PROVE HasInHand(q)'
      <4>1. UNCHANGED scan /\ \A s \in Requests : s # r => req'[s] = req[s]
        BY <3>1, BeginIsEarly DEF StorageInv, EarlyStep
      <4>2. req'[r].pc \notin {"purge", "delete", "insert"}
        BY <3>1, BeginStarts DEF StorageInv
      <4>3. QED BY <4>1, <4>2 DEF HasInHand, ScansOf, Live
    <3>2. ASSUME NEW r \in Requests, Handle(r) PROVE HasInHand(q)'
      <4>1. CASE q = r
        BY <3>2, <4>1, HandleHasInHand
      <4>2. CASE q # r
        <5>1. Active(r) /\ req'[q] = req[q]
          BY <3>2, <4>2, HandlersAreActive, HandleStays DEF Stays, StorageInv
        <5>2. ~Active(q)
          BY <4>2, <5>1 DEF OneActive
        <5>3. QED BY <5>1, <5>2 DEF HasInHand, Active
      <4>3. QED BY <4>1, <4>2
    <3>3. ASSUME NEW s \in Requests, RunThread(s) PROVE HasInHand(q)'
      <4>1. /\ req' = req
            /\ \A t \in Requests : scan'[t].live = scan[t].live /\ scan'[t].pid = scan[t].pid
        BY <3>3 DEF RunThread, MarkProcessing, AcquireSemaphore, InsertBatch, BatchFails,
                    ReleaseSemaphore, MarkOutcome, SetStatus, StorageInv, TypeOK, ScanRow, db
      <4>2. \A p : ScansOf(p)' = ScansOf(p)
        BY <4>1 DEF ScansOf, Live
      <4>3. QED BY <4>1, <4>2 DEF HasInHand
    <3>4. ASSUME NEW p \in Procs, Crash(p) PROVE HasInHand(q)'
      <4> DEFINE victims == {r \in Requests : Active(r) /\ req[r].home = p}
      <4>1. /\ req'[q] = IF q \in victims THEN [req[q] EXCEPT !.pc = "killed"] ELSE req[q]
            /\ UNCHANGED scan
        BY <3>4 DEF Crash, db
      <4> HIDE DEF victims
      <4>2. req'[q] = req[q] \/ req'[q].pc = "killed"
        BY <4>1 DEF StorageInv, TypeOK, Request
      <4>3. QED BY <4>1, <4>2 DEF HasInHand, ScansOf, Live
    <3>5. CASE Quiet
      BY <3>5 DEF Quiet, vars, HasInHand, ScansOf, Live
    <3>6. QED BY <1>3, <3>1, <3>2, <3>3, <3>4, <3>5 DEF Next
  <2>4. QED BY <1>1, <2>1, <2>2, <2>3
<1>4. QED BY <1>2, <1>3

\* Nothing is there at first.
LEMMA SerialInitially == Init => SerialInv
<1> SUFFICES ASSUME Init PROVE SerialInv
  OBVIOUS
<1>1. \A s \in Requests : req[s] = Unborn /\ scan[s] = NoRow
  BY DEF Init
<1>2. QED
  BY <1>1, StorageInitially
  DEF SerialInv, OneActive, Active, OneScanEach, Live, HasInHand, NoRow, Unborn

\* Served one at a time, the requests never leave a product with two scans: an
\* ingest replaces all it finds, whatever fails or crashes (OneScanPerProduct).
THEOREM OneScan ==
  ASSUME MaxActive <= 1
  PROVE  Spec => []OneScanPerProduct
<1>1. Init => SerialInv
  BY SerialInitially
<1>2. SerialInv => OneScanPerProduct
  <2> SUFFICES ASSUME SerialInv, NEW r \in Requests PROVE Cardinality(ScansOf(r)) <= 1
    BY DEF OneScanPerProduct
  <2>1. CASE ScansOf(r) = {}
    BY <2>1, FS_EmptySet
  <2>2. ASSUME NEW s \in ScansOf(r) PROVE Cardinality(ScansOf(r)) <= 1
    <3>1. ScansOf(r) = {s}
      BY <2>2 DEF SerialInv, OneScanEach, ScansOf
    <3>2. Cardinality({s}) = 1
      BY FS_Singleton
    <3>3. QED BY <3>1, <3>2
  <2>3. QED BY <2>1, <2>2
<1>3. QED BY <1>1, <1>2, SerialStep, PTL DEF Spec

----------------------------------------------------------------------------
(* One request at a time, without crashes and failing storage.             *)

\* The instances in which replacing and deleting give the space back.
Reclaiming ==
  /\ MaxActive <= 1 /\ MaxCrashes = 0 /\ ~StorageFaults
  /\ "import" \notin Ops /\ "packages" \notin Ops
  /\ \A b \in Bodies : Reclaimable(b)

\* What the objects of one scan are there for.
Accounts(r) == \A k \in objects : k[1] = r => Accounted(k)

\* An ingest that has its row goes on to the commits that name its objects.
LEMMA StillUpload ==
  ASSUME TypeOK, NEW r \in Requests, OwnUpload(r), Working(r), Handle(r),
         req'[r].pc \in (WorkPcs \cup Finals) \ {"expire", "flush"}
  PROVE  OwnUpload(r)'
<1>1. req'[r].op = req[r].op /\ req'[r].body = req[r].body
  BY HandleOwn
<1>2. QED BY <1>1 DEF OwnUpload, Working, Active, WorkPcs, Ingest

\* From its objects to its indexed packages and files.
LEMMA IndexNames ==
  ASSUME ReclaimInv, Reclaiming, NEW r \in Requests, Handle(r),
         \/ PutObjects(r) \/ PutFails(r) \/ InsertPackages(r) \/ ExpireSession(r)
         \/ FlushKeys(r) \/ SelectPackageIds(r) \/ InsertFiles(r) \/ MarkPending(r)
         \/ StartThread(r)
  PROVE  OwnUpload(r)' /\ WillName(r)' /\ Accounts(r)'
<1> USE DEF WorkPcs
<1>0. /\ req \in [Requests -> Request] /\ req[r] \in Request
      /\ scan \in [Requests -> ScanRow] /\ scan[r] \in ScanRow
      /\ OwnUpload(r) /\ WillName(r) /\ Accounts(r)
  BY DEF ReclaimInv, SerialInv, StorageInv, TypeOK, Accounts
<1>1. /\ Working(r) /\ TypeOK
      /\ req[r].pc \in {"put", "packages", "ids", "files", "pending", "start"}
  BY <1>0 DEF ReclaimInv, SerialInv, StorageInv, OwnUpload, Working, Active, PreInsertPcs,
     PutObjects, PutFails, InsertPackages, ExpireSession, FlushKeys, SelectPackageIds,
     InsertFiles, MarkPending, StartThread
<1>2. /\ req[r].op = "upload" /\ Live(r)
      /\ "deps" \in req[r].body \/ "attestations" \in req[r].body
      /\ req'[r].op = req[r].op /\ req'[r].body = req[r].body
      /\ ~req[r].aborted \/ "attestations" \notin req[r].body
  BY <1>0, <1>1, HandleOwn DEF OwnUpload, WillName, Working, Reclaimable
<1>3. PutKinds(r) = SbomKinds /\ scan[r].keys \subseteq SbomKinds
  BY <1>0, <1>2 DEF PutKinds, ScanRow
<1>4. ASSUME req'[r].pc \in {"packages", "ids", "files", "pending", "start", "layers",
                             "att_put", "answer"},
             Live(r)',
             req'[r].pc = "files" /\ req'[r].found => "packages" \in scan'[r].tables,
             req'[r].pc \in {"start", "answer"} => ~req'[r].dirty,
             "deps" \in req[r].body /\ req'[r].pc \in {"layers", "att_put"} => ~req'[r].dirty,
             req'[r].aborted = req[r].aborted,
             req'[r].pc = "att_put" => "attestations" \in req[r].body,
             \A k \in objects' : k[1] = r =>
               \/ k \in objects /\ (req[r].dirty => req'[r].dirty \/ SbomKinds \subseteq scan'[r].keys)
               \/ req'[r].dirty /\ k[2] \in SbomKinds,
             scan[r].keys \subseteq scan'[r].keys,
             scan[r].tables \subseteq scan'[r].tables
      PROVE  OwnUpload(r)' /\ WillName(r)' /\ Accounts(r)'
  <2>1. Working(r)'
    BY <1>4 DEF Working, Active, PreInsertPcs
  <2>2. OwnUpload(r)'
    BY <1>0, <1>1, <1>4, StillUpload
  <2>3. WillName(r)'
    BY <1>2, <1>4 DEF WillName
  <2>4. ASSUME NEW k \in objects', k[1] = r PROVE Accounted(k)'
    <3>1. CASE req'[r].dirty /\ k[2] \in SbomKinds
      BY <1>4, <2>1, <2>4, <3>1 DEF Accounted
    <3>2. CASE /\ k \in objects
               /\ req[r].dirty => req'[r].dirty \/ SbomKinds \subseteq scan'[r].keys
      <4>1. k[2] \in NamedKinds(r) \/ (req[r].dirty /\ k[2] \in SbomKinds)
        BY <1>0, <1>1, <2>4, <3>2 DEF Accounts, Accounted
      <4>2. k[2] \in NamedKinds(r)' \/ (req'[r].dirty /\ k[2] \in SbomKinds)
        BY <1>4, <3>2, <4>1 DEF NamedKinds
      <4>3. QED BY <1>4, <2>1, <2>4, <4>2 DEF Accounted
    <3>3. QED BY <1>4, <2>4, <3>1, <3>2
  <2>5. QED BY <2>2, <2>3, <2>4 DEF Accounts
<1>5. CASE PutObjects(r)
  <2>1. /\ req'[r].pc = "packages" /\ req'[r].dirty /\ req'[r].aborted = req[r].aborted
        /\ scan' = scan /\ objects' = objects \cup ({r} \X SbomKinds)
    BY <1>0, <1>3, <1>5 DEF PutObjects, Request, db
  <2>2. QED BY <1>2, <1>4, <2>1 DEF Live
<1>6. CASE PutFails(r)
  BY <1>6 DEF PutFails, Reclaiming
<1>7. CASE InsertPackages(r)
  <2>1. /\ req'[r].pc = AfterPackages(r) /\ req'[r].dirty = req[r].dirty
        /\ req'[r].aborted = req[r].aborted /\ objects' = objects
        /\ scan' = [scan EXCEPT ![r].tables = @ \cup {"packages"}]
    BY <1>0, <1>2, <1>7 DEF InsertPackages, Goto, Request
  <2>2. /\ Live(r)' /\ scan'[r].keys = scan[r].keys
        /\ scan'[r].tables = scan[r].tables \cup {"packages"}
    BY <1>0, <1>2, <2>1 DEF ScanRow, Live
  <2>3. /\ AfterPackages(r) \in {"ids", "layers", "att_put"}
        /\ AfterPackages(r) # "ids" => "deps" \notin req[r].body
        /\ AfterPackages(r) = "att_put" => "attestations" \in req[r].body
    BY <1>2 DEF AfterPackages, AfterDeps, AfterLayers
  <2>4. QED BY <1>4, <2>1, <2>2, <2>3
<1>8. CASE ExpireSession(r) \/ FlushKeys(r)
  BY <1>1, <1>8 DEF ExpireSession, FlushKeys
<1>9. CASE SelectPackageIds(r)
  <2>1. /\ req'[r].pc = AfterIds(r) /\ req'[r].dirty = req[r].dirty
        /\ req'[r].found = ("packages" \in scan[r].tables)
        /\ req'[r].aborted = req[r].aborted /\ objects' = objects /\ scan' = scan
    BY <1>0, <1>9 DEF SelectPackageIds, Request, db
  <2>2. AfterIds(r) \in {"files", "pending"}
    BY DEF AfterIds
  <2>3. QED BY <1>2, <1>4, <2>1, <2>2 DEF Live
<1>10. CASE InsertFiles(r)
  <2>1. req[r].found => "packages" \in scan[r].tables
    BY <1>0, <1>1, <1>10 DEF WillName, InsertFiles
  <2>2. /\ req'[r].pc = AfterFiles(r) /\ req'[r].dirty = req[r].dirty
        /\ req'[r].aborted = req[r].aborted /\ objects' = objects
        /\ scan' = scan \/ scan' = [scan EXCEPT ![r].tables = @ \cup {"files"}]
    BY <1>0, <1>10, <2>1 DEF InsertFiles, Goto, Request
  <2>3. /\ Live(r)' /\ scan'[r].keys = scan[r].keys
        /\ scan[r].tables \subseteq scan'[r].tables
    BY <1>0, <1>2, <2>2 DEF ScanRow, Live
  <2>4. /\ AfterFiles(r) \in {"pending", "layers", "att_put"}
        /\ AfterFiles(r) # "pending" => "deps" \notin req[r].body
        /\ AfterFiles(r) = "att_put" => "attestations" \in req[r].body
    BY <1>2 DEF AfterFiles, AfterDeps, AfterLayers
  <2>5. QED BY <1>4, <2>2, <2>3, <2>4
<1>11. CASE MarkPending(r)
  <2>1. /\ req'[r].pc = "start" /\ ~req'[r].dirty
        /\ req'[r].aborted = req[r].aborted /\ objects' = objects
        /\ scan' = [scan EXCEPT ![r].status = "pending", ![r].keys = Flushed(r)]
    BY <1>0, <1>2, <1>11 DEF MarkPending, Request
  <2>2. /\ Live(r)' /\ scan'[r].keys = Flushed(r) /\ scan'[r].tables = scan[r].tables
    <3> DEFINE K == Flushed(r)
    <3>1. scan' = [scan EXCEPT ![r].status = "pending", ![r].keys = K]
      BY <2>1
    <3> HIDE DEF K
    <3>2. scan'[r].keys = K /\ scan'[r].live = scan[r].live /\ scan'[r].tables = scan[r].tables
      BY <1>0, <3>1 DEF ScanRow
    <3>3. QED BY <1>2, <3>2 DEF K, Live
  <2>3. /\ scan[r].keys \subseteq Flushed(r)
        /\ req[r].dirty => SbomKinds \subseteq Flushed(r)
    BY <1>3 DEF Flushed
  <2>4. QED BY <1>4, <2>1, <2>2, <2>3
<1>12. CASE StartThread(r)
  <2>1. /\ req'[r].pc = AfterDeps(r) /\ req'[r].dirty = req[r].dirty
        /\ req'[r].aborted = req[r].aborted /\ objects' = objects /\ scan' = scan
    BY <1>0, <1>2, <1>12 DEF StartThread, Goto, Request, db
  <2>2. ~req[r].dirty
    BY <1>0, <1>1, <1>12 DEF WillName, StartThread
  <2>3. /\ AfterDeps(r) \in {"layers", "att_put", "answer"}
        /\ AfterDeps(r) = "att_put" => "attestations" \in req[r].body
    BY DEF AfterDeps, AfterLayers
  <2>4. QED BY <1>2, <1>4, <2>1, <2>2, <2>3 DEF Live
<1>13. QED
  BY <1>5, <1>6, <1>7, <1>8, <1>9, <1>10, <1>11, <1>12

\* From its layers to its answer.
LEMMA FinishNames ==
  ASSUME ReclaimInv, Reclaiming, NEW r \in Requests, Handle(r),
         \/ InsertLayers(r) \/ PutAttestation(r) \/ InsertAttestations(r)
         \/ Answer(r) \/ TagConflict(r)
  PROVE  OwnUpload(r)' /\ WillName(r)' /\ Accounts(r)'
<1> USE DEF WorkPcs
<1>0. /\ req \in [Requests -> Request] /\ req[r] \in Request
      /\ scan \in [Requests -> ScanRow] /\ scan[r] \in ScanRow
      /\ OwnUpload(r) /\ WillName(r) /\ Accounts(r)
  BY DEF ReclaimInv, SerialInv, StorageInv, TypeOK, Accounts
<1>1. /\ Working(r) /\ TypeOK
      /\ req[r].pc \in {"layers", "att_put", "att_row", "answer"}
  BY DEF ReclaimInv, SerialInv, StorageInv, Working, Active, PreInsertPcs,
     InsertLayers, PutAttestation, InsertAttestations, Answer, TagConflict
<1>2. /\ req[r].op = "upload" /\ Live(r)
      /\ "deps" \in req[r].body \/ "attestations" \in req[r].body
      /\ req[r].pc \in {"att_put", "att_row"} => "attestations" \in req[r].body
      /\ "attestations" \in req[r].body => "dup_layers" \notin req[r].body
      /\ req'[r].op = req[r].op /\ req'[r].body = req[r].body
      /\ "attestations" \in req[r].body /\ req[r].pc # "answer" => ~req[r].aborted
  BY <1>0, <1>1, HandleOwn DEF OwnUpload, WillName, Working, Reclaimable
<1>3. PutKinds(r) = SbomKinds /\ scan[r].keys \subseteq SbomKinds
  BY <1>0, <1>2 DEF PutKinds, ScanRow
<1>4. \A k \in objects : k[1] = r =>
        \/ k[2] \in scan[r].keys
        \/ k[2] = "attestation" /\ "attestations" \in scan[r].tables
        \/ req[r].dirty /\ k[2] \in SbomKinds
        \/ req[r].pc = "att_row" /\ k[2] = "attestation"
  BY <1>0 DEF Accounts, Accounted, NamedKinds
<1>5. ASSUME Live(r)',
             scan[r].keys \subseteq scan'[r].keys,
             scan[r].tables \subseteq scan'[r].tables,
             req[r].dirty => (req'[r].dirty /\ Working(r)') \/ SbomKinds \subseteq scan'[r].keys,
             req[r].pc = "att_row" => "attestations" \in scan'[r].tables,
             \A k \in objects' : k[1] = r =>
               k \in objects \/ (k[2] = "attestation" /\ req'[r].pc = "att_row")
      PROVE  Accounts(r)'
  <2> SUFFICES ASSUME NEW k \in objects', k[1] = r PROVE Accounted(k)'
    BY DEF Accounts
  <2>1. CASE k[2] = "attestation" /\ req'[r].pc = "att_row"
    BY <1>5, <2>1 DEF Accounted
  <2>2. CASE k \in objects
    <3>1. \/ k[2] \in NamedKinds(r)'
          \/ req'[r].dirty /\ Working(r)' /\ k[2] \in SbomKinds
      BY <1>4, <1>5, <2>2 DEF NamedKinds
    <3>2. QED BY <1>5, <3>1 DEF Accounted
  <2>3. QED BY <1>5, <2>1, <2>2
<1>6. CASE InsertLayers(r)
  <2>1. /\ req'[r].pc = AfterLayers(r) /\ req'[r].dirty = req[r].dirty
        /\ "dup_layers" \notin req[r].body => req'[r].aborted = req[r].aborted
        /\ objects' = objects /\ req[r].pc = "layers"
        /\ scan' = scan \/ scan' = [scan EXCEPT ![r].tables = @ \cup {"layers"}]
    <3> DEFINE label == AfterLayers(r)
    <3>1. /\ objects' = objects /\ req[r].pc = "layers"
          /\ \/ /\ "dup_layers" \notin req[r].body /\ Goto(r, label)
                /\ scan' = [scan EXCEPT ![r].tables = @ \cup {"layers"}]
             \/ /\ "dup_layers" \in req[r].body /\ scan' = scan
                /\ \E shared \in BOOLEAN :
                     req' = [req EXCEPT ![r].aborted = shared, ![r].pc = label]
      BY <1>2, <1>6 DEF InsertLayers
    <3> HIDE DEF label
    <3>2. CASE "dup_layers" \notin req[r].body
      BY <1>0, <3>1, <3>2 DEF Goto, Request, label
    <3>3. CASE "dup_layers" \in req[r].body
      <4>1. PICK shared \in BOOLEAN :
              req' = [req EXCEPT ![r].aborted = shared, ![r].pc = label]
        BY <3>1, <3>3
      <4>2. req'[r].pc = label /\ req'[r].dirty = req[r].dirty
        BY <1>0, <4>1 DEF Request
      <4>3. QED BY <3>1, <3>3, <4>2 DEF label
    <3>4. QED BY <3>2, <3>3
  <2>2. /\ Live(r)' /\ scan'[r].keys = scan[r].keys
        /\ scan[r].tables \subseteq scan'[r].tables
    BY <1>0, <1>2, <2>1 DEF ScanRow, Live
  <2>3. /\ AfterLayers(r) \in {"att_put", "answer"}
        /\ AfterLayers(r) = "att_put" <=> "attestations" \in req[r].body
    BY DEF AfterLayers
  <2>4. Working(r)' /\ OwnUpload(r)'
    BY <1>0, <1>1, <2>1, <2>3, StillUpload DEF Working, Active, PreInsertPcs
  <2>5. "deps" \in req[r].body => ~req[r].dirty
    BY <1>0, <1>1, <2>1 DEF WillName
  <2>6. WillName(r)'
    BY <1>2, <2>1, <2>2, <2>3, <2>5 DEF WillName
  <2>7. QED BY <1>5, <2>1, <2>2, <2>4, <2>6
<1>7. CASE PutAttestation(r)
  <2>1. /\ req'[r].pc = "att_row" /\ req'[r].dirty = req[r].dirty
        /\ req'[r].aborted = req[r].aborted /\ scan' = scan /\ req[r].pc = "att_put"
        /\ objects' = objects \cup {<<r, "attestation">>}
    BY <1>0, <1>7 DEF PutAttestation, Goto, Request, db, Reclaiming
  <2>2. Working(r)' /\ OwnUpload(r)' /\ Live(r)'
    BY <1>0, <1>1, <1>2, <2>1, StillUpload DEF Working, Active, PreInsertPcs, Live
  <2>3. "deps" \in req[r].body => ~req[r].dirty
    BY <1>0, <1>1, <2>1 DEF WillName
  <2>4. WillName(r)'
    BY <1>2, <2>1, <2>2, <2>3 DEF WillName
  <2>5. QED BY <1>5, <2>1, <2>2, <2>4
<1>8. CASE InsertAttestations(r)
  <2> DEFINE T == scan[r].tables \cup {"attestations"}
             K == Flushed(r)
  <2>1. /\ req'[r].pc = "answer" /\ ~req'[r].dirty
        /\ scan' = [scan EXCEPT ![r].tables = T, ![r].keys = K]
        /\ objects' = objects /\ req[r].pc = "att_row"
    BY <1>0, <1>2, <1>8 DEF InsertAttestations, Request
  <2> HIDE DEF T, K
  <2>2. /\ scan'[r].keys = K /\ scan'[r].tables = T /\ scan'[r].live = scan[r].live
    BY <1>0, <2>1 DEF ScanRow
  <2>3. Live(r)' /\ scan[r].keys \subseteq K /\ (req[r].dirty => SbomKinds \subseteq K)
    BY <1>2, <1>3, <2>2 DEF Live, Flushed, K
  <2>4. Working(r)' /\ OwnUpload(r)'
    BY <1>0, <1>1, <2>1, StillUpload DEF Working, Active, PreInsertPcs
  <2>5. WillName(r)'
    BY <1>2, <2>1, <2>3 DEF WillName
  <2>6. QED BY <1>5, <2>1, <2>2, <2>3, <2>4, <2>5 DEF T
<1>9. CASE Answer(r) \/ TagConflict(r)
  <2>1. /\ req'[r].pc \in {"done", "error"} /\ objects' = objects /\ req[r].pc = "answer"
        /\ \/ scan' = scan
           \/ scan' = [scan EXCEPT ![r].tables = @ \cup (req[r].body \cap {"tags"})]
    BY <1>0, <1>9 DEF Answer, TagConflict, Fail, Goto, Request, db
  <2>2. /\ Live(r)' /\ scan'[r].keys = scan[r].keys
        /\ scan[r].tables \subseteq scan'[r].tables
    <3> DEFINE T == scan[r].tables \cup (req[r].body \cap {"tags"})
    <3>1. scan' = scan \/ scan' = [scan EXCEPT ![r].tables = T]
      BY <2>1
    <3>2. scan[r].tables \subseteq T
      OBVIOUS
    <3> HIDE DEF T
    <3>3. QED BY <1>0, <1>2, <3>1, <3>2 DEF ScanRow, Live
  <2>3. OwnUpload(r)'
    BY <1>0, <1>1, <2>1, StillUpload
  <2>4. WillName(r)'
    BY <2>1 DEF WillName, Working, Active
  <2>5. ~req[r].dirty
    BY <1>0, <1>1, <2>1 DEF WillName
  <2>6. QED BY <1>5, <2>1, <2>2, <2>3, <2>4, <2>5
<1>10. QED BY <1>6, <1>7, <1>8, <1>9

\* What one handler's step may disturb of ReclaimInv, beside SerialInv.
Reclaims(r) ==
  OwnUpload(r) /\ WillName(r) /\ ObjectsFirst(r) /\ \A k \in objects : Accounted(k)

\* While a handler has no row of its own, every object is named by a row.
LEMMA OthersNamed ==
  ASSUME ReclaimInv, NEW r \in Requests, Active(r), req[r].pc \in PreInsertPcs
  PROVE  \A k \in objects : /\ k \in Requests \X Kinds /\ k[1] # r
                            /\ Live(k[1]) /\ k[2] \in NamedKinds(k[1])
<1> SUFFICES ASSUME NEW k \in objects
             PROVE  /\ k \in Requests \X Kinds /\ k[1] # r
                    /\ Live(k[1]) /\ k[2] \in NamedKinds(k[1])
  OBVIOUS
<1>1. k \in Requests \X Kinds /\ Accounted(k) /\ OneActive /\ \A q \in Requests : InsertedOnce(q)
  BY DEF ReclaimInv, SerialInv, StorageInv, TypeOK, ControlInv, Control
<1>2. k[1] # r
  BY <1>1 DEF Accounted, InsertedOnce
<1>3. ~Active(k[1])
  BY <1>1, <1>2 DEF OneActive
<1>4. QED BY <1>1, <1>2, <1>3 DEF Accounted, Working, Active

\* A step that neither reaches a row of the handler's own nor starts to remove.
LEMMA NotYetWorking ==
  ASSUME ReclaimInv, NEW r \in Requests, Handle(r),
         req[r].pc \in PreInsertPcs, req'[r].pc \in PreInsertPcs \cup Finals,
         req'[r].pc = "insert" => req[r].op \in Ingest
  PROVE  OwnUpload(r)' /\ WillName(r)'
<1>1. /\ req'[r].op = req[r].op /\ req'[r].body = req[r].body
      /\ req'[r].aborted = req[r].aborted /\ Active(r) /\ OwnUpload(r)
  BY HandleOwn, HandlersAreActive DEF ReclaimInv, SerialInv, StorageInv
<1>2. ~Working(r)'
  BY DEF Working, Active
<1>3. QED BY <1>1, <1>2 DEF OwnUpload, WillName, PreInsertPcs, Ingest, Active

\* What a removal reads are all the keys and all the scans it will take.
LEMMA EarlyReclaims ==
  ASSUME ReclaimInv, NEW r \in Requests, Handle(r),
         \/ ResolveProduct(r) \/ CreateProduct(r)
         \/ FindExisting(r) \/ FindScan(r) \/ FindScansOfProduct(r)
         \/ RejectUpload(r)
  PROVE  Reclaims(r)'
<1>0. /\ req \in [Requests -> Request] /\ req[r] \in Request /\ TypeOK /\ ControlInv
      /\ req'[r].op = req[r].op /\ Active(r)
  BY HandleOwn, HandlersAreActive DEF ReclaimInv, SerialInv, StorageInv, TypeOK
<1>1. EarlyStep(r)
  BY <1>0, FindIsEarly
<1>2. /\ req[r].pc \in PreInsertPcs /\ req'[r].pc \in PreInsertPcs \cup Finals
      /\ req'[r].pc \notin {"delete", "commit"}
      /\ UNCHANGED <<scan, objects>>
  BY <1>1 DEF EarlyStep, EarlyPcs, PreInsertPcs
<1>3. \A k \in objects' : Accounted(k)'
  BY <1>0, <1>2, OthersNamed DEF Accounted, NamedKinds, Live
<1>4. /\ req'[r].pc = "insert" => req[r].op \in Ingest
      /\ req'[r].pc \in {"purge", "stmts"} =>
           /\ req'[r].todo = req'[r].doomed /\ req'[r].keys = KeysOf(req'[r].todo)
           /\ req'[r].pc = "stmts" => req'[r].doomed = {}
           /\ req[r].op = "delete_product" => ScansOf(req'[r].pid) \subseteq req'[r].doomed
  <2>a. ASSUME NEW S, NEW label, Doom(r, S, label)
        PROVE  /\ req'[r].pc = label /\ req'[r].todo = S /\ req'[r].doomed = S
               /\ req'[r].keys = KeysOf(S) /\ req'[r].pid = req[r].pid
    <3> DEFINE K == KeysOf(S)
    <3>1. req' = [req EXCEPT ![r].doomed = S, ![r].todo = S, ![r].keys = K, ![r].pc = label]
      BY <2>a DEF Doom
    <3> HIDE DEF K
    <3>2. req'[r].keys = K /\ req'[r].pc = label /\ req'[r].todo = S /\ req'[r].doomed = S
          /\ req'[r].pid = req[r].pid
      BY <1>0, <3>1 DEF Request
    <3>3. QED BY <3>2 DEF K
  <2>1. CASE ResolveProduct(r) \/ CreateProduct(r) \/ RejectUpload(r)
    <3>1. req'[r].pc \in {"find", "create", "rejected", "error"}
      BY <1>0, <2>1 DEF ResolveProduct, CreateProduct, RejectUpload, Fail, Goto, Request
    <3>2. QED BY <3>1
  <2>2. CASE FindExisting(r)
    <3>1. req[r].op \in Ingest
      BY <2>2 DEF FindExisting
    <3>2. CASE Goto(r, "insert")
      BY <1>0, <3>1, <3>2 DEF Goto, Request
    <3>3. ASSUME NEW s \in ScansOf(req[r].pid), Doom(r, {s}, "purge")
          PROVE  /\ req'[r].pc = "purge" /\ req'[r].todo = req'[r].doomed
                 /\ req'[r].keys = KeysOf(req'[r].todo)
      BY <2>a, <3>3
    <3>4. QED BY <2>2, <3>1, <3>2, <3>3 DEF FindExisting, Ingest
  <2>3. CASE FindScan(r)
    <3>1. CASE Goto(r, "rejected")
      BY <1>0, <3>1 DEF Goto, Request
    <3>2. CASE Doom(r, req[r].doomed, "purge")
      BY <2>3, <2>a, <3>2 DEF FindScan
    <3>3. QED BY <2>3, <3>1, <3>2 DEF FindScan
  <2>4. CASE FindScansOfProduct(r)
    <3> DEFINE S == ScansOf(req[r].pid)
    <3>1. Doom(r, S, IF S = {} THEN "stmts" ELSE "purge")
      BY <2>4 DEF FindScansOfProduct
    <3> HIDE DEF S
    <3>2. /\ req'[r].pc = (IF S = {} THEN "stmts" ELSE "purge")
          /\ req'[r].todo = S /\ req'[r].doomed = S
          /\ req'[r].keys = KeysOf(S) /\ req'[r].pid = req[r].pid
      BY <2>a, <3>1
    <3>3. QED BY <3>2 DEF S
  <2>5. QED BY <2>1, <2>2, <2>3, <2>4
<1>5. OwnUpload(r)' /\ WillName(r)'
  BY <1>2, <1>4, NotYetWorking
<1>6. ObjectsFirst(r)'
  <2>1. ASSUME NEW S PROVE KeysOf(S)' = KeysOf(S) /\ ScansOf(S)' = ScansOf(S)
    BY <1>2 DEF KeysOf, ScansOf, Live
  <2>2. QED BY <1>0, <1>2, <1>4, <2>1 DEF ObjectsFirst, KeysOf, ScansOf, Live
<1>7. QED BY <1>3, <1>5, <1>6 DEF Reclaims

\* A purge takes every object of one scan that a row names, which is all of them.
LEMMA PurgeReclaims ==
  ASSUME ReclaimInv, Reclaiming, NEW r \in Requests, Handle(r), PurgeObjects(r)
  PROVE  Reclaims(r)'
<1>0. /\ req \in [Requests -> Request] /\ req[r] \in Request /\ TypeOK /\ ControlInv
      /\ OwnUpload(r) /\ ObjectsFirst(r) /\ Active(r) /\ req[r].pc = "purge"
      /\ UNCHANGED scan
  BY HandlersAreActive DEF ReclaimInv, SerialInv, StorageInv, TypeOK, PurgeObjects, db
<1>1. RemovalStep(r)
  BY <1>0, PurgeIsRemoval
<1>2. PICK s \in req[r].todo :
        /\ \E G \in PurgeOutcomes(s, PurgeSet(r, s)) : objects' = objects \ G
        /\ req' = [req EXCEPT ![r].todo = @ \ {s},
                              ![r].keys = {k \in @ : k[1] # s},
                              ![r].pc =
             IF req[r].todo # {s} THEN "purge"
             ELSE IF req[r].op = "delete_product" THEN "stmts" ELSE "delete"]
  BY DEF PurgeObjects
<1>3. /\ req'[r].todo = req[r].todo \ {s}
      /\ req'[r].keys = {k \in req[r].keys : k[1] # s}
      /\ req'[r].pc \in {"purge", "stmts", "delete"}
      /\ req'[r].pc # "purge" => req[r].todo = {s}
  <2> DEFINE K == {k \in req[r].keys : k[1] # s}
             T == req[r].todo \ {s}
             label == IF req[r].todo # {s} THEN "purge"
                      ELSE IF req[r].op = "delete_product" THEN "stmts" ELSE "delete"
  <2>1. req' = [req EXCEPT ![r].todo = T, ![r].keys = K, ![r].pc = label]
    BY <1>2
  <2>2. label \in {"purge", "stmts", "delete"} /\ (label # "purge" => req[r].todo = {s})
    OBVIOUS
  <2> HIDE DEF K, T, label
  <2>3. req'[r].todo = T /\ req'[r].keys = K /\ req'[r].pc = label
    BY <1>0, <2>1 DEF Request
  <2>4. QED BY <2>2, <2>3 DEF K, T
<1>4. /\ s \in Requests /\ objects' = objects \ PurgeSet(r, s)
      /\ PurgesAttestations(r) /\ KeysOf(req[r].todo) \subseteq req[r].keys
  BY <1>0, <1>2
  DEF Reclaiming, PurgeOutcomes, Request, PurgesAttestations, OwnUpload, AllOps, Ingest,
      ObjectsFirst
<1>5. \A k \in objects : /\ k \in Requests \X Kinds /\ Live(k[1]) /\ k[2] \in NamedKinds(k[1])
  BY <1>0, OthersNamed DEF PreInsertPcs
<1>6. \A k \in objects' : k \in objects /\ k[1] # s
  <2>1. ASSUME NEW k \in objects, k[1] = s PROVE k \in PurgeSet(r, s)
    <3>1. k = <<s, k[2]>> /\ k[2] \in NamedKinds(s)
      BY <1>5, <2>1
    <3>2. CASE k[2] \in scan[s].keys
      <4>1. scan[s].keys \subseteq SbomKinds
        BY <1>0, <1>4 DEF TypeOK, ScanRow
      <4>2. k \in KeysOf(req[r].todo)
        BY <1>2, <2>1, <3>1, <3>2, <4>1 DEF KeysOf
      <4>3. QED BY <1>4, <2>1, <4>2 DEF PurgeSet
    <3>3. CASE k[2] = "attestation" /\ "attestations" \in scan[s].tables
      BY <1>4, <3>1, <3>3 DEF PurgeSet
    <3>4. QED BY <3>1, <3>2, <3>3 DEF NamedKinds
  <2>2. QED BY <1>4, <2>1
<1>7. \A k \in objects' : Accounted(k)'
  BY <1>0, <1>5, <1>6 DEF Accounted, NamedKinds, Live
<1>8. OwnUpload(r)' /\ WillName(r)'
  BY <1>0, <1>3, NotYetWorking DEF PreInsertPcs
<1>9. ObjectsFirst(r)'
  <2>1. \A k \in objects : k[1] \in req[r].doomed => k[1] \in req[r].todo
    BY <1>0 DEF ObjectsFirst
  <2>2. \A k \in objects' : k[1] \in req'[r].doomed => k[1] \in req'[r].todo
    BY <1>1, <1>3, <1>6, <2>1 DEF RemovalStep
  <2>3. req'[r].pc # "purge" => \A k \in objects' : k[1] \notin req'[r].doomed
    BY <1>3, <2>2
  <2>4. KeysOf(req[r].todo)' \subseteq req'[r].keys
    <3>1. KeysOf(req[r].todo)' = {k \in KeysOf(req[r].todo) : k[1] # s}
      BY <1>0, <1>3 DEF KeysOf
    <3>2. QED BY <1>3, <1>4, <3>1
  <2>5. req[r].op = "delete_product" => ScansOf(req[r].pid)' \subseteq req'[r].doomed
    BY <1>0, <1>1 DEF ObjectsFirst, RemovalStep, ScansOf, Live
  <2>6. req'[r].op = req[r].op
    BY <1>1 DEF RemovalStep
  <2>7. QED BY <1>3, <2>2, <2>3, <2>4, <2>5, <2>6 DEF ObjectsFirst
<1>10. QED BY <1>7, <1>8, <1>9 DEF Reclaims

\* Rows go only when no object of their scan is left.
LEMMA DeleteReclaims ==
  ASSUME ReclaimInv, NEW r \in Requests, Handle(r), DeleteRows(r)
  PROVE  Reclaims(r)'
<1>0. /\ req \in [Requests -> Request] /\ req[r] \in Request /\ TypeOK /\ ControlInv
      /\ OwnUpload(r) /\ ObjectsFirst(r) /\ Active(r) /\ req[r].pc = "delete"
      /\ scan \in [Requests -> ScanRow] /\ UNCHANGED objects
  BY HandlersAreActive DEF ReclaimInv, SerialInv, StorageInv, TypeOK, DeleteRows
<1>1. RemovalStep(r)
  BY <1>0, DeleteIsRemoval
<1> DEFINE plan == RemovalPlan(req[r].op)
<1>2. PICK s \in req[r].doomed :
        /\ scan' = [scan EXCEPT ![s] = AfterDelete(s, plan[req[r].stage])]
        /\ req' = [req EXCEPT
             ![r].stage = IF req[r].stage = Len(plan) THEN 1 ELSE @ + 1,
             ![r].pc = IF req[r].stage # Len(plan) THEN "delete"
                       ELSE IF req[r].op \in Ingest THEN "insert" ELSE "done"]
  BY DEF DeleteRows
<1>3. /\ req'[r].pc \in {"delete", "insert", "done"}
      /\ req'[r].pc = "insert" => req[r].op \in Ingest
  BY <1>0, <1>2 DEF Request
<1>4. /\ \A k \in objects : /\ k \in Requests \X Kinds
                            /\ Live(k[1]) /\ k[2] \in NamedKinds(k[1])
      /\ \A k \in objects : k[1] \notin req[r].doomed
  BY <1>0, OthersNamed DEF PreInsertPcs, ObjectsFirst
<1>5. \A t \in Requests : t # s => scan'[t] = scan[t]
  BY <1>0, <1>2
<1>6. \A k \in objects' : Accounted(k)'
  BY <1>0, <1>2, <1>4, <1>5 DEF Accounted, NamedKinds, Live
<1>7. OwnUpload(r)' /\ WillName(r)'
  BY <1>0, <1>3, NotYetWorking DEF PreInsertPcs
<1>8. ObjectsFirst(r)'
  BY <1>0, <1>1, <1>3, <1>4 DEF ObjectsFirst, RemovalStep
<1>9. QED BY <1>6, <1>7, <1>8 DEF Reclaims

\* Nor does a product take a row with it whose objects are still there.
LEMMA ProductReclaims ==
  ASSUME ReclaimInv, NEW r \in Requests, Handle(r),
         DeleteProductRows(r) \/ CommitProductDelete(r)
  PROVE  Reclaims(r)'
<1>0. /\ req \in [Requests -> Request] /\ req[r] \in Request /\ TypeOK /\ ControlInv
      /\ OwnUpload(r) /\ ObjectsFirst(r) /\ Active(r) /\ req[r].pc \in {"stmts", "commit"}
      /\ scan \in [Requests -> ScanRow] /\ UNCHANGED objects
      /\ req[r].op = "delete_product"
  BY HandlersAreActive
  DEF ReclaimInv, SerialInv, StorageInv, TypeOK, DeleteProductRows, CommitProductDelete,
      ControlInv, Control, OwnProgram
<1>1. /\ \A k \in objects : /\ k \in Requests \X Kinds
                            /\ Live(k[1]) /\ k[2] \in NamedKinds(k[1])
      /\ \A k \in objects : k[1] \notin req[r].doomed
  BY <1>0, OthersNamed DEF PreInsertPcs, ObjectsFirst
<1>2. /\ RemovalStep(r) /\ req'[r].pc \in {"commit", "done", "error"}
  BY <1>0, ProductDeleteIsRemoval DEF DeleteProductRows, CommitProductDelete, Goto, Request
<1>3. OwnUpload(r)' /\ WillName(r)'
  BY <1>0, <1>2, NotYetWorking DEF PreInsertPcs
<1>4. CASE DeleteProductRows(r)
  <2>1. UNCHANGED scan /\ req'[r].todo = ScansOf(req[r].pid)
    BY <1>0, <1>4 DEF DeleteProductRows, db, Request
  <2>2. \A k \in objects' : Accounted(k)'
    BY <1>0, <1>1, <2>1 DEF Accounted, NamedKinds, Live
  <2>3. ScansOf(req[r].pid) \subseteq req[r].doomed
    BY <1>0 DEF ObjectsFirst
  <2>4. ScansOf(req[r].pid)' = ScansOf(req[r].pid)
    BY <1>2, <2>1 DEF RemovalStep, ScansOf, Live
  <2>5. ObjectsFirst(r)'
    BY <1>0, <1>1, <1>2, <2>1, <2>3, <2>4 DEF ObjectsFirst, RemovalStep, ScansOf, Live
  <2>6. QED BY <1>3, <2>2, <2>5 DEF Reclaims
<1>5. CASE CommitProductDelete(r)
  <2>1. /\ req[r].pc = "commit" /\ req'[r].pc \in {"done", "error"}
        /\ \/ scan' = scan
           \/ scan' = [s \in Requests |-> IF s \in req[r].todo THEN NoRow ELSE scan[s]]
    BY <1>0, <1>5 DEF CommitProductDelete, Goto, Request, db
  <2>2. \A t \in Requests : t \notin req[r].doomed => scan'[t] = scan[t]
    BY <1>0, <2>1 DEF ObjectsFirst
  <2>3. \A k \in objects' : Accounted(k)'
    BY <1>0, <1>1, <2>2 DEF Accounted, NamedKinds, Live
  <2>4. ObjectsFirst(r)'
    BY <2>1 DEF ObjectsFirst
  <2>5. QED BY <1>3, <2>3, <2>4 DEF Reclaims
<1>6. QED BY <1>4, <1>5

\* A new row has no objects yet.
LEMMA InsertReclaims ==
  ASSUME ReclaimInv, NEW r \in Requests, Handle(r), InsertScan(r)
  PROVE  Reclaims(r)'
<1>0. /\ req \in [Requests -> Request] /\ req[r] \in Request /\ TypeOK /\ ControlInv
      /\ OwnUpload(r) /\ Active(r) /\ req[r].pc = "insert" /\ "malformed" \notin req[r].body
      /\ scan \in [Requests -> ScanRow] /\ UNCHANGED objects /\ req[r].op = "upload"
      /\ req'[r].op = req[r].op /\ req'[r].body = req[r].body
      /\ ~req[r].aborted /\ req'[r].aborted = req[r].aborted
  BY HandlersAreActive, HandleOwn
  DEF ReclaimInv, SerialInv, StorageInv, TypeOK, InsertScan, Fail, OwnUpload, PreInsertPcs
<1>1. \A k \in objects : /\ k \in Requests \X Kinds /\ k[1] # r
                         /\ Live(k[1]) /\ k[2] \in NamedKinds(k[1])
  BY <1>0, OthersNamed DEF PreInsertPcs
<1>2. /\ \A s \in Requests : s # r => scan'[s] = scan[s]
      /\ req'[r].pc \in {"put", "error"}
  BY <1>0, InsertRow
<1>3. \A k \in objects' : Accounted(k)'
  BY <1>0, <1>1, <1>2 DEF Accounted, NamedKinds, Live
<1>4. ObjectsFirst(r)'
  BY <1>2 DEF ObjectsFirst
<1>5. OwnUpload(r)'
  BY <1>0, <1>2 DEF OwnUpload, Active, PreInsertPcs
<1>6. req'[r].pc = "put" => Live(r)'
  <2> DEFINE row == [NoRow EXCEPT !.live = TRUE, !.pid = req[r].pid]
  <2>1. Fail(r) \/ scan' = [scan EXCEPT ![r] = row]
    BY DEF InsertScan
  <2>2. row.live
    BY DEF NoRow
  <2> HIDE DEF row
  <2>3. Fail(r) => req'[r].pc = "error"
    BY <1>0 DEF Fail, Goto
  <2>4. QED BY <1>0, <2>1, <2>2, <2>3 DEF Live
<1>7. WillName(r)'
  BY <1>0, <1>2, <1>6 DEF WillName, Working, Active
<1>8. QED BY <1>3, <1>4, <1>5, <1>7 DEF Reclaims

\* A request arrives with a body of these instances.
LEMMA BeginReclaims ==
  ASSUME ReclaimInv, Reclaiming, NEW r \in Requests, Begin(r)
  PROVE  OwnUpload(r)'
<1> USE DEF OwnUpload, Working, Active, PreInsertPcs
<1>0. req \in [Requests -> Request]
  BY DEF ReclaimInv, SerialInv, StorageInv, TypeOK
<1>1. CASE BeginUpload(r)
  <2>1. PICK n \in Names, b \in Bodies, p \in Procs :
          req' = [req EXCEPT ![r] =
            [Unborn EXCEPT !.op = "upload", !.name = n, !.body = b, !.home = p,
               !.pc = IF "upload" # "upload" /\ "malformed" \in b THEN "rejected"
                      ELSE "resolve"]]
    BY <1>1 DEF BeginUpload, BeginIngest
  <2>2. /\ req'[r].pc = "resolve" /\ req'[r].op = "upload" /\ req'[r].body = b
        /\ ~req'[r].aborted
    BY <1>0, <2>1 DEF Unborn
  <2>3. QED BY <2>2 DEF Reclaiming
<1>2. CASE BeginImport(r) \/ BeginPackages(r)
  BY <1>2 DEF BeginImport, BeginPackages, BeginIngest, Reclaiming
<1>3. CASE BeginDeleteScan(r)
  <2>1. PICK t \in Requests, p \in Procs : req' = [req EXCEPT ![r] =
          [Unborn EXCEPT !.op = "delete_scan", !.doomed = {t}, !.home = p,
             !.pc = "find"]]
    BY <1>3 DEF BeginDeleteScan
  <2>2. req'[r].pc = "find" /\ req'[r].op = "delete_scan" /\ ~req'[r].aborted
    BY <1>0, <2>1 DEF Unborn
  <2>3. QED BY <2>2
<1>4. CASE BeginDeleteProduct(r)
  <2>1. PICK n \in Names, p \in Procs : req' = [req EXCEPT ![r] =
          [Unborn EXCEPT !.op = "delete_product", !.name = n, !.home = p,
             !.pc = "resolve"]]
    BY <1>4 DEF BeginDeleteProduct
  <2>2. req'[r].pc = "resolve" /\ req'[r].op = "delete_product" /\ ~req'[r].aborted
    BY <1>0, <2>1 DEF Unborn
  <2>3. QED BY <2>2
<1>5. QED BY <1>1, <1>2, <1>3, <1>4 DEF Begin

\* Every step of a handler accounts for every object.
LEMMA HandleReclaims ==
  ASSUME ReclaimInv, Reclaiming, NEW r \in Requests, Handle(r)
  PROVE  Reclaims(r)'
<1>1. CASE After(r)
  <2>0. TypeOK /\ Active(r) /\ OneActive
    BY HandlersAreActive DEF ReclaimInv, SerialInv, StorageInv
  <2>1. WorkStep(r)
    BY <1>1, <2>0, HandlersWork DEF After
  <2>2. OwnUpload(r)' /\ WillName(r)' /\ Accounts(r)'
    BY <1>1, IndexNames, FinishNames DEF After
  <2>3. ObjectsFirst(r)'
    BY <2>1 DEF ObjectsFirst, WorkStep, WorkPcs
  <2>4. \A k \in objects' : k \in objects \/ k[1] = r
    <3>1. CASE PutObjects(r) \/ PutFails(r)
      BY <3>1 DEF PutObjects, PutFails
    <3>2. CASE PutAttestation(r)
      BY <3>2 DEF PutAttestation
    <3>3. CASE ~(PutObjects(r) \/ PutFails(r) \/ PutAttestation(r))
      <4>1. UNCHANGED objects
        BY <1>1, <3>3, Zenon
        DEF After, InsertPackages, ExpireSession, FlushKeys, SelectPackageIds, InsertFiles,
            MarkPending, StartThread, InsertLayers, InsertAttestations, Answer, TagConflict,
            Fail
      <4>2. QED BY <4>1
    <3>4. QED BY <3>1, <3>2, <3>3
  <2>5. ASSUME NEW k \in objects', k[1] # r PROVE Accounted(k)'
    <3>1. Accounted(k) /\ k[1] \in Requests
      BY <2>0, <2>4, <2>5 DEF ReclaimInv, TypeOK
    <3>2. scan'[k[1]] = scan[k[1]] /\ req'[k[1]] = req[k[1]]
      BY <2>1, <2>5, <3>1 DEF WorkStep
    <3>3. QED BY <3>1, <3>2 DEF Accounted, NamedKinds, Live, Working, Active
  <2>6. QED BY <2>2, <2>3, <2>5 DEF Reclaims, Accounts
<1>2. CASE ~After(r)
  BY <1>2, EarlyReclaims, PurgeReclaims, DeleteReclaims, ProductReclaims, InsertReclaims
  DEF Handle, After
<1>3. QED BY <1>1, <1>2

\* Every step keeps ReclaimInv.
LEMMA ReclaimStep ==
  ASSUME Reclaiming
  PROVE  ReclaimInv /\ [Next]_vars => ReclaimInv'
<1> SUFFICES ASSUME ReclaimInv, [Next]_vars PROVE ReclaimInv'
  OBVIOUS
<1>0. TypeOK /\ StorageInv /\ OneActive /\ SerialInv
  BY DEF ReclaimInv, SerialInv, StorageInv
<1>1. SerialInv'
  BY <1>0, SerialStep DEF Reclaiming
<1>a. ASSUME NEW q \in Requests, req'[q] = req[q], ~Active(q)
      PROVE  OwnUpload(q)' /\ WillName(q)' /\ ObjectsFirst(q)'
  <2>1. OwnUpload(q)
    BY DEF ReclaimInv
  <2>2. ~Active(q)' /\ req'[q].pc = req[q].pc
    BY <1>a DEF Active
  <2>3. OwnUpload(q)'
    BY <1>a, <2>1, <2>2 DEF OwnUpload, Working
  <2>4. QED BY <1>a, <2>2, <2>3 DEF WillName, ObjectsFirst, Working, Active
<1>b. ASSUME UNCHANGED <<req, objects>>,
             \A s \in Requests : /\ scan'[s].live = scan[s].live
                                 /\ scan'[s].pid = scan[s].pid
                                 /\ scan'[s].keys = scan[s].keys
                                 /\ scan'[s].tables = scan[s].tables
      PROVE  ReclaimInv'
  <2>1. \A k \in objects' : Accounted(k)'
    BY <1>0, <1>b DEF ReclaimInv, TypeOK, Accounted, NamedKinds, Live, Working, Active
  <2>2. ASSUME NEW q \in Requests PROVE OwnUpload(q)' /\ WillName(q)'
    BY <1>b DEF ReclaimInv, OwnUpload, WillName, Live, Working, Active
  <2>3. ASSUME NEW q \in Requests PROVE ObjectsFirst(q)'
    <3>1. ScansOf(req[q].pid)' = ScansOf(req[q].pid)
      BY <1>b DEF ScansOf, Live
    <3>2. KeysOf(req[q].todo)' = KeysOf(req[q].todo)
      <4>1. req[q].todo \subseteq Requests
        BY <1>0 DEF TypeOK, Request
      <4>2. QED BY <1>b, <4>1 DEF KeysOf
    <3>3. QED BY <1>b, <3>1, <3>2 DEF ReclaimInv, ObjectsFirst
  <2>4. QED BY <1>1, <2>1, <2>2, <2>3 DEF ReclaimInv
<1>2. ASSUME NEW r \in Requests, Begin(r) PROVE ReclaimInv'
  <2>1. NobodyActive
    BY <1>0, <1>2, BeginCan, ArrivesAlone DEF Reclaiming
  <2>2. /\ \A q \in Requests : q # r => req'[q] = req[q]
        /\ UNCHANGED <<scan, objects>>
        /\ req[r].pc = "idle"
    BY <1>0, <1>2, BeginIsEarly DEF EarlyStep, Begin, BeginUpload, BeginImport,
       BeginPackages, BeginIngest, BeginDeleteScan, BeginDeleteProduct, CanBegin
  <2>3. \A k \in objects' : Accounted(k)'
    <3>1. \A k \in objects : Accounted(k) /\ k[1] \in Requests /\ ~Active(k[1])
      BY <1>0, <2>1 DEF ReclaimInv, TypeOK, NobodyActive
    <3>2. \A k \in objects : Live(k[1]) /\ k[2] \in NamedKinds(k[1])
      BY <3>1 DEF Accounted, Working, Active
    <3>3. QED BY <2>2, <3>2 DEF Accounted, NamedKinds, Live
  <2>4. req'[r].pc \in {"rejected", "resolve", "find"}
    BY <1>0, <1>2, BeginStarts
  <2>5. WillName(r)' /\ ObjectsFirst(r)'
    BY <2>4 DEF WillName, ObjectsFirst, Working, PreInsertPcs, Active
  <2>6. OwnUpload(r)'
    BY <1>2, BeginReclaims
  <2>7. QED BY <1>1, <1>a, <2>1, <2>2, <2>3, <2>5, <2>6 DEF ReclaimInv, NobodyActive
<1>3. ASSUME NEW r \in Requests, Handle(r) PROVE ReclaimInv'
  <2>1. Active(r) /\ \A q \in Requests : q # r => req'[q] = req[q]
    BY <1>0, <1>3, HandlersAreActive, HandleStays DEF Stays
  <2>2. \A q \in Requests : q # r => ~Active(q)
    BY <1>0, <2>1 DEF OneActive
  <2>3. Reclaims(r)'
    BY <1>3, HandleReclaims
  <2>4. QED BY <1>1, <1>a, <2>1, <2>2, <2>3 DEF ReclaimInv, Reclaims
<1>4. ASSUME NEW s \in Requests, RunThread(s) PROVE ReclaimInv'
  <2>1. UNCHANGED <<req, objects>>
    BY <1>4 DEF RunThread, MarkProcessing, AcquireSemaphore, InsertBatch, BatchFails,
                ReleaseSemaphore, MarkOutcome
  <2>2. \A t \in Requests : /\ scan'[t].live = scan[t].live
                            /\ scan'[t].pid = scan[t].pid
                            /\ scan'[t].keys = scan[t].keys
                            /\ scan'[t].tables = scan[t].tables
    BY <1>0, <1>4 DEF RunThread, MarkProcessing, AcquireSemaphore, InsertBatch, BatchFails,
                ReleaseSemaphore, MarkOutcome, SetStatus, TypeOK, ScanRow, db
  <2>3. QED BY <1>b, <2>1, <2>2
<1>5. ASSUME NEW p \in Procs, Crash(p) PROVE ReclaimInv'
  BY <1>0, <1>5 DEF Crash, Reclaiming, TypeOK
<1>6. CASE Quiet \/ UNCHANGED vars
  BY <1>b, <1>6 DEF Quiet, vars
<1>7. QED BY <1>2, <1>3, <1>4, <1>5, <1>6 DEF Next

\* Served one at a time, without crashes and failing storage, uploads that name
\* what they store and deletes leave no object in the store that no row names
\* (NoOrphanObject).
THEOREM NoOrphans ==
  ASSUME Reclaiming
  PROVE  Spec => []NoOrphanObject
<1>1. Init => ReclaimInv
  <2> SUFFICES ASSUME Init PROVE ReclaimInv
    OBVIOUS
  <2>1. \A r \in Requests : req[r] = Unborn
    BY DEF Init
  <2>2. SerialInv
    BY SerialInitially
  <2>3. objects = {}
    BY DEF Init
  <2>4. ASSUME NEW r \in Requests PROVE OwnUpload(r) /\ WillName(r) /\ ObjectsFirst(r)
    BY <2>1 DEF OwnUpload, WillName, ObjectsFirst, Working, Active, Unborn
  <2>5. QED BY <2>2, <2>3, <2>4 DEF ReclaimInv
<1>2. ReclaimInv => NoOrphanObject
  BY DEF ReclaimInv, SerialInv, StorageInv, TypeOK, NoOrphanObject, NobodyActive, Accounted,
         Working, Active
<1>3. ReclaimInv /\ [Next]_vars => ReclaimInv'
  BY ReclaimStep
<1>4. QED BY <1>1, <1>2, <1>3, PTL DEF Spec

============================================================================
