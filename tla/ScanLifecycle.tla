--------------------------- MODULE ScanLifecycle ---------------------------
(***************************************************************************)
(* The life of a scan in the syfter API server: how the handlers that      *)
(* ingest a scan (upload, import, import-packages), delete one, or delete  *)
(* a whole product drive two stores that share no transaction, PostgreSQL  *)
(* (READ COMMITTED) and the object store, while a background thread per    *)
(* scan inserts its dependencies.                                          *)
(*                                                                         *)
(* Every action is one commit, one storage call or one read whose result   *)
(* is used later, so every interleaving of the server's worker processes   *)
(* at that grain is explored.  A statement that waits for a row lock held  *)
(* by an open transaction is a disabled action.                            *)
(*                                                                         *)
(* A request r is also the identity of the product row and of the scan row *)
(* it inserts: PostgreSQL sequences never hand an id out twice.            *)
(***************************************************************************)
EXTENDS Naturals, FiniteSets, Sequences

CONSTANTS
  Requests,      \* the HTTP requests the server ever receives
  Procs,         \* the worker processes of the server
  Names,         \* (product name, product version) pairs
  None,          \* no row, no process, no name
  Ops,           \* the operations clients issue in this instance
  Bodies,        \* the request bodies clients send in this instance
  NBatches,      \* INSERT batches in one dependency list
  MaxActive,     \* bound: requests in flight at once
  MaxCrashes,    \* bound: process crashes and restarts
  StorageFaults  \* whether object-store calls may raise

Ingest == {"upload", "import", "packages"}
AllOps == Ingest \cup {"delete_scan", "delete_product"}

\* What a request body may hold.  "malformed" fails validation, "bad_deps" is
\* a dependency list the background thread cannot parse, and "dup_layers" is a
\* layer chain that repeats a digest (UNIQUE(scan_id, layer_id)).
Parts == {"malformed", "files", "deps", "bad_deps", "layers", "dup_layers",
          "attestations", "tags"}

PartsOf == [upload   |-> Parts,
            import   |-> {"malformed", "deps", "tags"},
            packages |-> {"malformed", "tags"}]

SbomKinds == {"original", "modified"}
Kinds == SbomKinds \cup {"attestation"}
Tables == {"files", "packages", "tags", "layers", "attestations"}
Batches == 1 .. NBatches

ASSUME ConstantsAssumption ==
  /\ None \notin Requests \cup Procs \cup Names
  /\ Ops \subseteq AllOps
  /\ Bodies \subseteq SUBSET Parts
  /\ NBatches \in Nat
  /\ MaxActive \in Nat
  /\ MaxCrashes \in Nat
  /\ StorageFaults \in BOOLEAN

VARIABLES
  product,   \* products: (name, version) -> row id, unique by construction
  scan,      \* scans: row id -> its columns and its rows in the other tables
  objects,   \* object store: the keys <<scan id, kind>> it holds
  req,       \* the handlers: program counter and local variables
  thread,    \* scan id -> its background dependency thread
  sem,       \* process -> the thread that holds its _dep_semaphore
  answered,  \* history: ingest requests answered 201
  torn,      \* history: scans whose removal was abandoned half way
  crashes    \* history: number of crashes so far

vars == <<product, scan, objects, req, thread, sem, answered, torn, crashes>>
db == <<product, scan>>
history == <<answered, torn, crashes>>

Statuses == {"null", "pending", "processing", "complete", "failed"}

ScanRow == [live: BOOLEAN, pid: Requests \cup {None}, keys: SUBSET SbomKinds,
            status: Statuses, tables: SUBSET Tables, deps: SUBSET Batches]

NoRow == [live |-> FALSE, pid |-> None, keys |-> {}, status |-> "null",
          tables |-> {}, deps |-> {}]

Finals == {"done", "rejected", "error", "killed"}

Pcs == Finals \cup
  {"idle", "resolve", "create", "find", "purge", "delete", "insert", "put",
   "packages", "expire", "flush", "ids", "files", "pending", "start", "layers",
   "att_put", "att_row", "answer", "stmts", "commit"}

Request ==
  [pc: Pcs, op: AllOps, name: Names \cup {None}, body: SUBSET Parts,
   home: Procs \cup {None},
   pid: Requests \cup {None},             \* product.id as the handler holds it
   doomed: SUBSET Requests,               \* scan rows it read and will delete
   todo: SUBSET Requests,                 \* of these, objects not deleted yet
   keys: SUBSET (Requests \X SbomKinds),  \* storage keys in the rows it read
   stage: Nat,                            \* next DELETE of its removal plan
   dirty: BOOLEAN,                        \* SBOM keys set on the ORM object only
   aborted: BOOLEAN,                      \* its connection is in a failed txn
   found: BOOLEAN]                        \* packages_by_key is not empty

Unborn == [pc |-> "idle", op |-> "upload", name |-> None, body |-> {},
           home |-> None, pid |-> None, doomed |-> {}, todo |-> {},
           keys |-> {}, stage |-> 1, dirty |-> FALSE, aborted |-> FALSE,
           found |-> FALSE]

ThreadPcs == {"none", "mark", "wait", "insert", "succeed", "fail", "done", "dead"}
Thread == [pc: ThreadPcs, next: Nat, linked: BOOLEAN]
NoThread == [pc |-> "none", next |-> 1, linked |-> FALSE]

Active(r) == req[r].pc \notin Finals \cup {"idle"}
Live(s) == scan[s].live
ScansOf(p) == {s \in Requests : Live(s) /\ scan[s].pid = p}

\* delete_product holds row locks on the scans its open transaction deleted.
Locked(s) == \E q \in Requests : req[q].pc = "commit" /\ s \in req[q].todo

RemovalPcs == {"purge", "delete", "stmts", "commit"}
Removing(s) == \E q \in Requests : req[q].pc \in RemovalPcs /\ s \in req[q].doomed

\* storage.put calls of an ingest: import and import-packages store one object
\* and name it in both key columns.
PutKinds(r) == IF req[r].op = "upload" THEN SbomKinds ELSE {"original"}

Goto(r, label) == req' = [req EXCEPT ![r].pc = label]

Fail(r) == Goto(r, "error") /\ UNCHANGED <<db, objects, thread, sem, history>>

----------------------------------------------------------------------------
(* Requests arrive.                                                        *)

CanBegin(r, p) ==
  /\ req[r].pc = "idle"
  /\ Cardinality({q \in Requests : Active(q)}) < MaxActive

\* The ingest handlers are coroutines that block the event loop, so a process
\* runs one of them at a time.
BeginIngest(r, o) ==
  \E n \in Names, b \in Bodies, p \in Procs :
    /\ o \in Ops
    /\ CanBegin(r, p)
    /\ b \subseteq PartsOf[o]
    /\ \A q \in Requests : Active(q) /\ req[q].home = p => req[q].op \notin Ingest
    /\ req' = [req EXCEPT ![r] =
         [Unborn EXCEPT !.op = o, !.name = n, !.body = b, !.home = p,
            !.pc = IF o # "upload" /\ "malformed" \in b THEN "rejected"
                   ELSE "resolve"]]
    /\ UNCHANGED <<db, objects, thread, sem, history>>

\* upload reads and validates its files only after the removal below; the two
\* imports validate the whole body before they touch anything.
BeginUpload(r) == BeginIngest(r, "upload")
BeginImport(r) == BeginIngest(r, "import")
BeginPackages(r) == BeginIngest(r, "packages")

BeginDeleteScan(r) ==
  \E t \in Requests, p \in Procs :
    /\ "delete_scan" \in Ops
    /\ CanBegin(r, p)
    /\ req[t].pc # "idle"
    /\ req' = [req EXCEPT ![r] =
         [Unborn EXCEPT !.op = "delete_scan", !.doomed = {t}, !.home = p,
            !.pc = "find"]]
    /\ UNCHANGED <<db, objects, thread, sem, history>>

BeginDeleteProduct(r) ==
  \E n \in Names, p \in Procs :
    /\ "delete_product" \in Ops
    /\ CanBegin(r, p)
    /\ req' = [req EXCEPT ![r] =
         [Unborn EXCEPT !.op = "delete_product", !.name = n, !.home = p,
            !.pc = "resolve"]]
    /\ UNCHANGED <<db, objects, thread, sem, history>>

----------------------------------------------------------------------------
(* Find the product and the scan to replace or delete.                     *)

\* The product row is read; an ingest creates it when it is missing.
ResolveProduct(r) ==
  /\ req[r].pc = "resolve"
  /\ LET p == product[req[r].name]
     IN  req' = [req EXCEPT ![r].pid = p, ![r].pc =
           IF p # None THEN "find"
           ELSE IF req[r].op = "delete_product" THEN "rejected" ELSE "create"]
  /\ UNCHANGED <<db, objects, thread, sem, history>>

\* INSERT INTO products: UNIQUE(name, version) fails the slower of two creators.
CreateProduct(r) ==
  /\ req[r].pc = "create"
  /\ IF product[req[r].name] # None
     THEN Fail(r)
     ELSE /\ product' = [product EXCEPT ![req[r].name] = r]
          /\ req' = [req EXCEPT ![r].pid = r, ![r].pc = "find"]
          /\ UNCHANGED <<scan, objects, thread, sem, history>>

KeysOf(S) == {k \in S \X SbomKinds : k[2] \in scan[k[1]].keys}

\* What is read here is used by every later step of the removal.
Doom(r, S, label) ==
  req' = [req EXCEPT ![r].doomed = S, ![r].todo = S, ![r].keys = KeysOf(S),
                     ![r].pc = label]

\* The query has no ORDER BY: .first() is any scan of the product.
FindExisting(r) ==
  /\ req[r].pc = "find" /\ req[r].op \in Ingest
  /\ \/ \E s \in ScansOf(req[r].pid) : Doom(r, {s}, "purge")
     \/ ScansOf(req[r].pid) = {} /\ Goto(r, "insert")
  /\ UNCHANGED <<db, objects, thread, sem, history>>

FindScan(r) ==
  /\ req[r].pc = "find" /\ req[r].op = "delete_scan"
  /\ IF \A s \in req[r].doomed : Live(s)
     THEN Doom(r, req[r].doomed, "purge")
     ELSE Goto(r, "rejected")
  /\ UNCHANGED <<db, objects, thread, sem, history>>

FindScansOfProduct(r) ==
  /\ req[r].pc = "find" /\ req[r].op = "delete_product"
  /\ LET S == ScansOf(req[r].pid)
     IN  Doom(r, S, IF S = {} THEN "stmts" ELSE "purge")
  /\ UNCHANGED <<db, objects, thread, sem, history>>

----------------------------------------------------------------------------
(* Remove a scan: its objects first, then its rows.                        *)

\* Mutant: an upload forgets the attestation object of the scan it replaces.
PurgesAttestationsOnDelete(r) == req[r].op \in {"delete_scan", "delete_product"}

\* import and import-packages do not delete attestation objects.
PurgesAttestations(r) == req[r].op \in {"upload", "delete_scan", "delete_product"}

PurgeSet(r, s) ==
  {k \in req[r].keys : k[1] = s} \cup
  (IF PurgesAttestations(r) /\ "attestations" \in scan[s].tables
   THEN {<<s, "attestation">>} ELSE {})

\* A raising storage.delete is swallowed; the modified SBOM is not tried after
\* the original one raised.
PurgeOutcomes(s, D) ==
  IF StorageFaults
  THEN {G \in SUBSET D : /\ <<s, "modified">> \in G /\ <<s, "original">> \in D
                            => <<s, "original">> \in G}
  ELSE {D}

PurgeObjects(r) ==
  /\ req[r].pc = "purge"
  /\ \E s \in req[r].todo :
       /\ \E G \in PurgeOutcomes(s, PurgeSet(r, s)) : objects' = objects \ G
       /\ req' = [req EXCEPT ![r].todo = @ \ {s},
                             ![r].keys = {k \in @ : k[1] # s},
                             ![r].pc =
            IF req[r].todo # {s} THEN "purge"
            ELSE IF req[r].op = "delete_product" THEN "stmts" ELSE "delete"]
  /\ UNCHANGED <<db, thread, sem, history>>

\* The DELETE statements of each handler, grouped by the commit that ends them.
UploadRemoval ==
  <<{"deps"}, {"files"}, {"packages"}, {"tags", "layers", "attestations"}, {"scans"}>>
ImportRemoval ==
  <<{"deps"}, {"files"}, {"packages"}, {"tags"}, {"layers"}, {"attestations"}, {"scans"}>>
OneTransaction ==
  <<{"deps", "files", "packages", "tags", "layers", "attestations", "scans"}>>

\* Mutant: a removal that never gets to the scan row itself.
RemovalPlanWithoutScan(o) ==
  <<{"deps"}, {"files"}, {"packages"}, {"tags", "layers", "attestations"}>>

RemovalPlan(o) ==
  CASE o = "upload" -> UploadRemoval
    [] o = "import" -> ImportRemoval
    [] OTHER -> OneTransaction

\* ON DELETE CASCADE: files and package-linked dependencies go with packages,
\* everything goes with the scan.
AfterDelete(s, ts) ==
  IF "scans" \in ts THEN NoRow
  ELSE [scan[s] EXCEPT
          !.tables = @ \ (ts \cup (IF "packages" \in ts THEN {"files"} ELSE {})),
          !.deps = IF \/ "deps" \in ts
                      \/ "packages" \in ts /\ thread[s].linked
                   THEN {} ELSE @]

\* Mutant: rows are deleted by product_id instead of by scan id.
DeleteRowsByProduct(r) ==
  /\ req[r].pc = "delete"
  /\ \E s \in req[r].doomed :
       /\ ~Locked(s)
       /\ scan' = [t \in Requests |->
                     IF Live(s) /\ t \in ScansOf(scan[s].pid) THEN NoRow ELSE scan[t]]
       /\ req' = [req EXCEPT
            ![r].pc = IF req[r].op \in Ingest THEN "insert" ELSE "done"]
  /\ UNCHANGED <<product, objects, thread, sem, history>>

\* After the last commit an ingest goes on to its own scan, delete_scan is done.
DeleteRows(r) ==
  /\ req[r].pc = "delete"
  /\ \E s \in req[r].doomed :
       LET plan == RemovalPlan(req[r].op)
           last == req[r].stage = Len(plan)
       IN  /\ ~Locked(s)
           /\ scan' = [scan EXCEPT ![s] = AfterDelete(s, plan[req[r].stage])]
           /\ req' = [req EXCEPT
                ![r].stage = IF last THEN 1 ELSE @ + 1,
                ![r].pc = IF ~last THEN "delete"
                          ELSE IF req[r].op \in Ingest THEN "insert" ELSE "done"]
  /\ UNCHANGED <<product, objects, thread, sem, history>>

\* delete_product deletes by product_id whatever scans there are by now, and
\* holds their locks until it commits.
DeleteProductRows(r) ==
  /\ req[r].pc = "stmts"
  /\ \A s \in ScansOf(req[r].pid) : ~Locked(s)
  /\ req' = [req EXCEPT ![r].todo = ScansOf(req[r].pid), ![r].pc = "commit"]
  /\ UNCHANGED <<db, objects, thread, sem, history>>

\* Mutant: a failed product delete is never rolled back and keeps its locks.
CommitProductDeleteOrHang(r) ==
  /\ req[r].pc = "commit"
  /\ ScansOf(req[r].pid) \subseteq req[r].todo
  /\ scan' = [s \in Requests |-> IF s \in req[r].todo THEN NoRow ELSE scan[s]]
  /\ product' = [n \in Names |->
                   IF product[n] = req[r].pid THEN None ELSE product[n]]
  /\ Goto(r, "done")
  /\ UNCHANGED <<objects, thread, sem, history>>

\* DELETE FROM products fails, and everything rolls back, when a scan of the
\* product was inserted meanwhile.
CommitProductDelete(r) ==
  /\ req[r].pc = "commit"
  /\ IF ScansOf(req[r].pid) \subseteq req[r].todo
     THEN /\ scan' = [s \in Requests |-> IF s \in req[r].todo THEN NoRow ELSE scan[s]]
          /\ product' = [n \in Names |->
                           IF product[n] = req[r].pid THEN None ELSE product[n]]
          /\ Goto(r, "done")
          /\ UNCHANGED <<objects, thread, sem, history>>
     ELSE /\ Goto(r, "error")
          /\ torn' = torn \cup {s \in req[r].doomed : Live(s)}
          /\ UNCHANGED <<db, objects, thread, sem, answered, crashes>>

----------------------------------------------------------------------------
(* Ingest the new scan.                                                    *)

\* upload validates here, after it deleted the scan it replaces.
RejectUpload(r) ==
  /\ req[r].pc = "insert" /\ "malformed" \in req[r].body
  /\ Goto(r, "rejected")
  /\ UNCHANGED <<db, objects, thread, sem, history>>

InsertScanQueued(r) ==
  /\ req[r].pc = "insert" /\ "malformed" \notin req[r].body
  /\ scan' = [scan EXCEPT ![r] =
       [NoRow EXCEPT !.live = TRUE, !.pid = req[r].pid, !.status = "queued"]]
  /\ Goto(r, "put")
  /\ UNCHANGED <<product, objects, thread, sem, history>>

\* INSERT INTO scans with empty keys; the foreign key needs the product row.
InsertScan(r) ==
  /\ req[r].pc = "insert" /\ "malformed" \notin req[r].body
  /\ IF \E n \in Names : product[n] = req[r].pid
     THEN /\ scan' = [scan EXCEPT ![r] = [NoRow EXCEPT !.live = TRUE, !.pid = req[r].pid]]
          /\ Goto(r, "put")
          /\ UNCHANGED <<product, objects, thread, sem, history>>
     ELSE Fail(r)

\* The objects are stored and the keys set on the ORM object, not in the row.
PutObjects(r) ==
  /\ req[r].pc = "put"
  /\ objects' = objects \cup ({r} \X PutKinds(r))
  /\ req' = [req EXCEPT ![r].dirty = TRUE, ![r].pc = "packages"]
  /\ UNCHANGED <<db, thread, sem, history>>

\* Mutant: a failing put is logged and the ingest goes on.
PutFailsAndGoesOn(r) ==
  /\ req[r].pc = "put" /\ StorageFaults
  /\ req' = [req EXCEPT ![r].dirty = TRUE, ![r].pc = "packages"]
  /\ UNCHANGED <<db, objects, thread, sem, history>>

\* storage.put raises: the request ends with the scan row left behind.
PutFails(r) ==
  /\ req[r].pc = "put" /\ StorageFaults
  /\ \E stored \in {{}} \cup (IF PutKinds(r) = SbomKinds THEN {{"original"}} ELSE {}) :
       objects' = objects \cup ({r} \X stored)
  /\ Goto(r, "error")
  /\ UNCHANGED <<db, thread, sem, history>>

AfterLayers(r) == IF "attestations" \in req[r].body THEN "att_put" ELSE "answer"
AfterDeps(r) == IF "layers" \in req[r].body THEN "layers" ELSE AfterLayers(r)
AfterFiles(r) == IF "deps" \in req[r].body THEN "pending" ELSE AfterDeps(r)
AfterIds(r) == IF "files" \in req[r].body THEN "files" ELSE "pending"
AfterPackages(r) ==
  CASE req[r].op = "import" -> "expire"
    [] req[r].op = "packages" -> "flush"
    [] OTHER -> IF req[r].body \cap {"files", "deps"} # {} THEN "ids" ELSE AfterDeps(r)

\* A raw INSERT and commit; the ORM object is not flushed by it.
InsertPackages(r) ==
  /\ req[r].pc = "packages" /\ ~Locked(r)
  /\ IF Live(r)
     THEN /\ scan' = [scan EXCEPT ![r].tables = @ \cup {"packages"}]
          /\ Goto(r, AfterPackages(r))
          /\ UNCHANGED <<product, objects, thread, sem, history>>
     ELSE Fail(r)

\* import: expire_all() then commit(); a pending change is discarded, not flushed.
ExpireSession(r) ==
  /\ req[r].pc = "expire"
  /\ req' = [req EXCEPT ![r].dirty = FALSE,
                        ![r].pc = IF "deps" \in req[r].body THEN "ids" ELSE "answer"]
  /\ UNCHANGED <<db, objects, thread, sem, history>>

\* The row columns an ORM flush writes.
Flushed(r) == IF req[r].dirty THEN PutKinds(r) ELSE scan[r].keys

\* Mutant: the session is expired before the commit, as import does.
FlushKeysAfterExpire(r) ==
  /\ req[r].pc = "flush"
  /\ req' = [req EXCEPT ![r].dirty = FALSE, ![r].pc = "answer"]
  /\ UNCHANGED <<db, objects, thread, sem, history>>

\* import-packages: commit() flushes the keys; no row to update is an error.
FlushKeys(r) ==
  /\ req[r].pc = "flush" /\ ~Locked(r)
  /\ IF Live(r)
     THEN /\ scan' = [scan EXCEPT ![r].keys = Flushed(r)]
          /\ req' = [req EXCEPT ![r].dirty = FALSE, ![r].pc = "answer"]
          /\ UNCHANGED <<product, objects, thread, sem, history>>
     ELSE Fail(r)

\* SELECT id ... FROM packages: read now, used for the files and by the thread.
SelectPackageIds(r) ==
  /\ req[r].pc = "ids"
  /\ req' = [req EXCEPT ![r].found = "packages" \in scan[r].tables,
                        ![r].pc = AfterIds(r)]
  /\ UNCHANGED <<db, objects, thread, sem, history>>

\* COPY INTO files: rows exist only for packages that were found, and each
\* needs its package row still to be there.
InsertFiles(r) ==
  /\ req[r].pc = "files" /\ ~Locked(r)
  /\ IF req[r].found /\ "packages" \notin scan[r].tables
     THEN Fail(r)
     ELSE /\ scan' = IF req[r].found
                     THEN [scan EXCEPT ![r].tables = @ \cup {"files"}]
                     ELSE scan
          /\ Goto(r, AfterFiles(r))
          /\ UNCHANGED <<product, objects, thread, sem, history>>

\* deps_status = "pending" is committed together with any unflushed keys.
MarkPending(r) ==
  /\ req[r].pc = "pending" /\ ~Locked(r)
  /\ IF Live(r)
     THEN /\ scan' = [scan EXCEPT ![r].status = "pending", ![r].keys = Flushed(r)]
          /\ req' = [req EXCEPT ![r].dirty = FALSE, ![r].pc = "start"]
          /\ UNCHANGED <<product, objects, thread, sem, history>>
     ELSE Fail(r)

\* Reading scan.id for the thread's arguments reloads the row the commit
\* expired.  Dependencies carry a package id only if ids were found, and only
\* for names that match.
StartThread(r) ==
  /\ req[r].pc = "start"
  /\ IF Live(r)
     THEN /\ \E linked \in (IF req[r].found THEN BOOLEAN ELSE {FALSE}) :
               thread' = [thread EXCEPT ![r] = [pc |-> "mark", next |-> 1, linked |-> linked]]
          /\ Goto(r, IF req[r].op = "upload" THEN AfterDeps(r) ELSE "answer")
          /\ UNCHANGED <<db, objects, sem, history>>
     ELSE Fail(r)

\* Errors are swallowed, but a failed statement leaves the raw connection in an
\* aborted transaction.  Before the first commit that is the session's own
\* connection; after it, the session may or may not have got it back.
InsertLayers(r) ==
  /\ req[r].pc = "layers" /\ ~Locked(r)
  /\ IF Live(r) /\ "dup_layers" \notin req[r].body
     THEN /\ scan' = [scan EXCEPT ![r].tables = @ \cup {"layers"}]
          /\ Goto(r, AfterLayers(r))
     ELSE /\ \E shared \in (IF req[r].dirty THEN {TRUE} ELSE BOOLEAN) :
               req' = [req EXCEPT ![r].aborted = shared, ![r].pc = AfterLayers(r)]
          /\ UNCHANGED scan
  /\ UNCHANGED <<product, objects, thread, sem, history>>

\* A failing put skips the attestation rows, and with them their commit.
PutAttestation(r) ==
  /\ req[r].pc = "att_put"
  /\ \/ objects' = objects \cup {<<r, "attestation">>} /\ Goto(r, "att_row")
     \/ StorageFaults /\ Goto(r, "answer") /\ UNCHANGED objects
  /\ UNCHANGED <<db, thread, sem, history>>

\* The commit flushes attestation rows and unflushed keys.  When the flush fails
\* the exception is swallowed but the session is unusable until a rollback that
\* never comes.
InsertAttestations(r) ==
  /\ req[r].pc = "att_row" /\ ~Locked(r)
  /\ LET fits == Live(r) /\ ~req[r].aborted
     IN  /\ scan' = IF fits
                    THEN [scan EXCEPT ![r].tables = @ \cup {"attestations"},
                                      ![r].keys = Flushed(r)]
                    ELSE scan
         /\ req' = [req EXCEPT ![r].dirty = FALSE, ![r].aborted = ~fits, ![r].pc = "answer"]
  /\ UNCHANGED <<product, objects, thread, sem, history>>

\* Mutant: "pending" is only written by the commit at the end of the request.
AnswerWritesPending(r) ==
  /\ req[r].pc = "answer" /\ ~Locked(r) /\ Live(r)
  /\ scan' = [scan EXCEPT ![r].status = "pending"]
  /\ Goto(r, "done")
  /\ answered' = answered \cup {r}
  /\ UNCHANGED <<product, objects, thread, sem, torn, crashes>>

\* expire_all() discards what is unflushed; tags are added and the response is
\* read from the row.
Answer(r) ==
  /\ req[r].pc = "answer"
  /\ "tags" \in req[r].body => ~Locked(r)
  /\ IF Live(r) /\ ~req[r].aborted
     THEN /\ scan' = [scan EXCEPT ![r].tables = @ \cup (req[r].body \cap {"tags"})]
          /\ req' = [req EXCEPT ![r].dirty = FALSE, ![r].pc = "done"]
          /\ answered' = answered \cup {r}
          /\ UNCHANGED <<product, objects, thread, sem, torn, crashes>>
     ELSE Fail(r)

\* Two requests create the same tag: the slower one's INSERT INTO tags fails.
TagConflict(r) ==
  /\ req[r].pc = "answer" /\ "tags" \in req[r].body
  /\ \E q \in Requests \ {r} : "tags" \in req[q].body /\ req[q].pc \in {"answer", "done"}
  /\ Fail(r)

----------------------------------------------------------------------------
(* The background dependency thread of scan s, in the process that         *)
(* received it.                                                            *)

\* A Core UPDATE of a row that is gone is not an error.
SetStatus(s, status) ==
  scan' = IF Live(s) THEN [scan EXCEPT ![s].status = status] ELSE scan

MarkProcessing(s) ==
  /\ thread[s].pc = "mark" /\ ~Locked(s)
  /\ SetStatus(s, "processing")
  /\ thread' = [thread EXCEPT ![s].pc = "wait"]
  /\ UNCHANGED <<product, objects, req, sem, history>>

\* Mutant: no semaphore.
EnterFreely(s) ==
  /\ thread[s].pc = "wait"
  /\ sem' = [sem EXCEPT ![req[s].home] = s]
  /\ thread' = [thread EXCEPT ![s].pc = "insert"]
  /\ UNCHANGED <<db, objects, req, history>>

AcquireSemaphore(s) ==
  /\ thread[s].pc = "wait" /\ sem[req[s].home] = None
  /\ sem' = [sem EXCEPT ![req[s].home] = s]
  /\ thread' = [thread EXCEPT ![s].pc = "insert"]
  /\ UNCHANGED <<db, objects, req, history>>

\* The foreign keys of a batch: its scan, and the packages it is linked to.
BatchFits(s) ==
  /\ Live(s)
  /\ thread[s].linked => "packages" \in scan[s].tables

InsertBatch(s) ==
  /\ thread[s].pc = "insert" /\ thread[s].next \in Batches /\ ~Locked(s)
  /\ BatchFits(s)
  /\ scan' = [scan EXCEPT ![s].deps = @ \cup {thread[s].next}]
  /\ thread' = [thread EXCEPT ![s].next = @ + 1]
  /\ UNCHANGED <<product, objects, req, sem, history>>

\* Mutant: the semaphore is released on success only, not in a finally.
BatchFailsHoldingSemaphore(s) ==
  /\ thread[s].pc = "insert" /\ ~Locked(s)
  /\ \/ thread[s].next \in Batches /\ ~BatchFits(s)
     \/ "bad_deps" \in req[s].body
  /\ thread' = [thread EXCEPT ![s].pc = "fail"]
  /\ UNCHANGED <<db, objects, req, sem, history>>

\* A foreign-key or parse error; the semaphore is released in the finally.
BatchFails(s) ==
  /\ thread[s].pc = "insert" /\ ~Locked(s)
  /\ \/ thread[s].next \in Batches /\ ~BatchFits(s)
     \/ "bad_deps" \in req[s].body
  /\ sem' = [sem EXCEPT ![req[s].home] = None]
  /\ thread' = [thread EXCEPT ![s].pc = "fail"]
  /\ UNCHANGED <<db, objects, req, history>>

\* Mutant: the last, partial batch is forgotten.
ReleaseBeforeLastBatch(s) ==
  /\ thread[s].pc = "insert" /\ thread[s].next >= NBatches
  /\ sem' = [sem EXCEPT ![req[s].home] = None]
  /\ thread' = [thread EXCEPT ![s].pc = "succeed"]
  /\ UNCHANGED <<db, objects, req, history>>

ReleaseSemaphore(s) ==
  /\ thread[s].pc = "insert" /\ thread[s].next \notin Batches
  /\ "bad_deps" \notin req[s].body
  /\ sem' = [sem EXCEPT ![req[s].home] = None]
  /\ thread' = [thread EXCEPT ![s].pc = "succeed"]
  /\ UNCHANGED <<db, objects, req, history>>

MarkOutcome(s) ==
  /\ thread[s].pc \in {"succeed", "fail"} /\ ~Locked(s)
  /\ SetStatus(s, IF thread[s].pc = "succeed" THEN "complete" ELSE "failed")
  /\ thread' = [thread EXCEPT ![s].pc = "done"]
  /\ UNCHANGED <<product, objects, req, sem, history>>

----------------------------------------------------------------------------
\* A worker process dies and is restarted: its handlers and its daemon threads
\* are gone, open transactions roll back, nothing is recovered.
Crash(p) ==
  LET victims == {r \in Requests : Active(r) /\ req[r].home = p}
  IN  /\ crashes < MaxCrashes
      /\ crashes' = crashes + 1
      /\ req' = [r \in Requests |->
                   IF r \in victims THEN [req[r] EXCEPT !.pc = "killed"] ELSE req[r]]
      /\ thread' = [s \in Requests |->
                      IF req[s].home = p /\ thread[s].pc \notin {"none", "done"}
                      THEN [thread[s] EXCEPT !.pc = "dead"] ELSE thread[s]]
      /\ sem' = [sem EXCEPT ![p] = None]
      /\ torn' = torn \cup {s \in Requests : Live(s) /\
                   \E r \in victims : req[r].pc \in RemovalPcs /\ s \in req[r].doomed}
      /\ UNCHANGED <<db, objects, answered>>

\* Nothing is left to do.
Quiet ==
  /\ \A r \in Requests : req[r].pc \in Finals
  /\ \A s \in Requests : thread[s].pc \in {"none", "done", "dead"}
  /\ UNCHANGED vars

Begin(r) ==
  \/ BeginUpload(r) \/ BeginImport(r) \/ BeginPackages(r)
  \/ BeginDeleteScan(r) \/ BeginDeleteProduct(r)

Handle(r) ==
  \/ ResolveProduct(r) \/ CreateProduct(r)
  \/ FindExisting(r) \/ FindScan(r) \/ FindScansOfProduct(r)
  \/ PurgeObjects(r) \/ DeleteRows(r) \/ DeleteProductRows(r) \/ CommitProductDelete(r)
  \/ RejectUpload(r) \/ InsertScan(r) \/ PutObjects(r) \/ PutFails(r)
  \/ InsertPackages(r) \/ ExpireSession(r) \/ FlushKeys(r)
  \/ SelectPackageIds(r) \/ InsertFiles(r) \/ MarkPending(r) \/ StartThread(r)
  \/ InsertLayers(r) \/ PutAttestation(r) \/ InsertAttestations(r)
  \/ Answer(r) \/ TagConflict(r)

RunThread(s) ==
  \/ MarkProcessing(s) \/ AcquireSemaphore(s) \/ InsertBatch(s)
  \/ BatchFails(s) \/ ReleaseSemaphore(s) \/ MarkOutcome(s)

Init ==
  /\ product = [n \in Names |-> None]
  /\ scan = [s \in Requests |-> NoRow]
  /\ objects = {}
  /\ req = [r \in Requests |-> Unborn]
  /\ thread = [s \in Requests |-> NoThread]
  /\ sem = [p \in Procs |-> None]
  /\ answered = {} /\ torn = {} /\ crashes = 0

Next ==
  \/ \E r \in Requests : Begin(r) \/ Handle(r) \/ RunThread(r)
  \/ \E p \in Procs : Crash(p)
  \/ Quiet

Spec == Init /\ [][Next]_vars

\* The event loop and the thread scheduler run every handler and every thread
\* that can take a step; clients need not send requests and processes need not
\* crash.
FairSpec == Spec /\ \A r \in Requests : WF_vars(Handle(r)) /\ WF_vars(RunThread(r))

----------------------------------------------------------------------------
(* Properties.                                                             *)

\* Every variable has the type its declaration says (the columns of
\* server/db/models.py, the local variables of the handlers).
TypeOK ==
  /\ product \in [Names -> Requests \cup {None}]
  /\ scan \in [Requests -> ScanRow]
  /\ objects \subseteq Requests \X Kinds
  /\ req \in [Requests -> Request]
  /\ thread \in [Requests -> Thread]
  /\ sem \in [Procs -> Requests \cup {None}]
  /\ answered \subseteq Requests
  /\ torn \subseteq Requests
  /\ crashes \in 0 .. MaxCrashes

\* The objects the rows of scan s name.
NamedKinds(s) ==
  scan[s].keys \cup
  (IF "attestations" \in scan[s].tables THEN {"attestation"} ELSE {})

\* A scan whose row and objects nobody is taking apart or left half removed.
Settled(s) == Live(s) /\ ~Removing(s) /\ s \notin torn

\* Whoever reads a storage key out of a settled scan (GET sboms, exports) finds
\* the object: handlers delete objects before rows, store objects before keys,
\* and act on keys read earlier, yet only a removal under way, or one that was
\* abandoned, may leave a key that dangles.
NoDanglingKey ==
  \A s \in Requests : Settled(s) => {s} \X NamedKinds(s) \subseteq objects

\* deps_status "complete" on a settled scan means every batch is there: not one
\* was lost to a replacement that raced the background thread.
CompleteMeansAllDeps ==
  \A s \in Requests :
    Settled(s) /\ scan[s].status = "complete" => scan[s].deps = Batches

\* A settled scan whose ingest was answered 201 is fully indexed: its package
\* rows are there, and its file rows if the body had files.
AnsweredIsIndexed ==
  \A s \in answered : Settled(s) =>
    {"packages"} \cup (req[s].body \cap {"files"}) \subseteq scan[s].tables

\* Handlers that flush the ORM object before they expire it (upload with
\* dependencies, import-packages) leave the storage keys in the row they
\* answered with.
FlushedKeysSurvive ==
  \A s \in answered :
    /\ Live(s)
    /\ req[s].op = "packages" \/ (req[s].op = "upload" /\ "deps" \in req[s].body)
    => scan[s].keys = PutKinds(s)

\* _dep_semaphore admits one thread of a process to the memory-hungry parse and
\* insert at a time, and is held exactly while a thread is there.
OneInserterPerProcess ==
  /\ \A s \in Requests : thread[s].pc = "insert" => sem[req[s].home] = s
  /\ \A p \in Procs : sem[p] # None => thread[sem[p]].pc = "insert"

Rank == [null |-> 0, pending |-> 1, processing |-> 2, complete |-> 3, failed |-> 3]

\* While a scan lives its deps_status only moves forward, null, pending,
\* processing, then one of complete and failed for good, although the handler
\* and the thread both write it.
StatusMovesForward ==
  \A s \in Requests :
    Live(s) /\ Live(s)' /\ scan[s].status # scan'[s].status
      => Rank[scan[s].status] < Rank[scan'[s].status]

DepsStatusForward == [][StatusMovesForward]_vars

\* A removal that starts from one scan never takes the rows of another: a scan
\* row disappears only while some removal has read it, or its product is being
\* deleted.
OnlyDoomedDisappear ==
  \A s \in Requests : Live(s) /\ ~Live(s)' => Removing(s) \/ Locked(s)

RowsOutliveStrangers == [][OnlyDoomedDisappear]_vars

\* A scan announced as pending is processed, one way or the other, unless it is
\* removed: the thread started for it gets the semaphore and finishes.
PendingIsSettled ==
  \A s \in Requests :
    scan[s].status = "pending" ~> scan[s].status \in {"complete", "failed"} \/ ~Live(s)

\* Every accepted request ends: no handler waits for ever on a lock.
RequestsEnd ==
  \A r \in Requests : Active(r) ~> req[r].pc \in Finals

NobodyActive == \A r \in Requests : ~Active(r)

\* With one request at a time a product never has two scans ("If a scan
\* already exists for this product, it will be replaced").
OneScanPerProduct ==
  NobodyActive => \A r \in Requests : Cardinality(ScansOf(r)) <= 1

\* With one request at a time the object store holds nothing but what rows
\* name: replacing and deleting give the space back.
NoOrphanObject ==
  NobodyActive => \A k \in objects : Live(k[1]) /\ k[2] \in NamedKinds(k[1])

\* An answered import's row names the SBOM it stored ("Stores the original SBOM
\* in object storage").
ImportKeepsItsKey ==
  \A s \in answered : Live(s) /\ req[s].op = "import" => scan[s].keys # {}

\* An upload that finds a scan replaces it: once it has ended, with nothing
\* else running, the product has a scan ("it will be replaced").
ReplacedNotLost ==
  \A r \in Requests :
    /\ NobodyActive
    /\ req[r].op = "upload" /\ req[r].pc = "rejected" /\ req[r].doomed # {}
    => ScansOf(req[r].pid) # {}

----------------------------------------------------------------------------
(* The inductive strengthening of NoDanglingKey.                           *)

\* Program points before a request's own scan row exists.
PreInsertPcs ==
  {"idle", "resolve", "create", "find", "purge", "delete", "stmts", "commit", "insert"}

\* The ORM object is clean until the objects are stored.
CleanBeforePut(r) == req[r].pc \in PreInsertPcs \cup {"put"} => ~req[r].dirty

\* A scan row has an ingest behind it that is past its INSERT.
InsertedOnce(r) == Live(r) => req[r].pc \notin PreInsertPcs

\* Each kind of removal goes through its own program points.
OwnProgram(r) ==
  /\ req[r].pc \in {"resolve", "create"} => req[r].op # "delete_scan"
  /\ req[r].pc = "delete" => req[r].op # "delete_product"
  /\ req[r].pc \in {"stmts", "commit"} => req[r].op = "delete_product"

\* Every other removal is about one scan.
OneDoomed(r) ==
  /\ req[r].op # "delete_product"
  /\ req[r].pc \in {"purge", "delete"} \/ (req[r].pc = "find" /\ req[r].op = "delete_scan")
  => \E t \in Requests : req[r].doomed = {t}

\* A removal takes apart only scans it has read, and what it read of their
\* product is still true.
DoomedAreOld(r) ==
  /\ req[r].pc = "purge" => req[r].todo \subseteq req[r].doomed
  /\ req[r].pc \in RemovalPcs =>
       \A s \in req[r].doomed :
         /\ req[s].pc \notin PreInsertPcs
         /\ req[r].op = "delete_product" /\ Live(s) => scan[s].pid = req[r].pid

\* Where each handler is, what it has read and what that still says.
Control(r) ==
  /\ CleanBeforePut(r) /\ InsertedOnce(r) /\ OwnProgram(r)
  /\ OneDoomed(r) /\ DoomedAreOld(r)

ControlInv == \A r \in Requests : Control(r)

\* Objects are stored before anything that will name them is written.
StoredInv ==
  \A s \in Requests : Settled(s) =>
    /\ req[s].dirty => {s} \X PutKinds(s) \subseteq objects
    /\ req[s].pc = "att_row" => <<s, "attestation">> \in objects

\* Inductive: a removal keeps hold of a scan from its first deleted object to
\* its deleted row, and an ingest names only what it has stored.
StorageInv == TypeOK /\ ControlInv /\ StoredInv /\ NoDanglingKey

----------------------------------------------------------------------------
(* The inductive strengthening of OneInserterPerProcess and of             *)
(* DepsStatusForward.                                                      *)

\* Program points of an ingest before it starts its dependency thread.
PreStartPcs ==
  PreInsertPcs \cup {"put", "packages", "expire", "flush", "ids", "files",
                    "pending", "start"}

\* A thread belongs to a request that has started it, in a known process.
ThreadOfStarted(s) ==
  /\ req[s].pc \in PreStartPcs => thread[s].pc = "none"
  /\ req[s].pc # "idle" => req[s].home \in Procs

\* A process's semaphore is held by a thread of its own.
HeldAtHome == \A p \in Procs : sem[p] # None => req[sem[p]].home = p

\* What a live scan's status may be at each point of its ingest and thread.
StatusOfThread(s) ==
  Live(s) =>
    /\ req[s].pc \in PreStartPcs \ {"start"} => scan[s].status = "null"
    /\ thread[s].pc \in {"none", "mark"} => scan[s].status \in {"null", "pending"}
    /\ thread[s].pc \in {"wait", "insert", "succeed", "fail"} => scan[s].status = "processing"

ThreadsInv == \A s \in Requests : ThreadOfStarted(s) /\ StatusOfThread(s)

\* Inductive: a thread keeps its process, its semaphore and its place in the
\* order of the statuses.
ThreadInv == TypeOK /\ ThreadsInv /\ HeldAtHome /\ OneInserterPerProcess
----------------------------------------------------------------------------
(* The inductive strengthening of AnsweredIsIndexed, FlushedKeysSurvive    *)
(* and CompleteMeansAllDeps.                                               *)

\* Program points of an ingest behind its package rows, and behind its files.
FiledPcs == {"pending", "start", "layers", "att_put", "att_row", "answer"}
IndexedPcs == FiledPcs \cup {"expire", "flush", "ids", "files"}

\* Which ingests pass the program points that only some have, and which have no
\* files; an answered request has ended.
OwnIngest(r) ==
  /\ req[r].pc = "expire" => req[r].op = "import"
  /\ req[r].pc = "flush" => req[r].op = "packages"
  /\ req[r].pc \in {"ids", "files", "pending", "start"} => req[r].op # "packages"
  /\ req[r].op \in {"import", "packages"} => "files" \notin req[r].body
  /\ r \in answered => req[r].pc = "done"

\* What a handler has indexed stays until its scan is removed.
Indexed(s) ==
  Settled(s) =>
    /\ req[s].pc \in IndexedPcs \/ s \in answered => "packages" \in scan[s].tables
    /\ req[s].pc = "files" => req[s].found
    /\ "files" \in req[s].body /\ (req[s].pc \in FiledPcs \/ s \in answered)
         => "files" \in scan[s].tables

\* These handlers commit between setting the keys and expiring the session.
FlushesFirst(s) ==
  req[s].op = "packages" \/ (req[s].op = "upload" /\ "deps" \in req[s].body)

KeysOfFlushed(s) ==
  Live(s) /\ FlushesFirst(s) =>
    /\ req[s].pc \in {"packages", "flush", "ids", "files", "pending"} => req[s].dirty
    /\ req[s].pc \in FiledPcs \ {"pending"} \/ s \in answered
         => scan[s].keys = PutKinds(s)

\* How much of a settled scan's dependencies its thread has inserted.
DepsOfThread(s) ==
  Settled(s) =>
    /\ thread[s].pc = "none" => scan[s].deps = {}
    /\ thread[s].pc \in {"mark", "wait", "insert"} =>
         /\ thread[s].next \in 1 .. NBatches + 1
         /\ scan[s].deps = 1 .. thread[s].next - 1
    /\ thread[s].pc = "succeed" \/ scan[s].status = "complete" => scan[s].deps = Batches

IndexInv ==
  \A s \in Requests : OwnIngest(s) /\ Indexed(s) /\ KeysOfFlushed(s) /\ DepsOfThread(s)

\* Inductive: a settled scan holds what its handler and its thread have put
\* there, and a scan that has stopped being settled never is again.
IngestInv == StorageInv /\ ThreadInv /\ IndexInv

----------------------------------------------------------------------------
(* The inductive strengthening of OneScanPerProduct.                       *)

OneActive == \A q, r \in Requests : Active(q) /\ Active(r) => q = r

OneScanEach ==
  \A s, t \in Requests : Live(s) /\ Live(t) /\ scan[s].pid = scan[t].pid => s = t

\* An ingest under way has in hand all that is left of its product's scans.
HasInHand(r) ==
  /\ req[r].pc \in {"purge", "delete"} /\ req[r].op \in Ingest
       => ScansOf(req[r].pid) \subseteq req[r].doomed
  /\ req[r].pc = "insert" => ScansOf(req[r].pid) = {}

\* Inductive if one request is served at a time.
SerialInv == StorageInv /\ OneActive /\ OneScanEach /\ \A r \in Requests : HasInHand(r)

----------------------------------------------------------------------------
(* The inductive strengthening of NoOrphanObject.                          *)

\* Bodies of uploads that are refused before they store anything, or that name
\* all they store: without dependencies and attestations nothing flushes the
\* keys (import_keys), and repeated layers cost an attestation its row.
Reclaimable(b) ==
  \/ "malformed" \in b
  \/ /\ "deps" \in b \/ "attestations" \in b
     /\ "attestations" \in b => "dup_layers" \notin b

\* An ingest under way that has its scan row.
Working(r) == Active(r) /\ req[r].pc \notin PreInsertPcs

\* Every ingest is an upload with such a body, and has yet to meet an error.
OwnUpload(r) ==
  /\ req[r].op \notin {"import", "packages"} /\ req[r].pc \notin {"expire", "flush"}
  /\ Active(r) /\ req[r].op = "upload" => Reclaimable(req[r].body)
  /\ req[r].pc = "insert" \/ Working(r) => req[r].op = "upload"
  /\ Working(r) => "malformed" \notin req[r].body
  /\ req[r].pc \in PreInsertPcs => ~req[r].aborted

\* Such an upload keeps its row, and reaches each commit that names an object.
WillName(r) ==
  Working(r) =>
    /\ Live(r)
    /\ req[r].pc = "files" /\ req[r].found => "packages" \in scan[r].tables
    /\ req[r].pc \in {"start", "answer"} => ~req[r].dirty
    /\ "deps" \in req[r].body /\ req[r].pc \in {"layers", "att_put", "att_row"}
         => ~req[r].dirty
    /\ "attestations" \in req[r].body /\ req[r].pc # "answer" => ~req[r].aborted
    /\ req[r].pc \in {"att_put", "att_row"} => "attestations" \in req[r].body

\* An object is named by its scan's rows, or about to be.
Accounted(k) ==
  /\ Live(k[1])
  /\ \/ k[2] \in NamedKinds(k[1])
     \/ Working(k[1]) /\ req[k[1]].dirty /\ k[2] \in SbomKinds
     \/ req[k[1]].pc = "att_row" /\ k[2] = "attestation"

\* A removal takes rows only after all the objects they name.
ObjectsFirst(r) ==
  /\ req[r].pc = "purge" =>
       /\ KeysOf(req[r].todo) \subseteq req[r].keys
       /\ \A k \in objects : k[1] \in req[r].doomed => k[1] \in req[r].todo
  /\ req[r].pc \in {"delete", "stmts", "commit"} =>
       \A k \in objects : k[1] \notin req[r].doomed
  /\ req[r].op = "delete_product" /\ req[r].pc \in {"purge", "stmts", "commit"}
       => ScansOf(req[r].pid) \subseteq req[r].doomed
  /\ req[r].pc = "commit" => req[r].todo \subseteq req[r].doomed

\* Inductive if one request is served at a time and nothing crashes or fails.
ReclaimInv ==
  /\ SerialInv
  /\ \A r \in Requests : OwnUpload(r) /\ WillName(r) /\ ObjectsFirst(r)
  /\ \A k \in objects : Accounted(k)

============================================================================
