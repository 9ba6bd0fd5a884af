--------------------------- MODULE LocalStorage ---------------------------
(***************************************************************************)
(* syfter/storage.py: the SQLite store of local mode.  Every command is a  *)
(* process with its own connection.  A SELECT runs outside any             *)
(* transaction; the first INSERT or DELETE opens one and takes the write   *)
(* lock; COMMIT waits for the connections that are reading.  A connection  *)
(* that waits too long gets "database is locked" and its command fails.    *)
(***************************************************************************)
EXTENDS Naturals, FiniteSets, FiniteSetsExt

CONSTANTS
  Procs,        \* command processes
  Names,        \* products, a name and a version
  MaxPackages,  \* bound: packages of a scan
  MaxIds,       \* bound: ids given out
  MaxCommands,  \* bound: commands started
  None

ASSUME LocalAssumption ==
  {MaxPackages, MaxIds, MaxCommands} \subseteq Nat /\ None \notin Procs \cup Names

VARIABLES
  db,       \* the committed database
  draft,    \* what the holder of the write lock has made of it
  lock,     \* the process in a write transaction
  readers,  \* processes with an open SELECT
  proc,     \* what each process is doing
  started   \* commands started

vars == <<db, draft, lock, readers, proc, started>>

\* products maps a name to its id, 0 when it has none; a package row is a scan,
\* a product and a number, and so is the row of its file.
Empty == [products |-> [n \in Names |-> 0], scans |-> {}, packages |-> {},
          files |-> {}, next |-> 1]

Idle == [pc |-> "idle", name |-> None, product |-> 0, old |-> 0, size |-> 0,
         files |-> 0, scan |-> 0]

Goto(p, pc) == proc' = [proc EXCEPT ![p].pc = pc]

----------------------------------------------------------------------------
(* Transactions.                                                           *)

\* The first write of a transaction starts it; content is what it has written.
Write(p, content) ==
  /\ lock \in {None, p}
  /\ lock' = p /\ draft' = content
  /\ UNCHANGED <<db, readers, started>>

Held(p) == IF lock = p THEN draft ELSE db

Commit(p, pc) ==
  /\ lock = p /\ readers \subseteq {p}
  /\ db' = draft /\ lock' = None
  /\ Goto(p, pc)
  /\ UNCHANGED <<draft, readers, started>>

\* The connection is closed: an open transaction is rolled back.
Close(p) ==
  /\ lock' = IF lock = p THEN None ELSE lock
  /\ readers' = readers \ {p}
  /\ proc' = [proc EXCEPT ![p] = Idle]
  /\ UNCHANGED <<db, draft, started>>

Waits(p) ==
  \/ proc[p].pc \in {"product", "replace", "drop", "drop_scan"} /\ lock \notin {None, p}
  \/ lock = p /\ ~(readers \subseteq {p})

\* sqlite3.OperationalError: database is locked.
Busy(p) == Waits(p) /\ Close(p)

Crash(p) == proc[p].pc # "idle" /\ Close(p)

Begin(p, command) ==
  /\ proc[p].pc = "idle" /\ started < MaxCommands
  /\ started' = started + 1
  /\ proc' = [proc EXCEPT ![p] = command]
  /\ UNCHANGED <<db, draft, lock>>

----------------------------------------------------------------------------
(* scan: get_or_create_product, then store_scan.                           *)

BeginScan(p) ==
  \E n \in Names, k \in 0 .. MaxPackages, skip \in BOOLEAN :
    /\ Begin(p, [Idle EXCEPT !.pc = "find", !.name = n, !.size = k,
                             !.files = IF skip THEN 0 ELSE k])
    /\ UNCHANGED readers

FindProduct(p) ==
  LET id == db.products[proc[p].name]
  IN  /\ proc[p].pc = "find"
      /\ proc' = [proc EXCEPT ![p].product = id,
                              ![p].pc = IF id # 0 THEN "existing" ELSE "product"]
      /\ UNCHANGED <<db, draft, lock, readers, started>>

\* UNIQUE(name, version) refuses a second row: IntegrityError.
CreateProduct(p) ==
  /\ proc[p].pc = "product" /\ db.next <= MaxIds
  /\ IF db.products[proc[p].name] # 0
     THEN lock \in {None, p} /\ Close(p)
     ELSE /\ Write(p, [db EXCEPT !.products[proc[p].name] = db.next,
                                 !.next = @ + 1])
          /\ proc' = [proc EXCEPT ![p].product = db.next, ![p].pc = "created"]

CommitProduct(p) == proc[p].pc = "created" /\ Commit(p, "existing")

\* fetchone: the first scan of the product, in no stated order.
FindScan(p) ==
  LET ids == {s.id : s \in {x \in db.scans : x.product = proc[p].product}}
  IN  /\ proc[p].pc = "existing"
      /\ \E old \in IF ids = {} THEN {0} ELSE ids :
           proc' = [proc EXCEPT ![p].old = old, ![p].pc = "replace"]
      /\ UNCHANGED <<db, draft, lock, readers, started>>

WithoutScans(d, ids) ==
  [d EXCEPT !.scans = {s \in @ : s.id \notin ids},
            !.packages = {r \in @ : r.scan \notin ids},
            !.files = {r \in @ : r.scan \notin ids}]

\* The old scan goes with its files and packages, the new row is inserted with
\* its counts; the foreign key refuses a product deleted meanwhile.
Replace(p) ==
  LET base == WithoutScans(Held(p), {proc[p].old})
      known == \E n \in Names : base.products[n] = proc[p].product
  IN  /\ proc[p].pc = "replace" /\ base.next <= MaxIds
      /\ IF ~known THEN lock \in {None, p} /\ Close(p)
         ELSE /\ Write(p, [base EXCEPT
                   !.scans = @ \cup {[id |-> base.next, product |-> proc[p].product,
                                      packages |-> proc[p].size, files |-> proc[p].files]},
                   !.next = @ + 1])
              /\ proc' = [proc EXCEPT ![p].scan = base.next, ![p].pc = "index"]

Rows(p, count) ==
  {[scan |-> proc[p].scan, product |-> proc[p].product, n |-> i] : i \in 1 .. count}

\* Mutant: the replacement is committed before the rows are inserted.
IndexLater(p) ==
  /\ proc[p].pc = "index"
  /\ IF lock = p THEN Commit(p, "index")
     ELSE /\ Write(p, [db EXCEPT !.packages = @ \cup Rows(p, proc[p].size),
                                 !.files = @ \cup Rows(p, proc[p].files)])
          /\ Goto(p, "indexed")

Index(p) ==
  /\ proc[p].pc = "index"
  /\ Write(p, [draft EXCEPT !.packages = @ \cup Rows(p, proc[p].size),
                            !.files = @ \cup Rows(p, proc[p].files)])
  /\ Goto(p, "indexed")

CommitScan(p) == proc[p].pc = "indexed" /\ Commit(p, "done")

----------------------------------------------------------------------------
(* Deletions and queries.                                                  *)

\* delete_product finds the product before its transaction starts.
BeginDeleteProduct(p) ==
  \E n \in Names :
    /\ db.products[n] # 0
    /\ Begin(p, [Idle EXCEPT !.pc = "drop", !.name = n, !.product = db.products[n]])
    /\ UNCHANGED readers

\* Mutant: the packages are forgotten.
DeleteProductKeepingRows(p) ==
  LET id == proc[p].product
      base == Held(p)
  IN  /\ proc[p].pc = "drop"
      /\ Write(p, [base EXCEPT
           !.scans = {s \in @ : s.product # id},
           !.products = [n \in Names |-> IF @[n] = id THEN 0 ELSE @[n]]])
      /\ Goto(p, "dropped")

DeleteProduct(p) ==
  LET id == proc[p].product
      base == Held(p)
  IN  /\ proc[p].pc = "drop"
      /\ Write(p, [base EXCEPT
           !.files = {r \in @ : r.product # id},
           !.packages = {r \in @ : r.product # id},
           !.scans = {s \in @ : s.product # id},
           !.products = [n \in Names |-> IF @[n] = id THEN 0 ELSE @[n]]])
      /\ Goto(p, "dropped")

\* delete_scan: the packages and files follow by ON DELETE CASCADE.
BeginDeleteScan(p) ==
  \E s \in db.scans :
    /\ Begin(p, [Idle EXCEPT !.pc = "drop_scan", !.scan = s.id])
    /\ UNCHANGED readers

DeleteScan(p) ==
  /\ proc[p].pc = "drop_scan"
  /\ Write(p, WithoutScans(Held(p), {proc[p].scan}))
  /\ Goto(p, "dropped")

CommitDelete(p) == proc[p].pc = "dropped" /\ Commit(p, "done")

\* list_all_packages and list_all_files are generators: the SELECT stays open
\* while the caller prints.
BeginList(p) ==
  /\ Begin(p, [Idle EXCEPT !.pc = "list"])
  /\ readers' = readers \cup {p}

End(p) == proc[p].pc \in {"list", "done"} /\ Close(p)

----------------------------------------------------------------------------

Init ==
  /\ db = Empty /\ draft = Empty
  /\ lock = None /\ readers = {} /\ started = 0
  /\ proc = [p \in Procs |-> Idle]

Step(p) ==
  \/ FindProduct(p) \/ CreateProduct(p) \/ CommitProduct(p)
  \/ FindScan(p) \/ Replace(p) \/ Index(p) \/ CommitScan(p)
  \/ DeleteProduct(p) \/ DeleteScan(p) \/ CommitDelete(p) \/ End(p)
  \/ Busy(p) \/ Crash(p)

\* No more commands.
Quiet == started = MaxCommands /\ UNCHANGED vars

Next ==
  \/ Quiet
  \/ \E p \in Procs :
       \/ Step(p)
       \/ BeginScan(p) \/ BeginDeleteProduct(p) \/ BeginDeleteScan(p) \/ BeginList(p)

Spec == Init /\ [][Next]_vars

----------------------------------------------------------------------------
(* Properties.                                                             *)

ScansOf(n) == {s \in db.scans : s.product = db.products[n]}

\* Types; a transaction is open exactly while a process has written and not
\* committed.
TypeOK ==
  /\ lock \in Procs \cup {None} /\ readers \subseteq Procs
  /\ started \in 0 .. MaxCommands
  /\ \A p \in Procs :
       lock = p <=> proc[p].pc \in {"created", "index", "indexed", "dropped"}
  /\ \A s \in db.scans : s.id < db.next /\ \E n \in Names : s.product = db.products[n]

\* list_products sums the counts its scans declare, get_stats counts the rows.
Declared(n) == FoldSet(LAMBDA s, sum : s.packages + sum, 0, ScansOf(n))
Counted(n) == Cardinality({r \in db.packages : r.product = db.products[n]})

\* The totals that list_products reports for a product are the rows that a search
\* of the product finds, and no row is left of a product or a scan that is gone.
TotalsAreRows ==
  /\ \A n \in Names : db.products[n] # 0 => Declared(n) = Counted(n)
  /\ \A r \in db.packages \cup db.files : \E s \in db.scans : s.id = r.scan /\ s.product = r.product

NameOf(id) == CHOOSE n \in Names : db.products[n] = id

Ideal == INSTANCE ScanStore WITH
  Sizes <- 0 .. MaxPackages, Ids <- 1 .. MaxIds,
  store <- {[name |-> NameOf(s.product), id |-> s.id, declared |-> s.packages,
             packages |-> Cardinality({r \in db.packages : r.scan = s.id})] : s \in db.scans}

\* Whatever runs at once, fails or is killed, a scan is stored whole or not at
\* all, in the place of at most one scan of its product.
ImplementsScanStore == Ideal!Spec

\* "If a scan already exists for this product, it will be replaced."
OneScanPerProduct == \A n \in Names : Cardinality(ScansOf(n)) <= 1
============================================================================
