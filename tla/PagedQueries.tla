---------------------------- MODULE PagedQueries ----------------------------
(***************************************************************************)
(* The list and search endpoints of server/api/queries.py and products.py  *)
(* and the client calls that read them: the paging loop of                 *)
(* SyfterClient.list_products, which sends one GET per page while other    *)
(* requests create and delete products; a caller that pages through        *)
(* /query/dependencies in the same way; and the single requests            *)
(* search_packages, search_system_packages and list_all_packages, whose    *)
(* page is cut by the database.                                            *)
(*                                                                         *)
(* A product is the rank of its (name, version) in the listing order, a    *)
(* package is a row with an id, the rank of its name, its owner (a product *)
(* or a system) and its scan.  Files are searched by the same statements   *)
(* over their own table.                                                   *)
(*                                                                         *)
(* The writers are the commits of uploads, imports, deletions and of the   *)
(* threads that insert dependencies, one action for each kind of commit,   *)
(* in any order: the order in which a handler makes them is ScanLifecycle's*)
(* subject, and nothing here rests on it.  What matters to a reader is     *)
(* that a dependency draws its id when it is inserted and is seen when its *)
(* batch is committed, and that every server process inserts one batch at  *)
(* a time beside the others.                                               *)
(***************************************************************************)
EXTENDS Integers, FiniteSetsExt, SequencesExt

CONSTANTS Products,     \* the products that may exist: ranks of (name, version)
          Systems,      \* the scanned hosts
          Names,        \* ranks of package names
          Limit,        \* the page size (500 in list_products, 50 in the CLI)
          ListLimit,    \* what a list request without a limit is cut at (10000)
          Processes,    \* the server's worker processes
          MaxRows       \* bound on the ids ever drawn

Owners == Products \cup Systems
NoFilter == 0           \* the scope of a search without an owner filter

PagesAssumption ==
  /\ Owners \subseteq Nat \ {NoFilter} /\ Products \cap Systems = {}
  /\ IsFiniteSet(Products) /\ IsFiniteSet(Names) /\ IsFiniteSet(Processes)
  /\ {Limit, ListLimit} \subseteq Nat \ {0} /\ MaxRows \in Nat

VARIABLES products,     \* the rows of products
          uploads,      \* the rows of scans: [id, owner, by], by the process that stores it
          packages,     \* the rows of packages
          dependencies, \* the committed rows of dependencies
          batches,      \* per process the rows inserted and not yet committed
          nextId,       \* the next id: one sequence for all tables
          task,         \* what the reader is doing: none, a paged table, done or searched
          offset,       \* the offset of its next page
          got,          \* the keys its pages have returned, in order
          stayed,       \* ghost: keys in the table ever since the first page
          pushed,       \* ghost: a row appeared meanwhile before one that was read
          shrank,       \* ghost: a row was deleted meanwhile
          reply         \* the answer of the last single request

tables == <<products, uploads, packages, dependencies, batches, nextId>>
reader == <<task, offset, got, stayed, pushed, shrank>>
vars == <<tables, reader, reply>>

Paged == {"products", "dependencies"}
NoReply == [kind |-> "none", scope |-> NoFilter, ids |-> {}, wanted |-> {}]

\* Every enumeration of rows that ORDER BY their name may return: ties in any order.
OrderedByName(rows) ==
  {s \in SetToSeqs(rows) : \A i, j \in DOMAIN s : i < j => s[i].name <= s[j].name}

Page(rows, from, size) == SubSeq(rows, from + 1, Min({from + size, Len(rows)}))

\* The keys of a paged table.
Keys(table, prods, deps) ==
  CASE table = "products" -> prods
    [] table = "dependencies" -> {d.id : d \in deps}
    [] OTHER -> {}

-----------------------------------------------------------------------------

Init ==
  /\ products = {} /\ uploads = {} /\ packages = {} /\ dependencies = {}
  /\ batches = [p \in Processes |-> {}] /\ nextId = 1
  /\ task = "none" /\ offset = 0 /\ got = <<>>
  /\ stayed = {} /\ pushed = FALSE /\ shrank = FALSE
  /\ reply = NoReply

\* What a commit means to the listing in progress.
Observed ==
  LET before == Keys(task, products, dependencies)
      after == Keys(task, products', dependencies')
  IN /\ stayed' = stayed \cap after
     /\ pushed' = (pushed \/ \E k \in after \ before, i \in DOMAIN got : k < got[i])
     /\ shrank' = (shrank \/ before \ after # {})

\* One commit of a writer.
Commit == Observed /\ UNCHANGED <<task, offset, got, reply>>

Draws(n) == nextId + n <= MaxRows + 1 /\ nextId' = nextId + n

\* A product that was not known is created.
CreateProduct(p) ==
  /\ products' = products \cup {p}
  /\ UNCHANGED <<uploads, packages, dependencies, batches, nextId>>
  /\ Commit

InsertScan(o, p) ==
  /\ o \in products \cup Systems
  /\ Draws(1)
  /\ uploads' = uploads \cup {[id |-> nextId, owner |-> o, by |-> p]}
  /\ UNCHANGED <<products, packages, dependencies, batches>>
  /\ Commit

\* All packages of a scan, in one commit.
InsertPackages(u, names) ==
  /\ Draws(Cardinality(names))
  /\ \E s \in SetToSeqs(names) :
       packages' = packages \cup
         {[id |-> nextId + i - 1, name |-> s[i], owner |-> u.owner, scan |-> u.id] :
            i \in DOMAIN s}
  /\ UNCHANGED <<products, uploads, dependencies, batches>>
  /\ Commit

\* The thread that holds its process's _dep_semaphore inserts a row of its scan: the
\* row has its id, and nobody else sees it yet.
InsertDependency(u) ==
  /\ u.owner \in Products
  /\ \A d \in batches[u.by] : d.scan = u.id
  /\ Draws(1)
  /\ batches' = [batches EXCEPT ![u.by] =
                   @ \cup {[id |-> nextId, owner |-> u.owner, scan |-> u.id]}]
  /\ UNCHANGED <<products, uploads, packages, dependencies>>
  /\ Commit

CommitBatch(p) ==
  /\ dependencies' = dependencies \cup batches[p]
  /\ batches' = [batches EXCEPT ![p] = {}]
  /\ UNCHANGED <<products, uploads, packages, nextId>>
  /\ Commit

\* The batch fails, or its process dies.
RollBack(p) ==
  /\ batches' = [batches EXCEPT ![p] = {}]
  /\ UNCHANGED <<products, uploads, packages, dependencies, nextId>>
  /\ Commit

\* The rows of open batches: their foreign keys lock the scan and product they name.
Uncommitted == UNION {batches[p] : p \in Processes}

\* A replaced scan loses its dependencies first, then its packages, then its row.
DeleteDependencies(u) ==
  /\ dependencies' = {d \in dependencies : d.scan # u.id}
  /\ UNCHANGED <<products, uploads, packages, batches, nextId>>
  /\ Commit

\* Dependencies that name one of the packages go with it, others of the scan stay.
DeletePackages(u) ==
  /\ packages' = {q \in packages : q.scan # u.id}
  /\ \E gone \in SUBSET {d \in dependencies : d.scan = u.id} :
       dependencies' = dependencies \ gone
  /\ UNCHANGED <<products, uploads, batches, nextId>>
  /\ Commit

\* The row and all that still refers to it.
DeleteScan(u) ==
  /\ \A d \in Uncommitted : d.scan # u.id
  /\ uploads' = uploads \ {u}
  /\ packages' = {q \in packages : q.scan # u.id}
  /\ dependencies' = {d \in dependencies : d.scan # u.id}
  /\ UNCHANGED <<products, batches, nextId>>
  /\ Commit

\* delete_product is one transaction.
DeleteProduct(p) ==
  /\ p \in products
  /\ \A d \in Uncommitted : d.owner # p
  /\ products' = products \ {p}
  /\ uploads' = {u \in uploads : u.owner # p}
  /\ packages' = {q \in packages : q.owner # p}
  /\ dependencies' = {d \in dependencies : d.owner # p}
  /\ UNCHANGED <<batches, nextId>>
  /\ Commit

StartPaging(table) ==
  /\ task = "none"
  /\ task' = table
  /\ offset' = 0 /\ got' = <<>>
  /\ stayed' = Keys(table, products, dependencies)
  /\ pushed' = FALSE /\ shrank' = FALSE
  /\ UNCHANGED <<tables, reply>>

\* ORDER BY name, version of products and ORDER BY id of dependencies: both
\* orders are total.
Listing(table) ==
  CHOOSE rows \in SetToSeqs(Keys(table, products, dependencies)) :
    \A i, j \in DOMAIN rows : i < j => rows[i] < rows[j]

\* The page a request of the loop is answered with.
Batch == Page(Listing(task), offset, Limit)

\* Mutant: the offset counts from one.
NextPageSkipping ==
  /\ task \in Paged
  /\ Len(Batch) = Limit
  /\ got' = got \o Batch
  /\ offset' = offset + Limit + 1
  /\ UNCHANGED <<tables, task, stayed, pushed, shrank, reply>>

\* One GET of the loop: a full page asks for another one.
NextPage ==
  /\ task \in Paged
  /\ Len(Batch) = Limit
  /\ got' = got \o Batch
  /\ offset' = offset + Limit
  /\ UNCHANGED <<tables, task, stayed, pushed, shrank, reply>>

\* An empty or a short page ends the loop.
LastPage ==
  /\ task \in Paged
  /\ Len(Batch) < Limit
  /\ got' = got \o Batch
  /\ task' = "done"
  /\ UNCHANGED <<tables, offset, stayed, pushed, shrank, reply>>

\* The result is printed and forgotten.
Printed ==
  /\ task \in {"done", "searched"}
  /\ task' = "none" /\ got' = <<>> /\ offset' = 0
  /\ stayed' = {} /\ pushed' = FALSE /\ shrank' = FALSE
  /\ reply' = NoReply
  /\ UNCHANGED tables

-----------------------------------------------------------------------------

\* The rows a search is meant to find.
Wanted(kind, scope) ==
  {p \in packages :
     /\ p.owner \in IF kind = "search_system_packages" THEN Systems ELSE Products
     /\ scope \in {NoFilter, p.owner}}

\* The rows the inner statement pages over: only a filter by owner joins the
\* owner's table there.
Matching(kind, scope) ==
  {p \in packages : scope \in {NoFilter, p.owner}}

\* The page is cut first and joined with the owners' table afterwards, which
\* drops the rows of the other kind of owner.
Found(kind, page) ==
  {p \in ToSet(page) : p.owner \in IF kind = "search_system_packages" THEN Systems ELSE Products}

SizeOf(kind) == IF kind = "list_packages" THEN ListLimit ELSE Limit

\* One request, answered from the tables as they are.
Search(kind, scope) ==
  /\ task = "none"
  /\ task' = "searched"
  /\ \E rows \in OrderedByName(Matching(kind, scope)) :
       reply' = [kind |-> kind, scope |-> scope,
                 ids |-> {p.id : p \in Found(kind, Page(rows, 0, SizeOf(kind)))},
                 wanted |-> {p.id : p \in Wanted(kind, scope)}]
  /\ UNCHANGED <<tables, offset, got, stayed, pushed, shrank>>

SearchPackages == \E scope \in Products \cup {NoFilter} : Search("search_packages", scope)

SearchSystemPackages ==
  \E scope \in Systems \cup {NoFilter} : Search("search_system_packages", scope)

\* The client names the product and leaves the limit to the server.
ListAllPackages == \E p \in Products : Search("list_packages", p)

Next ==
  \/ \E p \in Products : CreateProduct(p) \/ DeleteProduct(p)
  \/ \E o \in Owners, p \in Processes : InsertScan(o, p)
  \/ \E u \in uploads, names \in SUBSET Names : InsertPackages(u, names)
  \/ \E u \in uploads : InsertDependency(u)
  \/ \E p \in Processes : CommitBatch(p) \/ RollBack(p)
  \/ \E u \in uploads : DeleteDependencies(u) \/ DeletePackages(u) \/ DeleteScan(u)
  \/ \E table \in Paged : StartPaging(table)
  \/ NextPage
  \/ LastPage
  \/ Printed
  \/ SearchPackages
  \/ SearchSystemPackages
  \/ ListAllPackages

Spec == Init /\ [][Next]_vars

-----------------------------------------------------------------------------

\* Inserted rows push others to later pages, never to a page already read: a
\* listing during which nothing was deleted holds every row that was there
\* from its first request to its last.
GrowthLosesNothing ==
  task = "done" /\ ~shrank => stayed \subseteq ToSet(got)

\* A listing names a row twice only if a row appeared before one it had read: rows
\* behind, and deletions, never make it repeat itself.
OnlyInsertsRepeat ==
  task \in Paged \cup {"done"} /\ ~pushed => IsInjective(got)

\* Where one process inserts, dependencies appear in the order of their ids, and a
\* listing of them names none twice.  (Two processes commit ids out of order.)
DependenciesListedOnce ==
  task = "dependencies" /\ Cardinality(Processes) = 1 => IsInjective(got)

\* A search by owner that returns less than a page has returned everything
\* there is.
ScopedPageIsFull ==
  reply.scope # NoFilter /\ Cardinality(reply.ids) < SizeOf(reply.kind) =>
    reply.wanted = reply.ids

=============================================================================
