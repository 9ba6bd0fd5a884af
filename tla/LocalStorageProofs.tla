------------------------- MODULE LocalStorageProofs -------------------------
(***************************************************************************)
(* The local store implements ScanStore for any number of processes,       *)
(* products and packages: whatever runs at once, is killed or gets         *)
(* "database is locked", scans appear whole and disappear whole.           *)
(*                                                                         *)
(* Import jobs: a command that reports success has its scan stored, and a  *)
(* job starts only with all its files.                                     *)
(*                                                                         *)
(* Sources: layers and packages of a scanned image are put down only to    *)
(* images it is built on, and to the first of them that has them.          *)
(***************************************************************************)
EXTENDS LocalStorage, Sequences, FiniteSetTheorems, WellFoundedInduction, TLAPS

Scan == [id : Nat, product : Nat, packages : 0 .. MaxPackages, files : Nat]
Row == [scan : Nat, product : Nat, n : Nat]
Database == [products : [Names -> Nat], scans : SUBSET Scan,
             packages : SUBSET Row, files : SUBSET Row, next : Nat]

Pcs == {"idle", "find", "product", "created", "existing", "replace", "index",
        "indexed", "drop", "drop_scan", "dropped", "list", "done"}
Command == [pc : Pcs, name : Names \cup {None}, product : Nat, old : Nat,
            size : 0 .. MaxPackages, files : Nat, scan : Nat]

\* The package or file rows of a scan with so many of them.
RowSet(scan, product, count) ==
  {[scan |-> scan, product |-> product, n |-> i] : i \in 1 .. count}

----------------------------------------------------------------------------
(* The inductive invariant.                                                *)

\* What every committed database is like: ids are unique and below next, a scan
\* is of a product, has exactly the packages it declares, and every row a scan.
Sound(d) ==
  /\ d \in Database /\ d.next > 0
  /\ \A n \in Names : d.products[n] < d.next
  /\ \A m, n \in Names : d.products[m] = d.products[n] /\ d.products[m] # 0 => m = n
  /\ \A s \in d.scans : /\ s.id \in 1 .. MaxIds /\ s.id < d.next /\ s.product # 0
                        /\ \E n \in Names : d.products[n] = s.product
                        /\ {r \in d.packages : r.scan = s.id}
                             = RowSet(s.id, s.product, s.packages)
  /\ \A s, t \in d.scans : s.id = t.id => s = t
  /\ \A r \in d.packages \cup d.files :
       \E s \in d.scans : s.id = r.scan /\ s.product = r.product

\* How a transaction changes the database d it started from into e.
AddsProduct(d, e, n) ==
  /\ d.products[n] = 0 /\ e.products = [d.products EXCEPT ![n] = d.next]
  /\ e.next = d.next + 1
  /\ e.scans = d.scans /\ e.packages = d.packages /\ e.files = d.files

PutsScan(d, e, c, packages, files) ==
  LET kept(rows) == {r \in rows : r.scan # c.old}
  IN  /\ d.next <= MaxIds /\ c.scan = d.next
      /\ \E n \in Names : d.products[n] = c.product
      /\ e.products = d.products /\ e.next = d.next + 1
      /\ e.scans = {s \in d.scans : s.id # c.old} \cup
           {[id |-> c.scan, product |-> c.product, packages |-> c.size, files |-> c.files]}
      /\ e.packages = kept(d.packages) \cup packages
      /\ e.files = kept(d.files) \cup files

DropsProduct(d, e, id) ==
  LET others(rows) == {r \in rows : r.product # id}
  IN  /\ e.products = [n \in Names |-> IF d.products[n] = id THEN 0 ELSE d.products[n]]
      /\ e.scans = others(d.scans) /\ e.packages = others(d.packages)
      /\ e.files = others(d.files) /\ e.next = d.next

DropsScan(d, e, id) ==
  LET others(rows) == {r \in rows : r.scan # id}
  IN  /\ e.products = d.products /\ e.scans = {s \in d.scans : s.id # id}
      /\ e.packages = others(d.packages) /\ e.files = others(d.files)
      /\ e.next = d.next

\* What the holder of the lock has made of the database d, by where it is.
Drafted(d, e, c) ==
  /\ c.pc = "created" => c.name \in Names /\ c.product = d.next /\ AddsProduct(d, e, c.name)
  /\ c.pc = "index" => PutsScan(d, e, c, {}, {})
  /\ c.pc = "indexed" =>
       PutsScan(d, e, c, RowSet(c.scan, c.product, c.size), RowSet(c.scan, c.product, c.files))
  /\ c.pc = "dropped" => DropsProduct(d, e, c.product) \/ DropsScan(d, e, c.scan)

\* The scan a process will replace is of its product, if it is still there: ids
\* are not given twice.
OldIsOfProduct(d, c) ==
  c.pc \in {"replace", "index", "indexed"} =>
    /\ c.product # 0 /\ c.old < d.next
    /\ \A s \in d.scans : s.id = c.old => s.product = c.product

\* A process in the database d that may hold the lock and then has drafted e.
ProcOK(d, e, locked, c) ==
  /\ locked <=> c.pc \in {"created", "index", "indexed", "dropped"}
  /\ c.pc \in {"find", "product"} => c.name \in Names
  /\ c.pc = "existing" => c.product # 0
  /\ OldIsOfProduct(d, c) /\ Drafted(d, e, c)

LocalInv ==
  /\ Sound(db) /\ draft \in Database
  /\ lock \in Procs \cup {None} /\ readers \subseteq Procs
  /\ proc \in [Procs -> Command]
  /\ \A p \in Procs : ProcOK(db, draft, lock = p, proc[p])

\* With one process, the scan found is all there is of its product.
SoloInv ==
  /\ LocalInv
  /\ \A s, t \in db.scans : s.product = t.product => s = t
  /\ \A p \in Procs : proc[p].pc \in {"replace", "index", "indexed"} =>
       \A s \in db.scans : s.product = proc[p].product => s.id = proc[p].old

----------------------------------------------------------------------------
(* What the store shows.                                                   *)

NameIn(d, id) == CHOOSE n \in Names : d.products[n] = id

Entry(d, s) == [name |-> NameIn(d, s.product), id |-> s.id, declared |-> s.packages,
                packages |-> Cardinality({r \in d.packages : r.scan = s.id})]

\* The abstract store of a database: store of ScanStore is Image(db).
Image(d) == {Entry(d, s) : s \in d.scans}

\* The steps of ScanStore, from the store x to the store y.
Removes(x, y) == \E e \in x : y = x \ {e}

Drops(x, y) == \E n \in Names : y = x \ {e \in x : e.name = n}

Puts(x, y) ==
  \E n \in Names, id \in 1 .. MaxIds, k \in 0 .. MaxPackages :
    \E old \in {{}} \cup {{e} : e \in {f \in x : f.name = n}} :
      /\ \A e \in x : e.id # id
      /\ y = (x \ old) \cup {[name |-> n, id |-> id, declared |-> k, packages |-> k]}

StoreStep(x, y) == y = x \/ Removes(x, y) \/ Drops(x, y) \/ Puts(x, y)

\* A set of rows is as large as its count says.
LEMMA RowSetSize ==
  ASSUME NEW i, NEW product, NEW k \in Nat
  PROVE  Cardinality(RowSet(i, product, k)) = k
<1> DEFINE f == [j \in 1 .. k |-> [scan |-> i, product |-> product, n |-> j]]
           S == RowSet(i, product, k)
<1>1. f \in [1 .. k -> S]
  BY DEF RowSet
<1>2. ASSUME NEW a \in 1 .. k, NEW b \in 1 .. k, f[a] = f[b] PROVE a = b
  <2>1. f[a].n = a /\ f[b].n = b
    OBVIOUS
  <2>2. QED BY <1>2, <2>1
<1>3. \A t \in S : \E j \in 1 .. k : f[j] = t
  BY DEF RowSet
<1> HIDE DEF f, S
<1>4. f \in Bijection(1 .. k, S)
  <2>1. f \in Injection(1 .. k, S)
    BY <1>1, <1>2 DEF Injection, IsInjective
  <2>2. f \in Surjection(1 .. k, S)
    BY <1>1, <1>3 DEF Surjection
  <2>3. QED BY <2>1, <2>2 DEF Bijection
<1>5. ExistsBijection(1 .. k, S)
  BY <1>4 DEF ExistsBijection
<1>6. QED BY <1>5, FS_CountingElements DEF S

\* The product of a scan has one name.
LEMMA NameIs ==
  ASSUME NEW d, Sound(d), NEW n \in Names, d.products[n] # 0
  PROVE  NameIn(d, d.products[n]) = n
BY DEF Sound, NameIn

\* A scan shows the name of its product and as many packages as it declares.
LEMMA EntryIs ==
  ASSUME NEW d, Sound(d), NEW s \in d.scans
  PROVE  /\ Entry(d, s) = [name |-> NameIn(d, s.product), id |-> s.id,
                           declared |-> s.packages, packages |-> s.packages]
         /\ NameIn(d, s.product) \in Names /\ d.products[NameIn(d, s.product)] = s.product
         /\ s \in Scan /\ s.product # 0
<1>1. s \in Scan /\ s.packages \in Nat
  BY LocalAssumption DEF Sound, Database, Scan
<1>2. Cardinality({r \in d.packages : r.scan = s.id}) = s.packages
  <2>1. {r \in d.packages : r.scan = s.id} = RowSet(s.id, s.product, s.packages)
    BY DEF Sound
  <2>2. Cardinality(RowSet(s.id, s.product, s.packages)) = s.packages
    BY <1>1, RowSetSize
  <2>3. QED BY <2>1, <2>2, Zenon
<1>3. PICK n \in Names : d.products[n] = s.product /\ s.product # 0
  BY DEF Sound
<1>4. NameIn(d, s.product) = n
  BY <1>3, NameIs
<1>5. QED BY <1>1, <1>2, <1>3, <1>4 DEF Entry

\* A scan in two sound databases that give its product the same name shows alike.
LEMMA EntryKept ==
  ASSUME NEW d, NEW e, Sound(d), Sound(e), NEW s \in d.scans \cap e.scans,
         \A n \in Names : d.products[n] = s.product => e.products[n] = s.product
  PROVE  Entry(e, s) = Entry(d, s)
<1>1. NameIn(e, s.product) = NameIn(d, s.product)
  BY EntryIs, NameIs
<1>2. QED BY <1>1, EntryIs

\* Leaving scans out leaves out what they show, and nothing else.
LEMMA ImageWithout ==
  ASSUME NEW d, NEW e, Sound(d), Sound(e), NEW gone, e.scans = d.scans \ gone,
         \A s \in e.scans, n \in Names : d.products[n] = s.product => e.products[n] = s.product
  PROVE  Image(e) = Image(d) \ {Entry(d, s) : s \in gone \cap d.scans}
<1>1. \A s \in e.scans : s \in d.scans /\ s \notin gone /\ Entry(e, s) = Entry(d, s)
  BY EntryKept
<1>2. \A s, t \in d.scans : Entry(d, s) = Entry(d, t) => s = t
  <2>1. ASSUME NEW s \in d.scans, NEW t \in d.scans, Entry(d, s) = Entry(d, t) PROVE s = t
    <3>1. Entry(d, s).id = s.id /\ Entry(d, t).id = t.id
      BY DEF Entry
    <3>2. QED BY <2>1, <3>1 DEF Sound
  <2>2. QED BY <2>1
<1>3. ASSUME NEW x \in Image(e) PROVE x \in Image(d) \ {Entry(d, s) : s \in gone \cap d.scans}
  <2>1. PICK s \in e.scans : x = Entry(e, s)
    BY <1>3 DEF Image
  <2>2. s \in d.scans /\ s \notin gone /\ x = Entry(d, s)
    BY <1>1, <2>1
  <2>3. QED BY <1>2, <2>2 DEF Image
<1>4. ASSUME NEW x \in Image(d), x \notin {Entry(d, s) : s \in gone \cap d.scans}
      PROVE  x \in Image(e)
  <2>1. PICK s \in d.scans : x = Entry(d, s)
    BY <1>4 DEF Image
  <2>2. s \in e.scans
    BY <1>4, <2>1
  <2>3. QED BY <1>1, <2>1, <2>2 DEF Image
<1>5. QED BY <1>3, <1>4

----------------------------------------------------------------------------
(* The transactions, from one sound database to the next.                  *)

\* A new product has no scans.
LEMMA AddingAProduct ==
  ASSUME NEW d, NEW e \in Database, NEW n \in Names, Sound(d), AddsProduct(d, e, n)
  PROVE  Sound(e) /\ Image(e) = Image(d)
<1> USE DEF AddsProduct
<1>1. d \in Database /\ d.next \in Nat /\ d.next > 0 /\ d.products \in [Names -> Nat]
  BY DEF Sound, Database
<1>2. /\ e.products[n] = d.next
      /\ \A m \in Names \ {n} : e.products[m] = d.products[m]
  BY <1>1
<1>3. \A m \in Names : d.products[m] # 0 => m # n /\ e.products[m] = d.products[m]
  BY <1>2
<1>4. Sound(e)
  <2>1. \A m \in Names : e.products[m] < e.next
    BY <1>1, <1>2 DEF Sound
  <2>2. \A m, k \in Names : e.products[m] = e.products[k] /\ e.products[m] # 0 => m = k
    BY <1>1, <1>2 DEF Sound
  <2>3. ASSUME NEW s \in e.scans
        PROVE  /\ s.id \in 1 .. MaxIds /\ s.id < e.next /\ s.product # 0
               /\ \E m \in Names : e.products[m] = s.product
               /\ {r \in e.packages : r.scan = s.id} = RowSet(s.id, s.product, s.packages)
    <3>1. /\ s \in d.scans /\ s.id \in 1 .. MaxIds /\ s.id < d.next /\ s.product # 0
          /\ {r \in d.packages : r.scan = s.id} = RowSet(s.id, s.product, s.packages)
      BY DEF Sound
    <3>2. PICK m \in Names : d.products[m] = s.product
      BY DEF Sound
    <3>3. e.products[m] = s.product
      BY <1>3, <3>1, <3>2
    <3>4. s.id < e.next
      BY <1>1, <3>1
    <3>5. QED BY <3>1, <3>3, <3>4
  <2>4. e.next > 0
    BY <1>1
  <2>5. QED BY <2>1, <2>2, <2>3, <2>4 DEF Sound
<1>5. \A s \in e.scans, m \in Names : d.products[m] = s.product => e.products[m] = s.product
  BY <1>3 DEF Sound
<1>6. Image(e) = Image(d) \ {Entry(d, s) : s \in {} \cap d.scans}
  <2>1. e.scans = d.scans \ {}
    OBVIOUS
  <2>2. QED BY <1>4, <1>5, <2>1, ImageWithout
<1>7. QED BY <1>4, <1>6

\* What is left when rows are dropped is sound if they were whole scans.
LEMMA DroppingScans ==
  ASSUME NEW d, NEW e \in Database, NEW gone, Sound(d),
         e.scans = d.scans \ gone, e.next = d.next,
         e.packages \subseteq d.packages, e.files \subseteq d.files,
         \A r \in d.packages \cup d.files, s \in d.scans :
           s.id = r.scan => (r \in e.packages \cup e.files => s \notin gone),
         \A r \in d.packages, s \in e.scans : r.scan = s.id => r \in e.packages,
         \A n \in Names : e.products[n] \in {0, d.products[n]},
         \A s \in e.scans, n \in Names : d.products[n] = s.product => e.products[n] = s.product
  PROVE  Sound(e) /\ Image(e) = Image(d) \ {Entry(d, s) : s \in gone \cap d.scans}
<1>1. d \in Database /\ d.next \in Nat /\ d.next > 0 /\ d.products \in [Names -> Nat]
  BY DEF Sound, Database
<1>2. \A n \in Names : e.products[n] < e.next
  BY <1>1 DEF Sound
<1>3. \A m, n \in Names : e.products[m] = e.products[n] /\ e.products[m] # 0 => m = n
  BY DEF Sound
<1>4. ASSUME NEW s \in e.scans
      PROVE  /\ s.id \in 1 .. MaxIds /\ s.id < e.next /\ s.product # 0
             /\ \E n \in Names : e.products[n] = s.product
             /\ {r \in e.packages : r.scan = s.id} = RowSet(s.id, s.product, s.packages)
  <2>1. /\ s \in d.scans /\ s.id \in 1 .. MaxIds /\ s.id < d.next /\ s.product # 0
        /\ {r \in d.packages : r.scan = s.id} = RowSet(s.id, s.product, s.packages)
        /\ \E n \in Names : d.products[n] = s.product
    BY DEF Sound
  <2>2. {r \in e.packages : r.scan = s.id} = {r \in d.packages : r.scan = s.id}
    OBVIOUS
  <2>3. QED BY <2>1, <2>2
<1>5. \A s, t \in e.scans : s.id = t.id => s = t
  BY DEF Sound
<1>6. \A r \in e.packages \cup e.files :
        \E s \in e.scans : s.id = r.scan /\ s.product = r.product
  BY DEF Sound
<1>7. Sound(e)
  BY <1>1, <1>2, <1>3, <1>4, <1>5, <1>6 DEF Sound
<1>8. QED BY <1>7, ImageWithout

\* A dropped scan, if it is there, is the one that disappears,
LEMMA DroppingAScan ==
  ASSUME NEW d, NEW e \in Database, NEW id, Sound(d), DropsScan(d, e, id)
  PROVE  /\ Sound(e)
         /\ \/ Image(e) = Image(d) /\ \A s \in d.scans : s.id # id
            \/ \E s \in d.scans : s.id = id /\ Image(e) = Image(d) \ {Entry(d, s)}
<1> DEFINE gone == {s \in d.scans : s.id = id}
           shown == {Entry(d, s) : s \in gone \cap d.scans}
<1>1. Sound(e) /\ Image(e) = Image(d) \ shown
  <2>1. e.scans = d.scans \ gone
    BY DEF DropsScan
  <2>2. \A n \in Names : e.products[n] = d.products[n]
    BY DEF DropsScan
  <2>3. /\ e.packages = {r \in d.packages : r.scan # id}
        /\ e.files = {r \in d.files : r.scan # id} /\ e.next = d.next
    BY DEF DropsScan
  <2>4. \A r \in d.packages \cup d.files, s \in d.scans :
          s.id = r.scan => (r \in e.packages \cup e.files => s \notin gone)
    BY <2>3
  <2>5. \A r \in d.packages, s \in e.scans : r.scan = s.id => r \in e.packages
    BY <2>1, <2>3
  <2> HIDE DEF gone
  <2>6. QED BY <2>1, <2>2, <2>3, <2>4, <2>5, DroppingScans
<1>2. CASE gone = {}
  BY <1>1, <1>2
<1>3. CASE gone # {}
  <2>1. PICK s \in d.scans : s.id = id
    BY <1>3
  <2>2. gone = {s}
    BY <2>1 DEF Sound
  <2>3. shown = {Entry(d, s)} /\ Entry(d, s) \in Image(d)
    BY <2>2 DEF Image
  <2>4. QED BY <1>1, <2>3
<1>4. QED BY <1>2, <1>3

\* and a dropped product takes all of its scans with it.
LEMMA DroppingAProduct ==
  ASSUME NEW d, NEW e \in Database, NEW id, Sound(d), DropsProduct(d, e, id)
  PROVE  /\ Sound(e)
         /\ \/ Image(e) = Image(d)
            \/ \E n \in Names : Image(e) = Image(d) \ {x \in Image(d) : x.name = n}
<1> DEFINE gone == {s \in d.scans : s.product = id}
           shown == {Entry(d, s) : s \in gone \cap d.scans}
<1>1. Sound(e) /\ Image(e) = Image(d) \ shown
  <2>1. e.scans = d.scans \ gone
    BY DEF DropsProduct
  <2>2. /\ \A n \in Names : e.products[n] \in {0, d.products[n]}
        /\ \A s \in e.scans, n \in Names : d.products[n] = s.product => e.products[n] = s.product
    BY <2>1 DEF DropsProduct
  <2>3. /\ e.packages = {r \in d.packages : r.product # id}
        /\ e.files = {r \in d.files : r.product # id} /\ e.next = d.next
    BY DEF DropsProduct
  <2>4. \A r \in d.packages \cup d.files, s \in d.scans : s.id = r.scan => s.product = r.product
    BY DEF Sound
  <2>5. \A r \in d.packages \cup d.files, s \in d.scans :
          s.id = r.scan => (r \in e.packages \cup e.files => s \notin gone)
    BY <2>3, <2>4
  <2>6. \A r \in d.packages, s \in e.scans : r.scan = s.id => r \in e.packages
    BY <2>1, <2>3, <2>4
  <2> HIDE DEF gone
  <2>7. QED BY <2>1, <2>2, <2>3, <2>5, <2>6, DroppingScans
<1>2. CASE gone = {}
  BY <1>1, <1>2
<1>3. CASE gone # {}
  <2>1. PICK n \in Names : d.products[n] = id /\ id # 0
    BY <1>3 DEF Sound
  <2>2. \A s \in d.scans : Entry(d, s).name = n <=> s.product = id
    <3>1. ASSUME NEW s \in d.scans PROVE Entry(d, s).name = n <=> s.product = id
      <4>1. Entry(d, s).name = NameIn(d, s.product)
        BY DEF Entry
      <4>2. QED BY <2>1, <4>1, EntryIs, NameIs
    <3>2. QED BY <3>1
  <2>3. shown = {x \in Image(d) : x.name = n}
    BY <2>2 DEF Image
  <2>4. QED BY <1>1, <2>3
<1>4. QED BY <1>2, <1>3

\* A scan with a new id and its rows is one entry more.
LEMMA AddingAScan ==
  ASSUME NEW d, NEW e \in Database, NEW s \in Scan, NEW n \in Names, Sound(d),
         s.id = d.next, d.next <= MaxIds, s.product # 0, d.products[n] = s.product,
         e.products = d.products, e.next = d.next + 1, e.scans = d.scans \cup {s},
         e.packages = d.packages \cup RowSet(s.id, s.product, s.packages),
         e.files = d.files \cup RowSet(s.id, s.product, s.files)
  PROVE  /\ Sound(e)
         /\ Image(e) = Image(d) \cup {[name |-> n, id |-> s.id, declared |-> s.packages,
                                       packages |-> s.packages]}
<1>1. /\ d \in Database /\ d.next \in Nat /\ d.next > 0 /\ d.products \in [Names -> Nat]
      /\ d.scans \subseteq Scan /\ d.packages \subseteq Row
  BY DEF Sound, Database
<1>2. \A t \in d.scans : t.id \in Nat /\ t.id < d.next /\ t.id # s.id
  BY <1>1 DEF Sound, Scan
<1>3. ASSUME NEW t \in d.scans
      PROVE  {r \in e.packages : r.scan = t.id} = {r \in d.packages : r.scan = t.id}
  <2>1. \A r \in RowSet(s.id, s.product, s.packages) : r.scan = s.id
    BY DEF RowSet
  <2>2. QED BY <1>2, <2>1
<1>4. {r \in e.packages : r.scan = s.id} = RowSet(s.id, s.product, s.packages)
  <2>1. \A r \in RowSet(s.id, s.product, s.packages) : r.scan = s.id
    BY DEF RowSet
  <2>2. \A r \in d.packages : r.scan # s.id
    BY <1>2 DEF Sound
  <2>3. QED BY <2>1, <2>2
<1>5. Sound(e)
  <2>1. \A m \in Names : e.products[m] < e.next
    <3>1. \A m \in Names : d.products[m] \in Nat /\ d.products[m] < d.next
      BY <1>1 DEF Sound
    <3>2. QED BY <1>1, <3>1
  <2>2. \A m, k \in Names : e.products[m] = e.products[k] /\ e.products[m] # 0 => m = k
    BY DEF Sound
  <2>3. ASSUME NEW t \in e.scans
        PROVE  /\ t.id \in 1 .. MaxIds /\ t.id < e.next /\ t.product # 0
               /\ \E m \in Names : e.products[m] = t.product
               /\ {r \in e.packages : r.scan = t.id} = RowSet(t.id, t.product, t.packages)
    <3>1. CASE t = s
      <4>1. s.id \in 1 .. MaxIds /\ s.id < e.next
        BY <1>1, LocalAssumption
      <4>2. QED BY <1>4, <3>1, <4>1
    <3>2. CASE t \in d.scans
      <4>1. /\ t.id \in 1 .. MaxIds /\ t.product # 0
            /\ \E m \in Names : d.products[m] = t.product
            /\ {r \in d.packages : r.scan = t.id} = RowSet(t.id, t.product, t.packages)
        BY <3>2 DEF Sound
      <4>2. t.id < e.next
        BY <1>1, <1>2, <3>2
      <4>3. QED BY <1>3, <3>2, <4>1, <4>2
    <3>3. QED BY <3>1, <3>2
  <2>4. \A t, u \in e.scans : t.id = u.id => t = u
    BY <1>2 DEF Sound
  <2>5. \A r \in e.packages \cup e.files :
          \E t \in e.scans : t.id = r.scan /\ t.product = r.product
    <3>1. ASSUME NEW r \in e.packages \cup e.files
          PROVE  \E t \in e.scans : t.id = r.scan /\ t.product = r.product
      <4>1. CASE r \in d.packages \cup d.files
        BY <4>1 DEF Sound
      <4>2. CASE r \notin d.packages \cup d.files
        <5>1. r.scan = s.id /\ r.product = s.product
          BY <3>1, <4>2 DEF RowSet
        <5>2. QED BY <5>1
      <4>3. QED BY <4>1, <4>2
    <3>2. QED BY <3>1
  <2>6. e.next > 0
    BY <1>1
  <2>7. QED BY <2>1, <2>2, <2>3, <2>4, <2>5, <2>6 DEF Sound
<1>6. \A t \in d.scans : Entry(e, t) = Entry(d, t)
  BY <1>5, EntryKept
<1>7. Entry(e, s) = [name |-> n, id |-> s.id, declared |-> s.packages, packages |-> s.packages]
  <2>1. NameIn(e, s.product) = n
    BY <1>5, NameIs
  <2>2. QED BY <1>5, <2>1, EntryIs
<1>8. QED BY <1>5, <1>6, <1>7 DEF Image

\* A stored scan takes the place of the one it replaces.
LEMMA PuttingAScan ==
  ASSUME NEW d, NEW e \in Database, NEW c \in Command, Sound(d),
         PutsScan(d, e, c, RowSet(c.scan, c.product, c.size),
                           RowSet(c.scan, c.product, c.files)),
         c.product # 0, \A s \in d.scans : s.id = c.old => s.product = c.product
  PROVE  Sound(e) /\ Puts(Image(d), Image(e))
<1> DEFINE rest == [products |-> d.products, scans |-> {s \in d.scans : s.id # c.old},
                    packages |-> {r \in d.packages : r.scan # c.old},
                    files |-> {r \in d.files : r.scan # c.old}, next |-> d.next]
           new == [id |-> c.scan, product |-> c.product, packages |-> c.size, files |-> c.files]
<1>1. rest \in Database /\ DropsScan(d, rest, c.old)
  BY DEF Sound, Database, DropsScan
<1>2. /\ new \in Scan /\ c.scan = d.next /\ d.next <= MaxIds /\ d.next \in Nat /\ d.next > 0
      /\ c.scan \in 1 .. MaxIds
  BY LocalAssumption DEF PutsScan, Sound, Database, Scan, Command
<1>3. /\ e.products = rest.products /\ e.next = rest.next + 1
      /\ e.scans = rest.scans \cup {new}
      /\ e.packages = rest.packages \cup RowSet(new.id, new.product, new.packages)
      /\ e.files = rest.files \cup RowSet(new.id, new.product, new.files)
      /\ new.id = rest.next /\ rest.next <= MaxIds /\ new.product # 0
  BY <1>2 DEF PutsScan
<1>4. PICK n \in Names : d.products[n] = c.product
  BY DEF PutsScan
<1>5. rest.products[n] = new.product
  BY <1>4
<1>6. /\ Sound(rest)
      /\ \/ Image(rest) = Image(d) /\ \A s \in d.scans : s.id # c.old
         \/ \E s \in d.scans : s.id = c.old /\ Image(rest) = Image(d) \ {Entry(d, s)}
  <2> HIDE DEF rest
  <2>1. QED BY <1>1, DroppingAScan
<1>7. /\ Sound(e)
      /\ Image(e) = Image(rest) \cup {[name |-> n, id |-> new.id, declared |-> new.packages,
                                       packages |-> new.packages]}
  <2> HIDE DEF rest, new
  <2>1. QED BY <1>2, <1>3, <1>5, <1>6, AddingAScan
<1>8. \A x \in Image(d) : x.id # c.scan
  <2>1. \A s \in d.scans : s.id \in Nat /\ s.id < d.next /\ Entry(d, s).id = s.id
    BY DEF Sound, Database, Scan, Entry
  <2>2. QED BY <1>2, <2>1 DEF Image
<1>9. \E old \in {{}} \cup {{x} : x \in {y \in Image(d) : y.name = n}} :
        Image(rest) = Image(d) \ old
  <2>1. CASE Image(rest) = Image(d)
    BY <2>1
  <2>2. ASSUME NEW s \in d.scans, s.id = c.old, Image(rest) = Image(d) \ {Entry(d, s)}
        PROVE  \E old \in {{}} \cup {{x} : x \in {y \in Image(d) : y.name = n}} :
                 Image(rest) = Image(d) \ old
    <3>1. Entry(d, s).name = NameIn(d, s.product) /\ s.product = d.products[n]
      BY <1>4, <2>2 DEF Entry
    <3>2. Entry(d, s).name = n
      BY <1>4, <3>1, NameIs
    <3>3. Entry(d, s) \in Image(d)
      BY DEF Image
    <3>4. QED BY <2>2, <3>2, <3>3
  <2>3. QED BY <1>6, <2>1, <2>2
<1>10. [name |-> n, id |-> new.id, declared |-> new.packages, packages |-> new.packages]
         = [name |-> n, id |-> c.scan, declared |-> c.size, packages |-> c.size]
  OBVIOUS
<1> HIDE DEF rest, new
<1>11. c.size \in 0 .. MaxPackages
  BY DEF Command
<1>12. PICK old \in {{}} \cup {{x} : x \in {y \in Image(d) : y.name = n}} :
         Image(rest) = Image(d) \ old
  BY <1>9
<1>13. Image(e) = (Image(d) \ old) \cup
         {[name |-> n, id |-> c.scan, declared |-> c.size, packages |-> c.size]}
  BY <1>7, <1>10, <1>12, Zenon
<1>14. Puts(Image(d), Image(e))
  BY <1>2, <1>8, <1>11, <1>12, <1>13, Zenon DEF Puts
<1>15. QED BY <1>7, <1>14

----------------------------------------------------------------------------
(* The steps.                                                              *)

\* A process that moves on without a commit keeps the invariant if it keeps it for
\* itself and touches neither the lock nor the draft of another.
LEMMA MoveStep ==
  ASSUME LocalInv, NEW p \in Procs, NEW c \in Command, proc' = [proc EXCEPT ![p] = c],
         db' = db, draft' \in Database, lock' \in Procs \cup {None}, readers' \subseteq Procs,
         \A q \in Procs \ {p} : /\ lock' = q <=> lock = q
                                /\ lock = q => draft' = draft,
         ProcOK(db, draft', lock' = p, c)
  PROVE  LocalInv'
<1>1. /\ proc' \in [Procs -> Command] /\ proc'[p] = c
      /\ \A q \in Procs \ {p} : proc'[q] = proc[q]
  BY DEF LocalInv
<1>2. ASSUME NEW q \in Procs PROVE ProcOK(db', draft', lock' = q, proc'[q])
  <2>1. CASE q = p
    BY <1>1, <2>1
  <2>2. CASE q # p
    <3>1. ProcOK(db, draft, lock = q, proc[q])
      BY DEF LocalInv
    <3>2. CASE lock = q
      BY <1>1, <2>2, <3>1, <3>2 DEF ProcOK
    <3>3. CASE lock # q
      BY <1>1, <2>2, <3>1, <3>3 DEF ProcOK, Drafted
    <3>4. QED BY <3>2, <3>3
  <2>3. QED BY <2>1, <2>2
<1>3. QED BY <1>1, <1>2 DEF LocalInv

\* Closing a connection keeps it: what was drafted is gone.
LEMMA CloseStep ==
  ASSUME LocalInv, NEW p \in Procs, Close(p)
  PROVE  LocalInv' /\ db' = db
<1>1. /\ proc' = [proc EXCEPT ![p] = Idle] /\ db' = db /\ draft' = draft
      /\ lock' = IF lock = p THEN None ELSE lock
      /\ readers' = readers \ {p}
  BY DEF Close
<1>2. Idle \in Command
  BY LocalAssumption DEF Idle, Command, Pcs
<1>3. None # p
  BY LocalAssumption
<1>4. ProcOK(db, draft', lock' = p, Idle)
  BY <1>1, <1>3 DEF ProcOK, OldIsOfProduct, Drafted, Idle
<1>5. /\ lock' \in Procs \cup {None} /\ readers' \subseteq Procs /\ draft' \in Database
      /\ \A q \in Procs \ {p} : lock' = q <=> lock = q
  BY <1>1, LocalAssumption DEF LocalInv
<1>6. QED BY <1>1, <1>2, <1>4, <1>5, MoveStep

\* A commit keeps it if the draft is sound and its new scans have new ids.
LEMMA CommitStep ==
  ASSUME LocalInv, NEW p \in Procs, NEW pc \in {"existing", "done"}, Commit(p, pc),
         pc = "existing" => proc[p].product # 0,
         Sound(draft), draft.next >= db.next,
         \A s \in draft.scans : s \in db.scans \/ s.id >= db.next
  PROVE  LocalInv'
<1> DEFINE c == [proc[p] EXCEPT !.pc = pc]
<1>1. /\ lock = p /\ lock' = None /\ db' = draft /\ draft' = draft /\ readers' = readers
      /\ proc' = [proc EXCEPT ![p] = c]
  BY DEF Commit, Goto
<1>2. c \in Command /\ c.pc = pc /\ c.product = proc[p].product
  BY DEF LocalInv, Command, Pcs
<1> HIDE DEF c
<1>3. /\ proc' \in [Procs -> Command] /\ proc'[p] = c
      /\ \A q \in Procs \ {p} : proc'[q] = proc[q]
  BY <1>1, <1>2 DEF LocalInv
<1>4. None # p /\ \A q \in Procs : None # q
  BY LocalAssumption
<1>5. db.next \in Nat /\ draft.next \in Nat
  BY DEF LocalInv, Sound, Database
<1>6. ASSUME NEW q \in Procs PROVE ProcOK(db', draft', lock' = q, proc'[q])
  <2>1. CASE q = p
    BY <1>1, <1>2, <1>3, <1>4, <2>1 DEF ProcOK, OldIsOfProduct, Drafted
  <2>2. CASE q # p
    <3>1. ProcOK(db, draft, lock = q, proc[q])
      BY DEF LocalInv
    <3>2. OldIsOfProduct(draft, proc[q])
      <4> SUFFICES ASSUME proc[q].pc \in {"replace", "index", "indexed"}
                   PROVE  /\ proc[q].product # 0 /\ proc[q].old < draft.next
                          /\ \A s \in draft.scans :
                               s.id = proc[q].old => s.product = proc[q].product
        BY DEF OldIsOfProduct
      <4>1. /\ proc[q].product # 0 /\ proc[q].old < db.next /\ proc[q].old \in Nat
            /\ \A s \in db.scans : s.id = proc[q].old => s.product = proc[q].product
        BY <3>1 DEF ProcOK, OldIsOfProduct, LocalInv, Command
      <4>2. \A s \in draft.scans : s.id \in Nat
        BY DEF Sound, Database, Scan
      <4>3. QED BY <1>5, <4>1, <4>2
    <3>3. QED BY <1>1, <1>3, <1>4, <2>2, <3>1, <3>2 DEF ProcOK, Drafted
  <2>3. QED BY <2>1, <2>2
<1>7. QED BY <1>1, <1>3, <1>6 DEF LocalInv

\* Starting a command, or reading, keeps it: no lock is taken.
LEMMA ReadStep ==
  ASSUME LocalInv, NEW p \in Procs, NEW c \in Command, proc' = [proc EXCEPT ![p] = c],
         UNCHANGED <<db, draft, lock>>, readers' \subseteq Procs,
         proc[p].pc \notin {"created", "index", "indexed", "dropped"},
         c.pc \notin {"created", "index", "indexed", "dropped"},
         c.pc \in {"find", "product"} => c.name \in Names,
         c.pc = "existing" => c.product # 0, OldIsOfProduct(db, c)
  PROVE  LocalInv'
<1>1. lock # p
  BY DEF LocalInv, ProcOK
<1>2. ProcOK(db, draft', lock' = p, c)
  BY <1>1 DEF ProcOK, Drafted
<1>3. draft' \in Database /\ lock' \in Procs \cup {None}
  BY DEF LocalInv
<1>4. QED BY <1>2, <1>3, MoveStep

\* A write keeps it if its draft is what its place in the command says.
LEMMA WriteStep ==
  ASSUME LocalInv, NEW p \in Procs, NEW c \in Command, proc' = [proc EXCEPT ![p] = c],
         NEW content \in Database, Write(p, content),
         c.pc \in {"created", "index", "indexed", "dropped"},
         OldIsOfProduct(db, c), Drafted(db, content, c)
  PROVE  LocalInv' /\ db' = db
<1>1. /\ lock \in {None, p} /\ lock' = p /\ draft' = content /\ db' = db /\ readers' = readers
  BY DEF Write
<1>2. ProcOK(db, draft', lock' = p, c)
  BY <1>1 DEF ProcOK
<1>3. /\ draft' \in Database /\ lock' \in Procs \cup {None} /\ readers' \subseteq Procs
      /\ \A q \in Procs \ {p} : (lock' = q <=> lock = q) /\ lock # q
  BY <1>1, LocalAssumption DEF LocalInv
<1>4. QED BY <1>1, <1>2, <1>3, MoveStep

\* Commands start where they may.
LEMMA BeginStep ==
  ASSUME LocalInv, NEW p \in Procs,
         BeginScan(p) \/ BeginDeleteProduct(p) \/ BeginDeleteScan(p) \/ BeginList(p)
  PROVE  LocalInv' /\ db' = db
<1>1. ASSUME NEW c \in Command, Begin(p, c), readers' \subseteq Procs,
             c.pc \in {"find", "drop", "drop_scan", "list"}, c.pc = "find" => c.name \in Names
      PROVE  LocalInv' /\ db' = db
  <2>1. /\ proc[p].pc = "idle" /\ UNCHANGED <<db, draft, lock>>
        /\ proc' = [proc EXCEPT ![p] = c]
    BY <1>1 DEF Begin
  <2>2. OldIsOfProduct(db, c)
    BY <1>1 DEF OldIsOfProduct
  <2>3. QED BY <1>1, <2>1, <2>2, ReadStep
<1>2. Idle \in Command /\ readers \subseteq Procs /\ MaxPackages \in Nat
  BY LocalAssumption DEF Idle, Command, Pcs, LocalInv
<1>3. CASE BeginScan(p)
  <2>1. PICK n \in Names, k \in 0 .. MaxPackages, skip \in BOOLEAN :
          /\ Begin(p, [Idle EXCEPT !.pc = "find", !.name = n, !.size = k,
                                   !.files = IF skip THEN 0 ELSE k])
          /\ UNCHANGED readers
    BY <1>3 DEF BeginScan
  <2> DEFINE c == [Idle EXCEPT !.pc = "find", !.name = n, !.size = k,
                               !.files = IF skip THEN 0 ELSE k]
  <2>2. c \in Command /\ c.pc = "find" /\ c.name = n
    <3> DEFINE f == IF skip THEN 0 ELSE k
    <3>1. f \in Nat
      BY <1>2
    <3> HIDE DEF f
    <3>2. [Idle EXCEPT !.pc = "find", !.name = n, !.size = k, !.files = f] \in Command
      BY <1>2, <3>1 DEF Idle, Command, Pcs
    <3>3. QED BY <3>2 DEF f, Idle
  <2> HIDE DEF c
  <2>3. QED BY <1>1, <1>2, <2>1, <2>2 DEF c
<1>4. CASE BeginDeleteProduct(p)
  <2>1. PICK n \in Names :
          /\ Begin(p, [Idle EXCEPT !.pc = "drop", !.name = n, !.product = db.products[n]])
          /\ UNCHANGED readers
    BY <1>4 DEF BeginDeleteProduct
  <2> DEFINE c == [Idle EXCEPT !.pc = "drop", !.name = n, !.product = db.products[n]]
  <2>2. db.products[n] \in Nat
    BY DEF LocalInv, Sound, Database
  <2>3. c \in Command /\ c.pc = "drop"
    BY <1>2, <2>2 DEF Idle, Command, Pcs
  <2> HIDE DEF c
  <2>4. QED BY <1>1, <1>2, <2>1, <2>3 DEF c
<1>5. CASE BeginDeleteScan(p)
  <2>1. PICK s \in db.scans :
          Begin(p, [Idle EXCEPT !.pc = "drop_scan", !.scan = s.id]) /\ UNCHANGED readers
    BY <1>5 DEF BeginDeleteScan
  <2> DEFINE c == [Idle EXCEPT !.pc = "drop_scan", !.scan = s.id]
  <2>2. s.id \in Nat
    BY DEF LocalInv, Sound, Database, Scan
  <2>3. c \in Command /\ c.pc = "drop_scan"
    BY <1>2, <2>2 DEF Idle, Command, Pcs
  <2> HIDE DEF c
  <2>4. QED BY <1>1, <1>2, <2>1, <2>3 DEF c
<1>6. CASE BeginList(p)
  <2>1. Begin(p, [Idle EXCEPT !.pc = "list"]) /\ readers' = readers \cup {p}
    BY <1>6 DEF BeginList
  <2> DEFINE c == [Idle EXCEPT !.pc = "list"]
  <2>2. c \in Command /\ c.pc = "list"
    BY <1>2 DEF Idle, Command, Pcs
  <2> HIDE DEF c
  <2>3. QED BY <1>1, <1>2, <2>1, <2>2 DEF c
<1>7. QED BY <1>3, <1>4, <1>5, <1>6

\* The reads of a scan remember a product and a scan of it.
LEMMA FindStep ==
  ASSUME LocalInv, NEW p \in Procs, FindProduct(p) \/ FindScan(p)
  PROVE  LocalInv' /\ db' = db
<1>1. proc[p] \in Command /\ readers \subseteq Procs /\ ProcOK(db, draft, lock = p, proc[p])
  BY DEF LocalInv
<1>2. CASE FindProduct(p)
  <2> DEFINE id == db.products[proc[p].name]
             c  == [proc[p] EXCEPT !.product = id,
                                   !.pc = IF id # 0 THEN "existing" ELSE "product"]
  <2>1. /\ proc[p].pc = "find" /\ proc' = [proc EXCEPT ![p] = c]
        /\ UNCHANGED <<db, draft, lock, readers>>
    BY <1>2 DEF FindProduct, LocalInv
  <2>2. id \in Nat
    BY <1>1, <2>1 DEF ProcOK, LocalInv, Sound, Database
  <2>3. /\ c \in Command /\ c.pc = (IF id # 0 THEN "existing" ELSE "product")
        /\ c.product = id /\ c.name = proc[p].name
    BY <1>1, <2>2 DEF Command, Pcs
  <2>4. OldIsOfProduct(db, c)
    BY <2>3 DEF OldIsOfProduct
  <2> HIDE DEF c, id
  <2>5. c.pc \in {"existing", "product"} /\ (c.pc = "existing" => c.product # 0)
    BY <2>3
  <2>6. proc[p].name \in Names
    BY <1>1, <2>1 DEF ProcOK
  <2>7. QED BY <1>1, <2>1, <2>3, <2>4, <2>5, <2>6, ReadStep
<1>3. CASE FindScan(p)
  <2> DEFINE ids == {s.id : s \in {x \in db.scans : x.product = proc[p].product}}
  <2>1. PICK old \in IF ids = {} THEN {0} ELSE ids :
          proc' = [proc EXCEPT ![p].old = old, ![p].pc = "replace"]
    BY <1>3 DEF FindScan
  <2> DEFINE c == [proc[p] EXCEPT !.old = old, !.pc = "replace"]
  <2>2. /\ proc[p].pc = "existing" /\ proc' = [proc EXCEPT ![p] = c]
        /\ UNCHANGED <<db, draft, lock, readers>>
    BY <1>3, <2>1 DEF FindScan, LocalInv
  <2>3. \A s, t \in db.scans : s.id = t.id => s = t
    BY DEF LocalInv, Sound
  <2>4. /\ old \in Nat /\ old < db.next
        /\ \A s \in db.scans : s.id = old => s.product = proc[p].product
    <3>1. /\ \A s \in db.scans : s.id \in Nat /\ s.id > 0 /\ s.id < db.next
          /\ db.next \in Nat /\ db.next > 0
      <4>1. \A s \in db.scans : s.id \in 1 .. MaxIds /\ s.id < db.next
        BY DEF LocalInv, Sound
      <4>2. QED BY <4>1, LocalAssumption DEF LocalInv, Sound, Database
    <3>2. CASE ids = {}
      BY <3>1, <3>2
    <3>3. CASE ids # {}
      <4>1. PICK s \in db.scans : s.product = proc[p].product /\ s.id = old
        BY <3>3
      <4>2. QED BY <2>3, <3>1, <4>1
    <3>4. QED BY <3>2, <3>3
  <2>5. /\ c \in Command /\ c.pc = "replace" /\ c.old = old /\ c.product = proc[p].product
    BY <1>1, <2>4 DEF Command, Pcs
  <2>6. proc[p].product # 0
    BY <1>1, <2>2 DEF ProcOK
  <2> HIDE DEF c, ids
  <2>7. OldIsOfProduct(db, c)
    BY <2>4, <2>5, <2>6 DEF OldIsOfProduct
  <2>8. QED BY <1>1, <2>2, <2>5, <2>7, ReadStep
<1>4. QED BY <1>2, <1>3

\* Rows are rows.
LEMMA RowSetType ==
  ASSUME NEW scan \in Nat, NEW product \in Nat, NEW count
  PROVE  RowSet(scan, product, count) \subseteq Row
BY DEF RowSet, Row

\* A product is made in a transaction of its own, unless another made it first.
LEMMA CreateStep ==
  ASSUME LocalInv, NEW p \in Procs, CreateProduct(p)
  PROVE  LocalInv' /\ db' = db
<1>1. /\ proc[p].pc = "product" /\ proc[p] \in Command /\ ProcOK(db, draft, lock = p, proc[p])
      /\ db \in Database
  BY DEF CreateProduct, LocalInv, Sound
<1>2. CASE db.products[proc[p].name] # 0
  <2>1. Close(p)
    BY <1>2 DEF CreateProduct
  <2>2. QED BY <2>1, CloseStep
<1>3. CASE db.products[proc[p].name] = 0
  <2> DEFINE n == proc[p].name
             content == [db EXCEPT !.products[n] = db.next, !.next = @ + 1]
             c == [proc[p] EXCEPT !.product = db.next, !.pc = "created"]
  <2>1. Write(p, content) /\ proc' = [proc EXCEPT ![p] = c]
    BY <1>3 DEF CreateProduct, LocalInv
  <2>2. n \in Names
    BY <1>1 DEF ProcOK
  <2>3. content \in Database /\ AddsProduct(db, content, n)
    <3> DEFINE products == [db.products EXCEPT ![n] = db.next]
               next == db.next + 1
    <3>1. products \in [Names -> Nat] /\ next \in Nat
      BY <1>1, <2>2 DEF Database
    <3>2. content = [db EXCEPT !.products = products, !.next = next]
      BY <1>1 DEF Database
    <3>3. db.products[n] = 0
      BY <1>3
    <3> HIDE DEF content, n
    <3>4. /\ content \in Database /\ content.products = products /\ content.next = next
          /\ content.scans = db.scans /\ content.packages = db.packages
          /\ content.files = db.files
      <4> HIDE DEF products, next
      <4>1. QED BY <1>1, <3>1, <3>2 DEF Database
    <3>5. QED BY <3>3, <3>4 DEF AddsProduct
  <2>4. c \in Command /\ c.pc = "created" /\ c.name = n /\ c.product = db.next
    BY <1>1 DEF Command, Pcs, Database
  <2> HIDE DEF content, c, n
  <2>5. OldIsOfProduct(db, c) /\ Drafted(db, content, c)
    BY <2>2, <2>3, <2>4 DEF OldIsOfProduct, Drafted
  <2>6. QED BY <2>1, <2>3, <2>4, <2>5, WriteStep
<1>4. QED BY <1>2, <1>3

\* The new scan's row is written over the old one's.
LEMMA ReplaceStep ==
  ASSUME LocalInv, NEW p \in Procs, Replace(p)
  PROVE  LocalInv' /\ db' = db
<1>1. /\ proc[p].pc = "replace" /\ proc[p] \in Command /\ ProcOK(db, draft, lock = p, proc[p])
      /\ db \in Database
  BY DEF Replace, LocalInv, Sound
<1> DEFINE base == WithoutScans(db, {proc[p].old})
           known == \E n \in Names : base.products[n] = proc[p].product
           new == [id |-> base.next, product |-> proc[p].product,
                   packages |-> proc[p].size, files |-> proc[p].files]
           content == [base EXCEPT !.scans = @ \cup {new}, !.next = @ + 1]
           c == [proc[p] EXCEPT !.scan = base.next, !.pc = "index"]
<1>2. Held(p) = db
  BY <1>1 DEF Held, ProcOK
<1>3. /\ base \in Database /\ base.next = db.next /\ base.products = db.products
      /\ base.scans = {s \in db.scans : s.id # proc[p].old}
      /\ base.packages = {r \in db.packages : r.scan # proc[p].old}
      /\ base.files = {r \in db.files : r.scan # proc[p].old}
  BY <1>1 DEF WithoutScans, Database
<1>4. base.next <= MaxIds
  BY <1>2 DEF Replace
<1>5. CASE ~known
  <2>1. Close(p)
    BY <1>2, <1>5 DEF Replace
  <2>2. QED BY <2>1, CloseStep
<1>6. CASE known
  <2>1. Write(p, content) /\ proc' = [proc EXCEPT ![p] = c]
    BY <1>2, <1>6 DEF Replace, LocalInv
  <2> HIDE DEF base
  <2>2. new \in Scan
    BY <1>1, <1>3 DEF Scan, Command, Database
  <2>3. content \in Database
    <3> DEFINE scans == base.scans \cup {new}
               next == base.next + 1
    <3>1. scans \in SUBSET Scan /\ next \in Nat
      BY <1>3, <2>2 DEF Database
    <3> HIDE DEF scans, next
    <3>2. [base EXCEPT !.scans = scans, !.next = next] \in Database
      BY <1>3, <3>1 DEF Database
    <3>3. QED BY <3>2 DEF scans, next
  <2>4. /\ c \in Command /\ c.pc = "index" /\ c.scan = db.next /\ c.product = proc[p].product
        /\ c.old = proc[p].old /\ c.size = proc[p].size /\ c.files = proc[p].files
    BY <1>1, <1>3 DEF Command, Pcs, Database
  <2>5. /\ content.products = db.products /\ content.next = db.next + 1
        /\ content.scans = {s \in db.scans : s.id # c.old} \cup
             {[id |-> c.scan, product |-> c.product, packages |-> c.size, files |-> c.files]}
        /\ content.packages = {r \in db.packages : r.scan # c.old} \cup {}
        /\ content.files = {r \in db.files : r.scan # c.old} \cup {}
    BY <1>3, <2>4 DEF Database
  <2>6. \E n \in Names : db.products[n] = c.product
    BY <1>3, <1>6, <2>4
  <2> HIDE DEF content, c, new
  <2>7. PutsScan(db, content, c, {}, {})
    BY <1>3, <1>4, <2>4, <2>5, <2>6 DEF PutsScan
  <2>8. OldIsOfProduct(db, c) /\ Drafted(db, content, c)
    BY <1>1, <2>4, <2>7 DEF ProcOK, OldIsOfProduct, Drafted
  <2>9. QED BY <2>1, <2>3, <2>4, <2>8, WriteStep
<1>7. QED BY <1>5, <1>6

\* The rows follow in the same transaction.
LEMMA IndexStep ==
  ASSUME LocalInv, NEW p \in Procs, Index(p)
  PROVE  LocalInv' /\ db' = db
<1> DEFINE content == [draft EXCEPT !.packages = @ \cup Rows(p, proc[p].size),
                                    !.files = @ \cup Rows(p, proc[p].files)]
           c == [proc[p] EXCEPT !.pc = "indexed"]
<1>1. /\ proc[p].pc = "index" /\ proc[p] \in Command /\ ProcOK(db, draft, lock = p, proc[p])
      /\ draft \in Database /\ Write(p, content) /\ proc' = [proc EXCEPT ![p] = c]
  BY DEF Index, LocalInv, Goto
<1>2. \A count : Rows(p, count) = RowSet(proc[p].scan, proc[p].product, count)
  BY DEF Rows, RowSet
<1>3. /\ content \in Database /\ content.products = draft.products
      /\ content.scans = draft.scans /\ content.next = draft.next
      /\ content.packages = draft.packages \cup RowSet(proc[p].scan, proc[p].product, proc[p].size)
      /\ content.files = draft.files \cup RowSet(proc[p].scan, proc[p].product, proc[p].files)
  <2>1. \A count : RowSet(proc[p].scan, proc[p].product, count) \subseteq Row
    BY <1>1, RowSetType DEF Command
  <2>2. QED BY <1>1, <1>2, <2>1 DEF Database
<1>4. /\ c \in Command /\ c.pc = "indexed" /\ c.scan = proc[p].scan
      /\ c.product = proc[p].product /\ c.old = proc[p].old
      /\ c.size = proc[p].size /\ c.files = proc[p].files
  BY <1>1 DEF Command, Pcs
<1> HIDE DEF content, c
<1>5. PutsScan(db, draft, proc[p], {}, {})
  BY <1>1 DEF ProcOK, Drafted
<1>6. PutsScan(db, content, c, RowSet(c.scan, c.product, c.size),
                               RowSet(c.scan, c.product, c.files))
  BY <1>3, <1>4, <1>5 DEF PutsScan
<1>7. OldIsOfProduct(db, c) /\ Drafted(db, content, c)
  BY <1>1, <1>4, <1>6 DEF ProcOK, OldIsOfProduct, Drafted
<1>8. QED BY <1>1, <1>3, <1>4, <1>7, WriteStep

\* A deletion drafts what is left.
LEMMA DeleteStep ==
  ASSUME LocalInv, NEW p \in Procs, DeleteProduct(p) \/ DeleteScan(p)
  PROVE  LocalInv' /\ db' = db
<1> DEFINE c == [proc[p] EXCEPT !.pc = "dropped"]
<1>1. /\ proc[p].pc \in {"drop", "drop_scan"} /\ proc[p] \in Command
      /\ ProcOK(db, draft, lock = p, proc[p]) /\ db \in Database
      /\ proc' = [proc EXCEPT ![p] = c]
  BY DEF DeleteProduct, DeleteScan, LocalInv, Sound, Goto
<1>2. Held(p) = db
  BY <1>1 DEF Held, ProcOK
<1>3. /\ c \in Command /\ c.pc = "dropped" /\ c.product = proc[p].product
      /\ c.scan = proc[p].scan
  BY <1>1 DEF Command, Pcs
<1> HIDE DEF c
<1>4. ASSUME NEW content \in Database, Write(p, content),
             DropsProduct(db, content, c.product) \/ DropsScan(db, content, c.scan)
      PROVE  LocalInv' /\ db' = db
  <2>1. OldIsOfProduct(db, c) /\ Drafted(db, content, c)
    BY <1>3, <1>4 DEF OldIsOfProduct, Drafted
  <2>2. QED BY <1>1, <1>3, <1>4, <2>1, WriteStep
<1>5. CASE DeleteProduct(p)
  <2> DEFINE id == proc[p].product
             content == [db EXCEPT
               !.files = {r \in @ : r.product # id},
               !.packages = {r \in @ : r.product # id},
               !.scans = {s \in @ : s.product # id},
               !.products = [n \in Names |-> IF @[n] = id THEN 0 ELSE @[n]]]
  <2>1. Write(p, content)
    BY <1>2, <1>5 DEF DeleteProduct
  <2>2. content \in Database
    BY <1>1 DEF Database
  <2>3. DropsProduct(db, content, id)
    BY <1>1 DEF Database, DropsProduct
  <2> HIDE DEF content
  <2>4. QED BY <1>3, <1>4, <2>1, <2>2, <2>3
<1>6. CASE DeleteScan(p)
  <2> DEFINE content == WithoutScans(db, {proc[p].scan})
  <2>1. Write(p, content)
    BY <1>2, <1>6 DEF DeleteScan
  <2>2. content \in Database /\ DropsScan(db, content, proc[p].scan)
    BY <1>1 DEF WithoutScans, Database, DropsScan
  <2> HIDE DEF content
  <2>3. QED BY <1>3, <1>4, <2>1, <2>2
<1>7. QED BY <1>5, <1>6

----------------------------------------------------------------------------
(* The refinement.                                                         *)

\* What the holder of the lock commits is sound, gives only new ids to new scans,
\* and shows as one step of the store.
LEMMA DraftIsStep ==
  ASSUME LocalInv, NEW p \in Procs, proc[p].pc \in {"created", "indexed", "dropped"}
  PROVE  /\ Sound(draft) /\ draft.next >= db.next
         /\ \A s \in draft.scans : s \in db.scans \/ s.id >= db.next
         /\ StoreStep(Image(db), Image(draft))
<1>1. /\ Sound(db) /\ draft \in Database /\ proc[p] \in Command
      /\ ProcOK(db, draft, lock = p, proc[p]) /\ db.next \in Nat
  BY DEF LocalInv, Sound, Database
<1>2. CASE proc[p].pc = "created"
  <2>1. proc[p].name \in Names /\ AddsProduct(db, draft, proc[p].name)
    BY <1>1, <1>2 DEF ProcOK, Drafted
  <2>2. Sound(draft) /\ Image(draft) = Image(db)
    BY <1>1, <2>1, AddingAProduct
  <2>3. draft.next = db.next + 1 /\ draft.scans = db.scans
    BY <2>1 DEF AddsProduct
  <2>4. QED BY <1>1, <2>2, <2>3 DEF StoreStep
<1>3. CASE proc[p].pc = "indexed"
  <2> DEFINE c == proc[p]
  <2>1. /\ PutsScan(db, draft, c, RowSet(c.scan, c.product, c.size),
                                  RowSet(c.scan, c.product, c.files))
        /\ c.product # 0 /\ \A s \in db.scans : s.id = c.old => s.product = c.product
        /\ c \in Command
    BY <1>1, <1>3 DEF ProcOK, Drafted, OldIsOfProduct
  <2> HIDE DEF c
  <2>2. Sound(draft) /\ Puts(Image(db), Image(draft))
    BY <1>1, <2>1, PuttingAScan
  <2>5. draft.next = db.next + 1 /\ \A s \in draft.scans : s \in db.scans \/ s.id = db.next
    BY <2>1 DEF PutsScan
  <2>6. QED BY <1>1, <2>2, <2>5 DEF PutsScan, StoreStep
<1>4. CASE proc[p].pc = "dropped"
  <2>1. DropsProduct(db, draft, proc[p].product) \/ DropsScan(db, draft, proc[p].scan)
    BY <1>1, <1>4 DEF ProcOK, Drafted
  <2>2. draft.next = db.next /\ draft.scans \subseteq db.scans
    BY <2>1 DEF DropsProduct, DropsScan
  <2>3. CASE DropsProduct(db, draft, proc[p].product)
    <3>1. /\ Sound(draft)
          /\ \/ Image(draft) = Image(db)
             \/ \E n \in Names : Image(draft) = Image(db) \ {x \in Image(db) : x.name = n}
      BY <1>1, <2>3, DroppingAProduct
    <3>2. QED BY <1>1, <2>2, <3>1 DEF StoreStep, Drops
  <2>4. CASE DropsScan(db, draft, proc[p].scan)
    <3>1. /\ Sound(draft)
          /\ Image(draft) = Image(db) \/ \E s \in db.scans : Image(draft) = Image(db) \ {Entry(db, s)}
      BY <1>1, <2>4, DroppingAScan
    <3>2. Image(draft) = Image(db) \/ \E e \in Image(db) : Image(draft) = Image(db) \ {e}
      BY <3>1 DEF Image
    <3>3. QED BY <1>1, <2>2, <3>1, <3>2 DEF StoreStep, Removes
  <2>5. QED BY <2>1, <2>3, <2>4
<1>5. QED BY <1>2, <1>3, <1>4

\* Every step keeps the invariant and shows as at most one step of the store.
LEMMA LocalNext ==
  ASSUME LocalInv, [Next]_vars
  PROVE  LocalInv' /\ StoreStep(Image(db), Image(db'))
<1>1. ASSUME LocalInv', db' = db PROVE LocalInv' /\ StoreStep(Image(db), Image(db'))
  BY <1>1 DEF StoreStep
<1>2. CASE UNCHANGED vars
  <2>1. db' = db /\ draft' = draft /\ lock' = lock /\ readers' = readers /\ proc' = proc
    BY <1>2 DEF vars
  <2>2. LocalInv'
    BY <2>1 DEF LocalInv
  <2>3. QED BY <1>1, <2>1, <2>2
<1>3. ASSUME NEW p \in Procs,
             BeginScan(p) \/ BeginDeleteProduct(p) \/ BeginDeleteScan(p) \/ BeginList(p)
      PROVE  LocalInv' /\ StoreStep(Image(db), Image(db'))
  BY <1>1, <1>3, BeginStep
<1>4. ASSUME NEW p \in Procs, Step(p)
      PROVE  LocalInv' /\ StoreStep(Image(db), Image(db'))
  <2>1. CASE FindProduct(p) \/ FindScan(p)
    BY <1>1, <2>1, FindStep
  <2>2. CASE CreateProduct(p)
    BY <1>1, <2>2, CreateStep
  <2>3. CASE Replace(p)
    BY <1>1, <2>3, ReplaceStep
  <2>4. CASE Index(p)
    BY <1>1, <2>4, IndexStep
  <2>5. CASE DeleteProduct(p) \/ DeleteScan(p)
    BY <1>1, <2>5, DeleteStep
  <2>6. CASE CommitProduct(p) \/ CommitScan(p) \/ CommitDelete(p)
    <3>1. PICK pc \in {"existing", "done"} :
            Commit(p, pc) /\ (pc = "existing" => proc[p].pc = "created")
      BY <2>6 DEF CommitProduct, CommitScan, CommitDelete
    <3>2. proc[p].pc \in {"created", "indexed", "dropped"}
      BY <2>6 DEF CommitProduct, CommitScan, CommitDelete
    <3>3. /\ Sound(draft) /\ draft.next >= db.next
          /\ \A s \in draft.scans : s \in db.scans \/ s.id >= db.next
          /\ StoreStep(Image(db), Image(draft))
      BY <3>2, DraftIsStep
    <3>4. pc = "existing" => proc[p].product # 0
      BY <3>1 DEF LocalInv, ProcOK, Drafted, Sound
    <3>5. LocalInv'
      BY <3>1, <3>3, <3>4, CommitStep
    <3>6. db' = draft
      BY <3>1 DEF Commit
    <3>7. QED BY <3>3, <3>5, <3>6
  <2>7. CASE End(p) \/ Busy(p) \/ Crash(p)
    <3>1. Close(p)
      BY <2>7 DEF End, Busy, Crash
    <3>2. QED BY <1>1, <3>1, CloseStep
  <2>8. QED BY <1>4, <2>1, <2>2, <2>3, <2>4, <2>5, <2>6, <2>7 DEF Step
<1>5. QED BY <1>2, <1>3, <1>4 DEF Next, Quiet

\* The invariant holds in the empty database.
LEMMA LocalInitially ==
  ASSUME Init
  PROVE  LocalInv /\ Image(db) = {}
<1>1. Idle \in Command
  BY LocalAssumption DEF Idle, Command, Pcs
<1>2. /\ Empty \in Database /\ Empty.next = 1 /\ Empty.scans = {} /\ Empty.packages = {}
      /\ Empty.files = {} /\ \A n \in Names : Empty.products[n] = 0
  BY DEF Empty, Database
<1> HIDE DEF Empty
<1>3. Sound(Empty)
  BY <1>2 DEF Sound
<1>4. \A p \in Procs : None # p /\ ProcOK(db, draft, lock = p, Idle)
  BY LocalAssumption DEF Init, Idle, ProcOK, OldIsOfProduct, Drafted
<1>5. QED BY <1>1, <1>2, <1>3, <1>4 DEF Init, LocalInv, Image

\* The local store implements ScanStore (ImplementsScanStore): what storage.py
\* does in several statements, with reads before its transactions, comes out as
\* one scan put in the place of at most one of its product, or scans dropped.
THEOREM LocalStoreIsScanStore == Spec => ImplementsScanStore
<1> DEFINE store == {[name |-> NameOf(s.product), id |-> s.id, declared |-> s.packages,
                      packages |-> Cardinality({r \in db.packages : r.scan = s.id})] : s \in db.scans}
<1>1. Init => LocalInv /\ Ideal!Init
  <2>1. Init => store = {}
    BY DEF Init, Empty
  <2>2. QED BY <2>1, LocalInitially DEF Ideal!Init
<1>2. LocalInv /\ [Next]_vars => LocalInv' /\ [Ideal!Next]_store
  <2> SUFFICES ASSUME LocalInv, [Next]_vars PROVE LocalInv' /\ [Ideal!Next]_store
    OBVIOUS
  <2>1. store = Image(db) /\ store' = Image(db')
    BY DEF Image, Entry, NameOf, NameIn
  <2>2. LocalInv' /\ StoreStep(store, store')
    BY <2>1, LocalNext
  <2>3. CASE store' = store
    BY <2>2, <2>3
  <2>4. CASE Removes(store, store')
    <3>1. Ideal!DropOne
      BY <2>4 DEF Removes, Ideal!DropOne
    <3>2. QED BY <2>2, <3>1 DEF Ideal!Next
  <2>5. CASE Drops(store, store')
    <3>1. PICK n \in Names : store' = store \ {e \in store : e.name = n}
      BY <2>5 DEF Drops
    <3>2. Ideal!Drop(n)
      BY <3>1 DEF Ideal!Drop, Ideal!Scans
    <3>3. QED BY <2>2, <3>2 DEF Ideal!Next
  <2>6. CASE Puts(store, store')
    <3>1. PICK n \in Names, id \in 1 .. MaxIds, k \in 0 .. MaxPackages :
            \E old \in {{}} \cup {{e} : e \in {f \in store : f.name = n}} :
              /\ \A e \in store : e.id # id
              /\ store' = (store \ old) \cup
                   {[name |-> n, id |-> id, declared |-> k, packages |-> k]}
      BY <2>6 DEF Puts
    <3>2. Ideal!Put(n)
      BY <3>1 DEF Ideal!Put, Ideal!Scans
    <3>3. QED BY <2>2, <3>2 DEF Ideal!Next
  <2>7. QED BY <2>2, <2>3, <2>4, <2>5, <2>6 DEF StoreStep
<1>3. QED BY <1>1, <1>2, PTL DEF Spec, ImplementsScanStore, Ideal!Spec

----------------------------------------------------------------------------
(* One command after the other.                                            *)

\* The process between its reads and its commit, and what it found.
Putting(c) == c.pc \in {"replace", "index", "indexed"}
KnowsOld(d, c) == Putting(c) => \A s \in d.scans : s.product = c.product => s.id = c.old

\* The only process keeps what it knows of the scan it replaces up to its commit,
\* since nobody else commits, and its commit replaces all there is.
LEMMA SoloNext ==
  ASSUME \A p, q \in Procs : p = q, SoloInv, [Next]_vars
  PROVE  SoloInv'
<1>1. LocalInv' /\ LocalInv /\ \A s, t \in db.scans : s.product = t.product => s = t
  BY LocalNext DEF SoloInv
<1>2. \A p \in Procs : KnowsOld(db, proc[p])
  BY DEF SoloInv, KnowsOld, Putting
<1>3. ASSUME db' = db, \A p \in Procs : KnowsOld(db, proc'[p]) PROVE SoloInv'
  BY <1>1, <1>3 DEF SoloInv, KnowsOld, Putting
<1>4. CASE UNCHANGED vars
  BY <1>2, <1>3, <1>4 DEF vars
<1>5. ASSUME NEW p \in Procs, NEW c \in Command, proc' = [proc EXCEPT ![p] = c],
             db' = db, KnowsOld(db, c)
      PROVE  SoloInv'
  <2>1. \A q \in Procs : proc'[q] = c
    BY <1>1, <1>5 DEF LocalInv
  <2>2. QED BY <1>3, <1>5, <2>1
<1>6. ASSUME NEW p \in Procs, Next, ~Putting(proc'[p]), db' = db PROVE SoloInv'
  <2>1. \A q \in Procs : KnowsOld(db, proc'[q])
    BY <1>6 DEF KnowsOld
  <2>2. QED BY <1>3, <1>6, <2>1
<1>7. ASSUME NEW p \in Procs,
             BeginScan(p) \/ BeginDeleteProduct(p) \/ BeginDeleteScan(p) \/ BeginList(p)
      PROVE  SoloInv'
  <2>1. db' = db
    BY <1>1, <1>7, BeginStep
  <2>2. ~Putting(proc'[p])
    <3>1. \A c : Begin(p, c) => proc'[p] = c
      BY <1>1 DEF Begin, LocalInv
    <3>2. CASE BeginScan(p)
      BY <3>1, <3>2 DEF BeginScan, Putting, Idle
    <3>3. CASE BeginDeleteProduct(p)
      BY <3>1, <3>3 DEF BeginDeleteProduct, Putting, Idle
    <3>4. CASE BeginDeleteScan(p)
      BY <3>1, <3>4 DEF BeginDeleteScan, Putting, Idle
    <3>5. CASE BeginList(p)
      BY <3>1, <3>5 DEF BeginList, Putting, Idle
    <3>6. QED BY <1>7, <3>2, <3>3, <3>4, <3>5
  <2>3. QED BY <1>6, <1>7, <2>1, <2>2 DEF Next
<1>8. ASSUME NEW p \in Procs, Step(p) PROVE SoloInv'
  <2>1. CASE FindProduct(p) \/ CreateProduct(p) \/ DeleteProduct(p) \/ DeleteScan(p)
             \/ End(p) \/ Busy(p) \/ Crash(p)
    <3>1. db' = db
      BY <1>1, <2>1, FindStep, CreateStep, DeleteStep, CloseStep DEF End, Busy, Crash
    <3>2. ~Putting(proc'[p])
      BY <1>1, <2>1 DEF FindProduct, CreateProduct, DeleteProduct, DeleteScan, End, Busy,
                        Crash, Close, Goto, Putting, Idle, LocalInv, Command
    <3>3. QED BY <1>6, <1>8, <3>1, <3>2 DEF Next
  <2>2. CASE FindScan(p)
    <3> DEFINE ids == {s.id : s \in {x \in db.scans : x.product = proc[p].product}}
    <3>1. PICK old \in IF ids = {} THEN {0} ELSE ids :
            proc' = [proc EXCEPT ![p].old = old, ![p].pc = "replace"]
      BY <2>2 DEF FindScan
    <3>2. /\ proc'[p].old = old /\ proc'[p].product = proc[p].product
          /\ proc'[p] \in Command /\ proc' = [proc EXCEPT ![p] = proc'[p]]
      BY <1>1, <3>1 DEF LocalInv, Command
    <3>3. ASSUME NEW s \in db.scans, s.product = proc[p].product PROVE s.id = old
      BY <1>1, <3>3
    <3>4. db' = db
      BY <1>1, <2>2, FindStep
    <3>5. KnowsOld(db, proc'[p])
      BY <3>2, <3>3 DEF KnowsOld
    <3>6. QED BY <1>5, <3>2, <3>4, <3>5
  <2>3. CASE Replace(p) \/ Index(p)
    <3>1. db' = db
      BY <1>1, <2>3, ReplaceStep, IndexStep
    <3>2. CASE Close(p)
      <4>1. ~Putting(proc'[p])
        BY <1>1, <3>2 DEF Close, Putting, Idle, LocalInv
      <4>2. QED BY <1>6, <1>8, <3>1, <4>1 DEF Next
    <3>3. CASE ~Close(p)
      <4>1. /\ Putting(proc[p]) /\ proc'[p] \in Command
            /\ proc'[p].product = proc[p].product /\ proc'[p].old = proc[p].old
            /\ proc' = [proc EXCEPT ![p] = proc'[p]]
        BY <1>1, <2>3, <3>3 DEF Replace, Index, Goto, Putting, LocalInv, Command
      <4>2. KnowsOld(db, proc'[p])
        BY <1>2, <4>1 DEF KnowsOld
      <4>3. QED BY <1>5, <3>1, <4>1, <4>2
    <3>4. QED BY <3>2, <3>3
  <2>4. CASE CommitProduct(p) \/ CommitScan(p) \/ CommitDelete(p)
    <3>1. /\ proc[p].pc \in {"created", "indexed", "dropped"} /\ db' = draft
          /\ proc'[p].pc \in {"existing", "done"}
      BY <1>1, <2>4 DEF CommitProduct, CommitScan, CommitDelete, Commit, Goto, LocalInv, Command
    <3>2. \A q \in Procs : ~Putting(proc'[q])
      <4>1. \A q \in Procs : q = p
        OBVIOUS
      <4>2. QED BY <3>1, <4>1 DEF Putting
    <3>3. ProcOK(db, draft, lock = p, proc[p])
      BY <1>1 DEF LocalInv
    <3>4. \A s, t \in draft.scans : s.product = t.product => s = t
      <4>1. CASE draft.scans \subseteq db.scans
        BY <1>1, <4>1
      <4>2. CASE proc[p].pc = "indexed"
        <5> DEFINE c == proc[p]
                   new == [id |-> c.scan, product |-> c.product,
                           packages |-> c.size, files |-> c.files]
        <5>1. draft.scans = {s \in db.scans : s.id # c.old} \cup {new}
          BY <3>3, <4>2 DEF ProcOK, Drafted, PutsScan
        <5>2. \A s \in db.scans : s.product = c.product => s.id = c.old
          BY <1>2, <4>2 DEF KnowsOld, Putting
        <5>3. \A s \in draft.scans : s.product = c.product => s = new
          BY <5>1, <5>2
        <5>4. \A s \in draft.scans : s.product # c.product => s \in db.scans
          BY <5>1
        <5> HIDE DEF c, new
        <5>5. QED BY <1>1, <5>3, <5>4
      <4>3. proc[p].pc # "indexed" => draft.scans \subseteq db.scans
        BY <3>1, <3>3 DEF ProcOK, Drafted, AddsProduct, DropsProduct, DropsScan
      <4>4. QED BY <4>1, <4>2, <4>3
    <3>5. QED BY <1>1, <3>1, <3>2, <3>4 DEF SoloInv, Putting
  <2>5. QED BY <1>8, <2>1, <2>2, <2>3, <2>4 DEF Step
<1>9. QED BY <1>4, <1>7, <1>8 DEF Next, Quiet

\* "If a scan already exists for this product, it will be replaced": with one
\* process a product has at most one scan (OneScanPerProduct), wherever commands
\* fail or are killed.
THEOREM OneLocalScan ==
  ASSUME \A p, q \in Procs : p = q
  PROVE  Spec => []OneScanPerProduct
<1>1. Init => SoloInv
  <2>1. Init => db.scans = {} /\ \A p \in Procs : proc[p].pc = "idle"
    BY DEF Init, Empty, Idle
  <2>2. QED BY <2>1, LocalInitially DEF SoloInv
<1>2. SoloInv /\ [Next]_vars => SoloInv'
  BY SoloNext
<1>3. SoloInv => OneScanPerProduct
  <2> SUFFICES ASSUME SoloInv, NEW n \in Names PROVE Cardinality(ScansOf(n)) <= 1
    BY DEF OneScanPerProduct
  <2>1. \A s, t \in ScansOf(n) : s = t
    BY DEF SoloInv, ScansOf
  <2>2. CASE ScansOf(n) = {}
    BY <2>2, FS_EmptySet
  <2>3. CASE ScansOf(n) # {}
    <3>1. PICK s : ScansOf(n) = {s}
      BY <2>1, <2>3
    <3>2. Cardinality({s}) = 1
      BY FS_Singleton
    <3>3. Cardinality(ScansOf(n)) = 1
      BY <3>1, <3>2, Zenon
    <3>4. QED BY <3>3
  <2>4. QED BY <2>2, <2>3
<1>4. QED BY <1>1, <1>2, <1>3, PTL DEF Spec

----------------------------------------------------------------------------
(* Jobs: what a command that uploads says of its scan.                     *)

CONSTANTS Served, Timeout
VARIABLES cmd, job, objects, run

Jobs == INSTANCE JobUpload

JobCommand ==
  [kind : {"product", "system", "remote", None}, pc : {"idle", "create", "upload", "poll"},
   todo : Seq(Jobs!Required \cup {"files_tsv"}), polls : Nat, cut : BOOLEAN,
   result : Jobs!Results]

JobRow == [status : {"pending", "processing", "complete", "failed", "cancelled"},
           imported : BOOLEAN]

\* Inductive: a command that runs has no result, one whose upload was cut has ended, and
\* a job it has not started is not under way.
JobInv ==
  /\ cmd \in JobCommand /\ cmd.polls <= Timeout + 1 /\ run \in 0 .. MaxCommands
  /\ job # None => job \in JobRow
  /\ cmd.pc # "idle" => cmd.result = None /\ ~cmd.cut
  /\ cmd.pc \in {"upload", "poll"} => job # None
  /\ cmd.result = "complete" => job # None /\ job.status = "complete"

\* A command's fields after a step.
JobFields(n, pc, polls, cut, result) ==
  n \in JobCommand /\ n.pc = pc /\ n.polls = polls /\ n.cut = cut /\ n.result = result

LEMMA JobGoes ==
  ASSUME NEW s \in JobCommand, NEW pc \in {"idle", "create", "upload", "poll"}
  PROVE  JobFields([s EXCEPT !.pc = pc], pc, s.polls, s.cut, s.result)
BY DEF JobCommand, JobFields

LEMMA JobEnds ==
  ASSUME NEW s \in JobCommand, NEW result \in Jobs!Results
  PROVE  /\ JobFields([s EXCEPT !.pc = "idle", !.result = result], "idle", s.polls, s.cut, result)
         /\ JobFields([s EXCEPT !.pc = "idle", !.result = result, !.cut = TRUE],
                      "idle", s.polls, TRUE, result)
BY DEF JobCommand, JobFields

LEMMA JobPolls ==
  ASSUME NEW s \in JobCommand, NEW polls \in Nat
  PROVE  JobFields([s EXCEPT !.polls = polls], s.pc, polls, s.cut, s.result)
BY DEF JobCommand, JobFields

LEMMA JobPuts ==
  ASSUME NEW s \in JobCommand, NEW cut \in BOOLEAN, s.todo # <<>>
  PROVE  JobFields([s EXCEPT !.todo = Tail(s.todo), !.cut = cut], s.pc, s.polls, cut, s.result)
<1>1. Tail(s.todo) \in Seq(Jobs!Required \cup {"files_tsv"})
  BY DEF JobCommand
<1>2. QED BY <1>1 DEF JobCommand, JobFields

\* A command that ends, and one that starts.
LEMMA ExitKeepsJob ==
  ASSUME JobInv, NEW result \in Jobs!Results, Jobs!Exit(result), job' = job,
         result = "complete" => job # None /\ job.status = "complete"
  PROVE  JobInv'
<1>1. JobFields(cmd', "idle", cmd.polls, cmd.cut, result) /\ run' = run
  BY JobEnds DEF JobInv, Jobs!Exit
<1>2. QED BY <1>1 DEF JobInv, JobFields

LEMMA BeginKeepsJob ==
  ASSUME JobInv, Jobs!BeginUpload \/ Jobs!BeginRemote, Jobs!JobAssumption
  PROVE  JobInv'
<1>1. PICK kind \in {"product", "system", "remote"}, files \in Jobs!FileLists \cup {<<>>} :
        Jobs!Begin(kind, files)
  BY DEF Jobs!BeginUpload, Jobs!BeginRemote
<1>2. files \in Seq(Jobs!Required \cup {"files_tsv"})
  <2> DEFINE T == Jobs!Required \cup {"files_tsv"}
  <2>1. {"original_sbom", "modified_sbom", "packages_tsv", "files_tsv"} \subseteq T
    BY DEF Jobs!Required
  <2> HIDE DEF T
  <2>2. /\ <<>> \in Seq(T) /\ <<"original_sbom", "modified_sbom", "packages_tsv">> \in Seq(T)
        /\ <<"original_sbom", "modified_sbom", "packages_tsv", "files_tsv">> \in Seq(T)
    BY <2>1
  <2>3. files \in Seq(T)
    BY <2>2 DEF Jobs!FileLists
  <2>4. QED BY <2>3 DEF T
<1>3. /\ cmd' \in JobCommand /\ cmd'.pc = "create" /\ cmd'.polls = 0 /\ ~cmd'.cut
      /\ cmd'.result = None
  BY <1>1, <1>2 DEF Jobs!Begin, JobCommand, Jobs!Results
<1>4. run' \in 0 .. MaxCommands /\ job' = None
  BY <1>1 DEF Jobs!Begin, JobInv, Jobs!JobAssumption
<1>5. None # "complete"
  BY DEF Jobs!JobAssumption
<1>6. QED BY <1>3, <1>4, <1>5 DEF JobInv, Jobs!JobAssumption

LEMMA JobNext ==
  ASSUME JobInv, [Jobs!Next]_(Jobs!vars), Jobs!JobAssumption
  PROVE  JobInv'
<1>0. cmd \in JobCommand /\ cmd.polls \in Nat /\ Timeout \in Nat /\ cmd.cut \in BOOLEAN
  BY DEF JobInv, JobCommand, Jobs!JobAssumption
<1>1. CASE UNCHANGED Jobs!vars
  BY <1>1 DEF Jobs!vars, JobInv
<1>2. CASE Jobs!BeginUpload \/ Jobs!BeginRemote
  BY <1>2, BeginKeepsJob
<1>3. CASE Jobs!NothingToStore
  <2>1. PICK result \in {"scan failed", "skipped"} : Jobs!Exit(result) /\ job' = job
    BY <1>3 DEF Jobs!NothingToStore
  <2>2. result \in Jobs!Results
    BY DEF Jobs!Results
  <2>3. QED BY <2>1, <2>2, ExitKeepsJob
<1>4. CASE Jobs!CreateJob
  <2>1. CASE (Jobs!Exit("not found") \/ Jobs!Exit("unreachable")) /\ job' = job
    BY <2>1, ExitKeepsJob DEF Jobs!Results
  <2>2. CASE \E pc \in {"poll", "upload"} :
               /\ Jobs!Goto(pc)
               /\ job' \in JobRow
    <3>1. PICK pc \in {"poll", "upload"} : Jobs!Goto(pc) /\ job' \in JobRow
      BY <2>2
    <3>2. JobFields(cmd', pc, cmd.polls, cmd.cut, cmd.result) /\ run' = run
      BY <1>0, <3>1, JobGoes DEF Jobs!Goto
    <3>3. cmd.result = None /\ ~cmd.cut
      BY <1>4 DEF Jobs!CreateJob, JobInv
    <3>4. None # "complete" /\ job' # None
      BY <3>1 DEF Jobs!JobAssumption, JobRow
    <3>5. QED BY <3>1, <3>2, <3>3, <3>4 DEF JobInv, JobFields
  <2>3. ASSUME Served,
               job' = [status |-> IF cmd.kind = "remote" THEN "processing" ELSE "pending",
                       imported |-> FALSE],
               Jobs!Goto(IF cmd.kind = "remote" THEN "poll" ELSE "upload")
        PROVE  JobInv'
    <3>1. job' \in JobRow
      BY <2>3 DEF JobRow
    <3>2. QED BY <2>2, <2>3, <3>1
  <2>4. QED BY <1>4, <2>1, <2>3 DEF Jobs!CreateJob
<1>5. CASE Jobs!Upload
  <2>1. CASE cmd' = [cmd EXCEPT !.pc = "idle", !.result = "upload failed", !.cut = TRUE]
             /\ UNCHANGED <<job, objects, run>>
    <3>1. JobFields(cmd', "idle", cmd.polls, TRUE, "upload failed")
      BY <1>0, <2>1, JobEnds DEF Jobs!Results
    <3>2. QED BY <2>1, <3>1 DEF JobInv, JobFields
  <2>2. CASE Jobs!Put(FALSE)
    <3>1. cmd' = [cmd EXCEPT !.todo = Tail(cmd.todo), !.cut = cmd.cut] /\ UNCHANGED <<job, run>>
      BY <1>0, <2>2 DEF Jobs!Put
    <3>2. JobFields(cmd', cmd.pc, cmd.polls, cmd.cut, cmd.result)
      BY <1>0, <1>5, <3>1, JobPuts DEF Jobs!Upload
    <3>3. QED BY <3>1, <3>2 DEF JobInv, JobFields
  <2>3. QED BY <1>5, <2>1, <2>2 DEF Jobs!Upload
<1>6. CASE Jobs!StartJob
  <2>1. CASE Jobs!Exit("error") /\ job' = job
    BY <2>1, ExitKeepsJob DEF Jobs!Results
  <2>2. CASE job' = [job EXCEPT !.status = "processing"] /\ Jobs!Goto("poll")
    <3>1. job \in JobRow /\ cmd.result = None /\ ~cmd.cut
      BY <1>6 DEF Jobs!StartJob, JobInv
    <3>2. job' \in JobRow
      BY <2>2, <3>1 DEF JobRow
    <3>3. JobFields(cmd', "poll", cmd.polls, cmd.cut, cmd.result) /\ run' = run
      BY <1>0, <2>2, JobGoes DEF Jobs!Goto
    <3>4. None # "complete" /\ job' # None
      BY <3>2 DEF Jobs!JobAssumption, JobRow
    <3>5. QED BY <3>1, <3>2, <3>3, <3>4 DEF JobInv, JobFields
  <2>3. QED BY <1>6, <2>1, <2>2 DEF Jobs!StartJob
<1>7. CASE Jobs!Poll
  <2>1. job' = job
    BY <1>7 DEF Jobs!Poll
  <2>2. CASE \E result \in {"error", "timed out", "job failed"} : Jobs!Exit(result)
    BY <2>1, <2>2, ExitKeepsJob DEF Jobs!Results
  <2>3. CASE Jobs!Exit("complete") /\ job.status = "complete"
    <3>1. job # None
      BY <1>7 DEF Jobs!Poll, JobInv
    <3>2. QED BY <2>1, <2>3, <3>1, ExitKeepsJob DEF Jobs!Results
  <2>4. CASE cmd.polls <= Timeout /\ cmd' = [cmd EXCEPT !.polls = cmd.polls + 1]
             /\ UNCHANGED <<objects, run>>
    <3>1. JobFields(cmd', cmd.pc, cmd.polls + 1, cmd.cut, cmd.result)
      BY <1>0, <2>4, JobPolls
    <3>2. QED BY <1>0, <2>1, <2>4, <3>1 DEF JobInv, JobFields
  <2>5. QED BY <1>7, <2>2, <2>3, <2>4 DEF Jobs!Poll
<1>8. CASE Jobs!Import \/ Jobs!Complete \/ Jobs!Fail \/ Jobs!Cancel
  <2>1. job # None /\ job \in JobRow /\ UNCHANGED <<cmd, run>>
    BY <1>8 DEF Jobs!Import, Jobs!Complete, Jobs!Fail, Jobs!Cancel, JobInv
  <2>2. job' \in JobRow /\ (job.status = "complete" => job'.status = "complete")
    BY <1>8, <2>1 DEF Jobs!Import, Jobs!Complete, Jobs!Fail, Jobs!Cancel, JobRow
  <2>3. job' # None
    BY <2>2 DEF Jobs!JobAssumption, JobRow
  <2>4. QED BY <2>1, <2>2, <2>3 DEF JobInv
<1>9. QED BY <1>1, <1>2, <1>3, <1>4, <1>5, <1>6, <1>7, <1>8
          DEF Jobs!Next, Jobs!Client, Jobs!Quiet

LEMMA AlwaysJobs ==
  ASSUME Jobs!JobAssumption
  PROVE  Jobs!Spec => []JobInv
<1>1. Jobs!Init => JobInv
  <2> SUFFICES ASSUME Jobs!Init PROVE JobInv
    OBVIOUS
  <2>1. /\ cmd \in JobCommand /\ cmd.pc = "idle" /\ cmd.polls = 0 /\ cmd.result = None
    BY DEF Jobs!Init, JobCommand, Jobs!Results
  <2>2. job = None /\ run = 0 /\ None # "complete"
    BY DEF Jobs!Init, Jobs!JobAssumption
  <2>3. QED BY <2>1, <2>2 DEF JobInv, Jobs!JobAssumption
<1>2. JobInv /\ [Jobs!Next]_(Jobs!vars) => JobInv'
  BY JobNext
<1>3. QED BY <1>1, <1>2, PTL DEF Jobs!Spec

\* Commands and jobs keep their types, and no command polls longer than its time.
THEOREM JobsTypeCorrect ==
  ASSUME Jobs!JobAssumption
  PROVE  Jobs!Spec => []Jobs!TypeOK
<1>1. JobInv => Jobs!TypeOK
  BY DEF JobInv, JobCommand, JobRow, Jobs!TypeOK, Jobs!JobAssumption
<1>2. QED BY <1>1, AlwaysJobs, PTL

\* A command reports a stored scan only when its job has completed (wait_for_job).
THEOREM CompletedJobsAreStored ==
  ASSUME Jobs!JobAssumption
  PROVE  Jobs!Spec => []Jobs!CompleteIsStored
<1>1. JobInv => Jobs!CompleteIsStored
  BY DEF JobInv, Jobs!CompleteIsStored
<1>2. QED BY <1>1, AlwaysJobs, PTL

\* A job whose upload curl could not make never starts (upload_scan_async).
THEOREM OnlyUploadedJobsStart ==
  ASSUME Jobs!JobAssumption
  PROVE  Jobs!Spec => [][Jobs!StartsOnlyUploaded]_(Jobs!vars)
<1>1. JobInv /\ [Jobs!Next]_(Jobs!vars) => [Jobs!StartsOnlyUploaded]_(Jobs!vars)
  <2> SUFFICES ASSUME JobInv, Jobs!Next, job # None, job.status = "pending",
                      job' # None, job'.status = "processing"
               PROVE  ~cmd.cut
    BY DEF Jobs!StartsOnlyUploaded
  <2>1. job \in JobRow
    BY DEF JobInv
  <2>2. Jobs!StartJob \/ Jobs!CreateJob
    BY <2>1 DEF Jobs!Next, Jobs!Client, Jobs!Quiet, Jobs!vars, Jobs!BeginUpload, Jobs!BeginRemote,
       Jobs!Begin, Jobs!NothingToStore, Jobs!Upload, Jobs!Put, Jobs!Poll, Jobs!Import,
       Jobs!Complete, Jobs!Fail, Jobs!Cancel, JobRow
  <2>3. QED BY <2>2 DEF Jobs!StartJob, Jobs!CreateJob, JobInv
<1>2. QED BY <1>1, AlwaysJobs, PTL DEF Jobs!Spec

----------------------------------------------------------------------------
(* Where layers and packages come from: PackageProvenance.                 *)

CONSTANTS Bases, Target, Rpms, Others, LayerChoices, TargetLayers, NoName
VARIABLES layersOf, home, mode, pc, todo, chain, previous, found, sources, imageLayers,
          trouble, stored

Prov == INSTANCE PackageProvenance

Name == Prov!Images \cup {None, NoName}
Layers == LayerChoices \cup {TargetLayers}
ChainImage == [image : Prov!Images, name : Name, layers : Layers]

ProvTypes ==
  /\ layersOf \in [Prov!Images -> Layers] /\ layersOf[Target] = TargetLayers
  /\ home \in [Prov!Packages -> Prov!ToSet(TargetLayers)]
  /\ pc \in {"info", "discover", "verify", "scan", "store", "done"}
  /\ chain \in Seq(ChainImage)
  /\ found \in [Prov!Packages -> Name]
  /\ sources \in [Prov!Packages -> Name]

\* The target is built on it.
Ancestor(image) ==
  /\ layersOf[image] # <<>> /\ Len(layersOf[image]) <= Len(TargetLayers)
  /\ \A i \in 1 .. Len(layersOf[image]) : layersOf[image][i] = TargetLayers[i]

Named(n) == n \in {None, NoName} \/ (n \in Prov!Images /\ Ancestor(n))

\* Whatever failed, every name there is is that of an ancestor, or none.
NamesSafe ==
  /\ \A p \in Prov!Packages : Named(found[p]) /\ Named(sources[p])
  /\ \A i \in DOMAIN imageLayers : Named(imageLayers[i])
  /\ \A i \in 1 .. Len(chain) : Named(chain[i].name)
  /\ pc = "done" =>
       stored = [sources |-> sources,
                 imageLayers |-> IF mode = "local" THEN imageLayers ELSE <<>>]

LayerCount(i) == Len(chain[i].layers)

\* The chain is of ancestors, and when it is sorted they grow to the target.
ChainGrows ==
  /\ \A i \in 1 .. Len(chain) :
       /\ Ancestor(chain[i].image) /\ chain[i].layers = layersOf[chain[i].image]
       /\ chain[i].name \in {chain[i].image, NoName}
       /\ ~trouble => chain[i].name = chain[i].image
  /\ pc \in {"info", "discover"} => chain = <<>>
  /\ pc = "scan" \/ (pc \in {"store", "done"} /\ chain # <<>>) =>
       /\ chain # <<>> /\ chain[Len(chain)].layers = TargetLayers
       /\ \A i, j \in 1 .. Len(chain) : i <= j => LayerCount(i) <= LayerCount(j)

RpmsOf(i) == Prov!RpmsIn(chain[i].layers)

\* The image of the chain that is the first to have a package.
Brings(k, p) ==
  /\ k \in 1 .. Len(chain) /\ p \in RpmsOf(k)
  /\ \A j \in 1 .. k - 1 : p \notin RpmsOf(j)

\* The bases before the k-th have been compared, each with the one before it.
Compared(k) ==
  /\ todo = k .. Len(chain) - 1
  /\ previous = IF k = 1 THEN {} ELSE RpmsOf(k - 1)
  /\ \A p \in Prov!Packages :
       \/ found[p] # None /\ \E j \in 1 .. k - 1 : Brings(j, p) /\ found[p] = chain[j].name
       \/ found[p] = None /\ \A j \in 1 .. k - 1 : p \notin RpmsOf(j)

\* As long as nothing fails, packages and layers are put down to the first image of
\* the chain that has them.
FirstsFound ==
  ~trouble =>
    /\ pc \in {"info", "discover", "verify"} =>
         found = [p \in Prov!Packages |-> None] /\ previous = {}
    /\ pc = "scan" => \E k \in 1 .. Len(chain) : Compared(k)
    /\ pc \in {"store", "done"} /\ chain # <<>> =>
         /\ \A p \in Rpms : \E k \in 1 .. Len(chain) :
              Brings(k, p) /\ sources[p] = chain[k].name
         /\ imageLayers = [i \in DOMAIN TargetLayers |-> Prov!Introducer(i)]

\* Inductive.
ProvInv ==
  /\ ProvTypes /\ NamesSafe /\ ChainGrows /\ FirstsFound
  /\ pc = "scan" => todo \subseteq 1 .. Len(chain) - 1

LEMMA ProvFacts ==
  ASSUME Prov!ProvenanceAssumption
  PROVE  /\ None \notin Prov!Images /\ NoName \notin Prov!Images
         /\ Target \in Prov!Images
         /\ \A l \in Layers : Len(l) \in Nat /\ DOMAIN l = 1 .. Len(l)
         /\ \A l \in Layers : l \in Seq(Prov!ToSet(l))
<1>1. None \notin Prov!Images /\ NoName \notin Prov!Images /\ Target \in Prov!Images
  BY DEF Prov!ProvenanceAssumption, Prov!Images
<1>2. ASSUME NEW l \in Layers
      PROVE  l \in Seq(Prov!ToSet(l)) /\ Len(l) \in Nat /\ DOMAIN l = 1 .. Len(l)
  <2>1. l \in Seq(Prov!ToSet(l))
    BY DEF Prov!ProvenanceAssumption, Layers
  <2>2. QED BY <2>1
<1>3. QED BY <1>1, <1>2

\* A prefix, place by place.
LEMMA PrefixIs ==
  ASSUME NEW A, NEW B, NEW s \in Seq(A), NEW t \in Seq(B)
  PROVE  Prov!IsPrefix(s, t) <=> Len(s) <= Len(t) /\ \A i \in 1 .. Len(s) : s[i] = t[i]
<1>1. Len(s) \in Nat /\ Len(t) \in Nat /\ DOMAIN s = 1 .. Len(s) /\ DOMAIN t = 1 .. Len(t)
  OBVIOUS
<1>2. SubSeq(s, 1, Len(s)) = [i \in 1 .. Len(s) |-> s[i]]
  BY <1>1
<1>3. SubSeq(t, 1, Len(s)) = [i \in 1 .. Len(s) |-> t[i]]
  BY <1>1
<1>4. QED BY <1>2, <1>3, Zenon DEF Prov!IsPrefix

\* The places up to i when 1 .. n is sorted by c, what compares equal in its order.
UpTo(n, c, i) == {j \in 1 .. n : c[j] < c[i] \/ (c[j] = c[i] /\ j <= i)}

\* They number the places of the sorted sequence.
LEMMA RankedOnce ==
  ASSUME NEW n \in Nat, NEW c \in [1 .. n -> Nat]
  PROVE  /\ \A k \in 1 .. n : \E i \in 1 .. n : Cardinality(UpTo(n, c, i)) = k
         /\ \A i, j \in 1 .. n : Cardinality(UpTo(n, c, i)) <= Cardinality(UpTo(n, c, j))
              => c[i] <= c[j]
<1> DEFINE f == [i \in 1 .. n |-> Cardinality(UpTo(n, c, i))]
<1>1. IsFiniteSet(1 .. n) /\ Cardinality(1 .. n) = n
  <2>1. Cardinality(1 .. n) = IF 1 > n THEN 0 ELSE n - 1 + 1
    BY FS_Interval
  <2>2. IsFiniteSet(1 .. n)
    BY FS_Interval
  <2>3. QED BY <2>1, <2>2
<1>2. ASSUME NEW i \in 1 .. n
      PROVE  /\ IsFiniteSet(UpTo(n, c, i)) /\ Cardinality(UpTo(n, c, i)) \in 1 .. n
             /\ i \in UpTo(n, c, i)
  <2>1. UpTo(n, c, i) \in SUBSET (1 .. n) /\ i \in UpTo(n, c, i)
    BY DEF UpTo
  <2>2. IsFiniteSet(UpTo(n, c, i)) /\ Cardinality(UpTo(n, c, i)) <= n
    BY <1>1, <2>1, FS_Subset
  <2>3. Cardinality(UpTo(n, c, i)) \in Nat
    BY <2>2, FS_CardinalityType
  <2>4. UpTo(n, c, i) # {}
    BY <2>1
  <2>5. Cardinality(UpTo(n, c, i)) # 0
    BY <2>2, <2>4, FS_EmptySet
  <2>6. QED BY <2>1, <2>2, <2>3, <2>5
<1>3. ASSUME NEW i \in 1 .. n, NEW j \in 1 .. n, c[i] < c[j] \/ (c[i] = c[j] /\ i < j)
      PROVE  Cardinality(UpTo(n, c, i)) < Cardinality(UpTo(n, c, j))
  <2>1. UpTo(n, c, i) \subseteq UpTo(n, c, j) \ {j}
    <3>1. ASSUME NEW x \in UpTo(n, c, i) PROVE x \in UpTo(n, c, j) /\ x # j
      <4>1. x \in 1 .. n /\ (c[x] < c[i] \/ (c[x] = c[i] /\ x <= i))
        BY DEF UpTo
      <4>2. c[x] \in Nat /\ c[i] \in Nat /\ c[j] \in Nat
        BY <4>1
      <4>3. (c[x] < c[j] \/ (c[x] = c[j] /\ x <= j)) /\ x # j
        BY <1>3, <4>1, <4>2
      <4>4. QED BY <4>1, <4>3 DEF UpTo
    <3>2. QED BY <3>1
  <2>2. /\ IsFiniteSet(UpTo(n, c, i)) /\ IsFiniteSet(UpTo(n, c, j)) /\ j \in UpTo(n, c, j)
        /\ Cardinality(UpTo(n, c, i)) \in Nat /\ Cardinality(UpTo(n, c, j)) \in Nat
    BY <1>2
  <2>3. /\ IsFiniteSet(UpTo(n, c, j) \ {j})
        /\ Cardinality(UpTo(n, c, j) \ {j}) = Cardinality(UpTo(n, c, j)) - 1
    BY <2>2, FS_RemoveElement
  <2>4. Cardinality(UpTo(n, c, i)) <= Cardinality(UpTo(n, c, j) \ {j})
    BY <2>1, <2>3, FS_Subset
  <2>5. QED BY <2>2, <2>3, <2>4
<1>4. ASSUME NEW i \in 1 .. n, NEW j \in 1 .. n,
             Cardinality(UpTo(n, c, i)) <= Cardinality(UpTo(n, c, j))
      PROVE  c[i] <= c[j]
  <2>1. Cardinality(UpTo(n, c, i)) \in Nat /\ Cardinality(UpTo(n, c, j)) \in Nat
    BY <1>2
  <2>2. c[i] \in Nat /\ c[j] \in Nat
    OBVIOUS
  <2>3. c[j] < c[i] => Cardinality(UpTo(n, c, j)) < Cardinality(UpTo(n, c, i))
    BY <1>3
  <2>4. QED BY <1>4, <2>1, <2>2, <2>3
<1>5. f \in Injection(1 .. n, 1 .. n)
  <2>1. f \in [1 .. n -> 1 .. n]
    BY <1>2
  <2>2. ASSUME NEW i \in 1 .. n, NEW j \in 1 .. n, f[i] = f[j] PROVE i = j
    <3>1. /\ Cardinality(UpTo(n, c, i)) = Cardinality(UpTo(n, c, j))
          /\ Cardinality(UpTo(n, c, i)) \in Nat
      BY <1>2, <2>2
    <3>2. c[i] \in Nat /\ c[j] \in Nat /\ c[i] <= c[j] /\ c[j] <= c[i]
      BY <1>4, <3>1
    <3>3. c[i] = c[j]
      BY <3>2
    <3>4. ~ (i < j) /\ ~ (j < i)
      BY <1>3, <3>1, <3>3
    <3>5. QED BY <3>4
  <2> HIDE DEF f
  <2>3. QED BY <2>1, <2>2 DEF Injection, IsInjective
<1>6. f \in Surjection(1 .. n, 1 .. n)
  <2> HIDE DEF f
  <2>1. QED BY <1>1, <1>5, FS_Injection
<1>7. \A k \in 1 .. n : \E i \in 1 .. n : Cardinality(UpTo(n, c, i)) = k
  BY <1>6 DEF Surjection
<1>8. QED BY <1>4, <1>7

\* What sort returns: the images it was given, by the number of their layers.
LEMMA SortedByCount ==
  ASSUME NEW s \in Seq(ChainImage), \A l \in Layers : Len(l) \in Nat
  PROVE  /\ Prov!ByLayerCount(s) \in Seq(ChainImage)
         /\ Len(Prov!ByLayerCount(s)) = Len(s)
         /\ \A k \in 1 .. Len(s) : \E i \in 1 .. Len(s) : Prov!ByLayerCount(s)[k] = s[i]
         /\ \A k, l \in 1 .. Len(s) : k <= l =>
              Len(Prov!ByLayerCount(s)[k].layers) <= Len(Prov!ByLayerCount(s)[l].layers)
<1> DEFINE n == Len(s)
           c == [i \in 1 .. n |-> Len(s[i].layers)]
           at == [k \in 1 .. n |-> CHOOSE i \in 1 .. n : Cardinality(UpTo(n, c, i)) = k]
           r == Prov!ByLayerCount(s)
<1>1. n \in Nat /\ DOMAIN s = 1 .. n
  OBVIOUS
<1>2. c \in [1 .. n -> Nat]
  BY DEF ChainImage
<1>3. \A i \in 1 .. n : Prov!NotBehind(s, i) = UpTo(n, c, i)
  BY <1>1 DEF Prov!NotBehind, UpTo
<1>4. DOMAIN r = 1 .. n /\ \A k \in 1 .. n : r[k] = s[at[k]]
  <2>1. \A i \in 1 .. n : Prov!Cardinality(Prov!NotBehind(s, i)) = Cardinality(UpTo(n, c, i))
    BY <1>3 DEF Prov!Cardinality, Cardinality
  <2>2. r = [k \in 1 .. n |->
               s[CHOOSE i \in 1 .. n : Prov!Cardinality(Prov!NotBehind(s, i)) = k]]
    <3>1. r = [k \in DOMAIN s |->
                 s[CHOOSE i \in DOMAIN s : Prov!Cardinality(Prov!NotBehind(s, i)) = k]]
      BY DEF Prov!ByLayerCount
    <3> DEFINE d == DOMAIN s
    <3>2. d = 1 .. n
      BY <1>1
    <3>3. r = [k \in d |-> s[CHOOSE i \in d : Prov!Cardinality(Prov!NotBehind(s, i)) = k]]
      BY <3>1
    <3> HIDE DEF d, r, n
    <3>4. QED BY <3>2, <3>3
  <2> HIDE DEF n, c
  <2>3. ASSUME NEW k \in 1 .. n PROVE r[k] = s[at[k]]
    <3>1. at[k] = CHOOSE i \in 1 .. n : Cardinality(UpTo(n, c, i)) = k
      OBVIOUS
    <3>2. (CHOOSE i \in 1 .. n : Prov!Cardinality(Prov!NotBehind(s, i)) = k)
            = CHOOSE i \in 1 .. n : Cardinality(UpTo(n, c, i)) = k
      BY <2>1, Zenon
    <3> HIDE DEF r, at
    <3>3. QED BY <2>2, <3>1, <3>2, Zenon
  <2>4. QED BY <2>2, <2>3
<1>5. \A k \in 1 .. n : at[k] \in 1 .. n /\ Cardinality(UpTo(n, c, at[k])) = k
  <2> HIDE DEF n, c
  <2>1. \A k \in 1 .. n : \E i \in 1 .. n : Cardinality(UpTo(n, c, i)) = k
    BY <1>1, <1>2, RankedOnce
  <2>2. QED BY <2>1
<1>6. \A k, l \in 1 .. n : k <= l => c[at[k]] <= c[at[l]]
  <2> HIDE DEF n, c, at
  <2>1. \A i, j \in 1 .. n : Cardinality(UpTo(n, c, i)) <= Cardinality(UpTo(n, c, j))
              => c[i] <= c[j]
    BY <1>1, <1>2, RankedOnce
  <2>2. QED BY <1>5, <2>1
<1>7. \A k \in 1 .. n : r[k] = s[at[k]] /\ r[k] \in ChainImage
  <2> HIDE DEF at, r, n
  <2>1. ASSUME NEW i \in 1 .. n PROVE s[i] \in ChainImage
    BY <1>1 DEF n
  <2>2. QED BY <1>4, <1>5, <2>1
<1>8. r \in Seq(ChainImage) /\ Len(r) = n
  <2>1. r = [k \in 1 .. n |-> r[k]]
    BY DEF Prov!ByLayerCount
  <2> HIDE DEF r, at, n
  <2>2. QED BY <1>1, <1>7, <2>1
<1>9. \A k \in 1 .. n : c[at[k]] = Len(r[k].layers)
  <2> HIDE DEF r, at
  <2>1. QED BY <1>5, <1>7
<1>10. \A k \in 1 .. n : \E i \in 1 .. n : r[k] = s[i]
  <2> HIDE DEF r, at, n, c
  <2>1. QED BY <1>5, <1>7
<1>11. \A k, l \in 1 .. n : k <= l => Len(r[k].layers) <= Len(r[l].layers)
  <2> HIDE DEF r, at, n, c
  <2>1. QED BY <1>6, <1>9
<1>12. QED BY <1>8, <1>10, <1>11, Zenon

LEMMA InspectionIs ==
  ASSUME NEW image \in Prov!Images, NEW m \in Prov!Inspections(image)
  PROVE  /\ m = [image |-> image, name |-> m.name, layers |-> m.layers]
         /\ m.name \in {image, NoName} /\ m.layers \in {layersOf[image], <<>>}
BY DEF Prov!Inspections

\* An ancestor has the packages of the target's first layers.
LEMMA RpmsOfAncestor ==
  ASSUME Prov!ProvenanceAssumption, ProvTypes, NEW l \in Layers,
         Len(l) <= Len(TargetLayers), \A i \in 1 .. Len(l) : l[i] = TargetLayers[i]
  PROVE  /\ Prov!RpmsIn(l) = {p \in Rpms : home[p] \in Prov!ToSet(l)}
         /\ Prov!RpmsIn(l)
              = {p \in Rpms : \E i \in 1 .. Len(l) : TargetLayers[i] = home[p]}
<1>1. TargetLayers \in Layers
  BY DEF Layers
<1>2. /\ Len(l) \in Nat /\ DOMAIN l = 1 .. Len(l)
      /\ Len(TargetLayers) \in Nat /\ DOMAIN TargetLayers = 1 .. Len(TargetLayers)
  BY <1>1, ProvFacts
<1>3. Prov!ToSet(l) = {TargetLayers[i] : i \in 1 .. Len(l)}
  BY <1>2 DEF Prov!ToSet
<1>4. Prov!ToSet(TargetLayers) = {TargetLayers[i] : i \in 1 .. Len(TargetLayers)}
  BY <1>2 DEF Prov!ToSet
<1>5. Prov!ToSet(l) \subseteq Prov!ToSet(TargetLayers)
  BY <1>2, <1>3, <1>4
<1>6. Prov!RpmsIn(l) = {p \in Rpms : home[p] \in Prov!ToSet(l)}
  BY <1>5 DEF Prov!RpmsIn
<1>7. QED BY <1>3, <1>6

LEMMA ChainImages ==
  ASSUME Prov!ProvenanceAssumption, ProvTypes, ChainGrows, NEW k \in 1 .. Len(chain)
  PROVE  /\ chain[k] \in ChainImage /\ LayerCount(k) \in Nat
         /\ RpmsOf(k) = {p \in Rpms : home[p] \in Prov!ToSet(chain[k].layers)}
         /\ RpmsOf(k)
              = {p \in Rpms : \E i \in 1 .. LayerCount(k) : TargetLayers[i] = home[p]}
<1>1. chain[k] \in ChainImage
  BY DEF ProvTypes
<1>2. /\ Len(chain[k].layers) <= Len(TargetLayers)
      /\ \A i \in 1 .. Len(chain[k].layers) : chain[k].layers[i] = TargetLayers[i]
  BY DEF ChainGrows, Ancestor
<1>3. chain[k].layers \in Layers
  BY <1>1 DEF ChainImage
<1>4. LayerCount(k) \in Nat
  BY <1>3, ProvFacts DEF LayerCount
<1>5. /\ Prov!RpmsIn(chain[k].layers)
           = {p \in Rpms : home[p] \in Prov!ToSet(chain[k].layers)}
      /\ Prov!RpmsIn(chain[k].layers)
           = {p \in Rpms : \E i \in 1 .. Len(chain[k].layers) : TargetLayers[i] = home[p]}
  BY <1>2, <1>3, RpmsOfAncestor
<1>6. QED BY <1>1, <1>4, <1>5 DEF RpmsOf, LayerCount

\* Along the chain there are ever more packages, and all in the target.
LEMMA RpmsGrow ==
  ASSUME Prov!ProvenanceAssumption, ProvTypes, ChainGrows,
         pc = "scan" \/ (pc \in {"store", "done"} /\ chain # <<>>)
  PROVE  /\ \A i, j \in 1 .. Len(chain) : i <= j => RpmsOf(i) \subseteq RpmsOf(j)
         /\ RpmsOf(Len(chain)) = Rpms
<1>1. Len(chain) \in Nat /\ chain # <<>> /\ Len(chain) # 0
  BY DEF ProvTypes, ChainGrows
<1>2. ASSUME NEW i \in 1 .. Len(chain), NEW j \in 1 .. Len(chain), i <= j
      PROVE  RpmsOf(i) \subseteq RpmsOf(j)
  <2>1. LayerCount(i) \in Nat /\ LayerCount(j) \in Nat /\ LayerCount(i) <= LayerCount(j)
    BY <1>2, ChainImages DEF ChainGrows
  <2>2. RpmsOf(i) = {p \in Rpms : \E x \in 1 .. LayerCount(i) : TargetLayers[x] = home[p]}
    BY ChainImages
  <2>3. RpmsOf(j) = {p \in Rpms : \E x \in 1 .. LayerCount(j) : TargetLayers[x] = home[p]}
    BY ChainImages
  <2>4. \A x \in 1 .. LayerCount(i) : x \in 1 .. LayerCount(j)
    BY <2>1
  <2>5. QED BY <2>2, <2>3, <2>4, Zenon
<1>3. RpmsOf(Len(chain)) = Rpms
  <2>1. Len(chain) \in 1 .. Len(chain)
    BY <1>1
  <2>2. RpmsOf(Len(chain))
          = {p \in Rpms : home[p] \in Prov!ToSet(chain[Len(chain)].layers)}
    BY <2>1, ChainImages
  <2>3. chain[Len(chain)].layers = TargetLayers
    BY DEF ChainGrows
  <2>4. \A p \in Rpms : home[p] \in Prov!ToSet(TargetLayers)
    BY DEF ProvTypes, Prov!Packages
  <2>5. QED BY <2>2, <2>3, <2>4
<1>4. QED BY <1>2, <1>3

LEMMA ProvStart == ASSUME Prov!ProvenanceAssumption, Prov!Init PROVE ProvInv
<1>1. ProvTypes
  BY ProvFacts DEF ProvTypes, Prov!Init, Name, Layers
<1>2. NamesSafe
  BY <1>1, ProvFacts DEF NamesSafe, Named, Prov!Init
<1>3. ChainGrows
  BY DEF ChainGrows, Prov!Init
<1>4. FirstsFound
  BY DEF FirstsFound, Prov!Init
<1>5. QED BY <1>1, <1>2, <1>3, <1>4 DEF ProvInv, Prov!Init

\* The images do not change, so a name stays safe.
LEMMA StaySafe ==
  ASSUME layersOf' = layersOf,
         \A p \in Prov!Packages : Named(found'[p]) /\ Named(sources'[p]),
         \A i \in DOMAIN imageLayers' : Named(imageLayers'[i]),
         \A i \in 1 .. Len(chain') : Named(chain'[i].name),
         pc' = "done" =>
           stored' = [sources |-> sources',
                      imageLayers |-> IF mode' = "local" THEN imageLayers' ELSE <<>>]
  PROVE  NamesSafe'
<1>1. \A p \in Prov!Packages : (Named(found[p]) /\ Named(sources[p]))'
  BY DEF Named, Ancestor
<1>2. (\A i \in DOMAIN imageLayers : Named(imageLayers[i]))'
  BY DEF Named, Ancestor
<1>3. (\A i \in 1 .. Len(chain) : Named(chain[i].name))'
  BY DEF Named, Ancestor
<1>4. QED BY <1>1, <1>2, <1>3 DEF NamesSafe

LEMMA ProvLayerInfo ==
  ASSUME Prov!ProvenanceAssumption, ProvInv, NEW m \in Prov!Inspections(Target),
         Prov!LayerInfo(m)
  PROVE  ProvInv'
<1>1. /\ layersOf' = layersOf /\ home' = home /\ mode' = mode /\ chain' = chain
      /\ found' = found /\ previous' = previous /\ chain = <<>>
      /\ pc' \in {"discover", "store"} /\ (~trouble' => ~trouble)
  BY DEF Prov!LayerInfo, Prov!world, Prov!Trouble, ProvInv, ChainGrows
<1>2. m.name \in Name /\ (m.layers # <<>> => Named(m.name))
  <2>1. Target \in Prov!Images
    BY ProvFacts
  <2>2. m.name \in {Target, NoName} /\ m.layers \in {layersOf[Target], <<>>}
    BY <2>1, InspectionIs
  <2>3. layersOf[Target] = TargetLayers
    BY DEF ProvInv, ProvTypes
  <2>4. m.layers # <<>> => Ancestor(Target)
    BY <2>2, <2>3, ProvFacts DEF Ancestor, Layers
  <2>5. QED BY <2>1, <2>2, <2>4 DEF Name, Named
<1>3. sources' \in [Prov!Packages -> Name] /\ \A p \in Prov!Packages : Named(sources'[p])
  BY <1>2 DEF Prov!LayerInfo, ProvInv, ProvTypes, NamesSafe
<1>4. \A i \in DOMAIN imageLayers' : Named(imageLayers'[i])
  BY <1>2 DEF Prov!LayerInfo, ProvInv, NamesSafe
<1>5. ProvTypes'
  BY <1>1, <1>3 DEF ProvInv, ProvTypes
<1>6. NamesSafe'
  <2>1. \A p \in Prov!Packages : Named(found'[p]) /\ Named(sources'[p])
    BY <1>1, <1>3 DEF ProvInv, NamesSafe
  <2>2. \A i \in 1 .. Len(chain') : Named(chain'[i].name)
    BY <1>1
  <2>3. QED BY <1>1, <1>4, <2>1, <2>2, StaySafe
<1>7. ChainGrows'
  BY <1>1 DEF ChainGrows
<1>8. FirstsFound'
  BY <1>1 DEF FirstsFound, ProvInv, Prov!LayerInfo
<1>9. QED BY <1>1, <1>5, <1>6, <1>7, <1>8 DEF ProvInv

LEMMA ProvDiscover ==
  ASSUME Prov!ProvenanceAssumption, ProvInv, NEW candidates \in SUBSET Prov!Images,
         NEW m \in Prov!Inspections(Target), Prov!Discover(candidates, m)
  PROVE  ProvInv'
<1>1. /\ layersOf' = layersOf /\ home' = home /\ mode' = mode /\ chain' = chain
      /\ found' = found /\ previous' = previous /\ chain = <<>>
      /\ sources' = sources /\ imageLayers' = imageLayers
      /\ pc = "discover" /\ pc' \in {"verify", "store"} /\ (~trouble' => ~trouble)
  BY DEF Prov!Discover, Prov!world, ProvInv, ChainGrows
<1>2. ProvTypes'
  BY <1>1 DEF ProvInv, ProvTypes
<1>3. NamesSafe'
  <2>1. /\ \A p \in Prov!Packages : Named(found'[p]) /\ Named(sources'[p])
        /\ \A i \in DOMAIN imageLayers' : Named(imageLayers'[i])
        /\ \A i \in 1 .. Len(chain') : Named(chain'[i].name)
    BY <1>1 DEF ProvInv, NamesSafe
  <2>2. QED BY <1>1, <2>1, StaySafe
<1>4. ChainGrows'
  BY <1>1 DEF ChainGrows
<1>5. FirstsFound'
  BY <1>1 DEF FirstsFound, ProvInv
<1>6. QED BY <1>1, <1>2, <1>3, <1>4, <1>5 DEF ProvInv

\* What is appended to the chain is an ancestor, with its own name unless the labels
\* could not be read.
LEMMA AncestorInspected ==
  ASSUME Prov!ProvenanceAssumption, ProvInv, NEW c \in Prov!Images,
         NEW m \in Prov!Inspections(c), m.layers # <<>>, Ancestor(c), Prov!Trouble(m)
  PROVE  /\ m \in ChainImage /\ Named(m.name) /\ m.image = c /\ m.layers = layersOf[c]
         /\ m.name \in {c, NoName} /\ (~trouble' => m.name = c /\ ~trouble)
<1>1. /\ m = [image |-> c, name |-> m.name, layers |-> m.layers]
      /\ m.name \in {c, NoName} /\ m.layers \in {layersOf[c], <<>>}
  BY InspectionIs
<1>2. m.image = c /\ m.layers = layersOf[c] /\ m.name \in Name /\ Named(m.name)
  BY <1>1 DEF Name, Named
<1>3. layersOf[c] \in Layers
  BY DEF ProvInv, ProvTypes
<1>4. m \in ChainImage
  BY <1>1, <1>2, <1>3 DEF ChainImage
<1>5. ~trouble' => m.name = c /\ ~trouble
  BY <1>1 DEF Prov!Trouble
<1>6. QED BY <1>1, <1>2, <1>4, <1>5

LEMMA BasesAreAncestors ==
  ASSUME Prov!ProvenanceAssumption, ProvTypes, NEW c \in Prov!Images,
         Prov!IsBase(layersOf[c])
  PROVE  Ancestor(c)
<1>1. layersOf[c] \in Layers /\ TargetLayers \in Layers
  BY DEF ProvTypes, Layers
<1>2. /\ layersOf[c] \in Seq(Prov!ToSet(layersOf[c]))
      /\ TargetLayers \in Seq(Prov!ToSet(TargetLayers))
  BY <1>1, ProvFacts
<1>3. Prov!IsPrefix(layersOf[c], TargetLayers) /\ layersOf[c] # <<>>
  BY DEF Prov!IsBase
<1>4. /\ Len(layersOf[c]) <= Len(TargetLayers)
      /\ \A i \in 1 .. Len(layersOf[c]) : layersOf[c][i] = TargetLayers[i]
  BY <1>2, <1>3, PrefixIs
<1>5. QED BY <1>3, <1>4 DEF Ancestor

LEMMA ProvVerify ==
  ASSUME Prov!ProvenanceAssumption, ProvInv, NEW c \in Prov!Images,
         NEW m \in Prov!Inspections(c), Prov!Verify(c, m)
  PROVE  ProvInv'
<1>1. /\ layersOf' = layersOf /\ home' = home /\ mode' = mode
      /\ found' = found /\ previous' = previous
      /\ sources' = sources /\ imageLayers' = imageLayers
      /\ pc = "verify" /\ pc' = "verify" /\ (~trouble' => ~trouble)
      /\ chain' = (IF Prov!IsBase(m.layers) THEN Append(chain, m) ELSE chain)
  BY DEF Prov!Verify, Prov!world, Prov!Trouble
<1>2. CASE ~ Prov!IsBase(m.layers)
  <2>1. chain' = chain
    BY <1>1, <1>2
  <2>2. ProvTypes'
    BY <1>1, <2>1 DEF ProvInv, ProvTypes
  <2>3. NamesSafe'
    <3>1. /\ \A p \in Prov!Packages : Named(found'[p]) /\ Named(sources'[p])
          /\ \A i \in DOMAIN imageLayers' : Named(imageLayers'[i])
          /\ \A i \in 1 .. Len(chain') : Named(chain'[i].name)
      BY <1>1, <2>1 DEF ProvInv, NamesSafe
    <3>2. QED BY <1>1, <3>1, StaySafe
  <2>4. ChainGrows'
    BY <1>1, <2>1 DEF ChainGrows, ProvInv, Ancestor
  <2>5. FirstsFound'
    BY <1>1 DEF FirstsFound, ProvInv
  <2>6. QED BY <1>1, <2>2, <2>3, <2>4, <2>5 DEF ProvInv
<1>3. CASE Prov!IsBase(m.layers)
  <2>1. m.layers # <<>> /\ m.layers = layersOf[c] /\ Ancestor(c)
    <3>1. m.layers # <<>>
      BY <1>3 DEF Prov!IsBase
    <3>2. m.layers = layersOf[c]
      BY <3>1, InspectionIs
    <3>3. QED BY <1>3, <3>1, <3>2, BasesAreAncestors DEF ProvInv
  <2>2. /\ m \in ChainImage /\ Named(m.name) /\ m.image = c /\ m.layers = layersOf[c]
        /\ m.name \in {c, NoName} /\ (~trouble' => m.name = c /\ ~trouble)
    <3>1. Prov!Trouble(m)
      BY DEF Prov!Verify
    <3>2. QED BY <2>1, <3>1, AncestorInspected
  <2> DEFINE n == Len(chain)
  <2>3. chain \in Seq(ChainImage) /\ n \in Nat
    BY DEF ProvInv, ProvTypes
  <2>4. /\ chain' \in Seq(ChainImage) /\ Len(chain') = n + 1 /\ chain'[n + 1] = m
        /\ \A i \in 1 .. n : chain'[i] = chain[i]
    BY <1>1, <1>3, <2>2, <2>3
  <2> HIDE DEF n
  <2>5. \A i \in 1 .. n + 1 : i = n + 1 \/ i \in 1 .. n
    BY <2>3
  <2>6. ProvTypes'
    BY <1>1, <2>4 DEF ProvInv, ProvTypes
  <2>7. NamesSafe'
    <3>1. /\ \A p \in Prov!Packages : Named(found'[p]) /\ Named(sources'[p])
          /\ \A i \in DOMAIN imageLayers' : Named(imageLayers'[i])
      BY <1>1 DEF ProvInv, NamesSafe
    <3>2. \A i \in 1 .. n : Named(chain[i].name)
      BY DEF ProvInv, NamesSafe, n
    <3>3. \A i \in 1 .. Len(chain') : Named(chain'[i].name)
      BY <2>2, <2>4, <2>5, <3>2
    <3>4. QED BY <1>1, <3>1, <3>3, StaySafe
  <2>8. ChainGrows'
    <3>1. \A i \in 1 .. n :
            /\ Ancestor(chain[i].image) /\ chain[i].layers = layersOf[chain[i].image]
            /\ chain[i].name \in {chain[i].image, NoName}
            /\ ~trouble => chain[i].name = chain[i].image
      BY DEF ProvInv, ChainGrows, n
    <3>2. \A i \in 1 .. Len(chain') :
            /\ Ancestor(chain'[i].image) /\ chain'[i].layers = layersOf[chain'[i].image]
            /\ chain'[i].name \in {chain'[i].image, NoName}
            /\ ~trouble' => chain'[i].name = chain'[i].image
      BY <1>1, <2>1, <2>2, <2>4, <2>5, <3>1
    <3>3. \A i \in 1 .. Len(chain') : (Ancestor(chain[i].image))'
      BY <1>1, <3>2 DEF Ancestor
    <3>4. QED BY <1>1, <3>2, <3>3 DEF ChainGrows
  <2>9. FirstsFound'
    BY <1>1 DEF FirstsFound, ProvInv
  <2>10. QED BY <1>1, <2>6, <2>7, <2>8, <2>9 DEF ProvInv
<1>4. QED BY <1>2, <1>3

\* A step that leaves the names alone and ends without a chain.
LEMMA WithoutChain ==
  ASSUME ProvInv, layersOf' = layersOf, home' = home, mode' = mode, found' = found,
         sources' = sources, imageLayers' = imageLayers, pc' = "store", chain' = <<>>
  PROVE  ProvInv'
<1>1. chain' \in Seq(ChainImage) /\ Len(chain') = 0
  OBVIOUS
<1>2. ProvTypes'
  BY <1>1 DEF ProvInv, ProvTypes
<1>3. NamesSafe'
  <2>1. /\ \A p \in Prov!Packages : Named(found'[p]) /\ Named(sources'[p])
        /\ \A i \in DOMAIN imageLayers' : Named(imageLayers'[i])
    BY DEF ProvInv, NamesSafe
  <2>2. \A i \in 1 .. Len(chain') : Named(chain'[i].name)
    BY <1>1
  <2>3. QED BY <2>1, <2>2, StaySafe
<1>4. ChainGrows'
  BY <1>1 DEF ChainGrows
<1>5. FirstsFound'
  BY DEF FirstsFound
<1>6. QED BY <1>2, <1>3, <1>4, <1>5 DEF ProvInv

LEMMA ProvSortChain ==
  ASSUME Prov!ProvenanceAssumption, ProvInv, NEW m \in Prov!Inspections(Target),
         Prov!SortChain(m)
  PROVE  ProvInv'
<1>1. /\ layersOf' = layersOf /\ home' = home /\ mode' = mode
      /\ found' = found /\ previous' = previous
      /\ sources' = sources /\ imageLayers' = imageLayers
      /\ pc = "verify" /\ (~trouble' => ~trouble)
  BY DEF Prov!SortChain, Prov!world, Prov!Trouble
<1>2. CASE chain = <<>>
  <2>1. pc' = "store" /\ chain' = <<>>
    BY <1>2 DEF Prov!SortChain
  <2>2. QED BY <1>1, <2>1, WithoutChain
<1>3. CASE chain # <<>>
  <2> DEFINE n == Len(chain)
             sorted == Prov!ByLayerCount(chain)
  <2>1. /\ pc' = "scan" /\ chain' = Append(sorted, m)
        /\ todo' = DOMAIN chain /\ m.layers # <<>> /\ Prov!Trouble(m)
    BY <1>3 DEF Prov!SortChain
  <2>2. chain \in Seq(ChainImage) /\ n \in Nat /\ n # 0 /\ DOMAIN chain = 1 .. n
    BY <1>3 DEF ProvInv, ProvTypes
  <2>3. Target \in Prov!Images /\ layersOf[Target] = TargetLayers /\ Ancestor(Target)
    <3>1. Target \in Prov!Images /\ layersOf[Target] = TargetLayers
      BY ProvFacts DEF ProvInv, ProvTypes
    <3>2. m.layers = layersOf[Target]
      BY <2>1, <3>1, InspectionIs
    <3>3. TargetLayers # <<>> /\ Len(TargetLayers) \in Nat
      BY <2>1, <3>1, <3>2, ProvFacts DEF Layers
    <3>4. QED BY <3>1, <3>3 DEF Ancestor
  <2>4. /\ m \in ChainImage /\ Named(m.name) /\ m.image = Target /\ m.layers = TargetLayers
        /\ m.name \in {Target, NoName} /\ (~trouble' => m.name = Target /\ ~trouble)
    BY <2>1, <2>3, AncestorInspected
  <2>5. /\ sorted \in Seq(ChainImage) /\ Len(sorted) = n
        /\ \A k \in 1 .. n : \E i \in 1 .. n : sorted[k] = chain[i]
        /\ \A k, l \in 1 .. n : k <= l => Len(sorted[k].layers) <= Len(sorted[l].layers)
    <3>1. \A l \in Layers : Len(l) \in Nat
      BY ProvFacts
    <3>2. QED BY <2>2, <3>1, SortedByCount
  <2> HIDE DEF sorted
  <2>6. /\ chain' \in Seq(ChainImage) /\ Len(chain') = n + 1 /\ chain'[n + 1] = m
        /\ \A i \in 1 .. n : chain'[i] = sorted[i]
    BY <2>1, <2>2, <2>4, <2>5
  <2>7. \A i \in 1 .. n : \E j \in 1 .. n : chain'[i] = chain[j]
    BY <2>5, <2>6
  <2> HIDE DEF n
  <2>8. \A i \in 1 .. n + 1 : i = n + 1 \/ i \in 1 .. n
    BY <2>2
  <2>9. ProvTypes'
    BY <1>1, <2>1, <2>6 DEF ProvInv, ProvTypes
  <2>10. NamesSafe'
    <3>1. /\ \A p \in Prov!Packages : Named(found'[p]) /\ Named(sources'[p])
          /\ \A i \in DOMAIN imageLayers' : Named(imageLayers'[i])
      BY <1>1 DEF ProvInv, NamesSafe
    <3>2. \A i \in 1 .. n : Named(chain[i].name)
      BY DEF ProvInv, NamesSafe, n
    <3>3. \A i \in 1 .. Len(chain') : Named(chain'[i].name)
      BY <2>4, <2>6, <2>7, <2>8, <3>2
    <3>4. QED BY <1>1, <2>1, <3>1, <3>3, StaySafe
  <2>11. \A i \in 1 .. Len(chain') :
           /\ Ancestor(chain'[i].image) /\ chain'[i].layers = layersOf[chain'[i].image]
           /\ chain'[i].name \in {chain'[i].image, NoName}
           /\ ~trouble' => chain'[i].name = chain'[i].image
    <3>1. \A i \in 1 .. n :
            /\ Ancestor(chain[i].image) /\ chain[i].layers = layersOf[chain[i].image]
            /\ chain[i].name \in {chain[i].image, NoName}
            /\ ~trouble => chain[i].name = chain[i].image
      BY DEF ProvInv, ChainGrows, n
    <3> DEFINE OfAncestor(e) ==
          /\ Ancestor(e.image) /\ e.layers = layersOf[e.image]
          /\ e.name \in {e.image, NoName} /\ (~trouble' => e.name = e.image)
    <3>2. \A i \in 1 .. n : OfAncestor(chain[i])
      BY <1>1, <3>1
    <3>3. OfAncestor(m)
      BY <2>3, <2>4
    <3> HIDE DEF OfAncestor
    <3>4. \A i \in 1 .. n + 1 : OfAncestor(chain'[i])
      BY <2>6, <2>7, <2>8, <3>2, <3>3
    <3>5. QED BY <2>6, <3>4 DEF OfAncestor
  <2>12. \A i, j \in 1 .. Len(chain') : i <= j =>
            Len(chain'[i].layers) <= Len(chain'[j].layers)
    <3>1. ASSUME NEW i \in 1 .. n + 1, NEW j \in 1 .. n + 1, i <= j
          PROVE  Len(chain'[i].layers) <= Len(chain'[j].layers)
      <4>1. CASE j \in 1 .. n
        <5>1. i \in 1 .. n
          BY <2>2, <3>1, <4>1
        <5>2. QED BY <2>5, <2>6, <3>1, <4>1, <5>1
      <4>2. CASE j = n + 1
        <5>1. Ancestor(chain'[i].image) /\ chain'[i].layers = layersOf[chain'[i].image]
          BY <2>6, <2>11
        <5>2. Len(chain'[i].layers) <= Len(TargetLayers)
          BY <5>1 DEF Ancestor
        <5>3. chain'[j].layers = TargetLayers
          BY <2>4, <2>6, <4>2
        <5>4. QED BY <5>2, <5>3
      <4>3. QED BY <2>8, <4>1, <4>2
    <3>2. QED BY <2>6, <3>1
  <2>13. ChainGrows'
    <3>1. \A i \in 1 .. Len(chain') : (Ancestor(chain[i].image))'
      BY <1>1, <2>11 DEF Ancestor
    <3>2. \A i, j \in 1 .. Len(chain') : i <= j => (LayerCount(i) <= LayerCount(j))'
      BY <2>12 DEF LayerCount
    <3>3. chain' # <<>> /\ chain'[Len(chain')].layers = TargetLayers
      BY <2>2, <2>4, <2>6
    <3>4. QED BY <1>1, <2>1, <2>11, <3>1, <3>2, <3>3 DEF ChainGrows
  <2>14. todo' = 1 .. Len(chain') - 1
    BY <2>1, <2>2, <2>6
  <2>15. FirstsFound'
    <3>1. SUFFICES ASSUME ~trouble' PROVE \E k \in 1 .. Len(chain') : Compared(k)'
      BY <2>1 DEF FirstsFound
    <3>2. found' = [p \in Prov!Packages |-> None] /\ previous' = {}
      BY <1>1, <3>1 DEF ProvInv, FirstsFound
    <3>3. 1 \in 1 .. Len(chain')
      BY <2>2, <2>6
    <3>4. Compared(1)'
      BY <2>14, <3>2 DEF Compared
    <3>5. QED BY <3>3, <3>4
  <2>16. QED BY <2>9, <2>10, <2>13, <2>14, <2>15 DEF ProvInv
<1>4. QED BY <1>2, <1>3

LEMMA ProvChainFails ==
  ASSUME ProvInv, Prov!ChainFails PROVE ProvInv'
<1>1. /\ layersOf' = layersOf /\ home' = home /\ mode' = mode /\ found' = found
      /\ sources' = sources /\ imageLayers' = imageLayers /\ pc' = "store" /\ chain' = <<>>
  BY DEF Prov!ChainFails, Prov!world
<1>2. QED BY <1>1, WithoutChain

LEMMA ProvScanBase ==
  ASSUME Prov!ProvenanceAssumption, ProvInv, NEW i \in todo, Prov!ScanBase(i)
  PROVE  ProvInv'
<1>1. /\ layersOf' = layersOf /\ home' = home /\ mode' = mode
      /\ pc = "scan" /\ pc' = "scan" /\ chain' = chain /\ trouble' = trouble
      /\ sources' = sources /\ imageLayers' = imageLayers
      /\ todo' = todo \ {i} /\ previous' = RpmsOf(i)
      /\ found' = [p \in Prov!Packages |->
                     IF p \in RpmsOf(i) \ previous THEN chain[i].name ELSE found[p]]
  BY DEF Prov!ScanBase, Prov!world, RpmsOf
<1> DEFINE n == Len(chain)
<1>2. /\ n \in Nat /\ i \in 1 .. n - 1 /\ i \in 1 .. n /\ chain[i] \in ChainImage
      /\ chain[i].name \in Name /\ Named(chain[i].name)
  <2>1. todo \subseteq 1 .. n - 1 /\ n \in Nat
    BY <1>1 DEF ProvInv, ProvTypes
  <2>2. i \in 1 .. n - 1 /\ i \in 1 .. n
    BY <2>1
  <2>3. chain[i] \in ChainImage
    BY <2>2 DEF ProvInv, ProvTypes
  <2>4. QED BY <2>1, <2>2, <2>3 DEF ChainImage, ProvInv, NamesSafe
<1>3. ProvTypes'
  BY <1>1, <1>2 DEF ProvInv, ProvTypes
<1>4. NamesSafe'
  <2>1. /\ \A p \in Prov!Packages : Named(found[p]) /\ Named(sources[p])
        /\ \A x \in DOMAIN imageLayers : Named(imageLayers[x])
        /\ \A x \in 1 .. Len(chain) : Named(chain[x].name)
    BY DEF ProvInv, NamesSafe
  <2>2. \A p \in Prov!Packages : Named(found'[p]) /\ Named(sources'[p])
    BY <1>1, <1>2, <2>1
  <2>3. /\ \A x \in DOMAIN imageLayers' : Named(imageLayers'[x])
        /\ \A x \in 1 .. Len(chain') : Named(chain'[x].name)
    BY <1>1, <2>1
  <2>4. QED BY <1>1, <2>2, <2>3, StaySafe
<1>5. ChainGrows'
  BY <1>1 DEF ChainGrows, ProvInv, Ancestor, LayerCount
<1>6. FirstsFound'
  <2>1. SUFFICES ASSUME ~trouble PROVE \E k \in 1 .. n : Compared(k)'
    BY <1>1 DEF FirstsFound
  <2>2. PICK k \in 1 .. n : Compared(k)
    BY <1>1, <2>1 DEF ProvInv, FirstsFound
  <2>3. i = k /\ k \in 1 .. n - 1
    <3>1. todo = k .. n - 1 /\ \A j \in todo : i <= j
      BY <2>2 DEF Compared, Prov!ScanBase, Prov!NextBase
    <3>2. k \in todo
      BY <1>2, <2>2, <3>1
    <3>3. i <= k /\ k <= i
      BY <1>2, <3>1, <3>2
    <3>4. QED BY <1>2, <3>3
  <2>4. \A j \in 1 .. k - 1 : j \in 1 .. n /\ RpmsOf(j) \subseteq RpmsOf(k)
    <3>1. \A x, y \in 1 .. n : x <= y => RpmsOf(x) \subseteq RpmsOf(y)
      BY <1>1, RpmsGrow DEF ProvInv
    <3>2. \A j \in 1 .. k - 1 : j \in 1 .. n /\ j <= k
      BY <1>2, <2>2
    <3>3. QED BY <2>2, <3>1, <3>2
  <2>5. \A j \in 1 .. k - 1 : RpmsOf(j) \subseteq previous
    <3>1. \A x, y \in 1 .. n : x <= y => RpmsOf(x) \subseteq RpmsOf(y)
      BY <1>1, RpmsGrow DEF ProvInv
    <3>2. \A j \in 1 .. k - 1 : j \in 1 .. n /\ k - 1 \in 1 .. n /\ j <= k - 1 /\ k # 1
      BY <1>2, <2>2
    <3>3. previous = IF k = 1 THEN {} ELSE RpmsOf(k - 1)
      BY <2>2 DEF Compared
    <3>4. QED BY <3>1, <3>2, <3>3
  <2>6. chain[k].name # None
    BY <1>2, <2>1, <2>3, ProvFacts DEF ProvInv, ChainGrows, ChainImage
  <2>7. \A j \in 1 .. k : j = k \/ j \in 1 .. k - 1
    BY <2>2
  <2>8. k \in 1 .. k /\ \A j \in 1 .. k - 1 : j \in 1 .. k
    BY <2>2
  <2>9. ASSUME NEW p \in Prov!Packages
        PROVE  \/ found'[p] # None
                    /\ \E j \in 1 .. k : Brings(j, p) /\ found'[p] = chain[j].name
               \/ found'[p] = None /\ \A j \in 1 .. k : p \notin RpmsOf(j)
    <3>1. \/ found[p] # None
               /\ \E j \in 1 .. k - 1 : Brings(j, p) /\ found[p] = chain[j].name
          \/ found[p] = None /\ \A j \in 1 .. k - 1 : p \notin RpmsOf(j)
      BY <2>2 DEF Compared
    <3>2. CASE p \in RpmsOf(k) \ previous
      <4>1. found'[p] = chain[k].name
        BY <1>1, <2>3, <3>2
      <4>2. \A j \in 1 .. k - 1 : p \notin RpmsOf(j)
        BY <2>5, <3>2
      <4>3. Brings(k, p)
        BY <2>2, <3>2, <4>2 DEF Brings
      <4>4. QED BY <2>6, <2>8, <4>1, <4>3
    <3>3. CASE p \notin RpmsOf(k) \ previous
      <4>1. found'[p] = found[p]
        BY <1>1, <2>3, <3>3
      <4>2. CASE found[p] # None
        BY <2>8, <3>1, <4>1, <4>2
      <4>3. CASE found[p] = None
        <5>1. \A j \in 1 .. k - 1 : p \notin RpmsOf(j)
          BY <3>1, <4>3
        <5>2. p \notin previous
          <6>1. CASE k = 1
            BY <2>2, <6>1 DEF Compared
          <6>2. CASE k # 1
            <7>1. k - 1 \in 1 .. k - 1
              BY <2>2, <6>2
            <7>2. previous = RpmsOf(k - 1)
              BY <2>2, <6>2 DEF Compared
            <7>3. QED BY <5>1, <7>1, <7>2
          <6>3. QED BY <6>1, <6>2
        <5>3. p \notin RpmsOf(k)
          BY <3>3, <5>2
        <5>4. QED BY <2>7, <4>1, <4>3, <5>1, <5>3
      <4>4. QED BY <4>2, <4>3
    <3>4. QED BY <3>2, <3>3
  <2>10. Compared(k + 1)'
    <3>1. todo' = k + 1 .. n - 1
      BY <1>1, <1>2, <2>2, <2>3 DEF Compared
    <3>2. k + 1 # 1 /\ k + 1 - 1 = k
      BY <2>2
    <3>3. \A j, p : Brings(j, p)' <=> Brings(j, p)
      BY <1>1 DEF Brings, RpmsOf, Prov!RpmsIn
    <3>4. \A j : RpmsOf(j)' = RpmsOf(j)
      BY <1>1 DEF RpmsOf, Prov!RpmsIn
    <3>5. \A p \in Prov!Packages :
            \/ found'[p] # None
                 /\ \E j \in 1 .. k : Brings(j, p)' /\ found'[p] = chain'[j].name
            \/ found'[p] = None /\ \A j \in 1 .. k : p \notin RpmsOf(j)'
      BY <1>1, <2>9, <3>3, <3>4
    <3>6. previous' = RpmsOf(k)'
      BY <1>1, <2>3, <3>4
    <3>7. QED BY <1>1, <3>1, <3>2, <3>5, <3>6 DEF Compared
  <2>11. k + 1 \in 1 .. n
    BY <1>2, <2>3
  <2>12. QED BY <2>10, <2>11
<1>7. todo' \subseteq 1 .. Len(chain') - 1
  BY <1>1 DEF ProvInv
<1>8. QED BY <1>3, <1>4, <1>5, <1>6, <1>7 DEF ProvInv

LEMMA ProvScanBaseFails ==
  ASSUME Prov!ProvenanceAssumption, ProvInv, NEW i \in todo, Prov!ScanBaseFails(i)
  PROVE  ProvInv'
<1>1. /\ layersOf' = layersOf /\ home' = home /\ mode' = mode
      /\ pc = "scan" /\ pc' = "scan" /\ chain' = chain /\ trouble' = TRUE
      /\ sources' = sources /\ imageLayers' = imageLayers /\ found' = found
      /\ todo' = todo \ {i}
  BY DEF Prov!ScanBaseFails, Prov!world
<1>2. ProvTypes'
  BY <1>1 DEF ProvInv, ProvTypes
<1>3. NamesSafe'
  <2>1. /\ \A p \in Prov!Packages : Named(found'[p]) /\ Named(sources'[p])
        /\ \A x \in DOMAIN imageLayers' : Named(imageLayers'[x])
        /\ \A x \in 1 .. Len(chain') : Named(chain'[x].name)
    BY <1>1 DEF ProvInv, NamesSafe
  <2>2. QED BY <1>1, <2>1, StaySafe
<1>4. ChainGrows'
  BY <1>1 DEF ChainGrows, ProvInv, Ancestor, LayerCount
<1>5. FirstsFound'
  BY <1>1 DEF FirstsFound
<1>6. QED BY <1>1, <1>2, <1>3, <1>4, <1>5 DEF ProvInv

LEMMA LeastNatural ==
  ASSUME NEW T \in SUBSET Nat, T # {}
  PROVE  \E x \in T : \A y \in T : x <= y
<1>1. PICK x \in T : \A y \in T : ~ (<<y, x>> \in OpToRel(<, Nat))
  <2>1. \E x \in T : \A y \in T : ~ (<<y, x>> \in OpToRel(<, Nat))
    BY WFMin, NatLessThanWellFounded
  <2>2. QED BY <2>1
<1>2. ASSUME NEW y \in T PROVE ~ (y < x)
  BY <1>1 DEF OpToRel
<1>3. QED BY <1>2

\* The introducer of a layer is the first image of the chain with so many layers.
LEMMA IntroducerIs ==
  ASSUME Prov!ProvenanceAssumption, ProvTypes, ChainGrows, NEW i \in 1 .. Len(TargetLayers),
         pc = "scan" \/ (pc \in {"store", "done"} /\ chain # <<>>)
  PROVE  \E k \in 1 .. Len(chain) :
           /\ Prov!Introducer(i) = chain[k].name /\ i <= LayerCount(k)
           /\ \A j \in 1 .. Len(chain) : i <= LayerCount(j) => k <= j
<1> DEFINE n == Len(chain)
           T == Prov!LongEnough(i)
           k == CHOOSE x \in T : \A y \in T : x <= y
<1>1. n \in Nat /\ n # 0 /\ DOMAIN chain = 1 .. n
  BY DEF ProvTypes, ChainGrows
<1>2. T = {x \in 1 .. n : LayerCount(x) >= i}
  BY <1>1 DEF Prov!LongEnough, LayerCount
<1>3. \A x \in 1 .. n : LayerCount(x) \in Nat
  BY ChainImages
<1>4. LayerCount(n) = Len(TargetLayers) /\ Len(TargetLayers) \in Nat
  <2>1. LayerCount(n) = Len(TargetLayers)
    BY DEF LayerCount, ChainGrows
  <2>2. n \in 1 .. n
    BY <1>1
  <2>3. QED BY <1>3, <2>1, <2>2
<1> HIDE DEF n
<1>5. T \in SUBSET Nat /\ T # {}
  <2>1. n \in T
    BY <1>1, <1>2, <1>4
  <2>2. QED BY <1>1, <1>2, <2>1
<1> HIDE DEF T
<1>6. k \in T /\ \A y \in T : k <= y
  <2>1. \E x \in T : \A y \in T : x <= y
    BY <1>5, LeastNatural
  <2>2. QED BY <2>1
<1>7. Prov!Introducer(i) = chain[k].name
  BY DEF Prov!Introducer, T
<1> HIDE DEF k
<1>8. k \in 1 .. n /\ i <= LayerCount(k)
  BY <1>2, <1>3, <1>6
<1>9. \A j \in 1 .. n : i <= LayerCount(j) => k <= j
  BY <1>2, <1>3, <1>6
<1>10. QED BY <1>7, <1>8, <1>9 DEF n

LEMMA ProvAttribute ==
  ASSUME Prov!ProvenanceAssumption, ProvInv, Prov!Attribute PROVE ProvInv'
<1> DEFINE n == Len(chain)
<1>1. /\ layersOf' = layersOf /\ home' = home /\ mode' = mode
      /\ pc = "scan" /\ todo = {} /\ pc' = "store" /\ chain' = chain /\ trouble' = trouble
      /\ found' = found
      /\ sources' = [p \in Prov!Packages |->
                       IF found[p] = None THEN chain[n].name ELSE found[p]]
      /\ imageLayers' = [i \in DOMAIN chain[n].layers |-> Prov!Introducer(i)]
  BY DEF Prov!Attribute, Prov!world, Prov!Last
<1>2. n \in Nat /\ n # 0 /\ n \in 1 .. n
  BY <1>1 DEF ProvInv, ProvTypes, ChainGrows
<1>3. chain[n].layers = TargetLayers
  BY <1>1 DEF ProvInv, ChainGrows
<1>4. Len(TargetLayers) \in Nat /\ DOMAIN TargetLayers = 1 .. Len(TargetLayers)
  BY ProvFacts DEF Layers
<1>5. chain[n].name \in Name /\ Named(chain[n].name)
  <2>1. chain[n] \in ChainImage
    BY <1>2 DEF ProvInv, ProvTypes
  <2>2. QED BY <1>2, <2>1 DEF ChainImage, ProvInv, NamesSafe
<1>6. ProvTypes'
  BY <1>1, <1>5 DEF ProvInv, ProvTypes
<1>7. NamesSafe'
  <2>1. \A p \in Prov!Packages : Named(found'[p]) /\ Named(sources'[p])
    BY <1>1, <1>5 DEF ProvInv, NamesSafe
  <2>2. \A i \in 1 .. n : Named(chain[i].name)
    BY DEF ProvInv, NamesSafe
  <2>3. ASSUME NEW i \in DOMAIN imageLayers' PROVE Named(imageLayers'[i])
    <3>1. i \in 1 .. Len(TargetLayers) /\ imageLayers'[i] = Prov!Introducer(i)
      BY <1>1, <1>3, <1>4, <2>3
    <3>2. \E k \in 1 .. n : Prov!Introducer(i) = chain[k].name
      BY <1>1, <3>1, IntroducerIs DEF ProvInv
    <3>3. QED BY <2>2, <3>1, <3>2
  <2>4. QED BY <1>1, <2>1, <2>2, <2>3, StaySafe
<1>8. ChainGrows'
  BY <1>1 DEF ChainGrows, ProvInv, Ancestor, LayerCount
<1>9. FirstsFound'
  <2>1. SUFFICES ASSUME ~trouble
                 PROVE  /\ \A p \in Rpms : \E k \in 1 .. n :
                             Brings(k, p)' /\ sources'[p] = chain[k].name
                        /\ imageLayers' = [i \in DOMAIN TargetLayers |-> Prov!Introducer(i)']
    BY <1>1 DEF FirstsFound
  <2>2. PICK k \in 1 .. n : Compared(k)
    BY <1>1, <2>1 DEF ProvInv, FirstsFound
  <2>3. k = n
    <3>1. k .. n - 1 = {}
      BY <1>1, <2>2 DEF Compared
    <3>2. QED BY <1>2, <2>2, <3>1
  <2>4. \A j, p : Brings(j, p)' <=> Brings(j, p)
    BY <1>1 DEF Brings, RpmsOf, Prov!RpmsIn
  <2>5. ASSUME NEW p \in Rpms
        PROVE  \E j \in 1 .. n : Brings(j, p) /\ sources'[p] = chain[j].name
    <3>1. p \in Prov!Packages
      BY DEF Prov!Packages
    <3>2. \/ found[p] # None
               /\ \E j \in 1 .. n - 1 : Brings(j, p) /\ found[p] = chain[j].name
          \/ found[p] = None /\ \A j \in 1 .. n - 1 : p \notin RpmsOf(j)
      BY <2>2, <2>3, <3>1 DEF Compared
    <3>3. CASE found[p] # None
      <4>1. sources'[p] = found[p]
        BY <1>1, <3>1, <3>3
      <4>2. \A j \in 1 .. n - 1 : j \in 1 .. n
        BY <1>2
      <4>3. QED BY <3>2, <3>3, <4>1, <4>2
    <3>4. CASE found[p] = None
      <4>1. sources'[p] = chain[n].name
        BY <1>1, <3>1, <3>4
      <4>2. p \in RpmsOf(n)
        BY <1>1, RpmsGrow DEF ProvInv
      <4>3. Brings(n, p)
        BY <1>2, <3>2, <3>4, <4>2 DEF Brings
      <4>4. QED BY <1>2, <4>1, <4>3
    <3>5. QED BY <3>3, <3>4
  <2>6. \A i : Prov!Introducer(i)' = Prov!Introducer(i)
    BY <1>1 DEF Prov!Introducer, Prov!LongEnough
  <2>7. imageLayers' = [i \in DOMAIN TargetLayers |-> Prov!Introducer(i)']
    BY <1>1, <1>3, <2>6
  <2>8. QED BY <2>4, <2>5, <2>7
<1>10. QED BY <1>1, <1>6, <1>7, <1>8, <1>9 DEF ProvInv

\* Storing what was found, and ending.
LEMMA ProvStore ==
  ASSUME Prov!ProvenanceAssumption, ProvInv, Prov!Store PROVE ProvInv'
<1>1. /\ layersOf' = layersOf /\ home' = home /\ mode' = mode
      /\ pc = "store" /\ pc' = "done" /\ chain' = chain /\ trouble' = trouble
      /\ sources' = sources /\ imageLayers' = imageLayers /\ found' = found
      /\ stored' = [sources |-> sources,
                    imageLayers |-> IF mode = "local" THEN imageLayers ELSE <<>>]
  BY DEF Prov!Store, Prov!world
<1>2. ProvTypes'
  BY <1>1 DEF ProvInv, ProvTypes
<1>3. NamesSafe'
  <2>1. /\ \A p \in Prov!Packages : Named(found'[p]) /\ Named(sources'[p])
        /\ \A x \in DOMAIN imageLayers' : Named(imageLayers'[x])
        /\ \A x \in 1 .. Len(chain') : Named(chain'[x].name)
    BY <1>1 DEF ProvInv, NamesSafe
  <2>2. QED BY <1>1, <2>1, StaySafe
<1>4. ChainGrows'
  BY <1>1 DEF ChainGrows, ProvInv, Ancestor, LayerCount
<1>5. FirstsFound'
  <2>1. \A j, p : Brings(j, p)' <=> Brings(j, p)
    BY <1>1 DEF Brings, RpmsOf, Prov!RpmsIn
  <2>2. \A i : Prov!Introducer(i)' = Prov!Introducer(i)
    BY <1>1 DEF Prov!Introducer, Prov!LongEnough
  <2>3. QED BY <1>1, <2>1, <2>2 DEF FirstsFound, ProvInv
<1>6. QED BY <1>1, <1>2, <1>3, <1>4, <1>5 DEF ProvInv

LEMMA ProvQuiet ==
  ASSUME ProvInv, UNCHANGED Prov!vars PROVE ProvInv'
<1>1. /\ layersOf' = layersOf /\ home' = home /\ mode' = mode /\ todo' = todo
      /\ pc' = pc /\ chain' = chain /\ trouble' = trouble /\ previous' = previous
      /\ sources' = sources /\ imageLayers' = imageLayers /\ found' = found
      /\ stored' = stored
  BY DEF Prov!vars, Prov!world
<1>2. ProvTypes'
  BY <1>1 DEF ProvInv, ProvTypes
<1>3. NamesSafe'
  BY <1>1 DEF ProvInv, NamesSafe, Named, Ancestor
<1>4. ChainGrows'
  BY <1>1 DEF ChainGrows, ProvInv, Ancestor, LayerCount
<1>5. FirstsFound'
  <2>1. \A j, p : Brings(j, p)' <=> Brings(j, p)
    BY <1>1 DEF Brings, RpmsOf, Prov!RpmsIn
  <2>2. \A i : Prov!Introducer(i)' = Prov!Introducer(i)
    BY <1>1 DEF Prov!Introducer, Prov!LongEnough
  <2>3. \A k : Compared(k)' <=> Compared(k)
    BY <1>1, <2>1 DEF Compared, RpmsOf, Prov!RpmsIn
  <2>4. QED BY <1>1, <2>1, <2>2, <2>3 DEF FirstsFound, ProvInv
<1>6. QED BY <1>1, <1>2, <1>3, <1>4, <1>5 DEF ProvInv

LEMMA AlwaysProv ==
  ASSUME Prov!ProvenanceAssumption PROVE Prov!Spec => []ProvInv
<1>1. Prov!Init => ProvInv
  BY ProvStart
<1>2. ASSUME ProvInv, [Prov!Next]_(Prov!vars) PROVE ProvInv'
  <2>1. CASE \E m \in Prov!Inspections(Target) : Prov!LayerInfo(m)
    BY <1>2, <2>1, ProvLayerInfo
  <2>2. CASE \E candidates \in SUBSET Prov!Images, m \in Prov!Inspections(Target) :
               Prov!Discover(candidates, m)
    BY <1>2, <2>2, ProvDiscover
  <2>3. CASE \E c \in Prov!Images : \E m \in Prov!Inspections(c) : Prov!Verify(c, m)
    BY <1>2, <2>3, ProvVerify
  <2>4. CASE \E m \in Prov!Inspections(Target) : Prov!SortChain(m)
    BY <1>2, <2>4, ProvSortChain
  <2>5. CASE Prov!ChainFails
    BY <1>2, <2>5, ProvChainFails
  <2>6. CASE \E i \in todo : Prov!ScanBase(i) \/ Prov!ScanBaseFails(i)
    BY <1>2, <2>6, ProvScanBase, ProvScanBaseFails
  <2>7. CASE Prov!Attribute
    BY <1>2, <2>7, ProvAttribute
  <2>8. CASE Prov!Store
    BY <1>2, <2>8, ProvStore
  <2>9. CASE UNCHANGED Prov!vars
    BY <1>2, <2>9, ProvQuiet
  <2>10. QED BY <1>2, <2>1, <2>2, <2>3, <2>4, <2>5, <2>6, <2>7, <2>8, <2>9
             DEF Prov!Next, Prov!Quiet
<1>3. QED BY <1>1, <1>2, PTL DEF Prov!Spec

\* Whatever inspection or scan fails, no layer or package is put down to an image that
\* the scanned one is not built on (find_base_image_chain_by_layers).
THEOREM OnlyAncestorsAreNamed ==
  ASSUME Prov!ProvenanceAssumption PROVE Prov!Spec => []Prov!OnlyAncestorsNamed
<1>1. ASSUME ProvInv PROVE Prov!OnlyAncestorsNamed
  <2>1. SUFFICES ASSUME pc = "done",
                        NEW n \in Prov!Range(stored.sources) \cup Prov!ToSet(stored.imageLayers),
                        n \in Prov!Images
                 PROVE  Prov!IsPrefix(layersOf[n], TargetLayers)
    BY DEF Prov!OnlyAncestorsNamed, Prov!Done
  <2>2. /\ stored.sources = sources
        /\ stored.imageLayers = imageLayers \/ stored.imageLayers = <<>>
    BY <1>1, <2>1 DEF ProvInv, NamesSafe
  <2>3. DOMAIN sources = Prov!Packages
    BY <1>1 DEF ProvInv, ProvTypes
  <2>4. Named(n)
    <3>1. CASE n \in Prov!Range(stored.sources)
      <4>1. \E p \in Prov!Packages : n = sources[p]
        BY <2>2, <2>3, <3>1 DEF Prov!Range
      <4>2. QED BY <1>1, <4>1 DEF ProvInv, NamesSafe
    <3>2. CASE n \in Prov!ToSet(stored.imageLayers)
      <4>1. \E i \in DOMAIN stored.imageLayers : n = stored.imageLayers[i]
        BY <3>2 DEF Prov!ToSet
      <4>2. stored.imageLayers = imageLayers
        BY <2>2, <4>1
      <4>3. QED BY <1>1, <4>1, <4>2 DEF ProvInv, NamesSafe
    <3>3. QED BY <2>1, <3>1, <3>2
  <2>5. Ancestor(n)
    BY <2>1, <2>4, ProvFacts DEF Named
  <2>6. layersOf[n] \in Layers /\ TargetLayers \in Layers
    BY <1>1, <2>1 DEF ProvInv, ProvTypes, Layers
  <2>7. /\ layersOf[n] \in Seq(Prov!ToSet(layersOf[n]))
        /\ TargetLayers \in Seq(Prov!ToSet(TargetLayers))
    BY <2>6, ProvFacts
  <2>8. QED BY <2>5, <2>7, PrefixIs DEF Ancestor
<1>2. QED BY <1>1, AlwaysProv, PTL

\* When every request was answered, a package is put down to the smallest image of the
\* chain that has its layer (get_package_source_images).
THEOREM RpmsComeFromTheirImage ==
  ASSUME Prov!ProvenanceAssumption PROVE Prov!Spec => []Prov!RpmsFromTheirImage
<1>1. ASSUME ProvInv PROVE Prov!RpmsFromTheirImage
  <2>1. SUFFICES ASSUME pc = "done", ~trouble, chain # <<>>, NEW p \in Rpms
                 PROVE  stored.sources[p] \in Prov!FirstWith(home[p])
    BY DEF Prov!RpmsFromTheirImage, Prov!Done
  <2> DEFINE n == Len(chain)
  <2>2. n \in Nat /\ DOMAIN chain = 1 .. n
    BY <1>1 DEF ProvInv, ProvTypes
  <2>3. PICK k \in 1 .. n : Brings(k, p) /\ sources[p] = chain[k].name
    BY <1>1, <2>1 DEF ProvInv, FirstsFound
  <2>4. \A i \in 1 .. n :
          /\ chain[i].name = chain[i].image /\ chain[i].layers = layersOf[chain[i].image]
          /\ p \in RpmsOf(i) <=> home[p] \in Prov!ToSet(chain[i].layers)
    <3>1. ASSUME NEW i \in 1 .. n
          PROVE  p \in RpmsOf(i) <=> home[p] \in Prov!ToSet(chain[i].layers)
      <4>1. RpmsOf(i) = {q \in Rpms : home[q] \in Prov!ToSet(chain[i].layers)}
        BY <1>1, ChainImages DEF ProvInv
      <4>2. QED BY <4>1
    <3>2. QED BY <1>1, <2>1, <3>1 DEF ProvInv, ChainGrows
  <2>5. stored.sources[p] = chain[k].image
    BY <1>1, <2>1, <2>3, <2>4 DEF ProvInv, NamesSafe
  <2>6. Prov!Verified = {chain[i].image : i \in 1 .. n}
    <3>1. Prov!ToSet(chain) = {chain[i] : i \in 1 .. n}
      BY <2>2 DEF Prov!ToSet
    <3>2. QED BY <3>1, Zenon DEF Prov!Verified
  <2>7. chain[k].image \in Prov!Verified /\ home[p] \in Prov!ToSet(layersOf[chain[k].image])
    BY <2>3, <2>4, <2>6 DEF Brings
  <2>8. ASSUME NEW c \in Prov!Verified, home[p] \in Prov!ToSet(layersOf[c])
        PROVE  Len(layersOf[chain[k].image]) <= Len(layersOf[c])
    <3>1. PICK i \in 1 .. n : c = chain[i].image
      BY <2>6
    <3>2. p \in RpmsOf(i)
      BY <2>4, <2>8, <3>1
    <3>3. ~ (i \in 1 .. k - 1)
      BY <2>3, <3>2 DEF Brings
    <3>4. k <= i
      BY <2>2, <3>3
    <3>5. LayerCount(k) <= LayerCount(i)
      BY <1>1, <2>1, <3>4 DEF ProvInv, ChainGrows
    <3>6. QED BY <2>4, <3>1, <3>5 DEF LayerCount
  <2>9. QED BY <2>5, <2>7, <2>8 DEF Prov!FirstWith
<1>2. QED BY <1>1, AlwaysProv, PTL

\* When every request was answered and no two layers of the image have one digest, a
\* package's source is that of the layer that installed it (scan in cli.py).
THEOREM PackagesFollowTheirLayers ==
  ASSUME Prov!ProvenanceAssumption,
         \A i, j \in DOMAIN TargetLayers : TargetLayers[i] = TargetLayers[j] => i = j
  PROVE  Prov!Spec => []Prov!PackagesAgreeWithLayers
<1>1. ASSUME ProvInv PROVE Prov!PackagesAgreeWithLayers
  <2>1. SUFFICES ASSUME pc = "store", ~trouble, chain # <<>>, NEW p \in Rpms,
                        NEW i \in DOMAIN TargetLayers, TargetLayers[i] = home[p]
                 PROVE  sources[p] = imageLayers[i]
    BY DEF Prov!PackagesAgreeWithLayers
  <2> DEFINE n == Len(chain)
             t == Len(TargetLayers)
  <2>2. n \in Nat /\ t \in Nat /\ DOMAIN TargetLayers = 1 .. t /\ i \in 1 .. t
    BY <1>1, <2>1, ProvFacts DEF ProvInv, ProvTypes, Layers
  <2>3. PICK k \in 1 .. n : Brings(k, p) /\ sources[p] = chain[k].name
    BY <1>1, <2>1 DEF ProvInv, FirstsFound
  <2>4. imageLayers[i] = Prov!Introducer(i)
    BY <1>1, <2>1 DEF ProvInv, FirstsFound
  <2>5. PICK j \in 1 .. n :
          /\ Prov!Introducer(i) = chain[j].name /\ i <= LayerCount(j)
          /\ \A x \in 1 .. n : i <= LayerCount(x) => j <= x
    BY <1>1, <2>1, <2>2, IntroducerIs DEF ProvInv
  <2>6. \A x \in 1 .. n : LayerCount(x) \in Nat /\ (p \in RpmsOf(x) <=> i <= LayerCount(x))
    <3>1. ASSUME NEW x \in 1 .. n
          PROVE  LayerCount(x) \in Nat /\ (p \in RpmsOf(x) <=> i <= LayerCount(x))
      <4>1. /\ LayerCount(x) \in Nat
            /\ RpmsOf(x)
                 = {q \in Rpms : \E y \in 1 .. LayerCount(x) : TargetLayers[y] = home[q]}
        BY <1>1, ChainImages DEF ProvInv
      <4>2. LayerCount(x) <= t
        BY <1>1 DEF ProvInv, ChainGrows, Ancestor, LayerCount
      <4>3. \A y \in 1 .. LayerCount(x) : TargetLayers[y] = home[p] => y = i
        BY <2>1, <2>2, <4>1, <4>2
      <4>4. QED BY <2>1, <2>2, <4>1, <4>3
    <3>2. QED BY <3>1
  <2>7. k = j
    <3>1. i <= LayerCount(k) /\ \A x \in 1 .. k - 1 : p \notin RpmsOf(x)
      BY <2>3, <2>6 DEF Brings
    <3>2. j <= k /\ p \in RpmsOf(j)
      BY <2>3, <2>5, <2>6, <3>1
    <3>3. ~ (j \in 1 .. k - 1)
      BY <3>1, <3>2
    <3>4. QED BY <2>2, <2>3, <2>5, <3>2, <3>3
  <2>8. QED BY <2>3, <2>4, <2>5, <2>7
<1>2. QED BY <1>1, AlwaysProv, PTL

============================================================================
