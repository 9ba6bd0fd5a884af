------------------------- MODULE BatchScannerProofs -------------------------
(***************************************************************************)
(* What the batch scanners leave behind, for any number of images,         *)
(* repositories, workers, runs and retries, however tags and mirrors move  *)
(* and the processes are killed.                                           *)
(*                                                                         *)
(* Containers and repositories: what the progress file calls completed is  *)
(* stored, a stored scan is of one image unless its tag moved, what a      *)
(* delta check skips is stored as it was published, and a run accounts for *)
(* every image it was given.                                               *)
(*                                                                         *)
(* Uploads: what returned is stored, although an attempt that timed out    *)
(* may still be at work; a rejection is final and retries wait for health. *)
(*                                                                         *)
(* Manifests: a discovery that read every page queues the newest manifest  *)
(* of every product, though publications shift the pages under it.         *)
(*                                                                         *)
(* Synchronisation: alone it reaches its file, and it never prunes what    *)
(* its file names.                                                         *)
(***************************************************************************)
EXTENDS ContainerScanner, Sequences, FiniteSetTheorems, SequenceTheorems,
        WellFoundedInduction, TLAPS

----------------------------------------------------------------------------
(* The server behind every one of them (ScanServer).                       *)

\* Upload n of a product is the last one sent, and was then the only one in hand.
Stands(k, n) == history[k].n = n /\ history[k].sole

\* The scan that upload n stored is there, and the upload is over.
Safe(k, n, s) ==
  /\ s \in server[k] /\ s.n = n
  /\ \A q \in requests : q.key = k => q.n # n

\* Uploads in hand have numbers of their own, none is beyond the last one sent, and if
\* that one was alone it is the only one.
ServerInv(keys, contents) ==
  /\ ServerTypeOK(keys, contents)
  /\ \A q \in requests : q.n <= history[q.key].n
  /\ \A p, q \in requests : p.key = q.key /\ p.n = q.n => p = q
  /\ \A q \in requests : history[q.key].sole => q.n = history[q.key].n
  /\ \A k \in keys : history[k].recorded <= history[k].n

\* What may happen to the server while nothing is recorded.
Served(keys, contents) ==
  \/ UNCHANGED serverVars
  \/ \E q \in requests : Serve(q)
  \/ \E k \in keys, c \in contents : Receive(k, c)

\* An upload that stands stood before, and what it stored is still there; what is in
\* hand was in hand, or is newer than everything that was sent.
Lasting(keys) ==
  /\ \A k \in keys :
       /\ history'[k].recorded = history[k].recorded /\ history[k].n <= history'[k].n
       /\ \A n \in Nat : n <= history[k].n /\ Stands(k, n)' =>
            /\ Stands(k, n)
            /\ \A s \in server[k] : Safe(k, n, s) => Safe(k, n, s)'
  /\ \A q \in requests' :
       \/ \E p \in requests : p.key = q.key /\ p.n = q.n /\ p.content = q.content
       \/ q.n > history[q.key].n

\* The numbers of the server's state.
LEMMA ServerNumbers ==
  ASSUME MaxSends \in Nat, NEW keys, NEW contents, ServerInv(keys, contents)
  PROVE  /\ \A k \in keys : /\ history[k].n \in Nat /\ history[k].recorded \in Nat
                             /\ history[k].sole \in BOOLEAN
                             /\ server[k] \subseteq [n : 1..MaxSends, content : contents]
         /\ \A q \in requests : /\ q.key \in keys /\ q.n \in 1..MaxSends
                                /\ q.content \in contents /\ q.at \in {"received", "removed"}
BY DEF ServerInv, ServerTypeOK

\* A form arrives: every earlier upload of the product stands no longer.
LEMMA ReceiveLasts ==
  ASSUME MaxSends \in Nat, NEW keys, NEW contents, ServerInv(keys, contents),
         NEW k \in keys, NEW c \in contents, Receive(k, c)
  PROVE  ServerInv(keys, contents)' /\ Lasting(keys)
<1> DEFINE q == [key |-> k, n |-> history[k].n + 1, content |-> c, at |-> "received"]
           h == [history[k] EXCEPT !.n = @ + 1, !.sole = (InHand(k) = {})]
           Request == [key : keys, n : 1..MaxSends, content : contents,
                       at : {"received", "removed"}]
           Past == [n : 0..MaxSends, sole : BOOLEAN, recorded : 0..MaxSends]
<1>1. /\ history[k].n < MaxSends /\ requests' = requests \cup {q}
      /\ history' = [history EXCEPT ![k].n = @ + 1, ![k].sole = (InHand(k) = {})]
      /\ server' = server
  BY DEF Receive
<1>2. /\ history \in [keys -> Past] /\ requests \subseteq Request
      /\ server \in [keys -> SUBSET [n : 1..MaxSends, content : contents]]
  BY DEF ServerInv, ServerTypeOK
<1>3. history[k] \in Past /\ history[k].n \in Nat
  BY <1>2
<1>4. /\ h \in Past /\ h.n = history[k].n + 1 /\ h.sole = (InHand(k) = {})
      /\ h.recorded = history[k].recorded
  <2>1. PICK alone \in BOOLEAN : alone = (InHand(k) = {})
    OBVIOUS
  <2> DEFINE g == [history[k] EXCEPT !.n = @ + 1, !.sole = alone]
  <2>2. h = g
    BY <2>1
  <2> HIDE DEF h
  <2>3. /\ g \in Past /\ g.n = history[k].n + 1 /\ g.sole = alone
        /\ g.recorded = history[k].recorded
    <3>1. history[k].n + 1 \in 0..MaxSends
      BY <1>1, <1>3
    <3>2. QED BY <1>3, <3>1
  <2> HIDE DEF g
  <2>4. QED BY <2>1, <2>2, <2>3
<1>5. history' = [history EXCEPT ![k] = h]
  BY <1>1, <1>2
<1>6. q \in Request /\ q.key = k /\ q.n = history[k].n + 1
  BY <1>1, <1>3
<1> HIDE DEF q, h
<1>7. /\ history' \in [keys -> Past] /\ history'[k] = h
      /\ \A j \in keys \ {k} : history'[j] = history[j]
  BY <1>2, <1>4, <1>5
<1>8. ServerTypeOK(keys, contents)'
  BY <1>1, <1>2, <1>6, <1>7 DEF ServerTypeOK
<1>9. /\ \A p \in requests : p.key \in keys /\ p.n \in Nat /\ p.n <= history[p.key].n
      /\ \A p \in requests : p.key = k => p.n # q.n
      /\ \A j \in keys : history[j].recorded \in Nat /\ history[j].n \in Nat
                       /\ history[j].recorded <= history[j].n
  BY <1>3, <1>6, ServerNumbers DEF ServerInv
<1>10. \A p \in requests' : p.n <= history'[p.key].n
  BY <1>1, <1>3, <1>4, <1>6, <1>7, <1>9
<1>11. \A p, r \in requests' : p.key = r.key /\ p.n = r.n => p = r
  BY <1>1, <1>6, <1>9 DEF ServerInv
<1>12. \A p \in requests' : history'[p.key].sole => p.n = history'[p.key].n
  <2>1. \A p \in requests : p.key = k => ~ h.sole
    BY <1>4 DEF InHand
  <2>2. QED BY <1>1, <1>4, <1>6, <1>7, <1>9, <2>1 DEF ServerInv
<1>13. \A j \in keys : history'[j].recorded <= history'[j].n
  BY <1>3, <1>4, <1>7, <1>9
<1>14. ServerInv(keys, contents)'
  BY <1>8, <1>10, <1>11, <1>12, <1>13 DEF ServerInv
<1>15. ASSUME NEW j \in keys
       PROVE  /\ history'[j].recorded = history[j].recorded /\ history[j].n <= history'[j].n
              /\ \A n \in Nat : n <= history[j].n /\ Stands(j, n)' =>
                   /\ Stands(j, n)
                   /\ \A s \in server[j] : Safe(j, n, s) => Safe(j, n, s)'
  <2>1. CASE j = k
    BY <1>3, <1>4, <1>7, <2>1 DEF Stands
  <2>2. CASE j # k
    <3>1. history'[j] = history[j] /\ history[j].n \in Nat
      BY <1>7, <1>9, <2>2
    <3>2. \A n, s : Safe(j, n, s) => Safe(j, n, s)'
      BY <1>1, <1>6, <2>2 DEF Safe
    <3>3. QED BY <3>1, <3>2 DEF Stands
  <2>3. QED BY <2>1, <2>2
<1>16. \A p \in requests' :
         \/ \E r \in requests : r.key = p.key /\ r.n = p.n /\ r.content = p.content
         \/ p.n > history[p.key].n
  BY <1>1, <1>3, <1>6
<1>17. QED BY <1>14, <1>15, <1>16 DEF Lasting

\* The server goes on with an upload: what another one stored, that stands, is not
\* touched, since an upload in hand would be the one that stands.
LEMMA ServeLasts ==
  ASSUME MaxSends \in Nat, NEW keys, NEW contents, ServerInv(keys, contents),
         NEW q \in requests, Serve(q)
  PROVE  ServerInv(keys, contents)' /\ Lasting(keys)
<1> DEFINE Scan == [n : 1..MaxSends, content : contents]
           Request == [key : keys, n : 1..MaxSends, content : contents,
                       at : {"received", "removed"}]
           k == q.key
           m == [q EXCEPT !.at = "removed"]
           s == [n |-> q.n, content |-> q.content]
<1>1. /\ q \in Request /\ requests \subseteq Request /\ history' = history
      /\ server \in [keys -> SUBSET Scan] /\ k \in keys
  BY DEF Serve, ServerInv, ServerTypeOK
<1>2. /\ m \in Request /\ m.key = k /\ m.n = q.n /\ m.content = q.content
      /\ s \in Scan
  BY <1>1
<1>3. /\ \A p \in requests' : p \in requests \/ p = m
      /\ requests' \subseteq (requests \ {q}) \cup {m}
  BY DEF Serve, DeleteOld, Insert, Fail
<1> HIDE DEF m
<1>4. server' \in [keys -> SUBSET Scan] /\ \A j \in keys \ {k} : server'[j] = server[j]
  <2>1. CASE server' = server
    BY <1>1, <2>1
  <2>2. CASE Insert(q)
    BY <1>1, <1>2, <2>2 DEF Insert
  <2>3. ASSUME NEW d \in server[k], server' = [server EXCEPT ![k] = @ \ {d}]
        PROVE  server' \in [keys -> SUBSET Scan] /\ \A j \in keys \ {k} : server'[j] = server[j]
    BY <1>1, <2>3
  <2>4. QED BY <2>1, <2>2, <2>3 DEF Serve, DeleteOld, Fail
<1>5. requests' \subseteq Request
  BY <1>1, <1>2, <1>3
<1>6. ServerTypeOK(keys, contents)'
  BY <1>1, <1>4, <1>5 DEF ServerTypeOK, ServerInv
<1>7. /\ \A p \in requests' : p.n <= history[p.key].n
      /\ \A p, r \in requests' : p.key = r.key /\ p.n = r.n => p = r
      /\ \A p \in requests' : history[p.key].sole => p.n = history[p.key].n
  BY <1>2, <1>3 DEF ServerInv
<1>8. ServerInv(keys, contents)'
  BY <1>1, <1>6, <1>7 DEF ServerInv
<1>9. ASSUME NEW j \in keys, NEW n \in Nat, Stands(j, n), NEW d \in server[j], Safe(j, n, d)
      PROVE  Safe(j, n, d)'
  <2>1. j # k
    BY <1>1, <1>9 DEF Safe, Stands, ServerInv
  <2>2. d \in server'[j]
    BY <1>4, <1>9, <2>1
  <2>3. \A p \in requests' : p.key = j => p.n # n
    BY <1>2, <1>3, <1>9, <2>1 DEF Safe
  <2>4. QED BY <1>9, <2>2, <2>3 DEF Safe
<1>10. ASSUME NEW j \in keys
       PROVE  /\ history'[j].recorded = history[j].recorded /\ history[j].n <= history'[j].n
              /\ \A n \in Nat : Stands(j, n)' => Stands(j, n)
  BY <1>1, <1>10, ServerNumbers DEF Stands
<1>11. \A p \in requests' :
         \E r \in requests : r.key = p.key /\ r.n = p.n /\ r.content = p.content
  BY <1>2, <1>3
<1>12. QED BY <1>8, <1>9, <1>10, <1>11 DEF Lasting

\* Nothing that happens at the server touches what a standing upload stored.
LEMMA ServerLasts ==
  ASSUME MaxSends \in Nat, NEW keys, NEW contents, ServerInv(keys, contents),
         Served(keys, contents)
  PROVE  ServerInv(keys, contents)' /\ Lasting(keys)
<1>1. CASE UNCHANGED serverVars
  <2>1. UNCHANGED <<server, requests, history>>
    BY <1>1 DEF serverVars
  <2>2. ServerInv(keys, contents)'
    BY <2>1 DEF ServerInv, ServerTypeOK
  <2>3. \A k \in keys : history[k].n <= history'[k].n
    BY <2>1, ServerNumbers
  <2>4. QED BY <2>1, <2>2, <2>3 DEF Lasting, Stands, Safe
<1>2. ASSUME NEW q \in requests, Serve(q) PROVE ServerInv(keys, contents)' /\ Lasting(keys)
  BY <1>2, ServeLasts
<1>3. ASSUME NEW k \in keys, NEW c \in contents, Receive(k, c)
      PROVE  ServerInv(keys, contents)' /\ Lasting(keys)
  BY <1>3, ReceiveLasts
<1>4. QED BY <1>1, <1>2, <1>3 DEF Served

\* An upload that is answered has stored its scan and is over.
LEMMA InsertIsSafe ==
  ASSUME MaxSends \in Nat, NEW keys, NEW contents, ServerInv(keys, contents),
         NEW q \in requests, Insert(q)
  PROVE  Safe(q.key, q.n, [n |-> q.n, content |-> q.content])'
<1> DEFINE s == [n |-> q.n, content |-> q.content]
<1>1. /\ q.key \in keys /\ server \in [keys -> SUBSET [n : 1..MaxSends, content : contents]]
      /\ server' = [server EXCEPT ![q.key] = @ \cup {s}] /\ requests' = requests \ {q}
  BY ServerNumbers DEF Insert, ServerInv, ServerTypeOK
<1>2. s \in server'[q.key] /\ s.n = q.n
  BY <1>1
<1>3. \A p \in requests' : p.key = q.key => p.n # q.n
  BY <1>1 DEF ServerInv
<1>4. QED BY <1>2, <1>3 DEF Safe

\* What is recorded is an upload that was sent.
LEMMA RememberKeeps ==
  ASSUME MaxSends \in Nat, NEW keys, NEW contents, ServerInv(keys, contents),
         NEW k \in keys, NEW n \in 1..MaxSends, n <= history[k].n, Remember(k, n),
         UNCHANGED <<server, requests>>
  PROVE  /\ ServerInv(keys, contents)'
         /\ history'[k].recorded = n /\ (Undisturbed(k)' <=> Stands(k, n))
         /\ \A j \in keys : history'[j].n = history[j].n /\ history'[j].sole = history[j].sole
         /\ \A j \in keys \ {k} : history'[j] = history[j]
<1> DEFINE Past == [n : 0..MaxSends, sole : BOOLEAN, recorded : 0..MaxSends]
           h == [history[k] EXCEPT !.recorded = n]
<1>1. history \in [keys -> Past] /\ history' = [history EXCEPT ![k] = h]
  BY DEF Remember, ServerInv, ServerTypeOK
<1>2. history[k] \in Past
  BY <1>1
<1>3. h \in Past /\ h.n = history[k].n /\ h.sole = history[k].sole /\ h.recorded = n
  BY <1>2
<1> HIDE DEF h
<1>4. /\ history' \in [keys -> Past] /\ history'[k] = h
      /\ \A j \in keys \ {k} : history'[j] = history[j]
  BY <1>1, <1>3
<1>5. \A j \in keys : history'[j].n = history[j].n /\ history'[j].sole = history[j].sole
  BY <1>3, <1>4
<1>6. ServerTypeOK(keys, contents)'
  BY <1>4 DEF ServerTypeOK, ServerInv
<1>7. \A q \in requests : q.key \in keys
  BY ServerNumbers
<1>8. ServerInv(keys, contents)'
  BY <1>3, <1>4, <1>5, <1>6, <1>7 DEF ServerInv
<1>9. QED BY <1>3, <1>4, <1>5, <1>8 DEF Undisturbed, Stands

----------------------------------------------------------------------------
(* Containers.                                                             *)

Result == [image : Images, status : Lists, digest : Digests \cup {None}, n : 0..MaxSends]
MainState == [at : {"idle", "build", "scan"}, inventory : SUBSET Images,
              todo : SUBSET Images, full : BOOLEAN]

\* What an upload holds is of one image unless its tag moved.
Whole == {c \in Scans : c.still => {c.layers, c.att} \subseteq {None, c.sbom}}

\* The main thread's copy of the progress file is the file.
TypeInv ==
  /\ registry \in [Images -> Digests]
  /\ ServerInv(Keys, Whole)
  /\ file \in Progress /\ progress = file
  /\ main \in MainState /\ main.todo \subseteq main.inventory
  /\ queue \subseteq main.inventory
  /\ worker \in [Workers -> Tasks \cup {None}]
  /\ finished \subseteq Result

\* An image is in one place at a time: to do, queued, with one worker or finished.
Has(w, i) == worker[w] # None /\ worker[w].image = i
Worked(i) == \E w \in Workers : Has(w, i)
Done(i) == \E r \in finished : r.image = i

PlaceInv ==
  /\ main.at # "build" => main.todo = {}
  /\ main.at = "idle" => queue = {}
  /\ main.at # "scan" => finished = {} /\ \A w \in Workers : worker[w] = None
  /\ main.todo \cap queue = {}
  /\ \A i \in queue : ~ Worked(i) /\ ~ Done(i)
  /\ \A v, w \in Workers : \A i \in Images : Has(v, i) /\ Has(w, i) => v = w
  /\ \A i \in Images : Worked(i) => ~ Done(i)
  /\ \A q, r \in finished : q.image = r.image => q = r

\* Digests that are known follow one another.
NotAhead(d, e) == d # None /\ e # None => d <= e

\* What is recorded as completed, if it stands, is on the server and no older than the
\* digest that was recorded with it; and so is what is about to be recorded.
FileKept ==
  \A k \in Keys : Undisturbed(k) /\ (file.list[k] = "completed" \/ file.digest[k] # None) =>
    \E s \in server[k] : /\ Safe(k, history[k].recorded, s)
                        /\ NotAhead(file.digest[k], s.content.sbom)

ResultKept(r) ==
  /\ r.n >= 1 /\ r.n <= history[KeyOf[r.image]].n
  /\ Stands(KeyOf[r.image], r.n) =>
       \E s \in server[KeyOf[r.image]] : /\ Safe(KeyOf[r.image], r.n, s)
                                        /\ NotAhead(r.digest, s.content.sbom)

StoredInv == FileKept /\ \A r \in finished : r.status = "completed" => ResultKept(r)

\* What a worker has gathered of an image whose tag did not move is of that image, and
\* its digests were read in this order.
Gathered(t) ==
  /\ t.at = "inspect" => t.sbom = None
  /\ t.at \in {"layers", "attestation", "upload", "wait"} => t.sbom # None
  /\ t.still => {t.digest, t.sbom, t.layers, t.att} \subseteq {None, registry[t.image]}
  /\ NotAhead(t.digest, registry[t.image]) /\ NotAhead(t.sbom, registry[t.image])
  /\ NotAhead(t.digest, t.sbom)

\* What a worker waits for holds its SBOM.
Sent(t) ==
  /\ t.n <= history[KeyOf[t.image]].n
  /\ \A q \in requests : t.at = "wait" /\ q.key = KeyOf[t.image] /\ q.n = t.n =>
                          q.content.sbom = t.sbom

TaskInv == \A w \in Workers : worker[w] # None => Gathered(worker[w]) /\ Sent(worker[w])

\* Every image of the inventory is somewhere.
AccountInv ==
  main.at # "idle" => \A i \in main.inventory :
    i \in main.todo \cup queue \/ Worked(i) \/ Done(i) \/ file.list[KeyOf[i]] # None

\* Inductive.
ScanInv == TypeInv /\ PlaceInv /\ StoredInv /\ TaskInv /\ AccountInv

----------------------------------------------------------------------------
(* What a worker's step does: it takes an image, goes on with its task, or *)
(* reports how it ended.                                                   *)

\* Task t has a field more than the worker's, read now or copied, or another label, or
\* its upload was sent.
GoesOn(w, t) ==
  /\ worker[w] # None /\ t \in Tasks
  /\ t.image = worker[w].image /\ t.still = worker[w].still
  /\ \/ t.digest = worker[w].digest
     \/ t.digest \in {registry[t.image], None} /\ worker[w].at = "inspect"
  /\ \/ t.sbom \in {worker[w].sbom, registry[t.image]}
     \/ t.sbom = worker[w].digest /\ t.digest = worker[w].digest
  /\ t.layers \in {worker[w].layers, registry[t.image], None}
  /\ t.att \in {worker[w].att, worker[w].digest, None}
  /\ t.at # "inspect"
  /\ t.at \in {"layers", "attestation", "upload", "wait"} => t.sbom # None
  /\ \/ UNCHANGED serverVars /\ t.at # "wait" /\ t.n = worker[w].n
     \/ /\ Receive(KeyOf[t.image], Content(worker[w])) /\ t.n = history[KeyOf[t.image]].n + 1
        /\ t.sbom = worker[w].sbom /\ worker[w].at = "upload"
  /\ worker' = [worker EXCEPT ![w] = t]
  /\ UNCHANGED <<registry, file, progress, main, queue, finished>>

\* The upload was answered if it is reported completed.
Ends(w, status) ==
  /\ worker[w] # None /\ status \in Lists
  /\ \/ UNCHANGED serverVars /\ status # "completed"
     \/ /\ \E q \in requests : Awaits(w, q) /\ Insert(q)
        /\ UNCHANGED history
  /\ finished' = finished \cup
       {[image |-> worker[w].image, status |-> status, digest |-> worker[w].digest,
         n |-> worker[w].n]}
  /\ worker' = [worker EXCEPT ![w] = None]
  /\ UNCHANGED <<registry, file, progress, main, queue>>

\* The parameters are numbers, and None is neither an image nor a record.

\* The parameters are numbers, and None is neither an image nor a record.
LEMMA Params ==
  ASSUME ScannerAssumption
  PROVE  /\ Retries \in Nat \ {0} /\ {MaxMoves, MaxSends, Attempts} \subseteq Nat
         /\ Digests \subseteq Nat /\ None \notin Nat
         /\ None \notin Digests /\ None \notin Lists /\ None \notin Tasks
         /\ \A i \in Images : KeyOf[i] \in Keys
BY DEF ScannerAssumption, Digests, Keys

\* The fields of a task.
LEMMA TaskOf ==
  ASSUME NEW t \in Tasks
  PROVE  /\ t.image \in Images
         /\ t.at \in {"inspect", "sbom", "syft", "layers", "attestation", "upload", "wait"}
         /\ t.digest \in Digests \cup {None} /\ t.sbom \in Digests \cup {None}
         /\ t.layers \in Digests \cup {None} /\ t.att \in Digests \cup {None}
         /\ t.still \in BOOLEAN /\ t.attempt \in 1..Retries
         /\ t.sends \in 0..Attempts /\ t.n \in 0..MaxSends
BY DEF Tasks

\* The values the invariant speaks of.
LEMMA Values ==
  ASSUME ScannerAssumption, ScanInv
  PROVE  /\ MaxSends \in Nat /\ None \notin Nat /\ ServerInv(Keys, Whole)
         /\ \A i \in Images : registry[i] \in Digests /\ registry[i] \in Nat
         /\ \A k \in Keys : /\ history[k].n \in Nat /\ history[k].recorded \in Nat
                            /\ history[k].recorded <= history[k].n
                            /\ file.digest[k] \in Nat \cup {None}
                            /\ \A s \in server[k] : s.content.sbom \in Nat
         /\ \A w \in Workers : worker[w] # None =>
              /\ worker[w] \in Tasks /\ worker[w].image \in Images
              /\ KeyOf[worker[w].image] \in Keys /\ worker[w].n \in Nat
              /\ worker[w].digest \in Digests \cup {None}
              /\ worker[w].sbom \in Digests \cup {None}
         /\ \A r \in finished : /\ KeyOf[r.image] \in Keys /\ r.n \in Nat
                                /\ r.digest \in Nat \cup {None}
<1>1. MaxSends \in Nat /\ None \notin Nat /\ Digests \subseteq Nat
  BY Params
<1>2. ServerInv(Keys, Whole) /\ Whole \subseteq Scans
  BY DEF ScanInv, TypeInv, Whole
<1>3. \A k \in Keys : /\ history[k].n \in Nat /\ history[k].recorded \in Nat
                      /\ server[k] \subseteq [n : 1..MaxSends, content : Whole]
  BY <1>1, <1>2, ServerNumbers
<1>4. \A k \in Keys : \A s \in server[k] : s.content.sbom \in Digests
  BY <1>2, <1>3 DEF Scans
<1>5. \A k \in Keys : history[k].recorded <= history[k].n
  BY <1>2 DEF ServerInv
<1>6. \A k \in Keys : file.digest[k] \in Digests \cup {None}
  BY DEF ScanInv, TypeInv, Progress
<1>7. \A i \in Images : registry[i] \in Digests
  BY DEF ScanInv, TypeInv
<1>8. ASSUME NEW w \in Workers, worker[w] # None
      PROVE  /\ worker[w] \in Tasks /\ worker[w].image \in Images
             /\ KeyOf[worker[w].image] \in Keys /\ worker[w].n \in Nat
             /\ worker[w].digest \in Digests \cup {None}
             /\ worker[w].sbom \in Digests \cup {None}
  <2>1. worker[w] \in Tasks
    BY <1>8 DEF ScanInv, TypeInv
  <2>2. worker[w].n \in 0..MaxSends
    BY <2>1, TaskOf
  <2>3. QED BY <1>1, <2>1, <2>2, TaskOf, Params
<1>9. ASSUME NEW r \in finished
      PROVE  KeyOf[r.image] \in Keys /\ r.n \in Nat /\ r.digest \in Nat \cup {None}
  <2>1. /\ KeyOf[r.image] \in Keys /\ r.n \in 0..MaxSends
        /\ r.digest \in Digests \cup {None}
    BY Params DEF ScanInv, TypeInv, Result
  <2>2. r.n \in Nat
    BY <1>1, <2>1
  <2>3. r.digest \in Nat \cup {None}
    BY <1>1, <2>1
  <2>4. QED BY <2>1, <2>2, <2>3
<1>10. /\ \A k \in Keys : file.digest[k] \in Nat \cup {None}
       /\ \A k \in Keys : \A s \in server[k] : s.content.sbom \in Nat
       /\ \A i \in Images : registry[i] \in Nat
  BY <1>1, <1>4, <1>6, <1>7
<1>11. QED BY <1>1, <1>2, <1>3, <1>5, <1>7, <1>8, <1>9, <1>10

\* What a step makes of a task.
Fields(t, at, image, digest, sbom, layers, att, still, n) ==
  /\ t \in Tasks /\ t.at = at /\ t.image = image /\ t.digest = digest /\ t.sbom = sbom
  /\ t.layers = layers /\ t.att = att /\ t.still = still /\ t.n = n

LEMMA Updates ==
  ASSUME NEW t \in Tasks, NEW d \in Digests \cup {None}
  PROVE  /\ Fields([t EXCEPT !.digest = d, !.at = "sbom"],
                   "sbom", t.image, d, t.sbom, t.layers, t.att, t.still, t.n)
         /\ Fields([t EXCEPT !.sbom = d, !.at = "layers"],
                   "layers", t.image, t.digest, d, t.layers, t.att, t.still, t.n)
         /\ Fields([t EXCEPT !.at = "syft"],
                   "syft", t.image, t.digest, t.sbom, t.layers, t.att, t.still, t.n)
         /\ Fields([t EXCEPT !.layers = d, !.at = "attestation"],
                   "attestation", t.image, t.digest, t.sbom, d, t.att, t.still, t.n)
         /\ Fields([t EXCEPT !.att = d, !.at = "upload"],
                   "upload", t.image, t.digest, t.sbom, t.layers, d, t.still, t.n)
         /\ Fields([t EXCEPT !.at = "upload"],
                   "upload", t.image, t.digest, t.sbom, t.layers, t.att, t.still, t.n)
         /\ t.attempt + 1 \in 1..Retries =>
              Fields([t EXCEPT !.attempt = @ + 1, !.at = "sbom"],
                     "sbom", t.image, t.digest, t.sbom, t.layers, t.att, t.still, t.n)
BY DEF Tasks, Fields

LEMMA Sending ==
  ASSUME NEW t \in Tasks, t.sends + 1 \in 0..Attempts, NEW n \in 0..MaxSends
  PROVE  /\ Fields([t EXCEPT !.at = "wait", !.sends = @ + 1, !.n = n],
                   "wait", t.image, t.digest, t.sbom, t.layers, t.att, t.still, n)
         /\ Fields([t EXCEPT !.sends = @ + 1],
                   t.at, t.image, t.digest, t.sbom, t.layers, t.att, t.still, t.n)
BY DEF Tasks, Fields

\* A step of a worker is one of these.
LEMMA WorkMoves ==
  ASSUME ScannerAssumption, ScanInv, NEW w \in Workers, Work(w)
  PROVE  \/ Take(w)
         \/ \E t \in Tasks : GoesOn(w, t)
         \/ \E status \in Lists : Ends(w, status)
<1> DEFINE t == worker[w]
           now == registry[t.image]
           Moves == \/ \E n \in Tasks : GoesOn(w, n)
                    \/ \E status \in Lists : Ends(w, status)
<1>a. ASSUME t # None
      PROVE  /\ t \in Tasks /\ now \in Digests /\ now # None
             /\ t.digest \in Digests \cup {None}
             /\ t.at \in {"layers", "attestation", "upload", "wait"} => t.sbom # None
             /\ history[KeyOf[t.image]].n \in Nat
  BY <1>a, Values DEF ScanInv, TaskInv, Gathered
<1>b. ASSUME NEW status \in Lists \ {"completed"}, t # None, Report(w, status),
             UNCHANGED serverVars
      PROVE  Moves
  <2>1. Ends(w, status)
    BY <1>b DEF Report, Step, Ends
  <2>2. QED BY <2>1
<1>c. ASSUME NEW n, t # None, Step(w, n), UNCHANGED <<queue, finished>>,
             NEW digest, NEW sbom, NEW layers, NEW att, NEW at,
             Fields(n, at, t.image, digest, sbom, layers, att, t.still, t.n),
             UNCHANGED serverVars,
             \/ digest = t.digest
             \/ digest \in {now, None} /\ t.at = "inspect",
             \/ sbom \in {t.sbom, now}
             \/ sbom = t.digest /\ digest = t.digest,
             layers \in {t.layers, now, None}, att \in {t.att, t.digest, None},
             at \notin {"inspect", "wait"}, at \in {"layers", "attestation", "upload"} => sbom # None
      PROVE  Moves
  <2>1. GoesOn(w, n)
    BY <1>c DEF Step, GoesOn, Fields
  <2>2. QED BY <1>c, <2>1 DEF Fields
<1> HIDE DEF Moves
<1>1. CASE Inspect(w)
  <2>1. PICK digest \in {now, None} : Step(w, [t EXCEPT !.digest = digest, !.at = "sbom"])
    BY <1>1 DEF Inspect
  <2>2. /\ t # None /\ t.at = "inspect" /\ digest \in Digests \cup {None}
        /\ UNCHANGED <<queue, finished>> /\ UNCHANGED serverVars
    BY <1>1, <1>a DEF Inspect, At
  <2>3. Fields([t EXCEPT !.digest = digest, !.at = "sbom"],
               "sbom", t.image, digest, t.sbom, t.layers, t.att, t.still, t.n)
    BY <1>a, <2>2, Updates
  <2>4. Moves
    BY <1>c, <2>1, <2>2, <2>3
  <2>5. QED BY <2>4 DEF Moves
<1>2. CASE DownloadSbom(w)
  <2>1. t # None /\ UNCHANGED <<queue, finished>> /\ UNCHANGED serverVars
    BY <1>2 DEF DownloadSbom, At
  <2>2. /\ Fields([t EXCEPT !.sbom = t.digest, !.at = "layers"],
                  "layers", t.image, t.digest, t.digest, t.layers, t.att, t.still, t.n)
        /\ Fields([t EXCEPT !.at = "syft"],
                  "syft", t.image, t.digest, t.sbom, t.layers, t.att, t.still, t.n)
    BY <1>a, <2>1, Updates
  <2>3. ASSUME t.digest # None, Step(w, [t EXCEPT !.sbom = t.digest, !.at = "layers"])
        PROVE  Moves
    BY <1>c, <2>1, <2>2, <2>3
  <2>4. ASSUME Step(w, [t EXCEPT !.at = "syft"]) PROVE Moves
    BY <1>c, <2>1, <2>2, <2>4
  <2>5. Moves
    BY <1>2, <2>3, <2>4 DEF DownloadSbom
  <2>6. QED BY <2>5 DEF Moves
<1>3. CASE ScanImage(w)
  <2>1. t # None
    BY <1>3 DEF ScanImage, At
  <2>2. Fields([t EXCEPT !.sbom = now, !.at = "layers"],
               "layers", t.image, t.digest, now, t.layers, t.att, t.still, t.n)
    BY <1>a, <2>1, Updates
  <2>3. ASSUME Report(w, "failed"), UNCHANGED serverVars PROVE Moves
    BY <1>b, <2>1, <2>3 DEF Lists
  <2>4. ASSUME Step(w, [t EXCEPT !.sbom = now, !.at = "layers"]),
               UNCHANGED <<queue, finished>>, UNCHANGED serverVars
        PROVE  Moves
    BY <1>a, <1>c, <2>1, <2>2, <2>4
  <2>5. Moves
    BY <1>3, <2>3, <2>4 DEF ScanImage
  <2>6. QED BY <2>5 DEF Moves
<1>4. CASE LayerChain(w)
  <2>1. PICK layers \in {now, None} : Step(w, [t EXCEPT !.layers = layers, !.at = "attestation"])
    BY <1>4 DEF LayerChain
  <2>2. /\ t # None /\ t.at = "layers" /\ layers \in Digests \cup {None}
        /\ UNCHANGED <<queue, finished>> /\ UNCHANGED serverVars
    BY <1>4, <1>a DEF LayerChain, At
  <2>3. Fields([t EXCEPT !.layers = layers, !.at = "attestation"],
               "attestation", t.image, t.digest, t.sbom, layers, t.att, t.still, t.n)
    BY <1>a, <2>2, Updates
  <2>4. Moves
    BY <1>a, <1>c, <2>1, <2>2, <2>3
  <2>5. QED BY <2>4 DEF Moves
<1>5. CASE Attest(w)
  <2>1. PICK att \in {t.digest, None} : Step(w, [t EXCEPT !.att = att, !.at = "upload"])
    BY <1>5 DEF Attest
  <2>2. /\ t # None /\ t.at = "attestation" /\ att \in Digests \cup {None}
        /\ UNCHANGED <<queue, finished>> /\ UNCHANGED serverVars
    BY <1>5, <1>a DEF Attest, At
  <2>3. Fields([t EXCEPT !.att = att, !.at = "upload"],
               "upload", t.image, t.digest, t.sbom, t.layers, att, t.still, t.n)
    BY <1>a, <2>2, Updates
  <2>4. Moves
    BY <1>a, <1>c, <2>1, <2>2, <2>3
  <2>5. QED BY <2>4 DEF Moves
<1>6. CASE NothingFound(w) \/ GiveUp(w)
  <2>1. Moves
    BY <1>6, <1>b DEF NothingFound, GiveUp, At, Lists
  <2>2. QED BY <2>1 DEF Moves
<1>7. CASE Raise(w)
  <2>1. t # None
    BY <1>7 DEF Raise, At
  <2>2. ASSUME Report(w, "failed"), UNCHANGED serverVars PROVE Moves
    BY <1>b, <2>1, <2>2 DEF Lists
  <2>3. ASSUME t.attempt < Retries, Step(w, [t EXCEPT !.attempt = @ + 1, !.at = "sbom"]),
               UNCHANGED <<queue, finished>>, UNCHANGED serverVars
        PROVE  Moves
    <3>1. t.attempt + 1 \in 1..Retries
      BY <1>a, <2>1, <2>3, TaskOf, Params
    <3>2. Fields([t EXCEPT !.attempt = @ + 1, !.at = "sbom"],
                 "sbom", t.image, t.digest, t.sbom, t.layers, t.att, t.still, t.n)
      BY <1>a, <2>1, <3>1, Updates
    <3>3. QED BY <1>c, <2>1, <2>3, <3>2
  <2>4. Moves
    BY <1>7, <2>2, <2>3 DEF Raise
  <2>5. QED BY <2>4 DEF Moves
<1>8. CASE SendInVain(w)
  <2>1. /\ t # None /\ t.at = "upload" /\ Step(w, [t EXCEPT !.sends = @ + 1])
        /\ UNCHANGED <<queue, finished>> /\ UNCHANGED serverVars /\ t.sends < Attempts
    BY <1>8 DEF SendInVain, At
  <2>2. t.sends + 1 \in 0..Attempts /\ 0 \in 0..MaxSends
    BY <1>a, <2>1, TaskOf, Params
  <2>3. Fields([t EXCEPT !.sends = @ + 1],
               t.at, t.image, t.digest, t.sbom, t.layers, t.att, t.still, t.n)
    BY <1>a, <2>1, <2>2, Sending
  <2>4. Moves
    BY <1>a, <1>c, <2>1, <2>3
  <2>5. QED BY <2>4 DEF Moves
<1>9. CASE Cut(w)
  <2>1. /\ t # None /\ t.at = "wait" /\ Step(w, [t EXCEPT !.at = "upload"])
        /\ UNCHANGED <<queue, finished>> /\ UNCHANGED serverVars
    BY <1>9 DEF Cut, At
  <2>2. Fields([t EXCEPT !.at = "upload"],
               "upload", t.image, t.digest, t.sbom, t.layers, t.att, t.still, t.n)
    BY <1>a, <2>1, Updates
  <2>3. Moves
    BY <1>a, <1>c, <2>1, <2>2
  <2>4. QED BY <2>3 DEF Moves
<1>10. CASE Send(w)
  <2> DEFINE n == history[KeyOf[t.image]].n + 1
             u == [t EXCEPT !.at = "wait", !.sends = @ + 1, !.n = n]
  <2>1. /\ t # None /\ t.at = "upload" /\ t.sends < Attempts /\ Step(w, u)
        /\ Receive(KeyOf[t.image], Content(t)) /\ UNCHANGED <<queue, finished>>
    BY <1>10 DEF Send, At
  <2>2. t.sends + 1 \in 0..Attempts /\ n \in 0..MaxSends
    BY <1>a, <2>1, TaskOf, Params DEF Receive
  <2>3. Fields(u, "wait", t.image, t.digest, t.sbom, t.layers, t.att, t.still, n)
    BY <1>a, <2>1, <2>2, Sending
  <2>4. t.sbom # None
    BY <1>a, <2>1
  <2> HIDE DEF u
  <2>5. GoesOn(w, u)
    BY <2>1, <2>3, <2>4 DEF Step, GoesOn, Fields
  <2>6. QED BY <2>3, <2>5 DEF Fields
<1>11. CASE Upload(w)
  <2>1. Ends(w, "completed") /\ "completed" \in Lists
    BY <1>11 DEF Upload, Report, Step, Ends, Lists, Awaits, At
  <2>2. QED BY <2>1
<1>12. QED BY <1>1, <1>2, <1>3, <1>4, <1>5, <1>6, <1>7, <1>8, <1>9, <1>10, <1>11 DEF Work

----------------------------------------------------------------------------
(* What lasts while the server goes on.                                    *)

\* Whatever the server does, what stands of the recorded and of the finished uploads
\* is there.
LEMMA StoredLasts ==
  ASSUME ScannerAssumption, ScanInv, ServerInv(Keys, Whole)', Lasting(Keys),
         UNCHANGED file
  PROVE  /\ FileKept' /\ \A r \in finished : r.status = "completed" => ResultKept(r)'
         /\ finished' \subseteq finished => StoredInv'
<1>1. ASSUME NEW k \in Keys, Undisturbed(k)',
             file'.list[k] = "completed" \/ file'.digest[k] # None
      PROVE  \E s \in server'[k] : /\ Safe(k, history[k].recorded, s)'
                                  /\ NotAhead(file.digest[k], s.content.sbom)'
  <2>1. PICK n \in Nat : n = history[k].recorded /\ n <= history[k].n /\ history'[k].recorded = n
    BY Values DEF Lasting
  <2>2. Stands(k, n)'
    BY <1>1, <2>1 DEF Undisturbed, Stands
  <2>3. Stands(k, n) /\ \A s \in server[k] : Safe(k, n, s) => Safe(k, n, s)'
    BY <2>1, <2>2 DEF Lasting
  <2>4. Undisturbed(k)
    BY <2>1, <2>3 DEF Undisturbed, Stands
  <2>5. PICK s \in server[k] : Safe(k, n, s) /\ NotAhead(file.digest[k], s.content.sbom)
    BY <1>1, <2>1, <2>4 DEF ScanInv, StoredInv, FileKept
  <2>6. Safe(k, n, s)' /\ NotAhead(file'.digest[k], s.content.sbom)
    BY <2>3, <2>5
  <2>7. QED BY <2>1, <2>6 DEF Safe
<1>2. ASSUME NEW r \in finished, r.status = "completed"
      PROVE  /\ r.n >= 1 /\ r.n <= history'[KeyOf[r.image]].n
             /\ Stands(KeyOf[r.image], r.n)' =>
                  \E s \in server'[KeyOf[r.image]] :
                     Safe(KeyOf[r.image], r.n, s)' /\ NotAhead(r.digest, s.content.sbom)
  <2>1. PICK k \in Keys, n \in Nat : k = KeyOf[r.image] /\ n = r.n
    BY Values
  <2>2. n >= 1 /\ n <= history[k].n
    BY <1>2, <2>1 DEF ScanInv, StoredInv, ResultKept
  <2>3. history[k].n \in Nat /\ history[k].n <= history'[k].n
    BY <2>1, Values DEF Lasting
  <2>4. n <= history'[k].n
    <3>1. history'[k].n \in Nat
      BY Values DEF ServerInv, ServerTypeOK
    <3>2. QED BY <2>2, <2>3, <3>1
  <2>5. ASSUME Stands(k, n)'
        PROVE  \E s \in server'[k] : Safe(k, n, s)' /\ NotAhead(r.digest, s.content.sbom)
    <3>1. Stands(k, n) /\ \A s \in server[k] : Safe(k, n, s) => Safe(k, n, s)'
      BY <2>2, <2>5 DEF Lasting
    <3>2. PICK s \in server[k] : Safe(k, n, s) /\ NotAhead(r.digest, s.content.sbom)
      BY <1>2, <2>1, <3>1 DEF ScanInv, StoredInv, ResultKept
    <3>3. QED BY <3>1, <3>2 DEF Safe
  <2>6. QED BY <2>1, <2>2, <2>4, <2>5
<1>3. QED BY <1>1, <1>2 DEF StoredInv, FileKept, ResultKept

\* And what a worker has gathered and sent.
LEMMA TaskLasts ==
  ASSUME ScannerAssumption, ScanInv, ServerInv(Keys, Whole)', Lasting(Keys),
         UNCHANGED registry, NEW t \in Tasks, Gathered(t), Sent(t)
  PROVE  Gathered(t)' /\ Sent(t)'
<1>1. PICK k \in Keys : k = KeyOf[t.image]
  BY TaskOf, Params
<1>2. Gathered(t)'
  BY DEF Gathered
<1>3. /\ t.n \in 0..MaxSends /\ MaxSends \in Nat /\ history[k].n \in Nat
      /\ t.n <= history[k].n /\ history[k].n <= history'[k].n
  BY <1>1, TaskOf, Values DEF Lasting, Sent
<1>4. t.n <= history'[k].n
  <2>1. history'[k].n \in Nat
    BY Values DEF ServerInv, ServerTypeOK
  <2>2. QED BY <1>3, <2>1
<1>5. ASSUME NEW q \in requests', t.at = "wait", q.key = k, q.n = t.n
      PROVE  q.content.sbom = t.sbom
  <2>1. \/ \E p \in requests : p.key = q.key /\ p.n = q.n /\ p.content = q.content
        \/ q.n > history[q.key].n
    BY DEF Lasting
  <2>2. ~ (q.n > history[q.key].n)
    BY <1>3, <1>5
  <2>3. QED BY <1>1, <1>5, <2>1, <2>2 DEF Sent
<1>6. QED BY <1>1, <1>2, <1>4, <1>5 DEF Sent

\* Nothing but the server moves.
LEMMA ServerKeeps ==
  ASSUME ScannerAssumption, ScanInv, Served(Keys, Whole),
         UNCHANGED <<registry, file, progress, main, queue, worker, finished>>
  PROVE  ScanInv'
<1>1. ServerInv(Keys, Whole)' /\ Lasting(Keys)
  BY Values, ServerLasts
<1>2. TypeInv'
  BY <1>1 DEF ScanInv, TypeInv
<1>3. PlaceInv'
  BY DEF ScanInv, PlaceInv, Has, Worked, Done
<1>4. StoredInv'
  BY <1>1, StoredLasts
<1>5. ASSUME NEW w \in Workers, worker'[w] # None
      PROVE  Gathered(worker[w])' /\ Sent(worker[w])'
  <2>1. PICK t \in Tasks : t = worker[w]
    BY <1>5, Values
  <2>2. Gathered(t) /\ Sent(t)
    BY <1>5, <2>1 DEF ScanInv, TaskInv
  <2>3. Gathered(t)' /\ Sent(t)' /\ worker'[w] = t
    BY <1>1, <2>1, <2>2, TaskLasts
  <2>4. QED BY <2>3 DEF Gathered, Sent
<1>6. AccountInv'
  BY DEF ScanInv, AccountInv, Has, Worked, Done
<1>7. QED BY <1>2, <1>3, <1>4, <1>5, <1>6 DEF ScanInv, TaskInv

\* The server and the workers stand still.
LEMMA QuietKeeps ==
  ASSUME ScannerAssumption, ScanInv, UNCHANGED serverVars
  PROVE  /\ ServerInv(Keys, Whole)' /\ Lasting(Keys)
         /\ UNCHANGED <<server, requests, history>>
         /\ UNCHANGED <<registry, worker>> => TaskInv'
<1>1. ServerInv(Keys, Whole)' /\ Lasting(Keys)
  BY Values, ServerLasts DEF Served
<1>2. UNCHANGED <<server, requests, history>>
  BY DEF serverVars
<1>3. QED BY <1>1, <1>2 DEF ScanInv, TaskInv, Gathered, Sent

----------------------------------------------------------------------------
(* The steps of the main thread.                                           *)

\* A run begins with an empty pool and what the file says, or less.
LEMMA StartKeeps ==
  ASSUME ScannerAssumption, ScanInv, Start
  PROVE  ScanInv'
<1>1. PICK inventory \in SUBSET Images, full \in BOOLEAN :
        main' = [at |-> "build", inventory |-> inventory, todo |-> inventory, full |-> full]
  BY DEF Start
<1>2. main' \in MainState /\ main'.at = "build" /\ main'.todo = main'.inventory
  BY <1>1 DEF MainState
<1>3. /\ UNCHANGED <<registry, server, requests, history, queue, worker, finished>>
      /\ progress' = file' /\ ServerInv(Keys, Whole)' /\ TaskInv'
      /\ queue = {} /\ finished = {} /\ \A w \in Workers : worker[w] = None
  BY QuietKeeps DEF Start, ScanInv, PlaceInv
<1>4. /\ file' \in Progress
      /\ \A k \in Keys : /\ file'.list[k] = "completed" => file.list[k] = "completed"
                         /\ file'.digest[k] \in {file.digest[k], None}
  <2>1. file \in Progress /\ None # "completed"
    BY Params DEF ScanInv, TypeInv, Lists
  <2>2. Empty \in Progress /\ \A k \in Keys : Empty.list[k] = None /\ Empty.digest[k] = None
    BY DEF Empty, Progress
  <2> DEFINE forgiven == [k \in Keys |-> IF file.list[k] = "failed" THEN None ELSE file.list[k]]
             kept == [file EXCEPT !.list = forgiven]
  <2>3. /\ forgiven \in [Keys -> Lists \cup {None}]
        /\ \A k \in Keys : forgiven[k] = "completed" => file.list[k] = "completed"
    BY <2>1 DEF Progress
  <2> HIDE DEF forgiven
  <2>4. kept \in Progress /\ kept.list = forgiven /\ kept.digest = file.digest
    BY <2>1, <2>3 DEF Progress
  <2> HIDE DEF kept
  <2>5. file' \in {file, Empty, kept}
    BY DEF Start, kept, forgiven, ScanInv, TypeInv
  <2>6. QED BY <2>1, <2>2, <2>3, <2>4, <2>5
<1>5. TypeInv'
  BY <1>2, <1>3, <1>4 DEF ScanInv, TypeInv
<1>6. PlaceInv'
  BY <1>2, <1>3 DEF PlaceInv, Has, Worked, Done
<1>7. StoredInv'
  <2>1. ASSUME NEW k \in Keys, Undisturbed(k)',
               file'.list[k] = "completed" \/ file'.digest[k] # None
        PROVE  \E s \in server'[k] : /\ Safe(k, history[k].recorded, s)'
                                    /\ NotAhead(file.digest[k], s.content.sbom)'
    <3>1. Undisturbed(k) /\ (file.list[k] = "completed" \/ file.digest[k] # None)
      BY <1>3, <1>4, <2>1 DEF Undisturbed
    <3>2. PICK s \in server[k] : /\ Safe(k, history[k].recorded, s)
                                /\ NotAhead(file.digest[k], s.content.sbom)
      BY <3>1 DEF ScanInv, StoredInv, FileKept
    <3>3. QED BY <1>3, <1>4, <3>2 DEF Safe, NotAhead
  <2>2. QED BY <1>3, <2>1 DEF StoredInv, FileKept
<1>8. AccountInv'
  BY <1>2 DEF AccountInv
<1>9. QED BY <1>3, <1>5, <1>6, <1>7, <1>8 DEF ScanInv

\* The inventory is queued, but for what is completed.
LEMMA QueueKeeps ==
  ASSUME ScannerAssumption, ScanInv, Enqueue \/ StartPool
  PROVE  ScanInv'
<1>1. /\ UNCHANGED <<registry, file, progress, worker, finished>> /\ UNCHANGED serverVars
      /\ main.at = "build" /\ main \in MainState
      /\ finished = {} /\ \A w \in Workers : worker[w] = None
  BY DEF Enqueue, StartPool, ScanInv, PlaceInv, TypeInv
<1>2. /\ main' \in MainState /\ main'.inventory = main.inventory
      /\ main'.todo \subseteq main.todo /\ main'.at \in {"build", "scan"}
      /\ main'.at = "scan" => main'.todo = {}
      /\ queue \subseteq queue' /\ queue' \subseteq queue \cup (main.todo \ main'.todo)
      /\ \A i \in main.todo \ main'.todo : i \in queue' \/ file.list[KeyOf[i]] = "completed"
  <2>1. CASE StartPool
    BY <1>1, <2>1 DEF StartPool, MainState
  <2>2. CASE Enqueue
    BY <1>1, <2>2 DEF Enqueue, MainState, Completed, ScanInv, TypeInv
  <2>3. QED BY <2>1, <2>2
<1>3. ServerInv(Keys, Whole)' /\ Lasting(Keys) /\ TaskInv'
  BY <1>1, QuietKeeps
<1>4. TypeInv'
  BY <1>1, <1>2, <1>3 DEF ScanInv, TypeInv
<1>5. PlaceInv'
  BY <1>1, <1>2 DEF ScanInv, PlaceInv, Has, Worked, Done
<1>6. StoredInv'
  BY <1>1, <1>3, StoredLasts
<1>7. AccountInv'
  BY <1>1, <1>2, Params DEF ScanInv, AccountInv, Has, Worked, Done, Lists
<1>8. QED BY <1>3, <1>4, <1>5, <1>6, <1>7 DEF ScanInv

\* What Record makes of the progress file.
LEMMA Recording ==
  ASSUME ScannerAssumption, ScanInv, Record
  PROVE  \E r \in finished :
           /\ finished' = finished \ {r} /\ file' = progress' /\ file' \in Progress
           /\ r \in Result /\ KeyOf[r.image] \in Keys
           /\ \A k \in Keys \ {KeyOf[r.image]} :
                file'.list[k] = file.list[k] /\ file'.digest[k] = file.digest[k]
           /\ file'.list[KeyOf[r.image]] = r.status
           /\ file'.digest[KeyOf[r.image]] =
                IF r.status = "completed" THEN r.digest ELSE file.digest[KeyOf[r.image]]
           /\ IF r.status = "completed" THEN Remember(KeyOf[r.image], r.n)
                                        ELSE UNCHANGED history
           /\ UNCHANGED <<registry, server, requests, main, queue, worker>>
<1>1. PICK r \in finished :
        /\ finished' = finished \ {r}
        /\ progress' = [progress EXCEPT !.list[KeyOf[r.image]] = r.status,
                          !.digest[KeyOf[r.image]] =
                             IF r.status = "completed" THEN r.digest ELSE @]
        /\ IF r.status = "completed" THEN Remember(KeyOf[r.image], r.n)
                                     ELSE UNCHANGED history
  BY DEF Record
<1> DEFINE key == KeyOf[r.image]
           digest == IF r.status = "completed" THEN r.digest ELSE file.digest[key]
<1>2. /\ r \in Result /\ key \in Keys /\ file \in Progress /\ progress = file
      /\ r.status \in Lists /\ digest \in Digests \cup {None}
  <2>1. r \in Result /\ file \in Progress /\ progress = file
    BY DEF ScanInv, TypeInv
  <2>2. key \in Keys
    BY <2>1, Params DEF Result
  <2>3. QED BY <2>1, <2>2 DEF Result, Progress
<1>3. progress' = [file EXCEPT !.list = [file.list EXCEPT ![key] = r.status],
                               !.digest = [file.digest EXCEPT ![key] = digest]]
  BY <1>1, <1>2 DEF Progress
<1> HIDE DEF key, digest
<1>4. /\ progress' \in Progress
      /\ progress'.list = [file.list EXCEPT ![key] = r.status]
      /\ progress'.digest = [file.digest EXCEPT ![key] = digest]
  BY <1>2, <1>3 DEF Progress
<1>5. /\ \A k \in Keys \ {key} :
           progress'.list[k] = file.list[k] /\ progress'.digest[k] = file.digest[k]
      /\ progress'.list[key] = r.status /\ progress'.digest[key] = digest
  BY <1>2, <1>4 DEF Progress
<1>6. file' = progress' /\ UNCHANGED <<registry, server, requests, main, queue, worker>>
  BY DEF Record
<1>7. QED BY <1>1, <1>2, <1>4, <1>5, <1>6 DEF key, digest

\* A result goes from the pool to the file.
LEMMA RecordKeeps ==
  ASSUME ScannerAssumption, ScanInv, Record
  PROVE  ScanInv'
<1>1. PICK r \in finished :
        /\ finished' = finished \ {r} /\ file' = progress' /\ file' \in Progress
        /\ r \in Result /\ KeyOf[r.image] \in Keys
        /\ \A k \in Keys \ {KeyOf[r.image]} :
             file'.list[k] = file.list[k] /\ file'.digest[k] = file.digest[k]
        /\ file'.list[KeyOf[r.image]] = r.status
        /\ file'.digest[KeyOf[r.image]] =
             IF r.status = "completed" THEN r.digest ELSE file.digest[KeyOf[r.image]]
        /\ IF r.status = "completed" THEN Remember(KeyOf[r.image], r.n) ELSE UNCHANGED history
        /\ UNCHANGED <<registry, server, requests, main, queue, worker>>
  BY Recording
<1> DEFINE key == KeyOf[r.image]
<1>2. r.status = "completed" =>
        /\ r.n \in 1..MaxSends /\ r.n <= history[key].n
        /\ Stands(key, r.n) =>
             \E s \in server[key] : Safe(key, r.n, s) /\ NotAhead(r.digest, s.content.sbom)
  <2>1. r.n \in 0..MaxSends
    BY <1>1 DEF Result
  <2>2. MaxSends \in Nat
    BY Params
  <2>3. r.status = "completed" =>
          /\ r.n >= 1 /\ r.n <= history[key].n
          /\ Stands(key, r.n) =>
               \E s \in server[key] : Safe(key, r.n, s) /\ NotAhead(r.digest, s.content.sbom)
    BY DEF ScanInv, StoredInv, ResultKept
  <2>4. QED BY <2>1, <2>2, <2>3
<1>3. /\ ServerInv(Keys, Whole)'
      /\ \A k \in Keys : history'[k].n = history[k].n /\ history'[k].sole = history[k].sole
      /\ \A k \in Keys \ {key} : history'[k] = history[k]
      /\ r.status = "completed" => history'[key].recorded = r.n
      /\ r.status # "completed" => history' = history
  <2>1. CASE r.status = "completed"
    BY <1>1, <1>2, <2>1, Values, RememberKeeps
  <2>2. CASE r.status # "completed"
    BY <1>1, <2>2, Values DEF ServerInv, ServerTypeOK
  <2>3. QED BY <2>1, <2>2
<1>4. TypeInv'
  BY <1>1, <1>3 DEF ScanInv, TypeInv
<1>5. PlaceInv'
  BY <1>1 DEF ScanInv, PlaceInv, Has, Worked, Done
<1>6. ASSUME NEW k \in Keys, NEW n, Stands(k, n)', NEW s \in server[k], Safe(k, n, s)
      PROVE  Stands(k, n) /\ Safe(k, n, s)'
  BY <1>1, <1>3, <1>6 DEF Stands, Safe
<1>7. StoredInv'
  <2>1. ASSUME NEW k \in Keys, Undisturbed(k)',
               file'.list[k] = "completed" \/ file'.digest[k] # None
        PROVE  \E s \in server'[k] : /\ Safe(k, history[k].recorded, s)'
                                    /\ NotAhead(file.digest[k], s.content.sbom)'
    <3>1. CASE k = key /\ r.status = "completed"
      <4>1. history'[k].recorded = r.n /\ Stands(k, r.n) /\ file'.digest[k] = r.digest
        BY <1>1, <1>3, <2>1, <3>1 DEF Undisturbed, Stands
      <4>2. PICK s \in server[k] : Safe(k, r.n, s) /\ NotAhead(r.digest, s.content.sbom)
        BY <1>2, <3>1, <4>1
      <4>3. QED BY <1>1, <4>1, <4>2 DEF Safe, NotAhead
    <3>2. CASE ~ (k = key /\ r.status = "completed")
      <4>1. history'[k] = history[k] /\ file'.digest[k] = file.digest[k]
        BY <1>1, <1>3, <3>2
      <4>2. Undisturbed(k) /\ (file.list[k] = "completed" \/ file.digest[k] # None)
        BY <1>1, <2>1, <3>2, <4>1 DEF Undisturbed
      <4>3. PICK s \in server[k] : /\ Safe(k, history[k].recorded, s)
                                  /\ NotAhead(file.digest[k], s.content.sbom)
        BY <4>2 DEF ScanInv, StoredInv, FileKept
      <4>4. QED BY <1>1, <4>1, <4>3 DEF Safe, NotAhead
    <3>3. QED BY <3>1, <3>2
  <2>2. ASSUME NEW q \in finished', q.status = "completed"
        PROVE  /\ q.n >= 1 /\ q.n <= history'[KeyOf[q.image]].n
               /\ Stands(KeyOf[q.image], q.n)' =>
                    \E s \in server'[KeyOf[q.image]] :
                       Safe(KeyOf[q.image], q.n, s)' /\ NotAhead(q.digest, s.content.sbom)
    <3>1. PICK k \in Keys : k = KeyOf[q.image]
      BY <1>1, Values
    <3>2. /\ q.n >= 1 /\ q.n <= history[k].n
          /\ Stands(k, q.n) =>
               \E s \in server[k] : Safe(k, q.n, s) /\ NotAhead(q.digest, s.content.sbom)
      BY <1>1, <2>2, <3>1 DEF ScanInv, StoredInv, ResultKept
    <3>3. history'[k].n = history[k].n /\ (Stands(k, q.n)' <=> Stands(k, q.n))
      BY <1>3 DEF Stands
    <3>4. \A s \in server[k] : Safe(k, q.n, s) => Safe(k, q.n, s)'
      BY <1>1 DEF Safe
    <3>5. QED BY <1>1, <3>1, <3>2, <3>3, <3>4
  <2>3. QED BY <2>1, <2>2 DEF StoredInv, FileKept, ResultKept
<1>8. TaskInv'
  <2>1. ASSUME NEW w \in Workers, worker[w] # None
        PROVE  Gathered(worker[w])' /\ Sent(worker[w])'
    <3>1. PICK k \in Keys : k = KeyOf[worker[w].image]
      BY <2>1, Values
    <3>2. Gathered(worker[w]) /\ Sent(worker[w])
      BY <2>1 DEF ScanInv, TaskInv
    <3>3. QED BY <1>1, <1>3, <3>1, <3>2 DEF Gathered, Sent
  <2>2. QED BY <1>1, <2>1 DEF TaskInv
<1>9. AccountInv'
  <2>1. r.status # None
    BY <1>1, Params DEF Result
  <2>2. \A i \in main.inventory : KeyOf[i] \in Keys
    BY Params DEF ScanInv, TypeInv, MainState
  <2>3. \A i : Done(i) => Done(i)' \/ i = r.image
    BY <1>1 DEF Done
  <2>4. QED BY <1>1, <2>1, <2>2, <2>3 DEF ScanInv, AccountInv, Has, Worked
<1>10. QED BY <1>4, <1>5, <1>7, <1>8, <1>9 DEF ScanInv

\* A run ends, or is killed.
LEMMA EndKeeps ==
  ASSUME ScannerAssumption, ScanInv, Finish \/ Kill
  PROVE  ScanInv'
<1>1. /\ UNCHANGED <<registry, file, progress>> /\ main' = Idle /\ UNCHANGED serverVars
      /\ queue' = {} /\ finished' = {}
      /\ worker' \in [Workers -> Tasks \cup {None}] /\ \A w \in Workers : worker'[w] = None
  BY DEF Finish, Kill, ScanInv, TypeInv
<1>2. main' \in MainState /\ main'.at = "idle" /\ main'.todo = {} /\ main'.inventory = {}
  BY <1>1 DEF Idle, MainState
<1>3. ServerInv(Keys, Whole)' /\ Lasting(Keys)
  BY <1>1, QuietKeeps
<1>4. TypeInv'
  BY <1>1, <1>2, <1>3 DEF ScanInv, TypeInv
<1>5. PlaceInv'
  BY <1>1, <1>2 DEF PlaceInv, Has, Worked, Done
<1>6. StoredInv'
  BY <1>1, <1>3, StoredLasts
<1>7. TaskInv'
  BY <1>1 DEF TaskInv
<1>8. AccountInv'
  BY <1>2 DEF AccountInv
<1>9. QED BY <1>4, <1>5, <1>6, <1>7, <1>8 DEF ScanInv

----------------------------------------------------------------------------
(* The steps of the registry and of the workers.                           *)

\* What a moved tag does: the image's worker knows that it moved.
LEMMA Moving ==
  ASSUME ScannerAssumption, ScanInv, MoveTag
  PROVE  \E i \in Images :
           /\ registry' \in [Images -> Digests] /\ registry'[i] = registry[i] + 1
           /\ \A j \in Images \ {i} : registry'[j] = registry[j]
           /\ worker' \in [Workers -> Tasks \cup {None}]
           /\ \A w \in Workers : worker[w] = None => worker'[w] = None
           /\ \A w \in Workers : worker[w] # None =>
                /\ worker'[w] # None
                /\ Fields(worker'[w], worker[w].at, worker[w].image, worker[w].digest,
                          worker[w].sbom, worker[w].layers, worker[w].att,
                          worker[w].still /\ worker[w].image # i, worker[w].n)
           /\ UNCHANGED <<file, progress, main, queue, finished>> /\ UNCHANGED serverVars
<1>1. PICK i \in Images :
        /\ registry[i] < MaxMoves
        /\ registry' = [registry EXCEPT ![i] = @ + 1]
        /\ worker' = [w \in Workers |->
             IF worker[w] # None /\ worker[w].image = i
             THEN [worker[w] EXCEPT !.still = FALSE] ELSE worker[w]]
  BY DEF MoveTag
<1>2. /\ registry' \in [Images -> Digests] /\ registry'[i] = registry[i] + 1
      /\ \A j \in Images \ {i} : registry'[j] = registry[j]
  <2>1. registry \in [Images -> Digests] /\ registry[i] + 1 \in Digests
    BY <1>1, Params DEF ScanInv, TypeInv, Digests
  <2>2. QED BY <1>1, <2>1
<1>3. ASSUME NEW t \in Tasks
      PROVE  Fields([t EXCEPT !.still = FALSE], t.at, t.image, t.digest, t.sbom,
                    t.layers, t.att, FALSE, t.n)
  BY DEF Tasks, Fields
<1>4. ASSUME NEW w \in Workers, worker[w] # None
      PROVE  /\ worker'[w] \in Tasks /\ worker'[w] # None
             /\ Fields(worker'[w], worker[w].at, worker[w].image, worker[w].digest,
                       worker[w].sbom, worker[w].layers, worker[w].att,
                       worker[w].still /\ worker[w].image # i, worker[w].n)
  <2>1. worker[w] \in Tasks
    BY <1>4 DEF ScanInv, TypeInv
  <2>2. /\ Fields(worker[w], worker[w].at, worker[w].image, worker[w].digest, worker[w].sbom,
                  worker[w].layers, worker[w].att, worker[w].still, worker[w].n)
        /\ worker[w].still \in BOOLEAN
    BY <2>1 DEF Fields, Tasks
  <2>3. worker[w].image = i =>
          Fields(worker'[w], worker[w].at, worker[w].image, worker[w].digest,
                 worker[w].sbom, worker[w].layers, worker[w].att, FALSE, worker[w].n)
    BY <1>1, <1>3, <1>4, <2>1
  <2>4. worker[w].image # i => worker'[w] = worker[w]
    BY <1>1
  <2>5. QED BY <2>1, <2>2, <2>3, <2>4, Params DEF Fields
<1>5. \A w \in Workers : worker[w] = None => worker'[w] = None
  BY <1>1
<1>6. worker' \in [Workers -> Tasks \cup {None}]
  BY <1>1, <1>4, <1>5
<1>7. UNCHANGED <<file, progress, main, queue, finished>> /\ UNCHANGED serverVars
  BY DEF MoveTag
<1>8. QED BY <1>2, <1>4, <1>5, <1>6, <1>7

LEMMA MoveTagKeeps ==
  ASSUME ScannerAssumption, ScanInv, MoveTag
  PROVE  ScanInv'
<1>1. PICK i \in Images :
        /\ registry' \in [Images -> Digests] /\ registry'[i] = registry[i] + 1
        /\ \A j \in Images \ {i} : registry'[j] = registry[j]
        /\ worker' \in [Workers -> Tasks \cup {None}]
        /\ \A w \in Workers : worker[w] = None => worker'[w] = None
        /\ \A w \in Workers : worker[w] # None =>
             /\ worker'[w] # None
             /\ Fields(worker'[w], worker[w].at, worker[w].image, worker[w].digest,
                       worker[w].sbom, worker[w].layers, worker[w].att,
                       worker[w].still /\ worker[w].image # i, worker[w].n)
        /\ UNCHANGED <<file, progress, main, queue, finished>> /\ UNCHANGED serverVars
  BY Moving
<1>2. \A w \in Workers : \A j : Has(w, j)' <=> Has(w, j)
  BY <1>1 DEF Has, Fields
<1>3. \A j : (Worked(j)' <=> Worked(j)) /\ (Done(j)' <=> Done(j))
  BY <1>1, <1>2 DEF Worked, Done
<1>4. /\ ServerInv(Keys, Whole)' /\ Lasting(Keys)
      /\ UNCHANGED <<server, requests, history>>
  BY <1>1, QuietKeeps
<1>5. TypeInv'
  BY <1>1, <1>4 DEF ScanInv, TypeInv
<1>6. PlaceInv'
  <2>1. main.at # "scan" => \A w \in Workers : worker'[w] = None
    BY <1>1 DEF ScanInv, PlaceInv
  <2>2. QED BY <1>1, <1>2, <1>3, <2>1 DEF ScanInv, PlaceInv
<1>7. StoredInv'
  BY <1>1, <1>4, StoredLasts
<1>8. TaskInv'
  <2>1. ASSUME NEW w \in Workers, worker'[w] # None
        PROVE  Gathered(worker[w])' /\ Sent(worker[w])'
    <3>1. worker[w] # None
      BY <1>1, <2>1
    <3>2. /\ worker[w].image \in Images /\ None \notin Nat
          /\ worker[w].digest \in Nat \cup {None} /\ worker[w].sbom \in Nat \cup {None}
          /\ registry[worker[w].image] \in Nat /\ registry'[worker[w].image] \in Nat
          /\ registry[worker[w].image] <= registry'[worker[w].image]
      <4>1. worker[w].image \in Images /\ None \notin Nat
        BY <3>1, Values
      <4>2. worker[w].digest \in Nat \cup {None} /\ worker[w].sbom \in Nat \cup {None}
        BY <3>1, Values, Params
      <4>3. registry[worker[w].image] \in Nat
        BY <3>1, Values
      <4>4. registry'[worker[w].image] \in {registry[worker[w].image],
                                            registry[worker[w].image] + 1}
        BY <1>1, <4>1
      <4>5. QED BY <4>1, <4>2, <4>3, <4>4
    <3>3. Gathered(worker[w]) /\ Sent(worker[w])
      BY <3>1 DEF ScanInv, TaskInv
    <3>4. Fields(worker'[w], worker[w].at, worker[w].image, worker[w].digest,
                 worker[w].sbom, worker[w].layers, worker[w].att,
                 worker[w].still /\ worker[w].image # i, worker[w].n)
      BY <1>1, <3>1
    <3>5. worker'[w].still => worker[w].still /\
                              registry'[worker'[w].image] = registry[worker[w].image]
      <4>1. worker'[w].still => worker[w].still /\ worker[w].image # i
        BY <3>4, Zenon DEF Fields
      <4>2. worker'[w].image = worker[w].image
        BY <3>4 DEF Fields
      <4>3. worker[w].image # i => registry'[worker[w].image] = registry[worker[w].image]
        BY <1>1, <3>2
      <4>4. QED BY <4>1, <4>2, <4>3
    <3>6. /\ NotAhead(worker'[w].digest, registry'[worker'[w].image])
          /\ NotAhead(worker'[w].sbom, registry'[worker'[w].image])
          /\ NotAhead(worker'[w].digest, worker'[w].sbom)
      BY <3>2, <3>3, <3>4 DEF Gathered, Fields, NotAhead
    <3>7. Gathered(worker[w])'
      BY <3>3, <3>4, <3>5, <3>6 DEF Gathered, Fields
    <3>8. Sent(worker[w])'
      BY <1>4, <3>3, <3>4 DEF Sent, Fields
    <3>9. QED BY <3>7, <3>8
  <2>2. QED BY <2>1 DEF TaskInv
<1>9. AccountInv'
  BY <1>1, <1>3 DEF ScanInv, AccountInv
<1>10. QED BY <1>5, <1>6, <1>7, <1>8, <1>9 DEF ScanInv

\* What one worker has done leaves the tasks of the others as they were.
LEMMA OthersLast ==
  ASSUME ScannerAssumption, ScanInv, ServerInv(Keys, Whole)', Lasting(Keys),
         UNCHANGED registry, NEW w \in Workers,
         \A v \in Workers \ {w} : worker'[v] = worker[v],
         worker'[w] # None => Gathered(worker[w])' /\ Sent(worker[w])'
  PROVE  TaskInv'
<1>1. ASSUME NEW v \in Workers \ {w}, worker'[v] # None
      PROVE  Gathered(worker[v])' /\ Sent(worker[v])'
  <2>1. PICK t \in Tasks : t = worker[v]
    BY <1>1, Values
  <2>2. Gathered(t) /\ Sent(t)
    BY <1>1, <2>1 DEF ScanInv, TaskInv
  <2>3. Gathered(t)' /\ Sent(t)' /\ worker'[v] = t
    BY <2>1, <2>2, TaskLasts
  <2>4. QED BY <2>3 DEF Gathered, Sent
<1>2. QED BY <1>1 DEF TaskInv

\* A free worker takes an image off the queue.
LEMMA TakeKeeps ==
  ASSUME ScannerAssumption, ScanInv, NEW w \in Workers, Take(w)
  PROVE  ScanInv'
<1> DEFINE Fresh(i) == [image |-> i, at |-> "inspect", digest |-> None, sbom |-> None,
                        layers |-> None, att |-> None, still |-> TRUE, attempt |-> 1,
                        sends |-> 0, n |-> 0]
<1>1. PICK i \in queue : queue' = queue \ {i} /\ Step(w, Fresh(i))
  BY DEF Take
<1> DEFINE t == Fresh(i)
<1>2. /\ main.at = "scan" /\ worker[w] = None /\ worker' = [worker EXCEPT ![w] = t]
      /\ UNCHANGED <<registry, file, progress, main, finished>> /\ UNCHANGED serverVars
  BY <1>1 DEF Take, Step
<1>3. i \in Images /\ worker \in [Workers -> Tasks \cup {None}] /\ main \in MainState
  BY DEF ScanInv, TypeInv, MainState
<1>4. t \in Tasks /\ t # None
  <2>1. /\ 1 \in 1..Retries /\ i \in Images /\ None \notin Tasks
        /\ 0 \in 0..Attempts /\ 0 \in 0..MaxSends
    BY <1>3, Params
  <2>2. t \in Tasks
    BY <2>1, SMTT(30) DEF Tasks
  <2>3. QED BY <2>1, <2>2
<1>5. /\ t.image = i /\ t.at = "inspect" /\ t.n = 0
      /\ t.digest = None /\ t.sbom = None /\ t.layers = None /\ t.att = None
  OBVIOUS
<1> HIDE DEF t
<1>6. /\ worker' \in [Workers -> Tasks \cup {None}] /\ worker'[w] = t
      /\ \A v \in Workers \ {w} : worker'[v] = worker[v]
  BY <1>2, <1>3, <1>4
<1>7. \A v \in Workers : \A j : Has(v, j)' <=> Has(v, j) \/ (v = w /\ j = i)
  BY <1>2, <1>4, <1>5, <1>6 DEF Has
<1>8. \A j : (Worked(j)' <=> Worked(j) \/ j = i) /\ (Done(j)' <=> Done(j))
  BY <1>2, <1>7 DEF Worked, Done
<1>9. ~ Worked(i) /\ ~ Done(i) /\ i \notin main.todo
  BY DEF ScanInv, PlaceInv
<1>10. /\ ServerInv(Keys, Whole)' /\ Lasting(Keys)
       /\ UNCHANGED <<server, requests, history>>
  BY <1>2, QuietKeeps
<1>11. TypeInv'
  BY <1>1, <1>2, <1>6, <1>10 DEF ScanInv, TypeInv
<1>12. PlaceInv'
  <2>1. \A v \in Workers : ~ Has(v, i)
    BY <1>9 DEF Worked
  <2>2. \A v, u \in Workers : \A j \in Images : Has(v, j)' /\ Has(u, j)' => v = u
    BY <1>7, <2>1 DEF ScanInv, PlaceInv
  <2>3. \A j \in queue' : ~ Worked(j)' /\ ~ Done(j)'
    BY <1>1, <1>8 DEF ScanInv, PlaceInv
  <2>4. \A j \in Images : Worked(j)' => ~ Done(j)'
    BY <1>8, <1>9 DEF ScanInv, PlaceInv
  <2>5. QED BY <1>1, <1>2, <2>2, <2>3, <2>4 DEF ScanInv, PlaceInv
<1>13. StoredInv'
  BY <1>2, <1>10, StoredLasts
<1>14. TaskInv'
  <2>1. history'[KeyOf[i]].n \in Nat
    BY <1>3, <1>10, Values, Params
  <2>2. Gathered(worker[w])' /\ Sent(worker[w])'
    BY <1>5, <1>6, <2>1 DEF Gathered, Sent, NotAhead
  <2>3. QED BY <1>2, <1>6, <1>10, <2>2, OthersLast
<1>15. AccountInv'
  BY <1>1, <1>2, <1>8 DEF ScanInv, AccountInv
<1>16. QED BY <1>11, <1>12, <1>13, <1>14, <1>15 DEF ScanInv

\* A worker goes on with its task: the server has what it had, or the upload too.
LEMMA GoesOnServed ==
  ASSUME ScannerAssumption, ScanInv, NEW w \in Workers, NEW t \in Tasks, GoesOn(w, t)
  PROVE  ServerInv(Keys, Whole)' /\ Lasting(Keys)
<1>1. CASE UNCHANGED serverVars
  BY <1>1, QuietKeeps
<1>2. CASE Receive(KeyOf[t.image], Content(worker[w])) /\ worker[w].at = "upload"
  <2>1. PICK c : c = Content(worker[w])
    OBVIOUS
  <2>2. worker[w] \in Tasks /\ Gathered(worker[w]) /\ worker[w].image = t.image
    BY Values DEF ScanInv, TaskInv, GoesOn
  <2>3. worker[w].sbom \in Digests
    BY <1>2, <2>2, TaskOf DEF Gathered
  <2>4. c \in Scans
    BY <2>1, <2>2, <2>3, TaskOf DEF Content, Scans
  <2>5. /\ c.sbom = worker[w].sbom /\ c.layers = worker[w].layers /\ c.att = worker[w].att
        /\ c.still = worker[w].still
    BY <2>1 DEF Content
  <2>6. c.still => {c.layers, c.att} \subseteq {None, c.sbom}
    BY <2>2, <2>3, <2>5, Params DEF Gathered
  <2>7. c \in Whole /\ KeyOf[t.image] \in Keys
    BY <2>2, <2>4, <2>6, TaskOf, Params DEF Whole
  <2>8. PICK k \in Keys : k = KeyOf[t.image]
    BY <2>7
  <2>9. QED BY <1>2, <2>1, <2>7, <2>8, Values, ServerLasts DEF Served
<1>3. QED BY <1>1, <1>2 DEF GoesOn

LEMMA GoesOnKeeps ==
  ASSUME ScannerAssumption, ScanInv, NEW w \in Workers, NEW t \in Tasks, GoesOn(w, t)
  PROVE  ScanInv'
<1> DEFINE u == worker[w]
<1>1. /\ u # None /\ u \in Tasks /\ worker \in [Workers -> Tasks \cup {None}] /\ t # None
      /\ t.image = u.image /\ t.image \in Images /\ registry[t.image] \in Digests
  BY TaskOf, Params DEF GoesOn, ScanInv, TypeInv
<1>2. /\ worker' \in [Workers -> Tasks \cup {None}] /\ worker'[w] = t
      /\ \A v \in Workers \ {w} : worker'[v] = worker[v]
  BY <1>1 DEF GoesOn
<1>3. UNCHANGED <<registry, file, progress, main, queue, finished>>
  BY DEF GoesOn
<1>4. \A v \in Workers : \A j : Has(v, j)' <=> Has(v, j)
  BY <1>1, <1>2 DEF Has
<1>5. \A j : (Worked(j)' <=> Worked(j)) /\ (Done(j)' <=> Done(j))
  BY <1>3, <1>4 DEF Worked, Done
<1>6. ServerInv(Keys, Whole)' /\ Lasting(Keys)
  BY GoesOnServed
<1>7. TypeInv'
  BY <1>2, <1>3, <1>6 DEF ScanInv, TypeInv
<1>8. PlaceInv'
  <2>1. main.at = "scan"
    BY <1>1 DEF ScanInv, PlaceInv
  <2>2. QED BY <1>3, <1>4, <1>5, <2>1 DEF ScanInv, PlaceInv
<1>9. StoredInv'
  BY <1>3, <1>6, StoredLasts
<1>10. Gathered(u) /\ Sent(u)
  BY <1>1 DEF ScanInv, TaskInv
<1>11. Gathered(t)
  <2>1. t.still => {t.digest, t.sbom, t.layers, t.att} \subseteq {None, registry[t.image]}
    BY <1>1, <1>10 DEF GoesOn, Gathered
  <2>2. t.at # "inspect" /\ (t.at \in {"layers", "attestation", "upload", "wait"} => t.sbom # None)
    BY DEF GoesOn
  <2>3. /\ u.digest \in Nat \cup {None} /\ u.sbom \in Nat \cup {None} /\ None \notin Nat
        /\ registry[t.image] \in Nat
    BY <1>1, Values, Params
  <2>4. /\ NotAhead(u.digest, registry[t.image]) /\ NotAhead(u.sbom, registry[t.image])
        /\ NotAhead(u.digest, u.sbom) /\ (u.at = "inspect" => u.sbom = None)
    BY <1>1, <1>10 DEF Gathered
  <2>5. /\ \/ t.digest = u.digest
           \/ t.digest \in {registry[t.image], None} /\ u.at = "inspect"
        /\ \/ t.sbom \in {u.sbom, registry[t.image]}
           \/ t.sbom = u.digest /\ t.digest = u.digest
    BY DEF GoesOn
  <2>6. NotAhead(t.digest, registry[t.image]) /\ NotAhead(t.sbom, registry[t.image])
    BY <2>3, <2>4, <2>5 DEF NotAhead
  <2>7. NotAhead(t.digest, t.sbom)
    BY <2>3, <2>4, <2>5 DEF NotAhead
  <2>8. QED BY <2>1, <2>2, <2>6, <2>7 DEF Gathered
<1>12. Gathered(t)' /\ Sent(t)'
  <2>1. CASE UNCHANGED serverVars /\ t.at # "wait" /\ t.n = u.n
    <3>1. Sent(t)
      BY <1>1, <1>10, <2>1 DEF Sent
    <3>2. QED BY <1>3, <1>6, <1>11, <3>1, TaskLasts
  <2>2. CASE /\ Receive(KeyOf[t.image], Content(u))
             /\ t.n = history[KeyOf[t.image]].n + 1 /\ t.sbom = u.sbom
    <3>1. PICK k \in Keys : k = KeyOf[t.image]
      BY <1>1, Params
    <3>2. PICK c : c = Content(u)
      OBVIOUS
    <3>3. c.sbom = t.sbom
      BY <2>2, <3>2 DEF Content
    <3>4. /\ requests' = requests \cup
               {[key |-> k, n |-> history[k].n + 1, content |-> c, at |-> "received"]}
          /\ history' = [history EXCEPT ![k].n = @ + 1, ![k].sole = (InHand(k) = {})]
      BY <2>2, <3>1, <3>2 DEF Receive
    <3>5. history'[k].n = t.n
      <4>1. PICK p : p = history[k]
        OBVIOUS
      <4>2. p \in [n : 0..MaxSends, sole : BOOLEAN, recorded : 0..MaxSends] /\ k \in DOMAIN history
        BY <4>1, Values DEF ServerInv, ServerTypeOK
      <4>3. history'[k].n = p.n + 1
        BY <3>4, <4>1, <4>2
      <4>4. QED BY <2>2, <3>1, <4>1, <4>3
    <3>6. \A q \in requests : q.key = k => q.n # t.n
      <4>1. \A q \in requests : q.n \in 1..MaxSends /\ q.n <= history[q.key].n
        BY Values, ServerNumbers DEF ServerInv
      <4>2. history[k].n \in Nat /\ t.n = history[k].n + 1 /\ MaxSends \in Nat
        BY <2>2, <3>1, Values
      <4>3. QED BY <4>1, <4>2
    <3>7. \A q \in requests' : q.key = k /\ q.n = t.n => q.content.sbom = t.sbom
      BY <3>3, <3>4, <3>6
    <3>8. t.n <= history'[k].n
      BY <3>5, <1>1, TaskOf
    <3>9. Sent(t)'
      BY <3>1, <3>7, <3>8 DEF Sent
    <3>10. QED BY <1>3, <1>11, <3>9 DEF Gathered
  <2>3. QED BY <2>1, <2>2 DEF GoesOn
<1>13. TaskInv'
  <2>1. Gathered(worker[w])' /\ Sent(worker[w])'
    BY <1>2, <1>12 DEF Gathered, Sent
  <2>2. QED BY <1>2, <1>3, <1>6, <2>1, OthersLast
<1>14. AccountInv'
  BY <1>3, <1>5 DEF ScanInv, AccountInv
<1>15. QED BY <1>7, <1>8, <1>9, <1>13, <1>14 DEF ScanInv

\* A worker reports how its image ended; a completed one is stored.
LEMMA EndsKeeps ==
  ASSUME ScannerAssumption, ScanInv, NEW w \in Workers, NEW status \in Lists, Ends(w, status)
  PROVE  ScanInv'
<1>0. PICK t : t = worker[w]
  OBVIOUS
<1> DEFINE i == t.image
           k == KeyOf[i]
           r == [image |-> i, status |-> status, digest |-> t.digest, n |-> t.n]
<1>1. /\ t # None /\ t \in Tasks /\ i \in Images /\ k \in Keys
      /\ worker \in [Workers -> Tasks \cup {None}]
  BY <1>0, TaskOf, Params DEF Ends, ScanInv, TypeInv
<1>2. /\ worker' \in [Workers -> Tasks \cup {None}] /\ worker'[w] = None
      /\ \A v \in Workers \ {w} : worker'[v] = worker[v]
  BY <1>1 DEF Ends
<1>3. UNCHANGED <<registry, file, progress, main, queue>> /\ finished' = finished \cup {r}
  BY <1>0 DEF Ends
<1>4. r \in Result /\ r.image = i /\ r.status = status /\ r.digest = t.digest /\ r.n = t.n
  BY <1>1, TaskOf DEF Result
<1> HIDE DEF r
<1>5. Has(w, i) /\ Worked(i) /\ main.at = "scan"
  BY <1>0, <1>1 DEF Has, Worked, ScanInv, PlaceInv
<1>6. \A v \in Workers : \A j : Has(v, j)' <=> Has(v, j) /\ v # w
  BY <1>2 DEF Has
<1>7. \A j \in Images : Worked(j)' <=> Worked(j) /\ j # i
  <2>1. \A v \in Workers : Has(v, i) => v = w
    BY <1>1, <1>5 DEF ScanInv, PlaceInv
  <2>2. \A j : Has(w, j) => j = i
    BY <1>0 DEF Has
  <2>3. QED BY <1>6, <2>1, <2>2 DEF Worked
<1>8. \A j : Done(j)' <=> Done(j) \/ j = i
  BY <1>3, <1>4 DEF Done
<1>9. ServerInv(Keys, Whole)' /\ Lasting(Keys)
  <2>1. CASE UNCHANGED serverVars
    BY <2>1, QuietKeeps
  <2>2. ASSUME NEW q \in requests, Insert(q), UNCHANGED history
        PROVE  ServerInv(Keys, Whole)' /\ Lasting(Keys)
    BY <2>2, Values, ServerLasts DEF Served, Serve
  <2>3. QED BY <2>1, <2>2 DEF Ends
<1>10. TypeInv'
  BY <1>2, <1>3, <1>4, <1>9 DEF ScanInv, TypeInv
<1>11. PlaceInv'
  <2>1. queue \subseteq Images
    BY DEF ScanInv, TypeInv, MainState
  <2>2. \A j \in queue' : ~ Worked(j)' /\ ~ Done(j)'
    BY <1>3, <1>5, <1>7, <1>8, <2>1 DEF ScanInv, PlaceInv
  <2>3. \A v, u \in Workers : \A j \in Images : Has(v, j)' /\ Has(u, j)' => v = u
    BY <1>6 DEF ScanInv, PlaceInv
  <2>4. \A j \in Images : Worked(j)' => ~ Done(j)'
    BY <1>7, <1>8 DEF ScanInv, PlaceInv
  <2>5. \A q \in finished : q.image # i
    BY <1>1, <1>5 DEF ScanInv, PlaceInv, Done
  <2>6. \A p, q \in finished' : q.image = p.image => q = p
    BY <1>3, <1>4, <2>5 DEF ScanInv, PlaceInv
  <2>7. QED BY <1>3, <1>5, <2>2, <2>3, <2>4, <2>6 DEF ScanInv, PlaceInv
<1>12. status = "completed" =>
         /\ t.n >= 1 /\ t.n <= history'[k].n
         /\ \E s \in server'[k] : Safe(k, t.n, s)' /\ NotAhead(t.digest, s.content.sbom)
  <2>1. SUFFICES ASSUME status = "completed"
                 PROVE  /\ t.n >= 1 /\ t.n <= history'[k].n
                        /\ \E s \in server'[k] :
                             Safe(k, t.n, s)' /\ NotAhead(t.digest, s.content.sbom)
    OBVIOUS
  <2>2. PICK q \in requests : Awaits(w, q) /\ Insert(q) /\ UNCHANGED history
    BY <2>1 DEF Ends
  <2>3. t.at = "wait" /\ q.key = k /\ q.n = t.n
    BY <1>0, <2>2 DEF Awaits, At
  <2>4. Gathered(t) /\ Sent(t)
    BY <1>0, <1>1 DEF ScanInv, TaskInv
  <2>5. q.content.sbom = t.sbom /\ NotAhead(t.digest, t.sbom)
    BY <2>3, <2>4 DEF Sent, Gathered
  <2>6. t.n <= history'[k].n
    BY <2>2, <2>4 DEF Sent
  <2>7. t.n >= 1
    <3>1. q.n \in 1..MaxSends /\ MaxSends \in Nat
      BY Values, ServerNumbers
    <3>2. QED BY <2>3, <3>1
  <2>8. PICK s : s = [n |-> q.n, content |-> q.content]
    OBVIOUS
  <2>9. Safe(q.key, q.n, s)'
    BY <2>2, <2>8, Values, InsertIsSafe
  <2>10. Safe(k, t.n, s)' /\ s.content.sbom = t.sbom
    BY <2>3, <2>5, <2>8, <2>9
  <2>11. s \in server'[k]
    BY <2>10 DEF Safe
  <2>12. QED BY <2>5, <2>6, <2>7, <2>10, <2>11
<1>13. StoredInv'
  <2>1. FileKept' /\ \A q \in finished : q.status = "completed" => ResultKept(q)'
    BY <1>3, <1>9, StoredLasts
  <2>2. status = "completed" => ResultKept(r)'
    BY <1>4, <1>12 DEF ResultKept
  <2>3. QED BY <1>3, <1>4, <2>1, <2>2 DEF StoredInv
<1>14. TaskInv'
  BY <1>2, <1>3, <1>9, OthersLast
<1>15. AccountInv'
  <2>1. main.inventory \subseteq Images
    BY DEF ScanInv, TypeInv, MainState
  <2>2. QED BY <1>3, <1>7, <1>8, <2>1 DEF ScanInv, AccountInv
<1>16. QED BY <1>10, <1>11, <1>13, <1>14, <1>15 DEF ScanInv

----------------------------------------------------------------------------
(* The invariant and what follows from it.                                 *)

LEMMA ScanInit ==
  ASSUME ScannerAssumption, Init
  PROVE  ScanInv
<1>1. Empty \in Progress /\ \A k \in Keys : Empty.list[k] = None /\ Empty.digest[k] = None
  BY DEF Empty, Progress
<1>2. Idle \in MainState /\ Idle.at = "idle" /\ Idle.todo = {} /\ Idle.inventory = {}
  BY DEF Idle, MainState
<1>3. ServerInv(Keys, Whole)
  BY Params DEF Init, ServerInit, ServerInv, ServerTypeOK
<1>4. TypeInv
  BY <1>1, <1>2, <1>3, Params DEF Init, TypeInv, Digests
<1>5. PlaceInv
  BY <1>2 DEF Init, PlaceInv, Has, Worked, Done
<1>6. StoredInv
  BY <1>1, Params DEF Init, StoredInv, FileKept, Lists
<1>7. TaskInv
  BY DEF Init, TaskInv
<1>8. AccountInv
  BY <1>2 DEF Init, AccountInv
<1>9. QED BY <1>4, <1>5, <1>6, <1>7, <1>8 DEF ScanInv

LEMMA ScanNext ==
  ASSUME ScannerAssumption, ScanInv, [Next]_vars
  PROVE  ScanInv'
<1>1. CASE Main
  BY <1>1, StartKeeps, QueueKeeps, RecordKeeps, EndKeeps DEF Main
<1>2. CASE Kill
  BY <1>2, EndKeeps
<1>3. CASE MoveTag
  BY <1>3, MoveTagKeeps
<1>4. CASE UNCHANGED vars
  BY <1>4, ServerKeeps DEF vars, Served
<1>5. CASE ServerStep
  BY <1>5, ServerKeeps DEF ServerStep, Served
<1>6. ASSUME NEW w \in Workers, Work(w)
      PROVE  ScanInv'
  <2>1. CASE Take(w)
    BY <2>1, TakeKeeps
  <2>2. ASSUME NEW t \in Tasks, GoesOn(w, t) PROVE ScanInv'
    BY <2>2, GoesOnKeeps
  <2>3. ASSUME NEW status \in Lists, Ends(w, status) PROVE ScanInv'
    BY <2>3, EndsKeeps
  <2>4. QED BY <1>6, <2>1, <2>2, <2>3, WorkMoves
<1>7. QED BY <1>1, <1>2, <1>3, <1>4, <1>5, <1>6 DEF Next, Quiet

LEMMA AlwaysScan ==
  ASSUME ScannerAssumption
  PROVE  Spec => []ScanInv
<1>1. Init => ScanInv
  BY ScanInit
<1>2. ScanInv /\ [Next]_vars => ScanInv'
  BY ScanNext
<1>3. QED BY <1>1, <1>2, PTL DEF Spec

\* Every variable of the scanner and of the server behind it keeps its type, and while
\* it runs its copy of the progress file is the file (_record_result saves every result).
THEOREM ScannerTypeCorrect ==
  ASSUME ScannerAssumption
  PROVE  Spec => []TypeOK
<1>1. ScanInv => TypeOK
  <2>1. ScanInv => ServerTypeOK(Keys, Scans)
    BY DEF ScanInv, TypeInv, ServerInv, ServerTypeOK, Whole
  <2>2. ScanInv => \A w \in Workers : worker[w] = None \/ worker[w] \in Tasks
    BY DEF ScanInv, TypeInv
  <2>3. QED BY <2>1, <2>2 DEF ScanInv, TypeInv, TypeOK, MainState
<1>2. QED BY <1>1, AlwaysScan, PTL

\* A product the progress file calls completed has the scan of the upload that was
\* recorded, whatever is killed, answered late or stored for a client that gave up, as
\* long as no other upload of the product was in hand beside that one or sent since.
THEOREM CompletedAreStored ==
  ASSUME ScannerAssumption
  PROVE  Spec => []CompletedIsStored
<1>1. ScanInv => CompletedIsStored
  BY DEF ScanInv, StoredInv, FileKept, CompletedIsStored, KeptScans, Safe
<1>2. QED BY <1>1, AlwaysScan, PTL

\* SBOM, layers and attestations of a stored scan are of one image unless its tag moved
\* while it was scanned, though they are fetched by separate calls, some by tag and some
\* by digest, and again after an exception.
THEOREM StoredIsOneImage ==
  ASSUME ScannerAssumption
  PROVE  Spec => []OneImageIfStill
<1>1. ASSUME ScanInv, NEW k \in Keys, NEW s \in server[k], s.content.still
      PROVE  s.content.layers \in {None, s.content.sbom} /\ s.content.att \in {None, s.content.sbom}
  <2>1. server[k] \subseteq [n : 1..MaxSends, content : Whole]
    BY <1>1, Values, ServerNumbers
  <2>2. s.content \in Whole
    BY <2>1
  <2>3. QED BY <1>1, <2>2 DEF Whole
<1>2. ScanInv => OneImageIfStill
  BY <1>1 DEF OneImageIfStill
<1>3. QED BY <1>2, AlwaysScan, PTL

\* The digest recorded for a product is not newer than the content of the scan that the
\* recorded upload stored, under the same condition: though a tag may move while its image
\* is scanned, an image whose tag still has the recorded digest, which the report of
\* --discover-only calls unchanged, is stored as it is.
THEOREM StampsNotAhead ==
  ASSUME ScannerAssumption
  PROVE  Spec => []StampNotAhead
<1>1. ASSUME ScanInv, NEW k \in Keys, file.digest[k] # None, Undisturbed(k)
      PROVE  \E s \in KeptScans(k) : file.digest[k] <= s.content.sbom
  <2>1. PICK s \in server[k] : /\ Safe(k, history[k].recorded, s)
                              /\ NotAhead(file.digest[k], s.content.sbom)
    BY <1>1 DEF ScanInv, StoredInv, FileKept
  <2>2. s.content.sbom \in Nat /\ None \notin Nat
    BY <1>1, Values
  <2>3. QED BY <1>1, <2>1, <2>2 DEF Safe, NotAhead, KeptScans
<1>2. ScanInv => StampNotAhead
  BY <1>1 DEF StampNotAhead
<1>3. QED BY <1>2, AlwaysScan, PTL

\* When a run ends every image it was given is in a list of the progress file: no
\* result is lost between a worker, its future and the main thread.
THEOREM RunsAccountForImages ==
  ASSUME ScannerAssumption
  PROVE  Spec => [][EveryImageAccounted]_vars
<1>1. ASSUME ScanInv, [Next]_vars, main.at = "scan", main'.at = "idle",
             UNCHANGED <<queue, worker, finished>>
      PROVE  \A i \in main.inventory : file'.list[KeyOf[i]] # None
  <2>1. /\ queue = {} /\ finished = {} /\ \A w \in Workers : worker[w] = None
        /\ file' = file
    <3>1. CASE Main
      <4>1. ~ Start /\ ~ Enqueue /\ ~ StartPool
        BY <1>1 DEF Start, Enqueue, StartPool
      <4>2. ~ Record
        BY <1>1 DEF Record
      <4>3. QED BY <3>1, <4>1, <4>2 DEF Main, Finish
    <3>2. CASE Kill
      <4>1. queue = {} /\ finished = {} /\ \A w \in Workers : worker[w] = None
        BY <1>1, <3>2 DEF Kill
      <4>2. QED BY <3>2, <4>1 DEF Kill
    <3>3. CASE MoveTag \/ ServerStep
      BY <1>1, <3>3 DEF MoveTag, ServerStep
    <3>4. CASE UNCHANGED vars
      BY <1>1, <3>4 DEF vars
    <3>5. ASSUME NEW w \in Workers, Work(w) PROVE FALSE
      <4>1. main' = main
        BY <3>5 DEF Work, Take, Inspect, DownloadSbom, ScanImage, LayerChain, Attest,
           NothingFound, Raise, Send, SendInVain, Upload, Cut, GiveUp, Report, Step
      <4>2. QED BY <1>1, <4>1
    <3>6. QED BY <1>1, <3>1, <3>2, <3>3, <3>4, <3>5 DEF Next, Quiet
  <2>2. main.todo = {} /\ AccountInv
    BY <1>1 DEF ScanInv, PlaceInv
  <2>3. \A i : ~ Worked(i) /\ ~ Done(i)
    BY <2>1 DEF Worked, Has, Done
  <2>4. QED BY <1>1, <2>1, <2>2, <2>3 DEF AccountInv
<1>2. ScanInv /\ [Next]_vars => [EveryImageAccounted]_vars
  BY <1>1 DEF EveryImageAccounted
<1>3. QED BY <1>2, AlwaysScan, PTL DEF Spec

----------------------------------------------------------------------------
(* The upload of a scan (ScannerUpload): upload_to_syfter, its health gate *)
(* and its attempts.                                                       *)

CONSTANTS Uploads, MaxPolls, MaxOutages
VARIABLES call, up, request, stored, outages

Calls == INSTANCE ScannerUpload

CallState == [at : {"gate", "send", "wait", "done", "raised", "rejected"},
              attempt : 0..Attempts, polls : 0..MaxPolls, gated : BOOLEAN,
              last : Calls!Causes \cup {None, "rejected"}]

\* What is known of one call: an attempt is left while there is another to make, and a
\* rejection is the end.
CallInv(u) ==
  /\ call[u].at \in {"gate", "send"} => call[u].attempt < Attempts
  /\ call[u].last = "rejected" => call[u].at = "rejected"
  /\ call[u].at = "send" /\ call[u].last \in {None, "server error"} => call[u].gated
  /\ call[u].at = "done" => call[u].attempt \in stored[u]

\* Inductive.
UploadInv ==
  /\ call \in [Uploads -> CallState]
  /\ up \in BOOLEAN /\ outages \in 0..MaxOutages
  /\ request \subseteq Uploads \X (1..Attempts)
  /\ stored \in [Uploads -> SUBSET (1..Attempts)]
  /\ \A u \in Uploads : CallInv(u)

\* What one call may become without the server: the other calls are left alone.
Becomes(u, c) ==
  /\ c \in CallState /\ call' = [call EXCEPT ![u] = c]
  /\ c.at \in {"gate", "send"} => c.attempt < Attempts
  /\ c.last = "rejected" => c.at = "rejected"
  /\ c.at = "send" /\ c.last \in {None, "server error"} => c.gated
  /\ c.at = "done" => c.attempt \in stored'[u]

\* A step of one call that keeps what is known of it keeps the invariant.
LEMMA BecomesKeeps ==
  ASSUME UploadInv, NEW u \in Uploads, NEW c, Becomes(u, c),
         up' \in BOOLEAN, outages' \in 0..MaxOutages, request' \subseteq Uploads \X (1..Attempts),
         stored' \in [Uploads -> SUBSET (1..Attempts)],
         \A v \in Uploads : stored[v] \subseteq stored'[v]
  PROVE  UploadInv'
<1>1. /\ call' \in [Uploads -> CallState] /\ call'[u] = c
      /\ \A v \in Uploads \ {u} : call'[v] = call[v]
  BY DEF UploadInv, Becomes
<1>2. CallInv(u)'
  BY <1>1 DEF CallInv, Becomes
<1>3. \A v \in Uploads \ {u} : CallInv(v)'
  BY <1>1 DEF UploadInv, CallInv
<1>4. \A v \in Uploads : CallInv(v)'
  BY <1>2, <1>3 DEF CallInv
<1>5. QED BY <1>1, <1>4 DEF UploadInv

\* Retry puts the call to another attempt, or ends it.
LEMMA RetryBecomes ==
  ASSUME Calls!UploadAssumption, UploadInv, NEW u \in Uploads, NEW cause \in Calls!Causes,
         call[u].at = "wait", Calls!Retry(u, cause)
  PROVE  \E c : Becomes(u, c)
<1> DEFINE at == IF call[u].attempt = Attempts THEN "raised"
                 ELSE IF cause = "server error" THEN "gate" ELSE "send"
           c == [call[u] EXCEPT !.last = cause, !.at = at]
<1>1. call[u] \in CallState /\ CallInv(u) /\ call \in [Uploads -> CallState]
  BY DEF UploadInv
<1>2. at \in {"raised", "gate", "send"}
  OBVIOUS
<1>3. /\ at \in {"gate", "send"} => call[u].attempt # Attempts
      /\ at = "send" => cause # "server error"
  OBVIOUS
<1>4. call' = [call EXCEPT ![u] = c]
  BY <1>1 DEF Calls!Retry
<1> HIDE DEF at
<1>5. c \in CallState
  BY <1>1, <1>2 DEF CallState
<1>6. c.at = at /\ c.last = cause /\ c.attempt = call[u].attempt
  BY <1>1 DEF CallState
<1> HIDE DEF c
<1>7. call[u].attempt \in 0..Attempts /\ Attempts \in Nat
  BY <1>1 DEF CallState, Calls!UploadAssumption
<1>8. cause # "rejected" /\ cause # None
  BY DEF Calls!Causes, Calls!UploadAssumption
<1>9. Becomes(u, c)
  <2>1. c.at \in {"gate", "send"} => c.attempt < Attempts
    <3>1. call[u].attempt # Attempts => call[u].attempt < Attempts
      BY <1>7
    <3>2. QED BY <1>3, <1>6, <3>1
  <2>2. ~ (c.at = "send" /\ c.last \in {None, "server error"})
    BY <1>3, <1>6, <1>8
  <2>3. c.last # "rejected" /\ c.at # "done"
    BY <1>2, <1>6, <1>8
  <2>4. QED BY <1>4, <1>5, <2>1, <2>2, <2>3 DEF Becomes
<1>10. QED BY <1>9

\* A step of the client.
LEMMA ClientKeeps ==
  ASSUME Calls!UploadAssumption, UploadInv, NEW u \in Uploads, Calls!Client(u)
  PROVE  UploadInv'
<1>1. /\ call[u] \in CallState /\ CallInv(u) /\ call \in [Uploads -> CallState]
      /\ up \in BOOLEAN /\ outages \in 0..MaxOutages
      /\ request \subseteq Uploads \X (1..Attempts)
      /\ stored \in [Uploads -> SUBSET (1..Attempts)]
      /\ Attempts \in Nat /\ MaxPolls \in Nat
  BY DEF UploadInv, Calls!UploadAssumption
<1>2. CASE Calls!Healthy(u)
  <2> DEFINE c == [call[u] EXCEPT !.at = "send", !.polls = 0, !.gated = TRUE]
  <2>1. call' = [call EXCEPT ![u] = c] /\ call[u].at = "gate"
        /\ UNCHANGED <<up, request, stored, outages>>
    BY <1>1, <1>2 DEF Calls!Healthy
  <2>2. c \in CallState /\ c.at = "send" /\ c.gated /\ c.last = call[u].last
        /\ c.attempt = call[u].attempt
    <3>1. 0 \in 0..MaxPolls /\ call[u] \in CallState
      BY <1>1
    <3>2. c.at = "send" /\ c.gated = TRUE /\ c.last = call[u].last /\ c.attempt = call[u].attempt
      BY <3>1 DEF CallState
    <3>3. c \in CallState
      BY <3>1 DEF CallState
    <3>4. QED BY <3>2, <3>3
  <2> HIDE DEF c
  <2>3. Becomes(u, c)
    BY <1>1, <2>1, <2>2 DEF Becomes, CallInv
  <2>4. QED BY <1>1, <2>1, <2>3, BecomesKeeps
<1>3. CASE Calls!Unhealthy(u)
  <2> DEFINE c == [call[u] EXCEPT !.polls = @ + 1]
  <2>1. call' = [call EXCEPT ![u] = c] /\ call[u].at = "gate" /\ call[u].polls < MaxPolls
        /\ UNCHANGED <<up, request, stored, outages>>
    BY <1>1, <1>3 DEF Calls!Unhealthy
  <2>2. call[u].polls + 1 \in 0..MaxPolls
    BY <1>1, <2>1 DEF CallState
  <2>3. c \in CallState /\ c.at = "gate" /\ c.last = call[u].last
        /\ c.attempt = call[u].attempt
    BY <1>1, <2>1, <2>2 DEF CallState
  <2> HIDE DEF c
  <2>4. Becomes(u, c)
    BY <1>1, <2>1, <2>3 DEF Becomes, CallInv
  <2>5. QED BY <1>1, <2>1, <2>4, BecomesKeeps
<1>4. CASE Calls!GiveUp(u)
  <2> DEFINE c == [call[u] EXCEPT !.at = "raised"]
  <2>1. call' = [call EXCEPT ![u] = c] /\ call[u].at = "gate"
        /\ UNCHANGED <<up, request, stored, outages>>
    BY <1>1, <1>4 DEF Calls!GiveUp
  <2>2. c \in CallState /\ c.at = "raised" /\ c.last = call[u].last
    BY <1>1 DEF CallState
  <2> HIDE DEF c
  <2>3. Becomes(u, c)
    BY <1>1, <2>1, <2>2 DEF Becomes, CallInv
  <2>4. QED BY <1>1, <2>1, <2>3, BecomesKeeps
<1>5. CASE Calls!Send(u)
  <2> DEFINE c == [call[u] EXCEPT !.at = "wait", !.attempt = @ + 1, !.gated = FALSE]
  <2>1. /\ call' = [call EXCEPT ![u] = c] /\ call[u].at = "send"
        /\ request' = IF up THEN request \cup {<<u, call[u].attempt + 1>>} ELSE request
        /\ UNCHANGED <<up, stored, outages>>
    BY <1>1, <1>5 DEF Calls!Send
  <2>2. call[u].attempt + 1 \in 1..Attempts /\ call[u].attempt + 1 \in 0..Attempts
    <3>1. call[u].attempt \in 0..Attempts /\ call[u].attempt < Attempts /\ Attempts \in Nat
      BY <1>1, <2>1 DEF CallState, CallInv
    <3>2. QED BY <3>1
  <2>3. c \in CallState /\ c.at = "wait" /\ c.last = call[u].last
    BY <1>1, <2>2 DEF CallState
  <2> HIDE DEF c
  <2>4. Becomes(u, c)
    BY <1>1, <2>1, <2>3 DEF Becomes, CallInv
  <2>5. request' \subseteq Uploads \X (1..Attempts)
    BY <1>1, <2>1, <2>2
  <2>6. QED BY <1>1, <2>1, <2>4, <2>5, BecomesKeeps
<1>6. CASE Calls!Cut(u)
  <2>1. \E c : Becomes(u, c)
    BY <1>6, RetryBecomes DEF Calls!Cut, Calls!Causes
  <2>2. UNCHANGED <<up, request, stored, outages>>
    BY <1>6 DEF Calls!Cut
  <2>3. QED BY <1>1, <2>1, <2>2, BecomesKeeps
<1>7. QED BY <1>2, <1>3, <1>4, <1>5, <1>6 DEF Calls!Client

\* The server answers an attempt, perhaps one its client no longer waits for.
LEMMA AnswerKeeps ==
  ASSUME Calls!UploadAssumption, UploadInv, NEW u \in Uploads, NEW n \in 1..Attempts,
         Calls!Answer(u, n)
  PROVE  UploadInv'
<1>1. /\ call[u] \in CallState /\ CallInv(u) /\ call \in [Uploads -> CallState]
      /\ up \in BOOLEAN /\ outages \in 0..MaxOutages
      /\ request \subseteq Uploads \X (1..Attempts)
      /\ stored \in [Uploads -> SUBSET (1..Attempts)]
  BY DEF UploadInv
<1>2. /\ request' = request \ {<<u, n>>} /\ up' = up /\ outages' = outages
      /\ stored' = stored \/ stored' = [stored EXCEPT ![u] = @ \cup {n}]
  BY DEF Calls!Answer, Calls!Commit, Calls!CommitAndFail, Calls!Refuse, Calls!Reject
<1>3. /\ stored' \in [Uploads -> SUBSET (1..Attempts)]
      /\ \A v \in Uploads : stored[v] \subseteq stored'[v]
      /\ request' \subseteq Uploads \X (1..Attempts)
  BY <1>1, <1>2
<1>4. CASE call' = call
  <2>1. Becomes(u, call[u])
    BY <1>1, <1>3, <1>4 DEF Becomes, CallInv
  <2>2. QED BY <1>1, <1>2, <1>3, <2>1, BecomesKeeps
<1>5. CASE call[u].at = "wait" /\ \E cause \in Calls!Causes : Calls!Retry(u, cause)
  <2>1. \E c : Becomes(u, c)
    BY <1>5, RetryBecomes
  <2>2. QED BY <1>1, <1>2, <1>3, <2>1, BecomesKeeps
<1>6. CASE /\ call[u].at = "wait" /\ call[u].attempt = n
           /\ call' = [call EXCEPT ![u].at = "done"]
           /\ stored' = [stored EXCEPT ![u] = @ \cup {n}]
  <2> DEFINE c == [call[u] EXCEPT !.at = "done"]
  <2>1. call' = [call EXCEPT ![u] = c]
    BY <1>1, <1>6
  <2>2. c \in CallState /\ c.at = "done" /\ c.last = call[u].last /\ c.attempt = n
    BY <1>1, <1>6 DEF CallState
  <2> HIDE DEF c
  <2>3. n \in stored'[u]
    BY <1>1, <1>6
  <2>4. Becomes(u, c)
    BY <1>1, <1>6, <2>1, <2>2, <2>3 DEF Becomes, CallInv
  <2>5. QED BY <1>1, <1>2, <1>3, <2>4, BecomesKeeps
<1>7. CASE /\ call[u].at = "wait"
           /\ call' = [call EXCEPT ![u].at = "rejected", ![u].last = "rejected"]
  <2> DEFINE c == [call[u] EXCEPT !.at = "rejected", !.last = "rejected"]
  <2>1. call' = [call EXCEPT ![u] = c]
    BY <1>1, <1>7
  <2>2. c \in CallState /\ c.at = "rejected"
    BY <1>1 DEF CallState
  <2> HIDE DEF c
  <2>3. Becomes(u, c)
    BY <2>1, <2>2 DEF Becomes
  <2>4. QED BY <1>1, <1>2, <1>3, <2>3, BecomesKeeps
<1>8. CASE Calls!Commit(u, n)
  BY <1>4, <1>6, <1>8 DEF Calls!Commit, Calls!Reply
<1>9. CASE Calls!CommitAndFail(u, n)
  BY <1>4, <1>5, <1>9 DEF Calls!CommitAndFail, Calls!Reply, Calls!Causes
<1>10. CASE Calls!Refuse(u, n)
  BY <1>4, <1>5, <1>10 DEF Calls!Refuse, Calls!Reply, Calls!Causes
<1>11. CASE Calls!Reject(u, n)
  BY <1>4, <1>7, <1>11 DEF Calls!Reject, Calls!Reply
<1>12. QED BY <1>8, <1>9, <1>10, <1>11 DEF Calls!Answer

LEMMA UploadNext ==
  ASSUME Calls!UploadAssumption, UploadInv, [Calls!Next]_(Calls!vars)
  PROVE  UploadInv'
<1>1. CASE UNCHANGED Calls!vars
  BY <1>1 DEF Calls!vars, UploadInv, CallInv
<1>2. CASE Calls!Down
  <2>1. outages + 1 \in 0..MaxOutages
    BY <1>2 DEF Calls!Down, UploadInv, Calls!UploadAssumption
  <2>2. UNCHANGED <<call, stored>> /\ up' = FALSE /\ request' = {} /\ outages' = outages + 1
    BY <1>2 DEF Calls!Down
  <2>3. \A u \in Uploads : CallInv(u)'
    BY <2>2 DEF UploadInv, CallInv
  <2>4. QED BY <2>1, <2>2, <2>3 DEF UploadInv
<1>3. CASE Calls!Up
  BY <1>3 DEF Calls!Up, UploadInv, CallInv
<1>4. QED BY <1>1, <1>2, <1>3, ClientKeeps, AnswerKeeps DEF Calls!Next, Calls!Quiet

LEMMA AlwaysUpload ==
  ASSUME Calls!UploadAssumption
  PROVE  Calls!Spec => []UploadInv
<1>1. Calls!Init => UploadInv
  <2>1. ASSUME Calls!Init
        PROVE  UploadInv
    <3> DEFINE c == [at |-> "gate", attempt |-> 0, polls |-> 0, gated |-> FALSE, last |-> None]
    <3>1. c \in CallState /\ c.at = "gate" /\ c.attempt = 0 /\ c.last = None
      BY DEF CallState, Calls!UploadAssumption
    <3>2. call = [u \in Uploads |-> c]
      BY <2>1 DEF Calls!Init
    <3> HIDE DEF c
    <3>3. 0 < Attempts /\ None # "rejected"
      BY DEF Calls!UploadAssumption
    <3>4. \A u \in Uploads : CallInv(u)
      BY <3>1, <3>2, <3>3 DEF CallInv
    <3>5. call \in [Uploads -> CallState]
      BY <3>1, <3>2
    <3>6. /\ up \in BOOLEAN /\ outages \in 0..MaxOutages /\ request = {}
          /\ stored \in [Uploads -> SUBSET (1..Attempts)]
      BY <2>1 DEF Calls!Init, Calls!UploadAssumption
    <3>7. QED BY <3>4, <3>5, <3>6 DEF UploadInv
  <2>2. QED BY <2>1
<1>2. UploadInv /\ [Calls!Next]_(Calls!vars) => UploadInv'
  BY UploadNext
<1>3. QED BY <1>1, <1>2, PTL DEF Calls!Spec

\* An upload that returned is stored by the very attempt that was answered, though
\* earlier attempts timed out while the server went on with them.
THEOREM DoneUploadsAreStored ==
  ASSUME Calls!UploadAssumption
  PROVE  Calls!Spec => []Calls!DoneIsStored
<1>1. UploadInv => Calls!DoneIsStored
  BY DEF UploadInv, CallInv, Calls!DoneIsStored
<1>2. QED BY <1>1, AlwaysUpload, PTL

\* The first attempt, and an attempt after a server error, is sent only after the
\* server was found healthy.
THEOREM UploadsAreGated ==
  ASSUME Calls!UploadAssumption
  PROVE  Calls!Spec => []Calls!GatedAfterServerError
<1>1. UploadInv => Calls!GatedAfterServerError
  BY DEF UploadInv, CallInv, Calls!GatedAfterServerError
<1>2. QED BY <1>1, AlwaysUpload, PTL

\* After a rejection nothing is sent again, whatever answers arrive late.
THEOREM RejectionsAreFinal ==
  ASSUME Calls!UploadAssumption
  PROVE  Calls!Spec => [][Calls!RejectedIsFinal]_(Calls!vars)
<1>1. ASSUME UploadInv, [Calls!Next]_(Calls!vars), NEW u \in Uploads,
             call[u].last = "rejected"
      PROVE  call'[u].attempt = call[u].attempt
  <2>1. call[u].at = "rejected" /\ call \in [Uploads -> CallState]
    BY <1>1 DEF UploadInv, CallInv
  <2>2. ASSUME NEW v \in Uploads, Calls!Client(v) PROVE call'[u] = call[u]
    BY <2>1, <2>2 DEF Calls!Client, Calls!Healthy, Calls!Unhealthy, Calls!GiveUp,
       Calls!Send, Calls!Cut, Calls!Retry
  <2>3. ASSUME NEW v \in Uploads, NEW n \in 1..Attempts, Calls!Answer(v, n)
        PROVE  call'[u] = call[u]
    BY <2>1, <2>3 DEF Calls!Answer, Calls!Commit, Calls!CommitAndFail, Calls!Refuse,
       Calls!Reject, Calls!Reply, Calls!Retry
  <2>4. QED BY <1>1, <2>2, <2>3 DEF Calls!Next, Calls!Quiet, Calls!Down, Calls!Up, Calls!vars
<1>2. UploadInv /\ [Calls!Next]_(Calls!vars) => [Calls!RejectedIsFinal]_(Calls!vars)
  BY <1>1 DEF Calls!RejectedIsFinal
<1>3. QED BY <1>2, AlwaysUpload, PTL DEF Calls!Spec

----------------------------------------------------------------------------
(* The repositories of a content mirror (RepodataScanner).                 *)

CONSTANTS Repos, MaxPublish
VARIABLES mirror, reachable, unchanged, since, still, count

Mirror == INSTANCE RepodataScanner

MirrorFile == [list : [Mirror!Keys -> Mirror!Lists \cup {None}],
               modified : [Mirror!Keys -> Mirror!States \cup {None}]]
MirrorMain == [at : {"idle", "reach", "build", "scan"}, todo : SUBSET Repos, full : BOOLEAN]
MirrorResult == [repo : Repos, status : Mirror!Lists, n : 0..MaxSends]

MirrorType ==
  /\ mirror \in [Repos -> Mirror!States] /\ reachable \in BOOLEAN
  /\ ServerInv(Mirror!Keys, Mirror!Scans)
  /\ file \in MirrorFile /\ progress = file
  /\ main \in MirrorMain /\ queue \subseteq Repos
  /\ worker \in [Workers -> Mirror!Tasks \cup {None}]
  /\ finished \subseteq MirrorResult
  /\ unchanged \in [Repos -> Mirror!States \cup {None}] /\ still \in [Mirror!Keys -> BOOLEAN]

\* A repository is in one place at a time, and one this run left out is in none.
Holds(w, r) == worker[w] # None /\ worker[w].repo = r
AtWork(r) == \E w \in Workers : Holds(w, r)
Reported(r) == \E f \in finished : f.repo = r

MirrorPlace ==
  /\ main.at # "build" => main.todo = {}
  /\ main.at \in {"idle", "reach"} => queue = {}
  /\ main.at # "scan" => finished = {} /\ \A w \in Workers : worker[w] = None
  /\ main.at = "reach" => unchanged = Mirror!Nowhere
  /\ main.todo \cap queue = {}
  /\ \A r \in queue : ~ AtWork(r) /\ ~ Reported(r)
  /\ \A v, w \in Workers : \A r \in Repos : Holds(v, r) /\ Holds(w, r) => v = w
  /\ \A r \in Repos : AtWork(r) => ~ Reported(r)
  /\ \A r \in Repos : unchanged[r] # None =>
       r \notin main.todo \cup queue /\ ~ AtWork(r) /\ ~ Reported(r)

\* A repository that was downloaded is as the mirror has it unless it was published
\* since; so is what was sent of it, and what is about to be recorded, if that stands.
Downloaded(t) ==
  t.at \in {"upload", "wait"} =>
    t.primary # None /\ (t.repo \notin since => t.primary = mirror[t.repo])
Posted(t) ==
  /\ t.n <= history[KeyOf[t.repo]].n
  /\ \A q \in requests : t.at = "wait" /\ q.key = KeyOf[t.repo] /\ q.n = t.n =>
       q.content.repo = t.repo /\ q.content.primary = t.primary
Answered(f) ==
  /\ f.n >= 1 /\ f.n <= history[KeyOf[f.repo]].n
  /\ Stands(KeyOf[f.repo], f.n) =>
       \E s \in server[KeyOf[f.repo]] :
          /\ Safe(KeyOf[f.repo], f.n, s) /\ s.content.repo = f.repo
          /\ f.repo \notin since => s.content.primary = mirror[f.repo]

\* What is recorded, if it stands, is stored as its Last-Modified says, unless it was
\* published between its download and its record; so is what this run left out.
Recorded(k) ==
  file.list[k] = "completed" /\ Undisturbed(k) =>
    \E s \in server[k] :
       /\ Safe(k, history[k].recorded, s)
       /\ file.modified[k] # None /\ still[k] => s.content.primary = file.modified[k]
LeftOut(r) ==
  unchanged[r] # None /\ still[KeyOf[r]] /\ Undisturbed(KeyOf[r]) =>
    \E s \in server[KeyOf[r]] :
       /\ Safe(KeyOf[r], history[KeyOf[r]].recorded, s)
       /\ s.content.repo = r => s.content.primary = unchanged[r]

MirrorTasks == \A w \in Workers : worker[w] # None => Downloaded(worker[w]) /\ Posted(worker[w])
MirrorStored ==
  /\ \A k \in Mirror!Keys : Recorded(k)
  /\ \A f \in finished : f.status = "completed" => Answered(f)
  /\ \A r \in Repos : LeftOut(r)

\* Inductive.
MirrorInv == MirrorType /\ MirrorPlace /\ MirrorTasks /\ MirrorStored

LEMMA MirrorParams ==
  ASSUME Mirror!RepodataAssumption
  PROVE  /\ Retries \in Nat \ {0} /\ MaxPublish \in Nat /\ MaxSends \in Nat /\ Attempts \in Nat
         /\ Mirror!States \subseteq Nat /\ None \notin Nat /\ None \notin Mirror!States
         /\ None \notin Mirror!Lists /\ None \notin Mirror!Tasks
         /\ "completed" \in Mirror!Lists /\ "failed" \in Mirror!Lists
         /\ "skipped" \in Mirror!Lists
         /\ \A r \in Repos : KeyOf[r] \in Mirror!Keys
BY DEF Mirror!RepodataAssumption, Mirror!States, Mirror!Lists, Mirror!Keys

\* The fields of a worker's task, and what a step makes of it.
LEMMA MirrorTask ==
  ASSUME NEW t \in Mirror!Tasks
  PROVE  /\ t.repo \in Repos /\ t.primary \in Mirror!States \cup {None}
         /\ t.attempt \in 1..Retries /\ t.sends \in 0..Attempts /\ t.n \in 0..MaxSends
BY DEF Mirror!Tasks

Made(t, at, repo, primary, n) ==
  t \in Mirror!Tasks /\ t.at = at /\ t.repo = repo /\ t.primary = primary /\ t.n = n

LEMMA MirrorUpdates ==
  ASSUME NEW t \in Mirror!Tasks, NEW p \in Mirror!States, NEW n \in 0..MaxSends
  PROVE  /\ Made([t EXCEPT !.at = "primary"], "primary", t.repo, t.primary, t.n)
         /\ Made([t EXCEPT !.at = "upload"], "upload", t.repo, t.primary, t.n)
         /\ Made([t EXCEPT !.primary = p, !.at = "upload"], "upload", t.repo, p, t.n)
         /\ t.attempt + 1 \in 1..Retries =>
              Made([t EXCEPT !.attempt = @ + 1, !.at = "primary"],
                   "primary", t.repo, t.primary, t.n)
         /\ t.sends + 1 \in 0..Attempts =>
              /\ Made([t EXCEPT !.sends = @ + 1], t.at, t.repo, t.primary, t.n)
              /\ Made([t EXCEPT !.at = "wait", !.sends = @ + 1, !.n = n],
                      "wait", t.repo, t.primary, n)
BY DEF Mirror!Tasks, Made

\* The values the invariant speaks of.
LEMMA MirrorValues ==
  ASSUME Mirror!RepodataAssumption, MirrorInv
  PROVE  /\ MaxSends \in Nat /\ None \notin Nat /\ ServerInv(Mirror!Keys, Mirror!Scans)
         /\ \A r \in Repos : /\ mirror[r] \in Mirror!States /\ mirror[r] # None
                             /\ KeyOf[r] \in Mirror!Keys
         /\ \A k \in Mirror!Keys :
              /\ history[k].n \in Nat /\ history[k].recorded \in Nat
              /\ history[k].recorded <= history[k].n
         /\ \A w \in Workers : worker[w] # None =>
              /\ worker[w] \in Mirror!Tasks /\ worker[w].repo \in Repos
              /\ KeyOf[worker[w].repo] \in Mirror!Keys /\ worker[w].n \in 0..MaxSends
              /\ worker[w].primary \in Mirror!States \cup {None}
         /\ \A f \in finished : /\ f.repo \in Repos /\ KeyOf[f.repo] \in Mirror!Keys
                                /\ f.n \in 0..MaxSends /\ f.status \in Mirror!Lists
<1>1. MaxSends \in Nat /\ None \notin Nat /\ ServerInv(Mirror!Keys, Mirror!Scans)
  BY MirrorParams DEF MirrorInv, MirrorType
<1>2. \A k \in Mirror!Keys : history[k].n \in Nat /\ history[k].recorded \in Nat
  BY <1>1, ServerNumbers
<1>3. \A k \in Mirror!Keys : history[k].recorded <= history[k].n
  BY <1>1 DEF ServerInv
<1>4. \A r \in Repos : /\ mirror[r] \in Mirror!States /\ mirror[r] # None
                       /\ KeyOf[r] \in Mirror!Keys
  BY MirrorParams DEF MirrorInv, MirrorType
<1>5. ASSUME NEW w \in Workers, worker[w] # None
      PROVE  /\ worker[w] \in Mirror!Tasks /\ worker[w].repo \in Repos
             /\ KeyOf[worker[w].repo] \in Mirror!Keys /\ worker[w].n \in 0..MaxSends
             /\ worker[w].primary \in Mirror!States \cup {None}
  <2>1. worker[w] \in Mirror!Tasks
    BY <1>5 DEF MirrorInv, MirrorType
  <2>2. QED BY <2>1, MirrorTask, MirrorParams
<1>6. \A f \in finished : /\ f.repo \in Repos /\ KeyOf[f.repo] \in Mirror!Keys
                          /\ f.n \in 0..MaxSends /\ f.status \in Mirror!Lists
  BY MirrorParams DEF MirrorInv, MirrorType, MirrorResult
<1>7. QED BY <1>1, <1>2, <1>3, <1>4, <1>5, <1>6

\* Its server is the one above.
LEMMA MirrorServer ==
  ASSUME NEW q, NEW k, NEW c, NEW n
  PROVE  /\ Mirror!Serve(q) <=> Serve(q)
         /\ Mirror!Insert(q) <=> Insert(q)
         /\ Mirror!Receive(k, c) <=> Receive(k, c)
         /\ Mirror!Remember(k, n) <=> Remember(k, n)
         /\ Mirror!Undisturbed(k) <=> Undisturbed(k)
         /\ Mirror!KeptScans(k) = KeptScans(k)
BY DEF Mirror!Serve, Serve, Mirror!Insert, Insert, Mirror!Receive, Receive, Mirror!Remember,
   Remember, Mirror!Undisturbed, Undisturbed, Mirror!KeptScans, KeptScans, Mirror!DeleteOld,
   DeleteOld, Mirror!Fail, Fail, Mirror!InHand, InHand

\* A worker goes on with its repository: it may have downloaded or sent it just now.
MirrorGoesOn(w, t) ==
  /\ worker[w] # None /\ t \in Mirror!Tasks /\ t.repo = worker[w].repo
  /\ \/ /\ UNCHANGED serverVars /\ t.n = worker[w].n
        /\ \/ t.at \notin {"upload", "wait"} /\ since' = since
           \/ t.at = "upload" /\ t.primary = mirror[t.repo] /\ since' = since \ {t.repo}
           \/ /\ t.at = "upload" /\ t.primary = worker[w].primary /\ since' = since
              /\ worker[w].at \in {"upload", "wait"}
     \/ /\ Receive(KeyOf[t.repo], [repo |-> t.repo, primary |-> t.primary])
        /\ t.n = history[KeyOf[t.repo]].n + 1
        /\ t.primary = worker[w].primary /\ worker[w].at = "upload" /\ since' = since
  /\ worker' = [worker EXCEPT ![w] = t]
  /\ UNCHANGED <<mirror, reachable, file, progress, main, queue, finished, unchanged,
                 still, count>>

\* Or it reports how it ended: stored if it says so.
MirrorEnds(w, status) ==
  /\ worker[w] # None /\ status \in Mirror!Lists
  /\ \/ UNCHANGED serverVars /\ status # "completed"
     \/ /\ \E q \in requests : Mirror!Awaits(w, q) /\ Insert(q)
        /\ UNCHANGED history
  /\ finished' = finished \cup
       {[repo |-> worker[w].repo, status |-> status, n |-> worker[w].n]}
  /\ worker' = [worker EXCEPT ![w] = None]
  /\ UNCHANGED <<mirror, reachable, file, progress, main, queue, unchanged, since, still, count>>

\* A worker's step is one of these, or it takes a repository off the queue.
LEMMA MirrorMoves ==
  ASSUME Mirror!RepodataAssumption, MirrorInv, NEW w \in Workers, Mirror!Work(w)
  PROVE  \/ Mirror!Take(w)
         \/ \E t \in Mirror!Tasks : MirrorGoesOn(w, t)
         \/ \E status \in Mirror!Lists : MirrorEnds(w, status)
<1> DEFINE t == worker[w]
           Moves == \/ \E n \in Mirror!Tasks : MirrorGoesOn(w, n)
                    \/ \E status \in Mirror!Lists : MirrorEnds(w, status)
<1>a. t # None => /\ t \in Mirror!Tasks /\ t.repo \in Repos /\ mirror[t.repo] \in Mirror!States
                  /\ history[KeyOf[t.repo]].n \in Nat /\ 0 \in 0..MaxSends
  BY MirrorValues
<1>b. ASSUME NEW status \in Mirror!Lists \ {"completed"}, t # None, Mirror!Report(w, status),
             UNCHANGED serverVars
      PROVE  Moves
  <2>1. MirrorEnds(w, status)
    BY <1>b DEF Mirror!Report, Mirror!Step, MirrorEnds
  <2>2. QED BY <2>1
<1>c. ASSUME NEW n, t # None, Mirror!Step(w, n), NEW at, NEW primary,
             Made(n, at, t.repo, primary, t.n),
             UNCHANGED serverVars, UNCHANGED <<queue, finished, still>>,
             \/ at \notin {"upload", "wait"} /\ since' = since
             \/ at = "upload" /\ primary = mirror[t.repo] /\ since' = since \ {t.repo}
             \/ at = "upload" /\ primary = t.primary /\ since' = since /\ t.at \in {"upload", "wait"}
      PROVE  Moves
  <2>1. MirrorGoesOn(w, n)
    BY <1>c DEF Mirror!Step, MirrorGoesOn, Made
  <2>2. QED BY <1>c, <2>1 DEF Made
<1>d. UNCHANGED Mirror!serverVars <=> UNCHANGED serverVars
  BY DEF Mirror!serverVars, serverVars
<1> HIDE DEF Moves
<1>1. CASE Mirror!Reach(w)
  <2>1. /\ t # None /\ Mirror!Step(w, [t EXCEPT !.at = "primary"])
        /\ UNCHANGED <<queue, finished, since, still>> /\ UNCHANGED serverVars
    BY <1>1, <1>d DEF Mirror!Reach, Mirror!At
  <2>2. Made([t EXCEPT !.at = "primary"], "primary", t.repo, t.primary, t.n)
    BY <1>a, <2>1, MirrorUpdates
  <2>3. Moves
    BY <1>c, <2>1, <2>2
  <2>4. QED BY <2>3 DEF Moves
<1>2. CASE Mirror!Primary(w)
  <2>1. t # None
    BY <1>2 DEF Mirror!Primary, Mirror!At
  <2>2. ASSUME Mirror!Step(w, [t EXCEPT !.primary = mirror[t.repo], !.at = "upload"]),
               since' = since \ {t.repo}, UNCHANGED <<queue, finished, still>>,
               UNCHANGED serverVars
        PROVE  Moves
    <3>1. Made([t EXCEPT !.primary = mirror[t.repo], !.at = "upload"],
               "upload", t.repo, mirror[t.repo], t.n)
      BY <1>a, <2>1, MirrorUpdates
    <3>2. QED BY <1>c, <2>1, <2>2, <3>1
  <2>3. ASSUME NEW status \in {"skipped", "failed"}, Mirror!Report(w, status),
               UNCHANGED serverVars
        PROVE  Moves
    BY <1>b, <2>1, <2>3, MirrorParams
  <2>4. Moves
    BY <1>2, <1>d, <2>2, <2>3 DEF Mirror!Primary
  <2>5. QED BY <2>4 DEF Moves
<1>3. CASE Mirror!NoPackages(w) \/ Mirror!GiveUp(w)
  <2>1. Moves
    BY <1>3, <1>b, <1>d, MirrorParams DEF Mirror!NoPackages, Mirror!GiveUp, Mirror!At
  <2>2. QED BY <2>1 DEF Moves
<1>4. CASE Mirror!Raise(w)
  <2>1. t # None
    BY <1>4 DEF Mirror!Raise, Mirror!At
  <2>2. ASSUME Mirror!Report(w, "failed"), UNCHANGED serverVars PROVE Moves
    BY <1>b, <2>1, <2>2, MirrorParams
  <2>3. ASSUME t.attempt < Retries, Mirror!Step(w, [t EXCEPT !.attempt = @ + 1, !.at = "primary"]),
               UNCHANGED <<queue, finished, since, still>>, UNCHANGED serverVars
        PROVE  Moves
    <3>1. t.attempt + 1 \in 1..Retries
      BY <1>a, <2>1, <2>3, MirrorTask, MirrorParams
    <3>2. Made([t EXCEPT !.attempt = @ + 1, !.at = "primary"],
               "primary", t.repo, t.primary, t.n)
      BY <1>a, <2>1, <3>1, MirrorUpdates
    <3>3. QED BY <1>c, <2>1, <2>3, <3>2
  <2>4. Moves
    BY <1>4, <1>d, <2>2, <2>3 DEF Mirror!Raise
  <2>5. QED BY <2>4 DEF Moves
<1>5. CASE Mirror!SendInVain(w)
  <2>1. /\ t # None /\ t.at = "upload" /\ Mirror!Step(w, [t EXCEPT !.sends = @ + 1])
        /\ t.sends < Attempts
        /\ UNCHANGED <<queue, finished, since, still>> /\ UNCHANGED serverVars
    BY <1>5, <1>d DEF Mirror!SendInVain, Mirror!At
  <2>2. t.sends + 1 \in 0..Attempts
    BY <1>a, <2>1, MirrorTask, MirrorParams
  <2>3. Made([t EXCEPT !.sends = @ + 1], "upload", t.repo, t.primary, t.n)
    BY <1>a, <2>1, <2>2, MirrorUpdates
  <2>4. Moves
    BY <1>c, <2>1, <2>3
  <2>5. QED BY <2>4 DEF Moves
<1>6. CASE Mirror!Cut(w)
  <2>1. /\ t # None /\ t.at = "wait" /\ Mirror!Step(w, [t EXCEPT !.at = "upload"])
        /\ UNCHANGED <<queue, finished, since, still>> /\ UNCHANGED serverVars
    BY <1>6, <1>d DEF Mirror!Cut, Mirror!At
  <2>2. Made([t EXCEPT !.at = "upload"], "upload", t.repo, t.primary, t.n)
    BY <1>a, <2>1, MirrorUpdates
  <2>3. Moves
    BY <1>c, <2>1, <2>2
  <2>4. QED BY <2>3 DEF Moves
<1>7. CASE Mirror!Send(w)
  <2> DEFINE n == history[KeyOf[t.repo]].n + 1
             u == [t EXCEPT !.at = "wait", !.sends = @ + 1, !.n = n]
  <2>1. /\ t # None /\ t.at = "upload" /\ t.sends < Attempts /\ Mirror!Step(w, u)
        /\ UNCHANGED <<queue, finished, since, still>>
    BY <1>7 DEF Mirror!Send, Mirror!At
  <2>2. Receive(KeyOf[t.repo], [repo |-> t.repo, primary |-> t.primary])
    BY <1>7 DEF Mirror!Send, Mirror!Receive, Receive, Mirror!InHand, InHand
  <2>3. t.sends + 1 \in 0..Attempts /\ n \in 0..MaxSends
    BY <1>a, <2>1, <2>2, MirrorTask, MirrorParams DEF Receive
  <2>4. Made(u, "wait", t.repo, t.primary, n)
    BY <1>a, <2>1, <2>3, MirrorUpdates
  <2> HIDE DEF u
  <2>5. MirrorGoesOn(w, u)
    BY <2>1, <2>2, <2>4 DEF Mirror!Step, MirrorGoesOn, Made
  <2>6. QED BY <2>4, <2>5 DEF Made
<1>8. CASE Mirror!Upload(w)
  <2>1. t # None
    BY <1>8 DEF Mirror!Upload, Mirror!Awaits, Mirror!At
  <2>2. (\E q \in requests : Mirror!Awaits(w, q) /\ Insert(q)) /\ UNCHANGED history
    BY <1>8 DEF Mirror!Upload, Mirror!Insert, Insert
  <2>3. MirrorEnds(w, "completed")
    BY <1>8, <2>1, <2>2, MirrorParams DEF Mirror!Upload, Mirror!Report, Mirror!Step, MirrorEnds
  <2>4. QED BY <2>3, MirrorParams
<1>9. QED BY <1>1, <1>2, <1>3, <1>4, <1>5, <1>6, <1>7, <1>8 DEF Mirror!Work

\* A repository that is not published again by this step and was not before, or one of
\* which nothing is said.
Calm(r) == r \in since' \/ (r \notin since /\ mirror'[r] = mirror[r])

\* Whatever the server does, what stands of the recorded and of the finished uploads is
\* there.
LEMMA MirrorLasts ==
  ASSUME Mirror!RepodataAssumption, MirrorInv, ServerInv(Mirror!Keys, Mirror!Scans)',
         Lasting(Mirror!Keys), UNCHANGED <<file, still>>
  PROVE  /\ \A k \in Mirror!Keys : Recorded(k)'
         /\ \A f \in finished : f.status = "completed" /\ Calm(f.repo) => Answered(f)'
         /\ \A r \in Repos : unchanged'[r] \in {unchanged[r], None} => LeftOut(r)'
<1>1. ASSUME NEW k \in Mirror!Keys, Undisturbed(k)'
      PROVE  /\ Undisturbed(k) /\ history'[k].recorded = history[k].recorded
             /\ \A s \in server[k] : Safe(k, history[k].recorded, s) =>
                  s \in server'[k] /\ Safe(k, history[k].recorded, s)'
  <2>1. PICK n \in Nat : n = history[k].recorded /\ n <= history[k].n /\ history'[k].recorded = n
    BY MirrorValues DEF Lasting
  <2>2. Stands(k, n)'
    BY <1>1, <2>1 DEF Undisturbed, Stands
  <2>3. Stands(k, n) /\ \A s \in server[k] : Safe(k, n, s) => Safe(k, n, s)'
    BY <2>1, <2>2 DEF Lasting
  <2>4. Undisturbed(k)
    BY <2>1, <2>3 DEF Undisturbed, Stands
  <2>5. QED BY <2>1, <2>3, <2>4 DEF Safe
<1>2. ASSUME NEW k \in Mirror!Keys
      PROVE  Recorded(k)'
  <2>1. SUFFICES ASSUME file'.list[k] = "completed", Undisturbed(k)'
                 PROVE  \E s \in server'[k] :
                          /\ Safe(k, history[k].recorded, s)'
                          /\ file'.modified[k] # None /\ still'[k] =>
                               s.content.primary = file'.modified[k]
    BY DEF Recorded
  <2>2. PICK s \in server[k] :
          /\ Safe(k, history[k].recorded, s)
          /\ file.modified[k] # None /\ still[k] => s.content.primary = file.modified[k]
    BY <1>1, <2>1 DEF MirrorInv, MirrorStored, Recorded
  <2>3. QED BY <1>1, <2>1, <2>2
<1>3. ASSUME NEW r \in Repos, unchanged'[r] \in {unchanged[r], None}
      PROVE  LeftOut(r)'
  <2>1. PICK k \in Mirror!Keys : k = KeyOf[r]
    BY MirrorValues
  <2>2. SUFFICES ASSUME unchanged'[r] # None, still'[k], Undisturbed(k)'
                 PROVE  \E s \in server'[k] :
                          /\ Safe(k, history[k].recorded, s)'
                          /\ s.content.repo = r => s.content.primary = unchanged'[r]
    BY <2>1 DEF LeftOut
  <2>3. PICK s \in server[k] :
          /\ Safe(k, history[k].recorded, s)
          /\ s.content.repo = r => s.content.primary = unchanged[r]
    BY <1>1, <1>3, <2>1, <2>2 DEF MirrorInv, MirrorStored, LeftOut
  <2>4. QED BY <1>1, <1>3, <2>2, <2>3
<1>4. ASSUME NEW f \in finished, f.status = "completed", Calm(f.repo)
      PROVE  Answered(f)'
  <2>1. PICK k \in Mirror!Keys, n \in Nat : k = KeyOf[f.repo] /\ n = f.n
    <3>1. f.n \in 0..MaxSends /\ MaxSends \in Nat /\ KeyOf[f.repo] \in Mirror!Keys
      BY MirrorValues
    <3>2. f.n \in Nat
      BY <3>1
    <3>3. QED BY <3>1, <3>2
  <2>2. Answered(f)
    BY <1>4 DEF MirrorInv, MirrorStored
  <2>3. n >= 1 /\ n <= history[k].n
    BY <2>1, <2>2 DEF Answered
  <2>4. /\ history[k].n \in Nat /\ history'[k].n \in Nat
        /\ history[k].n <= history'[k].n
    BY MirrorValues DEF Lasting, ServerInv, ServerTypeOK
  <2>5. n <= history'[k].n
    BY <2>3, <2>4
  <2>6. ASSUME Stands(k, n)'
        PROVE  \E s \in server'[k] :
                  /\ Safe(k, n, s)' /\ s.content.repo = f.repo
                  /\ f.repo \notin since' => s.content.primary = mirror'[f.repo]
    <3>1. Stands(k, n) /\ \A s \in server[k] : Safe(k, n, s) => Safe(k, n, s)'
      BY <2>3, <2>6 DEF Lasting
    <3>2. PICK s \in server[k] :
            /\ Safe(k, n, s) /\ s.content.repo = f.repo
            /\ f.repo \notin since => s.content.primary = mirror[f.repo]
      BY <2>1, <2>2, <3>1 DEF Answered
    <3>3. Safe(k, n, s)' /\ (f.repo \notin since' => s.content.primary = mirror'[f.repo])
      BY <1>4, <3>1, <3>2 DEF Calm
    <3>4. QED BY <3>2, <3>3 DEF Safe
  <2>7. QED BY <2>1, <2>3, <2>5, <2>6 DEF Answered
<1>5. QED BY <1>2, <1>3, <1>4

\* And what a worker has downloaded and sent.
LEMMA MirrorTaskLasts ==
  ASSUME Mirror!RepodataAssumption, MirrorInv, ServerInv(Mirror!Keys, Mirror!Scans)',
         Lasting(Mirror!Keys),
         NEW t \in Mirror!Tasks, Downloaded(t), Posted(t), Calm(t.repo)
  PROVE  Downloaded(t)' /\ Posted(t)'
<1>1. PICK k \in Mirror!Keys : k = KeyOf[t.repo]
  BY MirrorTask, MirrorValues
<1>2. Downloaded(t)'
  BY DEF Downloaded, Calm
<1>3. /\ t.n \in 0..MaxSends /\ MaxSends \in Nat /\ history[k].n \in Nat
      /\ t.n <= history[k].n /\ history[k].n <= history'[k].n /\ history'[k].n \in Nat
  BY <1>1, MirrorTask, MirrorValues DEF Lasting, Posted, ServerInv, ServerTypeOK
<1>4. t.n <= history'[k].n
  BY <1>3
<1>5. ASSUME NEW q \in requests', t.at = "wait", q.key = k, q.n = t.n
      PROVE  q.content.repo = t.repo /\ q.content.primary = t.primary
  <2>1. \/ \E p \in requests : p.key = q.key /\ p.n = q.n /\ p.content = q.content
        \/ q.n > history[q.key].n
    BY DEF Lasting
  <2>2. ~ (q.n > history[q.key].n)
    BY <1>3, <1>5
  <2>3. QED BY <1>1, <1>5, <2>1, <2>2 DEF Posted
<1>6. QED BY <1>1, <1>2, <1>4, <1>5 DEF Posted

\* A step that leaves the tasks alone or ends them, and publishes nothing but what it
\* notes.
LEMMA MirrorTasksLast ==
  ASSUME Mirror!RepodataAssumption, MirrorInv, ServerInv(Mirror!Keys, Mirror!Scans)',
         Lasting(Mirror!Keys), \A r \in Repos : r \in since \/ Calm(r), since \subseteq since',
         NEW W, \A v \in Workers \ W : worker'[v] \in {worker[v], None}
  PROVE  \A v \in Workers \ W : worker'[v] # None => Downloaded(worker[v])' /\ Posted(worker[v])'
<1>1. ASSUME NEW v \in Workers \ W, worker'[v] # None
      PROVE  Downloaded(worker[v])' /\ Posted(worker[v])'
  <2>1. PICK t \in Mirror!Tasks : t = worker[v] /\ worker'[v] = t /\ t.repo \in Repos
    BY <1>1, MirrorValues
  <2>2. Downloaded(t) /\ Posted(t)
    BY <1>1, <2>1 DEF MirrorInv, MirrorTasks
  <2>3. Calm(t.repo)
    BY <2>1 DEF Calm
  <2>4. Downloaded(t)' /\ Posted(t)'
    BY <2>2, <2>3, MirrorTaskLasts
  <2>5. QED BY <2>1, <2>4 DEF Downloaded, Posted
<1>2. QED BY <1>1

\* Whatever the server does of itself is one of these.
LEMMA MirrorServed ==
  ASSUME Mirror!RepodataAssumption, MirrorInv, Served(Mirror!Keys, Mirror!Scans)
  PROVE  ServerInv(Mirror!Keys, Mirror!Scans)' /\ Lasting(Mirror!Keys)
BY MirrorValues, ServerLasts

\* A step that neither records nor publishes keeps what is said of the contents.
LEMMA MirrorSame ==
  ASSUME Mirror!RepodataAssumption, MirrorInv, Served(Mirror!Keys, Mirror!Scans),
         UNCHANGED <<mirror, file, since, still>>, finished' \subseteq finished,
         \A w \in Workers : worker'[w] \in {worker[w], None},
         \A r \in Repos : unchanged'[r] \in {unchanged[r], None}
  PROVE  ServerInv(Mirror!Keys, Mirror!Scans)' /\ MirrorTasks' /\ MirrorStored'
<1>1. ServerInv(Mirror!Keys, Mirror!Scans)' /\ Lasting(Mirror!Keys)
  BY MirrorServed
<1>2. \A r : Calm(r)
  BY DEF Calm
<1>3. MirrorStored'
  BY <1>1, <1>2, MirrorLasts DEF MirrorStored
<1>4. MirrorTasks'
  <2>1. \A v \in Workers \ {} : worker'[v] # None => Downloaded(worker[v])' /\ Posted(worker[v])'
    BY <1>1, <1>2, MirrorTasksLast
  <2>2. QED BY <2>1 DEF MirrorTasks
<1>5. QED BY <1>1, <1>3, <1>4

\* The server goes on.
LEMMA MirrorServerKeeps ==
  ASSUME Mirror!RepodataAssumption, MirrorInv, Mirror!ServerStep \/ UNCHANGED Mirror!vars
  PROVE  MirrorInv'
<1>1. /\ UNCHANGED <<mirror, reachable, file, progress, main, queue, worker, finished,
                     unchanged, since, still>>
      /\ Served(Mirror!Keys, Mirror!Scans)
  <2>1. CASE Mirror!ServerStep
    <3>1. PICK q \in requests : Mirror!Serve(q)
      BY <2>1 DEF Mirror!ServerStep
    <3>2. Serve(q)
      BY <3>1, MirrorServer
    <3>3. QED BY <2>1, <3>2 DEF Mirror!ServerStep, Served
  <2>2. CASE UNCHANGED Mirror!vars
    BY <2>2 DEF Mirror!vars, Mirror!serverVars, serverVars, Served
  <2>3. QED BY <2>1, <2>2
<1>2. ServerInv(Mirror!Keys, Mirror!Scans)' /\ MirrorTasks' /\ MirrorStored'
  BY <1>1, MirrorSame
<1>3. MirrorType'
  BY <1>1, <1>2 DEF MirrorInv, MirrorType
<1>4. MirrorPlace'
  BY <1>1 DEF MirrorInv, MirrorPlace, Holds, AtWork, Reported
<1>5. QED BY <1>2, <1>3, <1>4 DEF MirrorInv

\* A run starts from what the file says, or less.
LEMMA MirrorStartKeeps ==
  ASSUME Mirror!RepodataAssumption, MirrorInv, Mirror!Start
  PROVE  MirrorInv'
<1>1. /\ main.at = "idle" /\ progress' = file' /\ unchanged' = Mirror!Nowhere
      /\ UNCHANGED <<mirror, reachable, server, requests, history, queue, worker, finished,
                     since, still>>
      /\ \E full \in BOOLEAN : main' = [at |-> "reach", todo |-> {}, full |-> full]
  BY DEF Mirror!Start, Mirror!serverVars
<1>2. main' \in MirrorMain /\ main'.at = "reach" /\ main'.todo = {}
  BY <1>1 DEF MirrorMain
<1>3. /\ queue = {} /\ finished = {} /\ \A w \in Workers : worker[w] = None
      /\ file \in MirrorFile /\ progress = file
  BY <1>1 DEF MirrorInv, MirrorPlace, MirrorType
<1>4. /\ file' \in MirrorFile
      /\ \A k \in Mirror!Keys : file'.list[k] = "completed" =>
           file.list[k] = "completed" /\ file'.modified[k] = file.modified[k]
  <2>1. /\ Mirror!Fresh \in MirrorFile
        /\ \A k \in Mirror!Keys : Mirror!Fresh.list[k] # "completed"
    BY MirrorParams DEF Mirror!Fresh, MirrorFile
  <2> DEFINE forgiven == [k \in Mirror!Keys |->
                            IF file.list[k] = "failed" THEN None ELSE file.list[k]]
             kept == [file EXCEPT !.list = forgiven]
  <2>2. /\ forgiven \in [Mirror!Keys -> Mirror!Lists \cup {None}]
        /\ \A k \in Mirror!Keys : forgiven[k] = "completed" => file.list[k] = "completed"
    BY <1>3, MirrorParams DEF MirrorFile
  <2> HIDE DEF forgiven
  <2>3. kept \in MirrorFile /\ kept.list = forgiven /\ kept.modified = file.modified
    BY <1>3, <2>2 DEF MirrorFile
  <2> HIDE DEF kept
  <2>4. file' \in {file, Mirror!Fresh, kept}
    BY DEF Mirror!Start, kept, forgiven
  <2>5. QED BY <1>3, <2>1, <2>2, <2>3, <2>4
<1>5. unchanged' \in [Repos -> Mirror!States \cup {None}] /\ \A r \in Repos : unchanged'[r] = None
  BY <1>1 DEF Mirror!Nowhere
<1>6. ServerInv(Mirror!Keys, Mirror!Scans)'
  BY <1>1, MirrorValues DEF ServerInv, ServerTypeOK
<1>7. MirrorType'
  BY <1>1, <1>2, <1>4, <1>5, <1>6 DEF MirrorInv, MirrorType
<1>8. MirrorPlace'
  BY <1>1, <1>2, <1>3, <1>5 DEF MirrorPlace, Mirror!Nowhere, Holds, AtWork, Reported
<1>9. MirrorStored'
  <2>1. ASSUME NEW k \in Mirror!Keys, file'.list[k] = "completed", Undisturbed(k)'
        PROVE  \E s \in server'[k] :
                 /\ Safe(k, history[k].recorded, s)'
                 /\ file'.modified[k] # None /\ still'[k] =>
                      s.content.primary = file'.modified[k]
    <3>1. Undisturbed(k) /\ file.list[k] = "completed" /\ file'.modified[k] = file.modified[k]
      BY <1>1, <1>4, <2>1 DEF Undisturbed
    <3>2. PICK s \in server[k] :
            /\ Safe(k, history[k].recorded, s)
            /\ file.modified[k] # None /\ still[k] => s.content.primary = file.modified[k]
      BY <3>1 DEF MirrorInv, MirrorStored, Recorded
    <3>3. QED BY <1>1, <3>1, <3>2 DEF Safe
  <2>2. \A k \in Mirror!Keys : Recorded(k)'
    BY <2>1 DEF Recorded
  <2>3. QED BY <1>1, <1>3, <1>5, <2>2 DEF MirrorStored, LeftOut
<1>10. MirrorTasks'
  BY <1>1, <1>3 DEF MirrorTasks
<1>11. QED BY <1>7, <1>8, <1>9, <1>10 DEF MirrorInv

\* Finding what there is, and starting the pool.
LEMMA MirrorFoundKeeps ==
  ASSUME Mirror!RepodataAssumption, MirrorInv, Mirror!Crawl \/ Mirror!StartPool
  PROVE  MirrorInv'
<1>1. /\ UNCHANGED <<mirror, reachable, file, progress, queue, worker, finished,
                     unchanged, since, still>>
      /\ Served(Mirror!Keys, Mirror!Scans)
  BY DEF Mirror!Crawl, Mirror!StartPool, Mirror!serverVars, serverVars, Served
<1>2. /\ main' \in MirrorMain /\ main'.at \in {"build", "scan"}
      /\ main'.at # "build" => main'.todo = {}
      /\ main.at # "scan"
      /\ main.at = "reach" \/ main'.todo = {}
  <2>1. CASE Mirror!Crawl
    BY <2>1 DEF Mirror!Crawl, Mirror!Discovered, MirrorInv, MirrorType, MirrorMain
  <2>2. CASE Mirror!StartPool
    BY <2>2 DEF Mirror!StartPool, MirrorInv, MirrorType, MirrorMain
  <2>3. QED BY <2>1, <2>2
<1>3. main.at = "reach" => queue = {} /\ \A r \in Repos : unchanged[r] = None
  BY DEF MirrorInv, MirrorPlace, Mirror!Nowhere
<1>4. finished = {} /\ \A w \in Workers : worker[w] = None
  BY <1>2 DEF MirrorInv, MirrorPlace
<1>5. ServerInv(Mirror!Keys, Mirror!Scans)' /\ MirrorTasks' /\ MirrorStored'
  BY <1>1, MirrorSame
<1>6. MirrorType'
  BY <1>1, <1>2, <1>5 DEF MirrorInv, MirrorType
<1>7. main'.todo \cap queue' = {} /\ \A r \in Repos : unchanged'[r] # None => r \notin main'.todo \cup queue'
  BY <1>1, <1>2, <1>3 DEF MirrorInv, MirrorPlace
<1>8. MirrorPlace'
  BY <1>1, <1>2, <1>4, <1>7 DEF MirrorPlace, Holds, AtWork, Reported
<1>9. QED BY <1>5, <1>6, <1>8 DEF MirrorInv

\* A repository is queued or left out; one that is left out as unchanged is stored as
\* the mirror has it.
LEMMA MirrorEnqueueKeeps ==
  ASSUME Mirror!RepodataAssumption, MirrorInv, Mirror!Enqueue
  PROVE  MirrorInv'
<1>1. PICK r \in main.todo : \E now \in Mirror!LastModified(r) :
        /\ main' = [main EXCEPT !.todo = @ \ {r}]
        /\ \/ queue' = queue \cup {r} /\ unchanged' = unchanged
           \/ queue' = queue /\ unchanged' = unchanged
           \/ /\ queue' = queue /\ unchanged' = [unchanged EXCEPT ![r] = mirror[r]]
              /\ progress.list[KeyOf[r]] = "completed" /\ ~ Mirror!RepoHasChanged(r, now)
  BY DEF Mirror!Enqueue
<1>2. /\ main.at = "build"
      /\ UNCHANGED <<mirror, reachable, file, progress, worker, finished, since, still>>
      /\ Served(Mirror!Keys, Mirror!Scans) /\ UNCHANGED <<server, requests, history>>
  BY DEF Mirror!Enqueue, Mirror!serverVars, serverVars, Served
<1>3. /\ r \in Repos /\ main \in MirrorMain /\ progress = file
      /\ mirror[r] \in Mirror!States /\ mirror[r] # None
      /\ unchanged \in [Repos -> Mirror!States \cup {None}]
      /\ r \notin queue /\ unchanged[r] = None
      /\ finished = {} /\ \A w \in Workers : worker[w] = None
  BY <1>2, MirrorParams DEF MirrorInv, MirrorType, MirrorPlace, MirrorMain
<1>4. main' \in MirrorMain /\ main'.at = "build" /\ main'.todo = main.todo \ {r}
  BY <1>1, <1>2, <1>3 DEF MirrorMain
<1>5. /\ queue' \in {queue, queue \cup {r}}
      /\ unchanged' \in [Repos -> Mirror!States \cup {None}]
      /\ \A q \in Repos \ {r} : unchanged'[q] = unchanged[q]
      /\ unchanged'[r] # None => queue' = queue
  BY <1>1, <1>3
<1>6. ServerInv(Mirror!Keys, Mirror!Scans)' /\ Lasting(Mirror!Keys) /\ \A q : Calm(q)
  BY <1>2, MirrorServed DEF Calm
<1>7. MirrorType'
  BY <1>2, <1>3, <1>4, <1>5, <1>6 DEF MirrorInv, MirrorType
<1>8. MirrorPlace'
  <2>1. \A q \in Repos : unchanged'[q] # None => q \notin main'.todo \cup queue'
    BY <1>3, <1>4, <1>5 DEF MirrorInv, MirrorPlace
  <2>2. main'.todo \cap queue' = {}
    BY <1>3, <1>4, <1>5 DEF MirrorInv, MirrorPlace
  <2>3. QED BY <1>2, <1>3, <1>4, <2>1, <2>2 DEF MirrorPlace, Holds, AtWork, Reported
<1>9. LeftOut(r)'
  <2>1. PICK k \in Mirror!Keys : k = KeyOf[r]
    BY <1>3, MirrorParams
  <2>2. SUFFICES ASSUME unchanged'[r] # None, still[k], Undisturbed(k)
                 PROVE  \E s \in server[k] :
                          /\ Safe(k, history[k].recorded, s)
                          /\ s.content.repo = r => s.content.primary = unchanged'[r]
    BY <1>2, <2>1 DEF LeftOut, Undisturbed, Safe
  <2>3. /\ unchanged'[r] = mirror[r] /\ file.list[k] = "completed"
        /\ file.modified[k] = mirror[r]
    BY <1>1, <1>3, <2>1, <2>2 DEF Mirror!RepoHasChanged, Mirror!LastModified
  <2>4. PICK s \in server[k] : /\ Safe(k, history[k].recorded, s)
                              /\ s.content.primary = file.modified[k]
    BY <1>3, <2>2, <2>3 DEF MirrorInv, MirrorStored, Recorded
  <2>5. QED BY <2>3, <2>4
<1>10. MirrorStored'
  <2>1. /\ \A k \in Mirror!Keys : Recorded(k)'
        /\ \A q \in Repos \ {r} : LeftOut(q)'
    BY <1>2, <1>5, <1>6, MirrorLasts
  <2>2. \A q \in Repos : LeftOut(q)'
    BY <1>9, <2>1
  <2>3. QED BY <1>2, <1>3, <2>1, <2>2 DEF MirrorStored
<1>11. MirrorTasks'
  BY <1>2, <1>3 DEF MirrorTasks
<1>12. QED BY <1>7, <1>8, <1>10, <1>11 DEF MirrorInv

\* A result is recorded, with the timestamp the mirror has by now.
LEMMA MirrorRemembers ==
  ASSUME Mirror!RepodataAssumption, MirrorInv, NEW f \in finished, NEW k, k = KeyOf[f.repo],
         UNCHANGED <<server, requests>>,
         IF f.status = "completed" THEN Remember(k, f.n) ELSE UNCHANGED history
  PROVE  /\ ServerInv(Mirror!Keys, Mirror!Scans)'
         /\ \A j \in Mirror!Keys : history'[j].n = history[j].n /\ history'[j].sole = history[j].sole
         /\ \A j \in Mirror!Keys \ {k} : history'[j] = history[j]
         /\ f.status = "completed" =>
              history'[k].recorded = f.n /\ (Undisturbed(k)' <=> Stands(k, f.n)) /\ Answered(f)
         /\ f.status # "completed" => history' = history
<1>1. /\ k \in Mirror!Keys /\ f.n \in 0..MaxSends /\ MaxSends \in Nat
      /\ ServerInv(Mirror!Keys, Mirror!Scans)
  BY MirrorValues
<1>2. CASE f.status # "completed"
  <2>1. UNCHANGED <<server, requests, history>>
    BY <1>2
  <2>2. ServerInv(Mirror!Keys, Mirror!Scans)'
    BY <1>1, <2>1 DEF ServerInv, ServerTypeOK
  <2>3. QED BY <1>2, <2>1, <2>2
<1>3. CASE f.status = "completed"
  <2>1. Answered(f)
    BY <1>3 DEF MirrorInv, MirrorStored
  <2>2. f.n \in 1..MaxSends /\ f.n <= history[k].n
    BY <1>1, <2>1 DEF Answered
  <2>3. Remember(k, f.n)
    BY <1>3
  <2>4. QED BY <1>1, <1>3, <2>1, <2>2, <2>3, RememberKeeps
<1>4. QED BY <1>2, <1>3

LEMMA MirrorRecordKeeps ==
  ASSUME Mirror!RepodataAssumption, MirrorInv, Mirror!Record
  PROVE  MirrorInv'
<1>1. PICK f \in finished : \E now \in Mirror!LastModified(f.repo) :
        /\ finished' = finished \ {f}
        /\ progress' = [progress EXCEPT !.list[KeyOf[f.repo]] = f.status,
             !.modified[KeyOf[f.repo]] = IF f.status = "completed" THEN now ELSE @]
        /\ still' = [still EXCEPT ![KeyOf[f.repo]] =
                       IF f.status = "completed" THEN f.repo \notin since ELSE @]
        /\ IF f.status = "completed" THEN Remember(KeyOf[f.repo], f.n)
           ELSE UNCHANGED history
  BY MirrorServer DEF Mirror!Record
<1>2. PICK k \in Mirror!Keys : k = KeyOf[f.repo]
  BY MirrorValues
<1>3. PICK now \in Mirror!LastModified(f.repo) :
        progress' = [progress EXCEPT !.list[k] = f.status,
                       !.modified[k] = IF f.status = "completed" THEN now ELSE @]
  BY <1>1, <1>2
<1> DEFINE r == f.repo
           modified == IF f.status = "completed" THEN now ELSE file.modified[k]
<1>4. /\ file' = progress'
      /\ UNCHANGED <<mirror, reachable, server, requests, main, queue, worker, unchanged, since>>
  BY DEF Mirror!Record
<1>5. /\ r \in Repos /\ f.status \in Mirror!Lists /\ progress = file /\ file \in MirrorFile
      /\ mirror[r] \in Mirror!States /\ now \in {mirror[r], None}
      /\ still \in [Mirror!Keys -> BOOLEAN]
  BY <1>3, MirrorValues DEF MirrorInv, MirrorType, Mirror!LastModified
<1>6. modified \in Mirror!States \cup {None}
  BY <1>5 DEF MirrorFile
<1>7. file' = [file EXCEPT !.list = [file.list EXCEPT ![k] = f.status],
                           !.modified = [file.modified EXCEPT ![k] = modified]]
  BY <1>3, <1>4, <1>5 DEF MirrorFile
<1>8. f.status = "completed" => modified = now
  OBVIOUS
<1> HIDE DEF modified, r
<1>9. /\ file' \in MirrorFile
      /\ file'.list = [file.list EXCEPT ![k] = f.status]
      /\ file'.modified = [file.modified EXCEPT ![k] = modified]
  BY <1>5, <1>6, <1>7 DEF MirrorFile
<1>10. /\ file'.list[k] = f.status /\ file'.modified[k] = modified
       /\ \A j \in Mirror!Keys \ {k} :
            file'.list[j] = file.list[j] /\ file'.modified[j] = file.modified[j]
  BY <1>5, <1>9 DEF MirrorFile
<1>11. /\ still' \in [Mirror!Keys -> BOOLEAN]
       /\ f.status = "completed" => still'[k] = (r \notin since)
       /\ f.status # "completed" => still' = still
       /\ \A j \in Mirror!Keys \ {k} : still'[j] = still[j]
  BY <1>1, <1>2, <1>5 DEF r
<1>12. Reported(r) /\ unchanged[r] = None
  BY <1>5 DEF MirrorInv, MirrorPlace, Reported, r
<1>13. /\ ServerInv(Mirror!Keys, Mirror!Scans)'
       /\ \A j \in Mirror!Keys : history'[j].n = history[j].n /\ history'[j].sole = history[j].sole
       /\ \A j \in Mirror!Keys \ {k} : history'[j] = history[j]
       /\ f.status = "completed" =>
            history'[k].recorded = f.n /\ (Undisturbed(k)' <=> Stands(k, f.n)) /\ Answered(f)
       /\ f.status # "completed" => history' = history
  BY <1>1, <1>2, <1>4, MirrorRemembers
<1>14. MirrorType'
  BY <1>1, <1>4, <1>9, <1>11, <1>13 DEF MirrorInv, MirrorType
<1>15. MirrorPlace'
  BY <1>1, <1>4 DEF MirrorInv, MirrorPlace, Holds, AtWork, Reported
<1>16. ASSUME f.status = "completed", Undisturbed(k)'
       PROVE  \E s \in server[k] :
                /\ Safe(k, f.n, s) /\ s.content.repo = r
                /\ r \notin since => s.content.primary = mirror[r]
  BY <1>2, <1>13, <1>16 DEF Answered, r
<1>17. \A j \in Mirror!Keys : Recorded(j)'
  <2>1. ASSUME f.status = "completed", Undisturbed(k)'
        PROVE  Recorded(k)'
    <3>1. PICK s \in server[k] :
            /\ Safe(k, f.n, s)
            /\ r \notin since => s.content.primary = mirror[r]
      BY <1>16, <2>1
    <3>2. Safe(k, history[k].recorded, s)' /\ s \in server'[k]
      BY <1>4, <1>13, <2>1, <3>1 DEF Safe
    <3>3. file'.modified[k] # None /\ still'[k] => s.content.primary = file'.modified[k]
      BY <1>5, <1>8, <1>10, <1>11, <2>1, <3>1
    <3>4. QED BY <3>2, <3>3 DEF Recorded
  <2>2. Recorded(k)'
    BY <1>10, <2>1 DEF Recorded
  <2>3. ASSUME NEW j \in Mirror!Keys \ {k}
        PROVE  Recorded(j)'
    BY <1>4, <1>10, <1>11, <1>13, <2>3
    DEF MirrorInv, MirrorStored, Recorded, Undisturbed, Safe
  <2>4. QED BY <2>2, <2>3
<1>18. \A q \in Repos : LeftOut(q)'
  <2>1. ASSUME NEW q \in Repos
        PROVE  LeftOut(q)'
    <3>1. PICK j \in Mirror!Keys : j = KeyOf[q]
      BY <2>1, MirrorValues
    <3>2. LeftOut(q)
      BY DEF MirrorInv, MirrorStored
    <3>3. CASE j # k \/ f.status # "completed"
      <4>1. history'[j] = history[j] /\ still'[j] = still[j]
        BY <1>11, <1>13, <3>1, <3>3
      <4>2. QED BY <1>4, <3>1, <3>2, <4>1 DEF LeftOut, Undisturbed, Safe
    <3>4. CASE j = k /\ f.status = "completed"
      <4>1. SUFFICES ASSUME unchanged[q] # None, Undisturbed(k)'
                     PROVE  \E s \in server'[k] :
                              /\ Safe(k, history[k].recorded, s)'
                              /\ s.content.repo = q => s.content.primary = unchanged[q]
        BY <1>4, <3>1, <3>4 DEF LeftOut
      <4>2. PICK s \in server[k] : Safe(k, f.n, s) /\ s.content.repo = r
        BY <1>16, <3>4, <4>1
      <4>3. r # q
        BY <1>12, <4>1
      <4>4. Safe(k, history[k].recorded, s)' /\ s \in server'[k]
        BY <1>4, <1>13, <3>4, <4>2 DEF Safe
      <4>5. QED BY <4>2, <4>3, <4>4
    <3>5. QED BY <3>3, <3>4
  <2>2. QED BY <2>1
<1>19. MirrorStored'
  <2>1. ASSUME NEW g \in finished', g.status = "completed"
        PROVE  Answered(g)'
    <3>1. Answered(g) /\ KeyOf[g.repo] \in Mirror!Keys
      BY <1>1, <2>1, MirrorValues DEF MirrorInv, MirrorStored
    <3>2. QED BY <1>4, <1>13, <3>1 DEF Answered, Stands, Safe
  <2>2. QED BY <1>17, <1>18, <2>1 DEF MirrorStored
<1>20. MirrorTasks'
  <2>1. ASSUME NEW w \in Workers, worker'[w] # None
        PROVE  Downloaded(worker[w])' /\ Posted(worker[w])'
    <3>1. /\ Downloaded(worker[w]) /\ Posted(worker[w])
          /\ KeyOf[worker[w].repo] \in Mirror!Keys /\ worker'[w] = worker[w]
      BY <1>4, <2>1, MirrorValues DEF MirrorInv, MirrorTasks
    <3>2. QED BY <1>4, <1>13, <3>1 DEF Downloaded, Posted
  <2>2. QED BY <2>1 DEF MirrorTasks
<1>21. QED BY <1>14, <1>15, <1>19, <1>20 DEF MirrorInv

\* A run ends, or is killed.
LEMMA MirrorEndKeeps ==
  ASSUME Mirror!RepodataAssumption, MirrorInv, Mirror!Finish \/ Mirror!Kill
  PROVE  MirrorInv'
<1>1. /\ UNCHANGED <<mirror, reachable, file, progress, since, still>>
      /\ Served(Mirror!Keys, Mirror!Scans)
      /\ main' = Mirror!Idle /\ queue' = {} /\ finished' = {}
      /\ worker' \in [Workers -> Mirror!Tasks \cup {None}] /\ \A w \in Workers : worker'[w] = None
      /\ unchanged' \in {unchanged, Mirror!Nowhere}
  BY DEF Mirror!Finish, Mirror!Kill, MirrorInv, MirrorType, Mirror!serverVars, serverVars, Served
<1>2. main' \in MirrorMain /\ main'.at = "idle" /\ main'.todo = {}
  BY <1>1 DEF Mirror!Idle, MirrorMain
<1>3. /\ unchanged' \in [Repos -> Mirror!States \cup {None}]
      /\ \A r \in Repos : unchanged'[r] \in {unchanged[r], None}
  BY <1>1 DEF MirrorInv, MirrorType, Mirror!Nowhere
<1>4. ServerInv(Mirror!Keys, Mirror!Scans)' /\ MirrorTasks' /\ MirrorStored'
  <2>1. \A w \in Workers : worker'[w] \in {worker[w], None}
    BY <1>1
  <2>2. finished' \subseteq finished
    BY <1>1
  <2>3. QED BY <1>1, <1>3, <2>1, <2>2, MirrorSame
<1>5. MirrorType'
  BY <1>1, <1>2, <1>3, <1>4 DEF MirrorInv, MirrorType
<1>6. MirrorPlace'
  BY <1>1, <1>2 DEF MirrorPlace, Holds, AtWork, Reported
<1>7. QED BY <1>4, <1>5, <1>6 DEF MirrorInv

\* The mirror publishes a repository again, or is unreachable for a while.
LEMMA MirrorPublishKeeps ==
  ASSUME Mirror!RepodataAssumption, MirrorInv,
         Mirror!Publish \/ Mirror!Outage \/ Mirror!Recover
  PROVE  MirrorInv'
<1>1. /\ UNCHANGED <<file, progress, main, queue, worker, finished, unchanged, still>>
      /\ reachable' \in BOOLEAN /\ Served(Mirror!Keys, Mirror!Scans)
  BY DEF Mirror!Publish, Mirror!Outage, Mirror!Recover, MirrorInv, MirrorType,
     Mirror!serverVars, serverVars, Served
<1>2. MirrorPlace'
  BY <1>1 DEF MirrorInv, MirrorPlace, Holds, AtWork, Reported
<1>3. ServerInv(Mirror!Keys, Mirror!Scans)' /\ Lasting(Mirror!Keys)
  BY <1>1, MirrorServed
<1>4. /\ mirror' \in [Repos -> Mirror!States] /\ since \subseteq since'
      /\ \A r \in Repos : r \in since \/ Calm(r)
  <2>0. mirror \in [Repos -> Mirror!States]
    BY DEF MirrorInv, MirrorType
  <2>1. CASE UNCHANGED <<mirror, since>>
    BY <2>0, <2>1 DEF Calm
  <2>2. CASE Mirror!Publish
    <3>1. PICK r \in Repos :
            /\ mirror[r] < MaxPublish /\ mirror' = [mirror EXCEPT ![r] = @ + 1]
            /\ since' = since \cup {r}
      BY <2>2 DEF Mirror!Publish
    <3>2. mirror[r] + 1 \in Mirror!States
      BY <2>0, <3>1, MirrorParams DEF Mirror!States
    <3>3. mirror' \in [Repos -> Mirror!States] /\ \A q \in Repos \ {r} : mirror'[q] = mirror[q]
      BY <2>0, <3>1, <3>2
    <3>4. QED BY <3>1, <3>3 DEF Calm
  <2>3. QED BY <2>1, <2>2 DEF Mirror!Outage, Mirror!Recover
<1>5. MirrorType'
  BY <1>1, <1>3, <1>4 DEF MirrorInv, MirrorType
<1>6. MirrorTasks'
  <2>1. \A w \in Workers \ {} : worker'[w] # None => Downloaded(worker[w])' /\ Posted(worker[w])'
    BY <1>1, <1>3, <1>4, MirrorTasksLast
  <2>2. QED BY <2>1 DEF MirrorTasks
<1>7. MirrorStored'
  <2>1. \A f \in finished : f.repo \in Repos
    BY MirrorValues
  <2>2. \A f \in finished : Calm(f.repo)
    BY <1>4, <2>1 DEF Calm
  <2>3. QED BY <1>1, <1>3, <2>2, MirrorLasts DEF MirrorStored
<1>8. QED BY <1>2, <1>5, <1>6, <1>7 DEF MirrorInv

\* A free worker takes a repository off the queue.
LEMMA MirrorTakeKeeps ==
  ASSUME Mirror!RepodataAssumption, MirrorInv, NEW w \in Workers, Mirror!Take(w)
  PROVE  MirrorInv'
<1> DEFINE Task(q) == [repo |-> q, at |-> "reach", primary |-> None, attempt |-> 1,
                       sends |-> 0, n |-> 0]
<1>1. PICK r \in queue : queue' = queue \ {r} /\ Mirror!Step(w, Task(r))
  BY DEF Mirror!Take
<1> DEFINE t == Task(r)
<1>2. /\ main.at = "scan" /\ worker[w] = None /\ worker' = [worker EXCEPT ![w] = t]
      /\ UNCHANGED <<mirror, reachable, file, progress, main, finished, unchanged, since, still>>
      /\ Served(Mirror!Keys, Mirror!Scans)
  BY <1>1 DEF Mirror!Take, Mirror!Step, Mirror!serverVars, serverVars, Served
<1>3. r \in Repos /\ worker \in [Workers -> Mirror!Tasks \cup {None}]
  BY DEF MirrorInv, MirrorType
<1>4. t \in Mirror!Tasks /\ t # None
  <2>1. 1 \in 1..Retries /\ None \notin Mirror!Tasks /\ 0 \in 0..Attempts /\ 0 \in 0..MaxSends
    BY MirrorParams
  <2>2. t \in Mirror!Tasks
    BY <1>3, <2>1, SMTT(30) DEF Mirror!Tasks
  <2>3. QED BY <2>1, <2>2
<1>5. t.repo = r /\ t.at = "reach" /\ t.n = 0
  OBVIOUS
<1> HIDE DEF t
<1>6. /\ worker' \in [Workers -> Mirror!Tasks \cup {None}] /\ worker'[w] = t
      /\ \A v \in Workers \ {w} : worker'[v] = worker[v]
  BY <1>2, <1>3, <1>4
<1>7. \A v \in Workers : \A q : Holds(v, q)' <=> Holds(v, q) \/ (v = w /\ q = r)
  BY <1>2, <1>4, <1>5, <1>6 DEF Holds
<1>8. \A q : (AtWork(q)' <=> AtWork(q) \/ q = r) /\ (Reported(q)' <=> Reported(q))
  BY <1>2, <1>7 DEF AtWork, Reported
<1>9. ~ AtWork(r) /\ ~ Reported(r) /\ r \notin main.todo /\ unchanged[r] = None
  BY <1>3 DEF MirrorInv, MirrorPlace
<1>10. ServerInv(Mirror!Keys, Mirror!Scans)' /\ Lasting(Mirror!Keys)
  BY <1>2, MirrorServed
<1>11. MirrorType'
  BY <1>1, <1>2, <1>6, <1>10 DEF MirrorInv, MirrorType
<1>12. MirrorPlace'
  <2>1. \A v \in Workers : ~ Holds(v, r)
    BY <1>9 DEF AtWork
  <2>2. \A v, u \in Workers : \A q \in Repos : Holds(v, q)' /\ Holds(u, q)' => v = u
    BY <1>7, <2>1 DEF MirrorInv, MirrorPlace
  <2>3. \A q \in queue' : ~ AtWork(q)' /\ ~ Reported(q)'
    BY <1>1, <1>8 DEF MirrorInv, MirrorPlace
  <2>4. \A q \in Repos : AtWork(q)' => ~ Reported(q)'
    BY <1>8, <1>9 DEF MirrorInv, MirrorPlace
  <2>5. \A q \in Repos : unchanged'[q] # None =>
          q \notin main'.todo \cup queue' /\ ~ AtWork(q)' /\ ~ Reported(q)'
    BY <1>1, <1>2, <1>8, <1>9 DEF MirrorInv, MirrorPlace
  <2>6. QED BY <1>1, <1>2, <2>2, <2>3, <2>4, <2>5 DEF MirrorInv, MirrorPlace
<1>13. MirrorStored'
  BY <1>2, <1>10, MirrorLasts DEF MirrorStored, Calm
<1>14. MirrorTasks'
  <2>1. KeyOf[r] \in Mirror!Keys /\ history'[KeyOf[r]].n \in Nat
    BY <1>3, <1>10, MirrorParams DEF ServerInv, ServerTypeOK
  <2>2. Downloaded(t)' /\ Posted(t)'
    BY <1>5, <2>1 DEF Downloaded, Posted
  <2>3. \A v \in Workers \ {w} : worker'[v] # None => Downloaded(worker[v])' /\ Posted(worker[v])'
    <3>1. /\ \A q \in Repos : q \in since \/ Calm(q)
          /\ since \subseteq since'
          /\ \A v \in Workers \ {w} : worker'[v] \in {worker[v], None}
      BY <1>2, <1>6 DEF Calm
    <3>2. QED BY <1>10, <3>1, MirrorTasksLast
  <2>4. QED BY <1>6, <2>2, <2>3 DEF MirrorTasks, Downloaded, Posted
<1>15. QED BY <1>11, <1>12, <1>13, <1>14 DEF MirrorInv

\* A worker goes on with its repository: the server has what it had, or the upload too.
LEMMA MirrorGoesOnServed ==
  ASSUME Mirror!RepodataAssumption, MirrorInv, NEW w \in Workers, NEW t \in Mirror!Tasks,
         MirrorGoesOn(w, t)
  PROVE  ServerInv(Mirror!Keys, Mirror!Scans)' /\ Lasting(Mirror!Keys)
<1>1. CASE UNCHANGED serverVars
  BY <1>1, MirrorServed DEF Served
<1>2. CASE /\ Receive(KeyOf[t.repo], [repo |-> t.repo, primary |-> t.primary])
           /\ t.primary = worker[w].primary /\ worker[w].at = "upload"
  <2>1. Downloaded(worker[w]) /\ t.repo \in Repos
    BY MirrorTask DEF MirrorInv, MirrorTasks, MirrorGoesOn
  <2>2. t.primary \in Mirror!States
    BY <1>2, <2>1, MirrorTask DEF Downloaded
  <2>3. [repo |-> t.repo, primary |-> t.primary] \in Mirror!Scans /\ KeyOf[t.repo] \in Mirror!Keys
    BY <2>1, <2>2, MirrorParams DEF Mirror!Scans
  <2>4. QED BY <1>2, <2>3, MirrorServed DEF Served
<1>3. QED BY <1>1, <1>2 DEF MirrorGoesOn

\* What another worker holds is of another repository, and stays what it is.
LEMMA MirrorOthersLast ==
  ASSUME Mirror!RepodataAssumption, MirrorInv, ServerInv(Mirror!Keys, Mirror!Scans)',
         Lasting(Mirror!Keys), NEW w \in Workers, worker[w] # None,
         \A v \in Workers \ {w} : worker'[v] = worker[v],
         UNCHANGED mirror, \A q : q # worker[w].repo => (q \in since' <=> q \in since),
         worker'[w] # None => Downloaded(worker[w])' /\ Posted(worker[w])'
  PROVE  MirrorTasks'
<1>1. ASSUME NEW v \in Workers \ {w}, worker'[v] # None
      PROVE  Downloaded(worker[v])' /\ Posted(worker[v])'
  <2>1. PICK t \in Mirror!Tasks : t = worker[v] /\ worker'[v] = t /\ t.repo \in Repos
    BY <1>1, MirrorValues
  <2>2. Downloaded(t) /\ Posted(t)
    BY <1>1, <2>1 DEF MirrorInv, MirrorTasks
  <2>3. t.repo # worker[w].repo
    <3>1. worker[v] # None
      BY <1>1
    <3>2. Holds(v, t.repo) /\ (t.repo = worker[w].repo => Holds(w, t.repo))
      BY <2>1, <3>1 DEF Holds
    <3>3. QED BY <1>1, <2>1, <3>2 DEF MirrorInv, MirrorPlace
  <2>4. Calm(t.repo)
    BY <2>3 DEF Calm
  <2>5. Downloaded(t)' /\ Posted(t)'
    BY <2>2, <2>4, MirrorTaskLasts
  <2>6. QED BY <2>1, <2>5 DEF Downloaded, Posted
<1>2. QED BY <1>1 DEF MirrorTasks

LEMMA MirrorGoesOnKeeps ==
  ASSUME Mirror!RepodataAssumption, MirrorInv, NEW w \in Workers, NEW t \in Mirror!Tasks,
         MirrorGoesOn(w, t)
  PROVE  MirrorInv'
<1>0. PICK r, k : r = t.repo /\ k = KeyOf[r]
  OBVIOUS
<1> DEFINE u == worker[w]
<1>1. /\ u # None /\ u \in Mirror!Tasks /\ t # None
      /\ r = u.repo /\ r \in Repos /\ k \in Mirror!Keys /\ mirror[r] \in Mirror!States
      /\ mirror[r] # None /\ worker \in [Workers -> Mirror!Tasks \cup {None}]
  BY <1>0, MirrorTask, MirrorParams DEF MirrorGoesOn, MirrorInv, MirrorType
<1>2. /\ worker' \in [Workers -> Mirror!Tasks \cup {None}] /\ worker'[w] = t
      /\ \A v \in Workers \ {w} : worker'[v] = worker[v]
  BY <1>1 DEF MirrorGoesOn
<1>3. /\ UNCHANGED <<mirror, reachable, file, progress, main, queue, finished, unchanged, still>>
      /\ \A q : q # r => (q \in since' <=> q \in since)
  BY <1>0 DEF MirrorGoesOn
<1>4. \A v \in Workers : \A q : Holds(v, q)' <=> Holds(v, q)
  BY <1>0, <1>1, <1>2 DEF Holds
<1>5. \A q : (AtWork(q)' <=> AtWork(q)) /\ (Reported(q)' <=> Reported(q))
  BY <1>3, <1>4 DEF AtWork, Reported
<1>6. AtWork(r) /\ ~ Reported(r) /\ main.at = "scan"
  BY <1>1 DEF Holds, AtWork, MirrorInv, MirrorPlace
<1>7. ServerInv(Mirror!Keys, Mirror!Scans)' /\ Lasting(Mirror!Keys)
  BY MirrorGoesOnServed
<1>8. MirrorType'
  BY <1>2, <1>3, <1>7 DEF MirrorInv, MirrorType
<1>9. MirrorPlace'
  BY <1>3, <1>4, <1>5, <1>6 DEF MirrorInv, MirrorPlace
<1>10. MirrorStored'
  <2>1. \A f \in finished : Calm(f.repo)
    BY <1>3, <1>6 DEF Calm, Reported
  <2>2. QED BY <1>3, <1>7, <2>1, MirrorLasts DEF MirrorStored
<1>11. Downloaded(u) /\ Posted(u)
  BY <1>1 DEF MirrorInv, MirrorTasks
<1>12. Downloaded(t)'
  <2>1. CASE t.at \notin {"upload", "wait"}
    BY <2>1 DEF Downloaded
  <2>2. CASE t.primary = mirror[r]
    BY <1>0, <1>1, <1>3, <2>2 DEF Downloaded
  <2>3. CASE t.primary = u.primary /\ u.at \in {"upload", "wait"} /\ since' = since
    BY <1>0, <1>1, <1>3, <1>11, <2>3 DEF Downloaded
  <2>4. QED BY <1>0, <2>1, <2>2, <2>3 DEF MirrorGoesOn
<1>13. Posted(t)'
  <2>1. CASE UNCHANGED serverVars /\ t.n = u.n /\ t.at # "wait"
    BY <1>0, <1>1, <1>11, <2>1 DEF Posted, serverVars
  <2>2. CASE /\ Receive(k, [repo |-> r, primary |-> t.primary])
             /\ t.n = history[k].n + 1
    <3>1. PICK c : c = [repo |-> r, primary |-> t.primary]
      OBVIOUS
    <3>2. c.repo = t.repo /\ c.primary = t.primary
      BY <1>0, <3>1
    <3>3. /\ requests' = requests \cup
               {[key |-> k, n |-> history[k].n + 1, content |-> c, at |-> "received"]}
          /\ history' = [history EXCEPT ![k].n = @ + 1, ![k].sole = (InHand(k) = {})]
      BY <2>2, <3>1 DEF Receive
    <3>4. history'[k].n = t.n
      <4>1. PICK p : p = history[k]
        OBVIOUS
      <4>2. p \in [n : 0..MaxSends, sole : BOOLEAN, recorded : 0..MaxSends] /\ k \in DOMAIN history
        BY <1>1, <4>1, MirrorValues DEF ServerInv, ServerTypeOK
      <4>3. history'[k].n = p.n + 1
        BY <3>3, <4>1, <4>2
      <4>4. QED BY <2>2, <4>1, <4>3
    <3>5. \A q \in requests : q.key = k => q.n # t.n
      <4>1. \A q \in requests : q.n \in 1..MaxSends /\ q.n <= history[q.key].n
        BY MirrorValues, ServerNumbers DEF ServerInv
      <4>2. history[k].n \in Nat /\ t.n = history[k].n + 1 /\ MaxSends \in Nat
        BY <1>1, <2>2, MirrorValues
      <4>3. QED BY <4>1, <4>2
    <3>6. \A q \in requests' : q.key = k /\ q.n = t.n =>
            q.content.repo = t.repo /\ q.content.primary = t.primary
      BY <3>2, <3>3, <3>5
    <3>7. t.n <= history'[k].n
      <4>1. history[k].n \in Nat
        BY <1>1, MirrorValues
      <4>2. QED BY <2>2, <3>4, <4>1
    <3>8. QED BY <1>0, <3>6, <3>7 DEF Posted
  <2>3. \/ UNCHANGED serverVars /\ t.n = u.n /\ t.at # "wait"
        \/ Receive(k, [repo |-> r, primary |-> t.primary]) /\ t.n = history[k].n + 1
    <3>1. CASE t.at = "upload"
      BY <1>0, <3>1 DEF MirrorGoesOn
    <3>2. CASE t.at # "upload"
      BY <1>0, <3>2 DEF MirrorGoesOn
    <3>3. QED BY <3>1, <3>2
  <2>4. QED BY <2>1, <2>2, <2>3
<1>14. MirrorTasks'
  <2>1. Downloaded(worker[w])' /\ Posted(worker[w])'
    BY <1>2, <1>12, <1>13 DEF Downloaded, Posted
  <2>2. QED BY <1>1, <1>2, <1>3, <1>7, <2>1, MirrorOthersLast
<1>15. QED BY <1>8, <1>9, <1>10, <1>14 DEF MirrorInv

\* A worker reports how its repository ended; a completed one is stored.
LEMMA MirrorEndsKeeps ==
  ASSUME Mirror!RepodataAssumption, MirrorInv, NEW w \in Workers,
         NEW status \in Mirror!Lists, MirrorEnds(w, status)
  PROVE  MirrorInv'
<1>0. PICK t, r, k : t = worker[w] /\ r = t.repo /\ k = KeyOf[r]
  OBVIOUS
<1> DEFINE f == [repo |-> r, status |-> status, n |-> t.n]
<1>1. /\ t # None /\ t \in Mirror!Tasks /\ r \in Repos /\ k \in Mirror!Keys
      /\ t.n \in 0..MaxSends /\ worker \in [Workers -> Mirror!Tasks \cup {None}]
  BY <1>0, MirrorValues DEF MirrorEnds, MirrorInv, MirrorType
<1>2. /\ worker' \in [Workers -> Mirror!Tasks \cup {None}] /\ worker'[w] = None
      /\ \A v \in Workers \ {w} : worker'[v] = worker[v]
  BY <1>1 DEF MirrorEnds
<1>3. /\ finished' = finished \cup {f}
      /\ UNCHANGED <<mirror, reachable, file, progress, main, queue, unchanged, since, still>>
  BY <1>0 DEF MirrorEnds
<1>4. f \in MirrorResult /\ f.repo = r /\ f.status = status /\ f.n = t.n
  BY <1>1 DEF MirrorResult
<1> HIDE DEF f
<1>5. Holds(w, r) /\ AtWork(r) /\ ~ Reported(r) /\ main.at = "scan"
  BY <1>0, <1>1 DEF Holds, AtWork, MirrorInv, MirrorPlace
<1>6. r \notin queue /\ unchanged[r] = None
  BY <1>1, <1>5 DEF MirrorInv, MirrorPlace
<1>7. \A v \in Workers : \A q : Holds(v, q)' <=> Holds(v, q) /\ v # w
  BY <1>2 DEF Holds
<1>8. \A q \in Repos : AtWork(q)' <=> AtWork(q) /\ q # r
  <2>1. \A v \in Workers : Holds(v, r) => v = w
    BY <1>1, <1>5 DEF MirrorInv, MirrorPlace
  <2>2. \A q : Holds(w, q) => q = r
    BY <1>0 DEF Holds
  <2>3. QED BY <1>7, <2>1, <2>2 DEF AtWork
<1>9. \A q : Reported(q)' <=> Reported(q) \/ q = r
  BY <1>3, <1>4 DEF Reported
<1>10. ServerInv(Mirror!Keys, Mirror!Scans)' /\ Lasting(Mirror!Keys)
  <2>1. CASE UNCHANGED serverVars
    BY <2>1, MirrorServed DEF Served
  <2>2. ASSUME NEW q \in requests, Insert(q), UNCHANGED history
        PROVE  ServerInv(Mirror!Keys, Mirror!Scans)' /\ Lasting(Mirror!Keys)
    BY <2>2, MirrorServed DEF Served, Serve
  <2>3. QED BY <2>1, <2>2 DEF MirrorEnds
<1>11. MirrorType'
  BY <1>2, <1>3, <1>4, <1>10 DEF MirrorInv, MirrorType
<1>12. MirrorPlace'
  <2>1. queue \subseteq Repos
    BY DEF MirrorInv, MirrorType
  <2>2. \A q \in queue' : ~ AtWork(q)' /\ ~ Reported(q)'
    BY <1>3, <1>6, <1>8, <1>9, <2>1 DEF MirrorInv, MirrorPlace
  <2>3. \A v, u \in Workers : \A q \in Repos : Holds(v, q)' /\ Holds(u, q)' => v = u
    BY <1>7 DEF MirrorInv, MirrorPlace
  <2>4. \A q \in Repos : AtWork(q)' => ~ Reported(q)'
    BY <1>8, <1>9 DEF MirrorInv, MirrorPlace
  <2>5. \A q \in Repos : unchanged'[q] # None =>
          q \notin main'.todo \cup queue' /\ ~ AtWork(q)' /\ ~ Reported(q)'
    BY <1>3, <1>6, <1>8, <1>9 DEF MirrorInv, MirrorPlace
  <2>6. QED BY <1>3, <1>5, <2>2, <2>3, <2>4, <2>5 DEF MirrorInv, MirrorPlace
<1>13. status = "completed" => Answered(f)'
  <2>1. SUFFICES ASSUME status = "completed" PROVE Answered(f)'
    OBVIOUS
  <2>2. PICK q \in requests : Mirror!Awaits(w, q) /\ Insert(q) /\ UNCHANGED history
    BY <2>1 DEF MirrorEnds
  <2>3. t.at = "wait" /\ q.key = k /\ q.n = t.n
    BY <1>0, <2>2 DEF Mirror!Awaits, Mirror!At
  <2>4. Downloaded(t) /\ Posted(t)
    BY <1>0, <1>1 DEF MirrorInv, MirrorTasks
  <2>5. /\ q.content.repo = r /\ q.content.primary = t.primary
        /\ r \notin since => t.primary = mirror[r]
    BY <1>0, <2>3, <2>4 DEF Posted, Downloaded
  <2>6. t.n <= history'[k].n
    BY <1>0, <2>2, <2>4 DEF Posted
  <2>7. t.n >= 1
    <3>1. q.n \in 1..MaxSends /\ MaxSends \in Nat
      BY MirrorValues, ServerNumbers
    <3>2. QED BY <2>3, <3>1
  <2>8. PICK s : s = [n |-> q.n, content |-> q.content]
    OBVIOUS
  <2>9. Safe(q.key, q.n, s)'
    BY <2>2, <2>8, MirrorValues, InsertIsSafe
  <2>10. /\ Safe(k, t.n, s)' /\ s.content.repo = r
         /\ r \notin since => s.content.primary = mirror[r]
    BY <2>3, <2>5, <2>8, <2>9
  <2>11. s \in server'[k]
    BY <2>10 DEF Safe
  <2>12. QED BY <1>0, <1>3, <1>4, <2>6, <2>7, <2>10, <2>11 DEF Answered
<1>14. MirrorStored'
  <2>1. \A g \in finished : Calm(g.repo)
    BY <1>3 DEF Calm
  <2>2. /\ \A j \in Mirror!Keys : Recorded(j)'
        /\ \A g \in finished : g.status = "completed" => Answered(g)'
        /\ \A q \in Repos : LeftOut(q)'
    BY <1>3, <1>10, <2>1, MirrorLasts
  <2>3. QED BY <1>3, <1>4, <1>13, <2>2 DEF MirrorStored
<1>15. MirrorTasks'
  BY <1>0, <1>1, <1>2, <1>3, <1>10, MirrorOthersLast
<1>16. QED BY <1>11, <1>12, <1>14, <1>15 DEF MirrorInv

LEMMA AlwaysMirror ==
  ASSUME Mirror!RepodataAssumption
  PROVE  Mirror!Spec => []MirrorInv
<1>1. Mirror!Init => MirrorInv
  <2>1. ASSUME Mirror!Init
        PROVE  MirrorInv
    <3>1. /\ Mirror!Fresh \in MirrorFile
          /\ \A k \in Mirror!Keys : Mirror!Fresh.list[k] # "completed"
      BY MirrorParams DEF Mirror!Fresh, MirrorFile
    <3>2. Mirror!Idle \in MirrorMain /\ Mirror!Idle.at = "idle" /\ Mirror!Idle.todo = {}
      BY DEF Mirror!Idle, MirrorMain
    <3>3. 0 \in Mirror!States /\ MaxSends \in Nat
      BY MirrorParams DEF Mirror!States
    <3>4. ServerInv(Mirror!Keys, Mirror!Scans)
      BY <2>1, <3>3 DEF Mirror!Init, Mirror!ServerInit, ServerInv, ServerTypeOK
    <3>5. MirrorType
      BY <2>1, <3>1, <3>2, <3>3, <3>4 DEF Mirror!Init, Mirror!Nowhere, MirrorType
    <3>6. MirrorPlace
      BY <2>1, <3>2 DEF Mirror!Init, Mirror!Nowhere, MirrorPlace, Holds, AtWork, Reported
    <3>7. /\ \A r \in Repos : unchanged[r] = None
          /\ finished = {} /\ file = Mirror!Fresh
          /\ \A w \in Workers : worker[w] = None
      BY <2>1 DEF Mirror!Init, Mirror!Nowhere
    <3>8. MirrorStored /\ MirrorTasks
      BY <3>1, <3>7 DEF MirrorStored, MirrorTasks, Recorded, LeftOut
    <3>9. QED BY <3>5, <3>6, <3>8 DEF MirrorInv
  <2>2. QED BY <2>1
<1>2. MirrorInv /\ [Mirror!Next]_(Mirror!vars) => MirrorInv'
  <2>1. ASSUME MirrorInv, [Mirror!Next]_(Mirror!vars)
        PROVE  MirrorInv'
    <3>1. CASE Mirror!ServerStep \/ UNCHANGED Mirror!vars
      BY <2>1, <3>1, MirrorServerKeeps
    <3>2. ASSUME NEW w \in Workers, Mirror!Work(w)
          PROVE  MirrorInv'
      <4>1. CASE Mirror!Take(w)
        BY <2>1, <4>1, MirrorTakeKeeps
      <4>2. ASSUME NEW t \in Mirror!Tasks, MirrorGoesOn(w, t) PROVE MirrorInv'
        BY <2>1, <4>2, MirrorGoesOnKeeps
      <4>3. ASSUME NEW status \in Mirror!Lists, MirrorEnds(w, status) PROVE MirrorInv'
        BY <2>1, <4>3, MirrorEndsKeeps
      <4>4. QED BY <2>1, <3>2, <4>1, <4>2, <4>3, MirrorMoves
    <3>3. QED BY <2>1, <3>1, <3>2, MirrorStartKeeps, MirrorFoundKeeps, MirrorEnqueueKeeps,
                 MirrorRecordKeeps, MirrorEndKeeps, MirrorPublishKeeps
                 DEF Mirror!Next, Mirror!Quiet
  <2>2. QED BY <2>1
<1>3. QED BY <1>1, <1>2, PTL DEF Mirror!Spec

\* Every variable of the repository scanner keeps its type, and the progress file is
\* what the running process has recorded.
THEOREM RepodataTypeCorrect ==
  ASSUME Mirror!RepodataAssumption
  PROVE  Mirror!Spec => []Mirror!TypeOK
<1>1. ASSUME MirrorInv
      PROVE  Mirror!TypeOK
  <2>1. \A w \in Workers : worker[w] = None \/ worker[w] \in Mirror!Tasks
    BY <1>1 DEF MirrorInv, MirrorType
  <2>2. Mirror!ServerTypeOK(Mirror!Keys, Mirror!Scans)
    BY <1>1 DEF MirrorInv, MirrorType, ServerInv, ServerTypeOK, Mirror!ServerTypeOK
  <2>3. QED BY <1>1, <2>1, <2>2 DEF MirrorInv, MirrorType, MirrorPlace, MirrorMain, MirrorFile,
               MirrorResult, Mirror!TypeOK
<1>2. QED BY <1>1, AlwaysMirror, PTL

\* A product the progress file calls completed has the scan of the upload that was
\* recorded, whatever was killed, and whether repositories share it or not, unless
\* another upload of it was in hand beside that one or sent after it: that one may have
\* deleted the scan and failed.
THEOREM CompletedReposAreStored ==
  ASSUME Mirror!RepodataAssumption
  PROVE  Mirror!Spec => []Mirror!CompletedIsStored
<1>1. MirrorInv => Mirror!CompletedIsStored
  <2>1. ASSUME MirrorInv, NEW k \in Mirror!Keys, file.list[k] = "completed", Undisturbed(k)
        PROVE  KeptScans(k) # {}
    BY <2>1 DEF MirrorInv, MirrorStored, Recorded, KeptScans, Safe
  <2>2. QED BY <2>1, MirrorServer DEF Mirror!CompletedIsStored
<1>2. QED BY <1>1, AlwaysMirror, PTL

\* What a run leaves out as unchanged is stored as the mirror has it, under the same
\* condition, if the product was last scanned from this repository and that was not
\* published between the download and record_timestamp, which asks for the
\* Last-Modified afterwards.
THEOREM UnchangedAreStored ==
  ASSUME Mirror!RepodataAssumption
  PROVE  Mirror!Spec => []Mirror!UnchangedIfStill
<1>1. MirrorInv => Mirror!UnchangedIfStill
  <2>1. ASSUME MirrorInv, NEW r \in Repos, unchanged[r] # None, still[KeyOf[r]],
               Undisturbed(KeyOf[r])
        PROVE  \E s \in KeptScans(KeyOf[r]) :
                 s.content.repo = r => s.content.primary = unchanged[r]
    <3>1. PICK s \in server[KeyOf[r]] :
            /\ Safe(KeyOf[r], history[KeyOf[r]].recorded, s)
            /\ s.content.repo = r => s.content.primary = unchanged[r]
      BY <2>1 DEF MirrorInv, MirrorStored, LeftOut
    <3>2. s \in KeptScans(KeyOf[r])
      BY <3>1 DEF KeptScans, Safe
    <3>3. QED BY <3>1, <3>2
  <2>2. QED BY <2>1, MirrorServer DEF Mirror!UnchangedIfStill
<1>2. QED BY <1>1, AlwaysMirror, PTL
----------------------------------------------------------------------------
(* The synchronisation of relationships with a file (RelationshipSync).    *)

CONSTANTS Pairs, PageSize, MaxEdits, MaxSyncs
VARIABLES rows, missing, sync, edits, syncs

Sync == INSTANCE RelationshipSync

SyncState == [at : {"idle", "create", "list", "prune", "done", "error"}, csv : SUBSET Pairs,
              todo : SUBSET Pairs, stale : SUBSET Pairs, prune : BOOLEAN]

\* Inductive: nothing stale is in the file, and while nobody else edits, the pairs of
\* the file that are not to do any more are related or lack a product.
SyncInv ==
  /\ rows \subseteq Pairs /\ missing \subseteq Pairs /\ rows \cap missing = {}
  /\ sync \in SyncState /\ sync.todo \subseteq sync.csv /\ edits \in Nat
  /\ sync.stale \cap sync.csv = {}
  /\ sync.at \in {"list", "prune", "done"} => sync.todo = {}
  /\ sync.at \in {"create", "list", "prune", "done"} /\ edits = 0 =>
       sync.csv \ (sync.todo \cup missing) \subseteq rows

\* What the script makes of its state.
SyncFields(n, at, csv, todo, stale) ==
  n \in SyncState /\ n.at = at /\ n.csv = csv /\ n.todo = todo /\ n.stale = stale

LEMMA SyncTodo ==
  ASSUME NEW s \in SyncState, NEW todo \in SUBSET Pairs
  PROVE  SyncFields([s EXCEPT !.todo = todo],
                    s.at, s.csv, todo, s.stale)
BY DEF SyncState, SyncFields

LEMMA SyncAt ==
  ASSUME NEW s \in SyncState, NEW at \in {"list", "prune", "done", "error"}
  PROVE  SyncFields([s EXCEPT !.at = at],
                    at, s.csv, s.todo, s.stale)
BY DEF SyncState, SyncFields

LEMMA SyncStale ==
  ASSUME NEW s \in SyncState, NEW stale \in SUBSET Pairs
  PROVE  SyncFields([s EXCEPT !.stale = stale],
                    s.at, s.csv, s.todo, stale)
BY DEF SyncState, SyncFields

LEMMA SyncListed ==
  ASSUME NEW s \in SyncState, NEW stale \in SUBSET Pairs
  PROVE  SyncFields([s EXCEPT !.at = "prune", !.stale = stale],
                    "prune", s.csv, s.todo, stale)
BY DEF SyncState, SyncFields

LEMMA SyncNext ==
  ASSUME SyncInv, [Sync!Next]_(Sync!vars)
  PROVE  SyncInv'
<1>0. /\ sync \in SyncState /\ sync.todo \in SUBSET Pairs /\ sync.stale \in SUBSET Pairs
      /\ sync.csv \in SUBSET Pairs
  BY DEF SyncInv, SyncState
<1>1. CASE UNCHANGED Sync!vars
  BY <1>1 DEF Sync!vars, SyncInv
<1>2. CASE Sync!Start
  <2>1. PICK csv \in SUBSET Pairs, prune \in BOOLEAN :
          sync' = [Sync!Idle EXCEPT !.at = "create", !.csv = csv, !.todo = csv, !.prune = prune]
    BY <1>2 DEF Sync!Start
  <2>2. /\ sync' \in SyncState /\ sync'.at = "create" /\ sync'.csv = csv /\ sync'.todo = csv
        /\ sync'.stale = {}
    BY <2>1 DEF Sync!Idle, SyncState
  <2>3. UNCHANGED <<rows, missing, edits>>
    BY <1>2 DEF Sync!Start
  <2>4. QED BY <2>2, <2>3 DEF SyncInv
<1>3. CASE Sync!Create
  <2>1. PICK p \in sync.todo :
          /\ rows' = IF p \in missing THEN rows ELSE rows \cup {p}
          /\ sync' = [sync EXCEPT !.todo = sync.todo \ {p}]
    BY <1>3 DEF Sync!Create, SyncInv, SyncState
  <2>2. UNCHANGED <<missing, edits>> /\ sync.at = "create"
    BY <1>3 DEF Sync!Create
  <2>3. /\ sync' \in SyncState /\ sync'.todo = sync.todo \ {p} /\ sync'.csv = sync.csv
        /\ sync'.at = sync.at /\ sync'.stale = sync.stale
    <3>1. sync.todo \ {p} \in SUBSET Pairs
      BY <1>0
    <3>2. SyncFields([sync EXCEPT !.todo = sync.todo \ {p}],
                     sync.at, sync.csv, sync.todo \ {p}, sync.stale)
      BY <1>0, <3>1, SyncTodo
    <3>3. QED BY <2>1, <3>2 DEF SyncFields
  <2>4. p \in Pairs
    BY <1>0
  <2>5. QED BY <2>1, <2>2, <2>3, <2>4 DEF SyncInv
<1>4. CASE Sync!Created \/ Sync!Pruned \/ Sync!Fail
  <2>1. PICK at \in {"list", "done", "error"} : sync' = [sync EXCEPT !.at = at]
    BY <1>4 DEF Sync!Created, Sync!Pruned, Sync!Fail
  <2>2. SyncFields([sync EXCEPT !.at = at], at, sync.csv, sync.todo, sync.stale)
    BY <1>0, SyncAt
  <2>3. /\ sync' \in SyncState /\ sync'.todo = sync.todo /\ sync'.csv = sync.csv
        /\ sync'.at = at /\ sync'.stale = sync.stale
    BY <2>1, <2>2 DEF SyncFields
  <2>4. /\ UNCHANGED <<rows, missing, edits>>
        /\ \/ sync.at = "create" /\ sync.todo = {}
           \/ sync.at = "prune"
           \/ at = "error"
    <3>1. CASE Sync!Fail
      <4>1. SyncFields([sync EXCEPT !.at = "error"], "error", sync.csv, sync.todo, sync.stale)
        BY <1>0, SyncAt
      <4>2. QED BY <2>3, <3>1, <4>1 DEF Sync!Fail, SyncFields
    <3>2. QED BY <1>4, <3>1 DEF Sync!Created, Sync!Pruned
  <2>5. QED BY <2>3, <2>4 DEF SyncInv
<1>5. CASE Sync!List
  <2>1. PICK page \in SUBSET rows :
          sync' = [sync EXCEPT !.at = "prune", !.stale = page \ sync.csv]
    BY <1>5 DEF Sync!List
  <2>2. UNCHANGED <<rows, missing, edits>> /\ sync.at = "list" /\ page \ sync.csv \in SUBSET Pairs
    BY <1>5 DEF Sync!List, SyncInv
  <2>3. /\ sync' \in SyncState /\ sync'.todo = sync.todo /\ sync'.csv = sync.csv
        /\ sync'.at = "prune" /\ sync'.stale = page \ sync.csv
    <3>1. SyncFields([sync EXCEPT !.at = "prune", !.stale = page \ sync.csv],
                     "prune", sync.csv, sync.todo, page \ sync.csv)
      BY <1>0, <2>2, SyncListed
    <3>2. QED BY <2>1, <3>1 DEF SyncFields
  <2>4. QED BY <2>2, <2>3 DEF SyncInv
<1>6. CASE Sync!Delete
  <2>1. PICK p \in sync.stale :
          /\ rows' = rows \ {p}
          /\ \/ sync' = [sync EXCEPT !.at = "error"]
             \/ sync' = [sync EXCEPT !.stale = sync.stale \ {p}]
    BY <1>6 DEF Sync!Delete, SyncInv, SyncState
  <2>2. UNCHANGED <<missing, edits>> /\ sync.at = "prune" /\ sync.stale \ {p} \in SUBSET Pairs
    BY <1>6 DEF Sync!Delete, SyncInv, SyncState
  <2>3. /\ sync' \in SyncState /\ sync'.todo = sync.todo /\ sync'.csv = sync.csv
        /\ sync'.at \in {sync.at, "error"} /\ sync'.stale \subseteq sync.stale
    <3>1. SyncFields([sync EXCEPT !.at = "error"], "error", sync.csv, sync.todo, sync.stale)
      BY <1>0, SyncAt
    <3>2. SyncFields([sync EXCEPT !.stale = sync.stale \ {p}],
                     sync.at, sync.csv, sync.todo, sync.stale \ {p})
      BY <1>0, <2>2, SyncStale
    <3>3. QED BY <2>1, <3>1, <3>2 DEF SyncFields
  <2>4. p \notin sync.csv
    BY DEF SyncInv
  <2>5. QED BY <2>1, <2>2, <2>3, <2>4 DEF SyncInv
<1>7. CASE Sync!Edit
  <2>1. /\ rows' \subseteq Pairs /\ missing' \subseteq Pairs /\ rows' \cap missing' = {}
        /\ sync' = sync
    BY <1>7 DEF Sync!Edit, SyncInv
  <2>2. edits' \in Nat /\ edits' # 0
    BY <1>7 DEF Sync!Edit, SyncInv
  <2>3. QED BY <2>1, <2>2 DEF SyncInv
<1>8. QED BY <1>1, <1>2, <1>3, <1>4, <1>5, <1>6, <1>7 DEF Sync!Next, Sync!Script, Sync!Quiet

LEMMA AlwaysSync == Sync!Spec => []SyncInv
<1>1. Sync!Init => SyncInv
  <2>1. /\ Sync!Idle \in SyncState /\ Sync!Idle.at = "idle" /\ Sync!Idle.todo = {}
        /\ Sync!Idle.stale = {}
    BY DEF Sync!Idle, SyncState
  <2>2. QED BY <2>1 DEF Sync!Init, SyncInv
<1>2. SyncInv /\ [Sync!Next]_(Sync!vars) => SyncInv'
  BY SyncNext
<1>3. QED BY <1>1, <1>2, PTL DEF Sync!Spec

\* The state of a synchronisation keeps its type, and no pair is related while one of
\* its products does not exist.
THEOREM SyncTypeCorrect == Sync!Spec => []Sync!TypeOK
<1>1. SyncInv => Sync!TypeOK
  BY DEF SyncInv, SyncState, Sync!TypeOK
<1>2. QED BY <1>1, AlwaysSync, PTL

\* A synchronisation that nobody disturbs ends with a relationship for every pair of its
\* file whose products exist, pruning included.
THEOREM SyncsAlone == Sync!Spec => []Sync!SyncedIfAlone
<1>1. SyncInv => Sync!SyncedIfAlone
  BY DEF SyncInv, Sync!SyncedIfAlone
<1>2. QED BY <1>1, AlwaysSync, PTL

\* A prune deletes no relationship its file names, whoever edits meanwhile: what it
\* deletes it listed and did not find in the file (cmd_sync).
THEOREM PruneKeepsTheFile == Sync!Spec => [][Sync!KeepsTheFile]_(Sync!vars)
<1>1. ASSUME SyncInv, [Sync!Next]_(Sync!vars), NEW p \in Pairs,
             sync.at = "prune", UNCHANGED edits, p \in rows, p \notin rows'
      PROVE  p \notin sync.csv
  <2>1. Sync!Delete
    <3>1. ~ Sync!Edit
      BY <1>1 DEF Sync!Edit, SyncInv
    <3>2. QED BY <1>1, <3>1 DEF Sync!Next, Sync!Script, Sync!Start, Sync!Create, Sync!Created,
                 Sync!List, Sync!Pruned, Sync!Fail, Sync!Quiet, Sync!vars, Sync!Running
  <2>2. p \in sync.stale
    BY <1>1, <2>1 DEF Sync!Delete
  <2>3. QED BY <1>1, <2>2 DEF SyncInv
<1>2. SyncInv /\ [Sync!Next]_(Sync!vars) => [Sync!KeepsTheFile]_(Sync!vars)
  BY <1>1 DEF Sync!KeepsTheFile
<1>3. QED BY <1>2, AlwaysSync, PTL DEF Sync!Spec

----------------------------------------------------------------------------
(* Manifests of the SBOMer service: SbomerScanner.                         *)

CONSTANTS Products, OciKeys, Initial, MaxManifests
VARIABLES listing, run

Sboms == INSTANCE SbomerScanner WITH Keys <- Products

Manifest == [id : Nat, key : Products]
SbomRun == [at : {"idle", "discover", "queue", "ingest", "aborted"}, full : BOOLEAN,
            page : Nat, seen : Seq(Manifest), todo : Seq(Manifest), whole : BOOLEAN,
            start : [Products -> Nat]]

SbomTypes ==
  /\ listing \in Seq(Manifest)
  /\ \A n \in 1 .. Len(listing) : listing[n].id = Len(listing) + 1 - n
  /\ ServerInv(Products, Nat) /\ call \in [sends : Nat, n : Nat]
  /\ file \in [list : [Products -> Lists \cup {None}], id : [Products -> Nat \cup {None}]]
  /\ progress = file
  /\ run \in SbomRun

\* Where the service lists the manifest of an id, and that it is of a product.
Position(id) == Len(listing) + 1 - id
Known(id, k) == id \in 1 .. Len(listing) /\ listing[Position(id)].key = k

\* All manifests the scanner remembers are the service's.
ManifestsKnown ==
  /\ \A k \in Products : run.start[k] # 0 => Known(run.start[k], k)
  /\ \A i \in 1 .. Len(run.seen) : Known(run.seen[i].id, run.seen[i].key)
  /\ \A i \in 1 .. Len(run.todo) : Known(run.todo[i].id, run.todo[i].key)

Seen(id) == \E i \in 1 .. Len(run.seen) : run.seen[i].id = id

\* The newest manifest there was at the start is seen when the pages have passed its
\* place, which only moves towards the end, and before all older ones of its product.
PagesPass ==
  /\ run.at = "discover" =>
       /\ run.whole /\ run.page * PageSize <= Len(listing)
       /\ \A k \in Products : run.start[k] # 0 /\ Position(run.start[k]) <= run.page * PageSize
            => Seen(run.start[k])
  /\ run.at = "queue" /\ run.whole =>
       \A k \in Products : run.start[k] # 0 => Seen(run.start[k])
  /\ run.at \in {"discover", "queue"} =>
       \A i \in 1 .. Len(run.seen) : run.seen[i].id < run.start[run.seen[i].key] =>
         \E j \in 1 .. i - 1 : run.seen[j].id = run.start[run.seen[i].key]

\* The upload that is waited for holds the manifest that is ingested.
Awaited ==
  call.n # 0 =>
    /\ run.at = "ingest" /\ run.todo # <<>>
    /\ call.n <= history[Head(run.todo).key].n
    /\ \A q \in requests : q.key = Head(run.todo).key /\ q.n = call.n =>
         q.content = Head(run.todo).id

\* What is recorded, if it stands, is stored.
ManifestStored ==
  \A k \in Products : file.list[k] = "completed" /\ Undisturbed(k) =>
    \E s \in server[k] : Safe(k, history[k].recorded, s) /\ s.content = file.id[k]

\* Inductive.
SbomInv == SbomTypes /\ ManifestsKnown /\ PagesPass /\ Awaited /\ ManifestStored

LEMMA SbomFacts ==
  ASSUME Sboms!SbomerAssumption
  PROVE  /\ PageSize \in Nat /\ PageSize # 0 /\ Initial \in Seq(Products)
         /\ None \notin Nat /\ None \notin Lists /\ MaxSends \in Nat
BY DEF Sboms!SbomerAssumption, Lists

\* Its server is the one above.
LEMMA SbomServer ==
  ASSUME NEW q, NEW k, NEW c, NEW n
  PROVE  /\ Sboms!Serve(q) <=> Serve(q)
         /\ Sboms!Insert(q) <=> Insert(q)
         /\ Sboms!Receive(k, c) <=> Receive(k, c)
         /\ Sboms!Remember(k, n) <=> Remember(k, n)
         /\ Sboms!Undisturbed(k) <=> Undisturbed(k)
         /\ Sboms!KeptScans(k) = KeptScans(k)
         /\ UNCHANGED Sboms!serverVars <=> UNCHANGED serverVars
BY DEF Sboms!Serve, Serve, Sboms!Insert, Insert, Sboms!Receive, Receive, Sboms!Remember,
   Remember, Sboms!Undisturbed, Undisturbed, Sboms!KeptScans, KeptScans, Sboms!DeleteOld,
   DeleteOld, Sboms!Fail, Fail, Sboms!InHand, InHand, Sboms!serverVars, serverVars

\* What it does of itself leaves what stands of the recorded uploads.
LEMMA SbomLasts ==
  ASSUME Sboms!SbomerAssumption, SbomInv, Served(Products, Nat),
         \A k \in Products : file'.list[k] = "completed" =>
           file.list[k] = "completed" /\ file'.id[k] = file.id[k]
  PROVE  ServerInv(Products, Nat)' /\ Lasting(Products) /\ ManifestStored'
<1>1. ServerInv(Products, Nat) /\ MaxSends \in Nat
  BY SbomFacts DEF SbomInv, SbomTypes
<1>2. ServerInv(Products, Nat)' /\ Lasting(Products)
  BY <1>1, ServerLasts
<1>3. ASSUME NEW k \in Products, file'.list[k] = "completed", Undisturbed(k)'
      PROVE  \E s \in server'[k] : Safe(k, history[k].recorded, s)' /\ s.content = file'.id[k]
  <2>1. /\ history[k].recorded \in Nat /\ history[k].recorded <= history[k].n
        /\ history'[k].recorded = history[k].recorded
    BY <1>1, <1>2, ServerNumbers DEF Lasting, ServerInv
  <2>2. PICK n \in Nat : n = history[k].recorded /\ n <= history[k].n /\ history'[k].recorded = n
    BY <2>1
  <2>3. Stands(k, n)'
    BY <1>3, <2>2 DEF Undisturbed, Stands
  <2>4. Stands(k, n) /\ \A s \in server[k] : Safe(k, n, s) => Safe(k, n, s)'
    BY <1>2, <2>2, <2>3 DEF Lasting
  <2>5. PICK s \in server[k] : Safe(k, n, s) /\ s.content = file.id[k]
    BY <1>3, <2>2, <2>4 DEF SbomInv, ManifestStored, Undisturbed, Stands
  <2>6. Safe(k, n, s)'
    BY <2>4, <2>5
  <2>7. QED BY <1>3, <2>2, <2>5, <2>6 DEF Safe
<1>4. QED BY <1>2, <1>3 DEF ManifestStored

\* An upload is answered and recorded in one step.
LEMMA AnswerIsKept ==
  ASSUME MaxSends \in Nat, NEW keys, NEW contents, ServerInv(keys, contents),
         NEW q \in requests, Insert(q), Remember(q.key, q.n)
  PROVE  /\ ServerInv(keys, contents)'
         /\ history'[q.key].recorded = q.n
         /\ Safe(q.key, q.n, [n |-> q.n, content |-> q.content])'
         /\ \A j \in keys \ {q.key} : history'[j] = history[j] /\ server'[j] = server[j]
         /\ requests' \subseteq requests
<1>1. PICK k, n, c : k = q.key /\ n = q.n /\ c = q.content
  OBVIOUS
<1> DEFINE Scan == [n : 1..MaxSends, content : contents]
           Past == [n : 0..MaxSends, sole : BOOLEAN, recorded : 0..MaxSends]
           h == [history[k] EXCEPT !.recorded = n]
           s == [n |-> n, content |-> c]
<1>2. /\ k \in keys /\ n \in 1..MaxSends /\ c \in contents /\ n <= history[k].n
      /\ server \in [keys -> SUBSET Scan] /\ history \in [keys -> Past]
  BY <1>1, ServerNumbers DEF ServerInv, ServerTypeOK
<1>3. /\ requests' = requests \ {q} /\ server' = [server EXCEPT ![k] = @ \cup {s}]
      /\ history' = [history EXCEPT ![k] = h]
  BY <1>1, <1>2 DEF Insert, Remember
<1>4. history[k] \in Past
  BY <1>2
<1>5. h \in Past /\ h.n = history[k].n /\ h.sole = history[k].sole /\ h.recorded = n
  BY <1>2, <1>4
<1> HIDE DEF h
<1>6. /\ history' \in [keys -> Past] /\ history'[k] = h
      /\ \A j \in keys \ {k} : history'[j] = history[j]
  BY <1>2, <1>3, <1>5
<1>7. /\ server' \in [keys -> SUBSET Scan] /\ s \in server'[k]
      /\ \A j \in keys \ {k} : server'[j] = server[j]
  BY <1>2, <1>3
<1>8. \A j \in keys : history'[j].n = history[j].n /\ history'[j].sole = history[j].sole
  BY <1>5, <1>6
<1>9. ServerTypeOK(keys, contents)'
  BY <1>3, <1>6, <1>7 DEF ServerTypeOK, ServerInv
<1>10. \A p \in requests : p.key \in keys
  BY ServerNumbers
<1>11. \A j \in keys : history'[j].recorded <= history'[j].n
  BY <1>2, <1>5, <1>6 DEF ServerInv
<1>12. ServerInv(keys, contents)'
  BY <1>3, <1>8, <1>9, <1>10, <1>11 DEF ServerInv
<1>13. Safe(k, n, s)'
  BY <1>1, <1>3, <1>7 DEF Safe, ServerInv
<1>14. QED BY <1>1, <1>3, <1>5, <1>6, <1>7, <1>12, <1>13

LEMMA LeastNatural ==
  ASSUME NEW T \in SUBSET Nat, T # {}
  PROVE  \E x \in T : \A y \in T : x <= y
<1>1. PICK x \in T : \A y \in T : ~ (<<y, x>> \in OpToRel(<, Nat))
  <2>1. \E x \in T : \A y \in T : ~ (<<y, x>> \in OpToRel(<, Nat))
    BY WFMin, NatLessThanWellFounded
  <2>2. QED BY <2>1
<1>2. ASSUME NEW y \in T PROVE ~ (y < x)
  BY <1>1 DEF OpToRel
<1>3. QED BY <1>2

LEMMA SbomCount ==
  /\ \A S : Sboms!Cardinality(S) = Cardinality(S)
  /\ \A s : Sboms!ToSet(s) = {s[i] : i \in DOMAIN s}
<1>1. ASSUME NEW S PROVE Sboms!Cardinality(S) = Cardinality(S)
  BY DEF Sboms!Cardinality, Cardinality
<1>2. ASSUME NEW s PROVE Sboms!ToSet(s) = {s[i] : i \in DOMAIN s}
  BY DEF Sboms!ToSet
<1>3. QED BY <1>1, <1>2

\* The newest manifest of a product is the service's, and none it has is newer.
LEMMA NewestKnown ==
  ASSUME SbomTypes, NEW k \in Products
  PROVE  /\ Sboms!Newest(k) \in Nat
         /\ Sboms!Newest(k) # 0 => Known(Sboms!Newest(k), k)
         /\ \A id : Known(id, k) => id <= Sboms!Newest(k)
<1> DEFINE ids == {m.id : m \in {x \in Sboms!ToSet(listing) : x.key = k}}
           n == Len(listing)
<1>1. n \in Nat /\ DOMAIN listing = 1 .. n
  BY DEF SbomTypes
<1>2. \A id : id \in ids <=> Known(id, k)
  <2>1. ASSUME NEW id \in ids PROVE Known(id, k)
    <3>1. PICK x \in 1 .. n : listing[x].key = k /\ listing[x].id = id
      BY <1>1, SbomCount
    <3>2. id = n + 1 - x
      BY <3>1 DEF SbomTypes
    <3>3. n + 1 - id = x /\ id \in 1 .. n
      BY <1>1, <3>2
    <3>4. QED BY <3>1, <3>3 DEF Known, Position
  <2>2. ASSUME NEW id, Known(id, k) PROVE id \in ids
    <3>1. /\ id \in 1 .. n /\ n + 1 - id \in 1 .. n /\ listing[n + 1 - id].key = k
          /\ n + 1 - (n + 1 - id) = id
      BY <1>1, <2>2 DEF Known, Position
    <3>2. listing[n + 1 - id].id = id
      BY <3>1 DEF SbomTypes
    <3>3. listing[n + 1 - id] \in Sboms!ToSet(listing)
      BY <1>1, <3>1, SbomCount
    <3>4. QED BY <3>1, <3>2, <3>3
  <2>3. QED BY <2>1, <2>2
<1>3. Sboms!Newest(k) = IF ids = {} THEN 0 ELSE CHOOSE m \in ids : \A i \in ids : i <= m
  BY DEF Sboms!Newest
<1>4. \A id \in ids : id \in 1 .. n
  BY <1>2 DEF Known
<1> HIDE DEF ids
<1>5. CASE ids = {}
  BY <1>2, <1>3, <1>5
<1>6. CASE ids # {}
  <2> DEFINE T == {n - i : i \in ids}
  <2>1. T \in SUBSET Nat /\ T # {}
    BY <1>1, <1>4, <1>6
  <2>2. PICK x \in T : \A y \in T : x <= y
    BY <2>1, LeastNatural
  <2>3. PICK m \in ids : x = n - m
    BY <2>2
  <2>4. ASSUME NEW i \in ids PROVE i <= m
    <3>1. n - m <= n - i
      BY <2>2, <2>3
    <3>2. m \in Nat /\ i \in Nat
      BY <1>4, <2>3
    <3> HIDE DEF T
    <3>3. QED BY <1>1, <3>1, <3>2
  <2>5. /\ Sboms!Newest(k) \in ids
        /\ \A i \in ids : i <= Sboms!Newest(k)
    BY <1>3, <1>6, <2>4
  <2>6. QED BY <1>2, <1>4, <2>5
<1>7. QED BY <1>5, <1>6

\* Finitely many numbers, counted by how many are no greater.
LEMMA CountedOnce ==
  ASSUME NEW K \in SUBSET Nat, IsFiniteSet(K)
  PROVE  /\ Cardinality(K) \in Nat
         /\ \A n \in K : Cardinality({j \in K : j <= n}) \in 1 .. Cardinality(K)
         /\ \A m, n \in K :
              Cardinality({j \in K : j <= m}) = Cardinality({j \in K : j <= n}) => m = n
         /\ \A i \in 1 .. Cardinality(K) : \E n \in K : Cardinality({j \in K : j <= n}) = i
<1> DEFINE upto(n) == {j \in K : j <= n}
           c == Cardinality(K)
           f == [n \in K |-> Cardinality(upto(n))]
<1>1. c \in Nat
  BY FS_CardinalityType
<1>2. ASSUME NEW n \in K
      PROVE  IsFiniteSet(upto(n)) /\ Cardinality(upto(n)) \in 1 .. c
  <2>1. IsFiniteSet(upto(n)) /\ Cardinality(upto(n)) <= c
    <3>1. upto(n) \in SUBSET K
      OBVIOUS
    <3> HIDE DEF upto, c
    <3>2. IsFiniteSet(upto(n)) /\ Cardinality(upto(n)) <= Cardinality(K)
      BY <3>1, FS_Subset
    <3>3. QED BY <3>2 DEF c
  <2>2. Cardinality(upto(n)) \in Nat
    BY <2>1, FS_CardinalityType
  <2>3. upto(n) # {}
    <3>1. n \in upto(n)
      OBVIOUS
    <3>2. QED BY <3>1
  <2> HIDE DEF upto, c
  <2>4. Cardinality(upto(n)) # 0
    BY <2>1, <2>3, FS_EmptySet
  <2>5. Cardinality(upto(n)) \in 1 .. c
    BY <1>1, <2>1, <2>2, <2>4
  <2>6. QED BY <2>1, <2>5
<1>3. ASSUME NEW m \in K, NEW n \in K, m < n PROVE Cardinality(upto(m)) < Cardinality(upto(n))
  <2>1. upto(m) \subseteq upto(n) \ {n} /\ n \in upto(n)
    <3>1. ASSUME NEW j \in upto(m) PROVE j \in upto(n) /\ j # n
      <4>1. j \in Nat /\ m \in Nat /\ n \in Nat /\ j <= m /\ j \in K
        OBVIOUS
      <4>2. j <= n /\ j # n
        BY <1>3, <4>1
      <4>3. QED BY <4>1, <4>2
    <3>2. n \in upto(n)
      OBVIOUS
    <3> HIDE DEF upto
    <3>3. QED BY <3>1, <3>2
  <2>2. /\ IsFiniteSet(upto(n)) /\ IsFiniteSet(upto(m))
        /\ Cardinality(upto(n)) \in Nat /\ Cardinality(upto(m)) \in Nat
    BY <1>2
  <2> HIDE DEF upto
  <2>3. /\ IsFiniteSet(upto(n) \ {n})
        /\ Cardinality(upto(n) \ {n}) = Cardinality(upto(n)) - 1
    BY <2>1, <2>2, FS_RemoveElement
  <2>4. Cardinality(upto(m)) <= Cardinality(upto(n) \ {n})
    BY <2>1, <2>3, FS_Subset
  <2>5. QED BY <2>2, <2>3, <2>4
<1>4. \A m, n \in K : Cardinality(upto(m)) = Cardinality(upto(n)) => m = n
  <2>1. ASSUME NEW m \in K, NEW n \in K, Cardinality(upto(m)) = Cardinality(upto(n)) PROVE m = n
    <3>1. Cardinality(upto(m)) \in Nat
      BY <1>2
    <3> HIDE DEF upto
    <3>2. ~ (m < n) /\ ~ (n < m)
      BY <1>3, <2>1, <3>1
    <3>3. QED BY <3>2
  <2>2. QED BY <2>1
<1>5. \A n \in K : Cardinality(upto(n)) \in 1 .. c
  BY <1>2
<1>6. f \in Injection(K, 1 .. c)
  <2> HIDE DEF upto, c
  <2>1. QED BY <1>4, <1>5 DEF Injection, IsInjective
<1>7. IsFiniteSet(1 .. c) /\ Cardinality(1 .. c) = c
  <2>1. Cardinality(1 .. c) = IF 1 > c THEN 0 ELSE c - 1 + 1
    BY <1>1, FS_Interval
  <2>2. IsFiniteSet(1 .. c)
    BY <1>1, FS_Interval
  <2>3. QED BY <1>1, <2>1, <2>2
<1>8. f \in Surjection(K, 1 .. c)
  <2> HIDE DEF f
  <2>1. QED BY <1>6, <1>7, FS_Injection
<1>9. \A i \in 1 .. c : \E n \in K : Cardinality(upto(n)) = i
  BY <1>8 DEF Surjection
<1>10. QED BY <1>1, <1>4, <1>5, <1>9

\* What is listed is what was seen at the positions kept, each once.
LEMMA InOrderLists ==
  ASSUME NEW seen \in Seq(Manifest), NEW kept \in SUBSET (1 .. Len(seen))
  PROVE  /\ Sboms!InOrder(seen, kept) \in Seq(Manifest)
         /\ \A i \in 1 .. Len(Sboms!InOrder(seen, kept)) : \E n \in kept :
              Sboms!InOrder(seen, kept)[i] = seen[n]
         /\ \A n \in kept : \E i \in 1 .. Len(Sboms!InOrder(seen, kept)) :
              Sboms!InOrder(seen, kept)[i] = seen[n]
         /\ \A i, j \in 1 .. Len(Sboms!InOrder(seen, kept)) : i # j => \E m, n \in kept :
              /\ m # n /\ Sboms!InOrder(seen, kept)[i] = seen[m]
              /\ Sboms!InOrder(seen, kept)[j] = seen[n]
<1> DEFINE todo == Sboms!InOrder(seen, kept)
           rank(n) == Cardinality({j \in kept : j <= n})
           at(i) == CHOOSE n \in kept : rank(n) = i
           c == Cardinality(kept)
<1>1. kept \in SUBSET Nat /\ IsFiniteSet(kept)
  <2>1. Len(seen) \in Nat
    OBVIOUS
  <2>2. IsFiniteSet(1 .. Len(seen))
    BY <2>1, FS_Interval
  <2>3. IsFiniteSet(kept)
    BY <2>2, FS_Subset
  <2>4. QED BY <2>1, <2>3
<1>2. /\ c \in Nat /\ \A n \in kept : rank(n) \in 1 .. c
      /\ \A m, n \in kept : rank(m) = rank(n) => m = n
      /\ \A i \in 1 .. c : \E n \in kept : rank(n) = i
  BY <1>1, CountedOnce
<1>3. todo = [i \in 1 .. c |-> seen[at(i)]]
  BY DEF Sboms!InOrder, Sboms!Cardinality, Cardinality
<1> HIDE DEF todo, rank, c
<1>4. \A i \in 1 .. c : at(i) \in kept /\ rank(at(i)) = i
  BY <1>2
<1>5. \A n \in kept : at(rank(n)) = n
  BY <1>2, <1>4
<1> HIDE DEF at
<1>6. \A i \in 1 .. c : todo[i] = seen[at(i)] /\ todo[i] \in Manifest
  <2>1. \A n \in kept : seen[n] \in Manifest
    OBVIOUS
  <2>2. QED BY <1>3, <1>4, <2>1
<1>7. todo \in Seq(Manifest) /\ Len(todo) = c
  BY <1>2, <1>3, <1>6
<1>8. \A i \in 1 .. Len(todo) : \E n \in kept : todo[i] = seen[n]
  BY <1>4, <1>6, <1>7
<1>9. \A n \in kept : \E i \in 1 .. Len(todo) : todo[i] = seen[n]
  <2>1. ASSUME NEW n \in kept PROVE \E i \in 1 .. Len(todo) : todo[i] = seen[n]
    <3>1. rank(n) \in 1 .. Len(todo) /\ todo[rank(n)] = seen[n]
      BY <1>2, <1>5, <1>6, <1>7
    <3>2. QED BY <3>1
  <2>2. QED BY <2>1
<1>10. ASSUME NEW i \in 1 .. Len(todo), NEW j \in 1 .. Len(todo), i # j
       PROVE  \E m, n \in kept : m # n /\ todo[i] = seen[m] /\ todo[j] = seen[n]
  <2>1. /\ at(i) \in kept /\ at(j) \in kept /\ todo[i] = seen[at(i)] /\ todo[j] = seen[at(j)]
        /\ at(i) # at(j)
    BY <1>4, <1>6, <1>7, <1>10
  <2>2. QED BY <2>1
<1>11. QED BY <1>7, <1>8, <1>9, <1>10 DEF todo

\* The first of its product is none that the discovery knows a newer one of.
LEMMA FirstIsNotOlder ==
  ASSUME SbomTypes, ManifestsKnown, PagesPass, run.at = "queue", NEW n \in Sboms!Deduplicate(run.seen)
  PROVE  /\ n \in 1 .. Len(run.seen) /\ run.seen[n].key \in Products /\ run.seen[n].id \in Nat
         /\ run.start[run.seen[n].key] <= run.seen[n].id
         /\ \A j \in 1 .. n - 1 : run.seen[j].key # run.seen[n].key
<1>1. run.seen \in Seq(Manifest) /\ run.start \in [Products -> Nat]
  BY DEF SbomTypes, SbomRun
<1>2. n \in 1 .. Len(run.seen) /\ \A j \in 1 .. n - 1 : run.seen[j].key # run.seen[n].key
  BY <1>1 DEF Sboms!Deduplicate
<1>3. run.seen[n].key \in Products /\ run.seen[n].id \in Nat
  <2>1. run.seen[n] \in Manifest
    BY <1>1, <1>2
  <2>2. QED BY <2>1 DEF Manifest
<1> DEFINE k == run.seen[n].key
<1>4. run.start[k] \in Nat
  BY <1>1, <1>3
<1>5. ASSUME run.seen[n].id < run.start[k] PROVE FALSE
  <2>1. PICK j \in 1 .. n - 1 : run.seen[j].id = run.start[k]
    BY <1>2, <1>5 DEF PagesPass
  <2>2. run.start[k] # 0 /\ j \in 1 .. Len(run.seen)
    BY <1>2, <1>3, <1>4, <1>5
  <2>3. Known(run.start[k], k) /\ Known(run.seen[j].id, run.seen[j].key)
    BY <1>3, <2>2 DEF ManifestsKnown
  <2>4. run.seen[j].key = k
    BY <2>1, <2>3 DEF Known
  <2>5. QED BY <1>2, <2>4
<1>6. QED BY <1>2, <1>3, <1>4, <1>5

LEMMA SbomFields ==
  ASSUME SbomTypes
  PROVE  /\ run \in SbomRun /\ run.page \in Nat /\ run.seen \in Seq(Manifest) /\ run.todo \in Seq(Manifest)
         /\ run.start \in [Products -> Nat] /\ run.whole \in BOOLEAN /\ run.full \in BOOLEAN
         /\ Len(run.seen) \in Nat /\ Len(run.todo) \in Nat /\ Len(listing) \in Nat
         /\ DOMAIN run.seen = 1 .. Len(run.seen) /\ DOMAIN run.todo = 1 .. Len(run.todo)
         /\ \A i \in 1 .. Len(run.seen) : run.seen[i] \in Manifest
         /\ \A i \in 1 .. Len(run.todo) : run.todo[i] \in Manifest
         /\ \A m \in Manifest : m.id \in Nat /\ m.key \in Products
         /\ file.id \in [Products -> Nat \cup {None}]
         /\ file.list \in [Products -> Lists \cup {None}]
<1>1. /\ run.page \in Nat /\ run.seen \in Seq(Manifest) /\ run.todo \in Seq(Manifest)
      /\ run.start \in [Products -> Nat] /\ run.whole \in BOOLEAN /\ run.full \in BOOLEAN
      /\ run \in SbomRun
  BY DEF SbomTypes, SbomRun
<1>2. \A m \in Manifest : m.id \in Nat /\ m.key \in Products
  BY DEF Manifest
<1>3. listing \in Seq(Manifest)
  BY DEF SbomTypes
<1>4. file.id \in [Products -> Nat \cup {None}] /\ file.list \in [Products -> Lists \cup {None}]
  BY DEF SbomTypes
<1>5. QED BY <1>1, <1>2, <1>3, <1>4

\* A run starts with the newest manifests there are.
LEMMA SbomStart ==
  ASSUME Sboms!SbomerAssumption, SbomInv, Sboms!Start PROVE SbomInv'
<1>1. PICK full \in BOOLEAN :
        run' = [Sboms!Idle EXCEPT !.at = "discover", !.full = full,
                                  !.start = [k \in Products |-> Sboms!Newest(k)]]
  BY DEF Sboms!Start
<1>2. /\ run'.at = "discover" /\ run'.page = 0 /\ run'.seen = <<>> /\ run'.todo = <<>>
      /\ run'.whole = TRUE /\ run'.start = [k \in Products |-> Sboms!Newest(k)]
      /\ run' = [at |-> "discover", full |-> full, page |-> 0, seen |-> <<>>, todo |-> <<>>,
                 whole |-> TRUE, start |-> [k \in Products |-> Sboms!Newest(k)]]
  BY <1>1 DEF Sboms!Idle
<1>3. /\ listing' = listing /\ Served(Products, Nat) /\ file' = progress'
      /\ call' = call /\ run.at = "idle"
      /\ \/ progress' = file
         \/ progress' = [file EXCEPT !.list =
                           [k \in Products |-> IF @[k] = "failed" THEN None ELSE @[k]]]
  BY SbomServer DEF Sboms!Start, Served
<1>4. /\ file' \in [list : [Products -> Lists \cup {None}], id : [Products -> Nat \cup {None}]]
      /\ file'.id = file.id
      /\ \A k \in Products : file'.list[k] = "completed" => file.list[k] = "completed"
  <2>1. file \in [list : [Products -> Lists \cup {None}], id : [Products -> Nat \cup {None}]]
    BY DEF SbomInv, SbomTypes
  <2>2. CASE progress' = file
    BY <1>3, <2>1, <2>2
  <2>3. CASE progress' = [file EXCEPT !.list =
                            [k \in Products |-> IF @[k] = "failed" THEN None ELSE @[k]]]
    <3>1. /\ file'.list = [k \in Products |-> IF file.list[k] = "failed" THEN None ELSE file.list[k]]
          /\ file'.id = file.id
          /\ file' = [list |-> file'.list, id |-> file.id]
      BY <1>3, <2>1, <2>3
    <3>2. file'.list \in [Products -> Lists \cup {None}]
      BY <2>1, <3>1
    <3>3. \A k \in Products : file'.list[k] = "completed" => file.list[k] = "completed"
      BY <3>1, SbomFacts DEF Lists
    <3>4. QED BY <2>1, <3>1, <3>2, <3>3
  <2>4. QED BY <1>3, <2>2, <2>3
<1>5. ASSUME NEW k \in Products
      PROVE  /\ run'.start[k] \in Nat /\ (run'.start[k] # 0 => Known(run'.start[k], k))
             /\ \A id : Known(id, k) => id <= run'.start[k]
  BY <1>2, NewestKnown DEF SbomInv
<1>6. SbomTypes'
  <2>1. run'.start \in [Products -> Nat]
    BY <1>2, <1>5
  <2>2. run' \in SbomRun
    BY <1>2, <2>1 DEF SbomRun
  <2>3. ServerInv(Products, Nat)'
    BY <1>3, <1>4, SbomLasts
  <2>4. QED BY <1>3, <1>4, <2>2, <2>3 DEF SbomInv, SbomTypes
<1>7. \A id, k : Known(id, k)' <=> Known(id, k)
  BY <1>3 DEF Known, Position
<1>8. ManifestsKnown'
  BY <1>2, <1>5, <1>7 DEF SbomInv, ManifestsKnown
<1>9. PagesPass'
  <2>1. Len(listing) \in Nat /\ 0 * PageSize = 0
    BY SbomFacts DEF SbomInv, SbomTypes
  <2>2. ASSUME NEW k \in Products, run'.start[k] # 0 PROVE Len(listing) + 1 - run'.start[k] > 0
    BY <1>5, <2>1, <2>2 DEF Known
  <2>3. run'.page * PageSize = 0 /\ Len(listing') = Len(listing)
    BY <1>2, <1>3, <2>1
  <2>4. ASSUME NEW k \in Products, run'.start[k] # 0
        PROVE  ~ (Len(listing') + 1 - run'.start[k] <= run'.page * PageSize)
    <3>1. run'.start[k] \in Nat /\ Len(listing) + 1 - run'.start[k] > 0
      BY <1>5, <2>2, <2>4
    <3>2. QED BY <2>1, <2>3, <3>1
  <2>5. run'.at = "discover" /\ run'.whole = TRUE /\ 1 .. Len(run'.seen) = {}
    BY <1>2
  <2>6. run'.page * PageSize <= Len(listing')
    BY <2>1, <2>3
  <2>7. QED BY <2>4, <2>5, <2>6 DEF PagesPass, Position
<1>10. Awaited' /\ ManifestStored'
  <2>1. ManifestStored'
    BY <1>3, <1>4, SbomLasts
  <2>2. QED BY <1>3, <2>1 DEF SbomInv, Awaited
<1>11. QED BY <1>6, <1>8, <1>9, <1>10 DEF SbomInv

\* A page is what lies between two places of the listing.
LEMMA SbomDiscover ==
  ASSUME Sboms!SbomerAssumption, SbomInv, Sboms!Discover PROVE SbomInv'
<1> DEFINE P == run.page * PageSize
           Q == (run.page + 1) * PageSize
           n == Len(listing)
           last == IF Q < n THEN Q ELSE n
           page == Sboms!Page(run.page)
           s == Len(run.seen)
           c == Len(page)
           SeenNow(id) == \E i \in 1 .. Len(run'.seen) : run'.seen[i].id = id
<1>0. SbomTypes /\ ManifestsKnown /\ PagesPass /\ Awaited /\ run.at = "discover" /\ run.whole
  BY DEF SbomInv, PagesPass, Sboms!Discover
<1>1. P \in Nat /\ Q = P + PageSize /\ n \in Nat /\ P <= n /\ PageSize \in Nat /\ PageSize # 0
  <2>1. run.page \in Nat /\ PageSize \in Nat /\ n \in Nat /\ PageSize # 0
    BY <1>0, SbomFields, SbomFacts
  <2>2. P <= n
    BY <1>0 DEF PagesPass
  <2>3. QED BY <2>1, <2>2
<1>2. page = SubSeq(listing, P + 1, last)
  BY DEF Sboms!Page
<1>3. Sboms!Discover =>
        /\ run' = [run EXCEPT !.seen = @ \o page, !.page = @ + 1,
                     !.at = IF Len(page) < PageSize THEN "queue" ELSE @]
        /\ listing' = listing /\ file' = file /\ progress' = progress /\ call' = call
        /\ Served(Products, Nat)
  BY SbomServer DEF Sboms!Discover, Served
<1> HIDE DEF page, P, Q
<1>4. last \in Nat /\ P <= last /\ last <= n
  BY <1>1
<1>5. /\ page \in Seq(Manifest) /\ Len(page) = last - P
      /\ \A i \in 1 .. Len(page) : page[i] = listing[P + i] /\ P + i \in 1 .. n
  <2>1. \A i \in P + 1 .. last : listing[i] \in Manifest
    BY <1>0, <1>1, <1>4 DEF SbomTypes
  <2> HIDE DEF last
  <2>2. P + 1 \in Int /\ last \in Int
    BY <1>1, <1>4
  <2>3. /\ page \in Seq(Manifest)
        /\ Len(page) = IF P + 1 <= last THEN last - (P + 1) + 1 ELSE 0
        /\ \A i \in 1 .. last - (P + 1) + 1 : page[i] = listing[P + 1 + i - 1]
    BY <1>2, <2>1, <2>2, SubSeqProperties
  <2>4. Len(page) = last - P
    BY <1>1, <1>4, <2>3
  <2>5. ASSUME NEW i \in 1 .. Len(page) PROVE page[i] = listing[P + i] /\ P + i \in 1 .. n
    <3>1. i \in 1 .. last - (P + 1) + 1 /\ P + 1 + i - 1 = P + i
      BY <1>1, <1>4, <2>4
    <3>2. P + i \in 1 .. n
      BY <1>1, <1>4, <2>4
    <3>3. QED BY <2>3, <3>1, <3>2
  <2>6. QED BY <2>3, <2>4, <2>5
<1>6. /\ run'.seen = run.seen \o page /\ run'.page = run.page + 1 /\ run'.todo = run.todo
      /\ run'.whole = run.whole /\ run'.start = run.start /\ run'.full = run.full
      /\ run'.at = IF Len(page) < PageSize THEN "queue" ELSE "discover"
      /\ run' \in SbomRun
  <2>1. run \in SbomRun /\ run.seen \o page \in Seq(Manifest) /\ run.page + 1 \in Nat
    BY <1>0, <1>5, SbomFields, ConcatProperties
  <2>2. run' = [run EXCEPT !.seen = run.seen \o page, !.page = run.page + 1,
                  !.at = IF Len(page) < PageSize THEN "queue" ELSE run.at]
    BY <1>3, <2>1 DEF SbomRun
  <2>3. QED BY <1>0, <2>1, <2>2 DEF SbomRun
<1>7. /\ s \in Nat /\ Len(run'.seen) = s + Len(page)
      /\ \A i \in 1 .. s : run'.seen[i] = run.seen[i]
      /\ \A i \in 1 .. Len(page) : run'.seen[s + i] = listing[P + i]
  <2>1. /\ Len(run.seen \o page) = s + Len(page) /\ s \in Nat /\ Len(page) \in Nat
        /\ \A i \in 1 .. s + Len(page) :
             (run.seen \o page)[i] = IF i <= s THEN run.seen[i] ELSE page[i - s]
    <3>1. run.seen \in Seq(Manifest) /\ page \in Seq(Manifest)
      BY <1>0, <1>5, SbomFields
    <3>2. Len(run.seen) \in Nat /\ Len(page) \in Nat
      BY <3>1
    <3>3. QED BY <3>1, <3>2, ConcatProperties
  <2>2. ASSUME NEW i \in 1 .. Len(page) PROVE run'.seen[s + i] = listing[P + i]
    <3>1. s + i \in 1 .. s + Len(page) /\ ~ (s + i <= s) /\ s + i - s = i
      BY <2>1
    <3>2. QED BY <1>5, <1>6, <2>1, <3>1
  <2>3. \A i \in 1 .. s : run'.seen[i] = run.seen[i]
    BY <1>6, <2>1
  <2>4. QED BY <1>6, <2>1, <2>2, <2>3
<1>70. n \in Nat /\ s \in Nat /\ c \in Nat /\ last \in Nat /\ c = last - P /\ last <= n
  BY <1>1, <1>4, <1>5, <1>7
<1>8. /\ listing' = listing /\ file' = file /\ progress' = progress /\ call' = call
      /\ ServerInv(Products, Nat)' /\ ManifestStored'
  BY <1>3, SbomLasts
<1>71. /\ Len(run'.seen) = s + c
       /\ \A i \in 1 .. s : run'.seen[i] = run.seen[i]
       /\ \A i \in 1 .. c : run'.seen[s + i] = listing[P + i] /\ P + i \in 1 .. n
  BY <1>5, <1>7
<1>72. \A i \in 1 .. Len(run'.seen) : ~ (i <= s) => i - s \in 1 .. c /\ s + (i - s) = i
  <2>1. \A x, y \in Nat : \A i \in 1 .. x + y : ~ (i <= x) => i - x \in 1 .. y /\ x + (i - x) = i
    OBVIOUS
  <2>2. QED BY <1>70, <1>71, <2>1
<1>73. \A x \in 1 .. n : x <= last /\ ~ (x <= P) =>
         x - P \in 1 .. c /\ P + (x - P) = x /\ s + (x - P) \in 1 .. Len(run'.seen)
  <2> HIDE DEF n, s, c, last
  <2>1. QED BY <1>1, <1>70, <1>71
<1>74. (run'.at = "discover" => last = Q) /\ (run'.at = "queue" => last = n)
  <2>1. c < PageSize \/ c >= PageSize
    BY <1>1, <1>70
  <2>2. last = IF Q < n THEN Q ELSE n
    OBVIOUS
  <2>3. run'.at = IF c < PageSize THEN "queue" ELSE "discover"
    BY <1>6
  <2> HIDE DEF n, s, c, last
  <2>4. QED BY <1>1, <1>70, <2>1, <2>2, <2>3
<1>9. SbomTypes'
  BY <1>0, <1>6, <1>8 DEF SbomTypes
<1>10. \A id, k : Known(id, k)' <=> Known(id, k)
  BY <1>8 DEF Known, Position
<1>11. \A x \in 1 .. n : listing[x].id = n + 1 - x /\ Known(listing[x].id, listing[x].key)
  <2>1. ASSUME NEW x \in 1 .. n PROVE listing[x].id = n + 1 - x /\ Known(listing[x].id, listing[x].key)
    <3>1. listing[x].id = n + 1 - x
      BY <1>0 DEF SbomTypes
    <3>2. n + 1 - (n + 1 - x) = x /\ n + 1 - x \in 1 .. n
      BY <1>1
    <3>3. QED BY <3>1, <3>2 DEF Known, Position
  <2>2. QED BY <2>1
<1>12. ManifestsKnown'
  <2>1. ASSUME NEW i \in 1 .. Len(run'.seen) PROVE Known(run'.seen[i].id, run'.seen[i].key)
    <3>1. CASE i <= s
      <4>1. i \in 1 .. s /\ run'.seen[i] = run.seen[i]
        BY <1>70, <1>71, <3>1
      <4>2. QED BY <1>0, <4>1 DEF ManifestsKnown
    <3>2. CASE ~ (i <= s)
      <4>1. i - s \in 1 .. c /\ s + (i - s) = i
        BY <1>72, <3>2
      <4>2. run'.seen[i] = listing[P + (i - s)] /\ P + (i - s) \in 1 .. n
        BY <1>71, <4>1
      <4>3. QED BY <1>11, <4>2
    <3>3. QED BY <3>1, <3>2
  <2>2. QED BY <1>0, <1>6, <1>8, <1>10, <2>1 DEF ManifestsKnown
<1>13. ASSUME NEW k \in Products, run.start[k] # 0, Position(run.start[k]) <= last
       PROVE  SeenNow(run.start[k])
  <2>1. Known(run.start[k], k)
    BY <1>0, <1>13 DEF ManifestsKnown
  <2> DEFINE x == Position(run.start[k])
  <2>2. x \in 1 .. n /\ n + 1 - x = run.start[k]
    BY <1>1, <2>1 DEF Known, Position
  <2>3. CASE x <= P
    <3>1. Seen(run.start[k])
      BY <1>0, <1>13, <2>3 DEF PagesPass, P
    <3>2. PICK i \in 1 .. s : run.seen[i].id = run.start[k]
      BY <3>1 DEF Seen
    <3>3. i \in 1 .. Len(run'.seen) /\ run'.seen[i].id = run.start[k]
      BY <1>70, <1>71, <3>2
    <3>4. QED BY <3>3
  <2>4. CASE ~ (x <= P)
    <3>0. x <= last
      BY <1>13
    <3> HIDE DEF x, n, s, c, last
    <3>1. x - P \in 1 .. c /\ P + (x - P) = x /\ s + (x - P) \in 1 .. Len(run'.seen)
      BY <1>73, <2>2, <2>4, <3>0
    <3>2. run'.seen[s + (x - P)] = listing[x]
      BY <1>71, <3>1
    <3>3. run'.seen[s + (x - P)].id = run.start[k]
      BY <1>11, <2>2, <3>2
    <3>4. QED BY <3>1, <3>3
  <2>5. QED BY <2>3, <2>4
<1>14. ASSUME NEW i \in 1 .. Len(run'.seen), run'.seen[i].id < run.start[run'.seen[i].key]
       PROVE  \E j \in 1 .. i - 1 : run'.seen[j].id = run.start[run'.seen[i].key]
  <2> DEFINE k == run'.seen[i].key
  <2>1. CASE i <= s
    <3>1. run'.seen[i] = run.seen[i] /\ i \in 1 .. s
      BY <1>70, <1>71, <2>1
    <3>2. PICK j \in 1 .. i - 1 : run.seen[j].id = run.start[k]
      BY <1>0, <1>14, <3>1 DEF PagesPass
    <3>3. run'.seen[j].id = run.start[k]
      <4>1. s \in Nat /\ i \in 1 .. s /\ j \in 1 .. i - 1
        BY <1>70, <3>1
      <4> HIDE DEF s
      <4>2. j \in 1 .. s
        BY <4>1
      <4>3. QED BY <1>71, <3>2, <4>2
    <3>4. QED BY <3>3
  <2>2. CASE ~ (i <= s)
    <3>1. i - s \in 1 .. c /\ s + (i - s) = i
      BY <1>72, <2>2
    <3> DEFINE y == P + (i - s)
    <3>2. run'.seen[i] = listing[y] /\ y \in 1 .. n
      BY <1>71, <3>1
    <3>3. listing[y].id = n + 1 - y /\ k \in Products
      <4>1. listing[y] \in Manifest
        BY <1>0, <3>2 DEF SbomTypes
      <4>2. QED BY <1>11, <3>2, <4>1 DEF Manifest
    <3> DEFINE begun == run.start[k]
    <3>4. begun \in Nat /\ begun > n + 1 - y
      BY <1>0, <1>14, <3>2, <3>3, SbomFields
    <3>5. begun # 0 /\ Known(begun, k)
      <4>1. begun # 0
        <5> HIDE DEF begun, y, n
        <5>1. QED BY <1>70, <3>2, <3>4
      <4>2. QED BY <1>0, <3>3, <4>1 DEF ManifestsKnown
    <3> DEFINE x == Position(begun)
    <3>50. x = n + 1 - begun /\ begun \in 1 .. n
      BY <3>5 DEF Known, Position
    <3> HIDE DEF x, begun, y, n
    <3>6. x \in 1 .. n /\ n + 1 - x = begun /\ x < y
      BY <1>70, <3>2, <3>4, <3>50
    <3>7. CASE x <= P
      <4>1. Seen(begun)
        BY <1>0, <3>3, <3>5, <3>7 DEF PagesPass, P, x, begun
      <4>2. PICK j \in 1 .. s : run.seen[j].id = begun
        BY <4>1 DEF Seen
      <4>3. run'.seen[j].id = begun
        BY <1>71, <4>2
      <4>4. j \in 1 .. i - 1
        <5>1. s \in Nat /\ j \in 1 .. s /\ ~ (i <= s) /\ Len(run'.seen) \in Nat
          BY <1>70, <1>71, <2>2, <4>2
        <5> HIDE DEF s
        <5>2. QED BY <5>1
      <4>5. QED BY <4>3, <4>4 DEF begun
    <3>8. CASE ~ (x <= P)
      <4>1. y <= last
        <5>1. i - s \in 1 .. c /\ y = P + (i - s)
          BY <3>1 DEF y
        <5> DEFINE d == i - s
        <5> HIDE DEF c, last, d
        <5>2. d \in 1 .. c /\ y = P + d
          BY <5>1 DEF d
        <5>3. QED BY <1>1, <1>70, <5>2
      <4> HIDE DEF k, s, c, last
      <4>2. x <= last
        BY <1>70, <3>2, <3>6, <4>1
      <4>3. x - P \in 1 .. c /\ P + (x - P) = x
        BY <1>73, <3>6, <3>8, <4>2
      <4>4. run'.seen[s + (x - P)] = listing[x]
        BY <1>71, <4>3
      <4>5. run'.seen[s + (x - P)].id = begun
        BY <1>11, <3>6, <4>4 DEF n
      <4>6. s + (x - P) \in 1 .. i - 1
        <5>1. i \in Nat /\ i = s + (y - P)
          BY <1>1, <1>70, <1>71, <3>1 DEF y
        <5>2. QED BY <1>1, <1>70, <3>2, <3>6, <4>3, <5>1
      <4>7. QED BY <4>5, <4>6 DEF k, begun
    <3>9. QED BY <3>7, <3>8
  <2>3. QED BY <2>1, <2>2
<1>15. PagesPass'
  <2>1. ASSUME run'.at = "discover"
        PROVE  /\ run'.page * PageSize <= Len(listing')
               /\ \A k \in Products :
                    run'.start[k] # 0 /\ Len(listing') + 1 - run'.start[k] <= run'.page * PageSize
                    => SeenNow(run'.start[k])
    <3>1. run'.page * PageSize = last
      BY <1>6, <1>74, <2>1 DEF Q
    <3>2. Len(listing') = n /\ last <= n
      BY <1>8, <1>70
    <3>3. ASSUME NEW k \in Products, run'.start[k] # 0,
                 Len(listing') + 1 - run'.start[k] <= run'.page * PageSize
          PROVE  SeenNow(run'.start[k])
      <4>1. Position(run.start[k]) <= last /\ run.start[k] # 0 /\ run'.start = run.start
        BY <1>6, <3>1, <3>2, <3>3 DEF Position
      <4>2. SeenNow(run.start[k])
        BY <1>13, <4>1
      <4>3. QED BY <4>1, <4>2
    <3>4. QED BY <3>1, <3>2, <3>3
  <2>2. ASSUME run'.at = "queue", NEW k \in Products, run'.start[k] # 0
        PROVE  SeenNow(run'.start[k])
    <3>1. last = n /\ run'.start = run.start
      BY <1>6, <1>74, <2>2
    <3>2. Known(run.start[k], k)
      BY <1>0, <2>2, <3>1 DEF ManifestsKnown
    <3>3. Position(run.start[k]) <= last
      <4>1. Position(run.start[k]) = n + 1 - run.start[k] /\ run.start[k] \in 1 .. n
        BY <3>2 DEF Known, Position
      <4> HIDE DEF n, last
      <4>2. QED BY <1>70, <3>1, <4>1
    <3>4. SeenNow(run.start[k])
      BY <1>13, <2>2, <3>1, <3>3
    <3>5. QED BY <3>1, <3>4
  <2>3. run'.whole /\ run'.start = run.start
    BY <1>0, <1>6
  <2>4. \A i \in 1 .. Len(run'.seen) : run'.seen[i].id < run'.start[run'.seen[i].key] =>
          \E j \in 1 .. i - 1 : run'.seen[j].id = run'.start[run'.seen[i].key]
    BY <1>14, <2>3
  <2> HIDE DEF SeenNow
  <2>5. QED BY <2>1, <2>2, <2>3, <2>4 DEF PagesPass, Position, Seen, SeenNow
<1>16. Awaited' /\ ManifestStored'
  BY <1>0, <1>8 DEF Awaited
<1>17. QED BY <1>9, <1>12, <1>15, <1>16 DEF SbomInv

\* A step after which the run queues what it has seen, or remembers nothing to do.
LEMMA SbomPause ==
  ASSUME SbomInv, run' \in SbomRun, listing' = listing, file' = file, progress' = progress,
         Sboms!SbomerAssumption, Served(Products, Nat), call' \in [sends : Nat, n : Nat],
         call'.n = 0,
         \/ run' = [run EXCEPT !.at = "queue", !.whole = FALSE] /\ run.at = "discover"
         \/ run' = [run EXCEPT !.at = "aborted"]
         \/ run' = Sboms!Idle
  PROVE  SbomInv'
<1>1. SbomTypes'
  BY SbomLasts DEF SbomInv, SbomTypes
<1>2. \A id, k : Known(id, k)' <=> Known(id, k)
  BY DEF Known, Position
<1>3. Awaited' /\ ManifestStored'
  BY SbomLasts DEF Awaited
<1>4. run \in SbomRun
  BY DEF SbomInv, SbomTypes
<1>5. CASE run' = [run EXCEPT !.at = "queue", !.whole = FALSE] /\ run.at = "discover"
  <2>1. /\ run'.at = "queue" /\ run'.whole = FALSE /\ run'.seen = run.seen /\ run'.todo = run.todo
        /\ run'.start = run.start
    BY <1>4, <1>5 DEF SbomRun
  <2>2. ManifestsKnown'
    BY <1>2, <2>1 DEF SbomInv, ManifestsKnown
  <2>3. PagesPass'
    BY <1>5, <2>1 DEF SbomInv, PagesPass
  <2>4. QED BY <1>1, <1>3, <2>2, <2>3 DEF SbomInv
<1>6. CASE run' = [run EXCEPT !.at = "aborted"]
  <2>1. /\ run'.at = "aborted" /\ run'.seen = run.seen /\ run'.todo = run.todo
        /\ run'.start = run.start
    BY <1>4, <1>6 DEF SbomRun
  <2>2. ManifestsKnown'
    BY <1>2, <2>1 DEF SbomInv, ManifestsKnown
  <2>3. PagesPass'
    BY <2>1 DEF PagesPass
  <2>4. QED BY <1>1, <1>3, <2>2, <2>3 DEF SbomInv
<1>7. CASE run' = Sboms!Idle
  <2>1. /\ run'.at = "idle" /\ run'.seen = <<>> /\ run'.todo = <<>>
        /\ \A k \in Products : run'.start[k] = 0
    BY <1>7 DEF Sboms!Idle
  <2>2. 1 .. Len(run'.seen) = {} /\ 1 .. Len(run'.todo) = {}
    BY <2>1
  <2>3. ManifestsKnown'
    BY <1>2, <2>1, <2>2 DEF SbomInv, ManifestsKnown
  <2>4. PagesPass'
    BY <2>1 DEF PagesPass
  <2>5. QED BY <1>1, <1>3, <2>3, <2>4 DEF SbomInv
<1>8. QED BY <1>5, <1>6, <1>7

LEMMA IdleIsRun == Sboms!Idle \in SbomRun
<1>1. <<>> \in Seq(Manifest)
  OBVIOUS
<1>2. QED BY <1>1 DEF Sboms!Idle, SbomRun

\* What is queued of each product is no older, when all pages were read, than the newest
\* at the start.
LEMMA SbomQueue ==
  ASSUME Sboms!SbomerAssumption, SbomInv, Sboms!Queue
  PROVE  /\ SbomInv'
         /\ run.whole => \A k \in Products :
              run.start[k] # 0 /\ (run.full \/ progress.list[k] # "completed") =>
                \E i \in 1 .. Len(run'.todo) : run'.todo[i].key = k /\ run'.todo[i].id >= run.start[k]
<1> DEFINE first == Sboms!Deduplicate(run.seen)
           kept == {n \in first : Sboms!Wanted(run.seen[n])}
           todo == Sboms!InOrder(run.seen, kept)
<1>0. SbomTypes /\ ManifestsKnown /\ PagesPass /\ Awaited /\ run.at = "queue"
  BY DEF SbomInv, Sboms!Queue
<1>1. \A n \in first :
        /\ n \in 1 .. Len(run.seen) /\ run.seen[n].key \in Products /\ run.seen[n].id \in Nat
        /\ run.start[run.seen[n].key] <= run.seen[n].id
        /\ \A j \in 1 .. n - 1 : run.seen[j].key # run.seen[n].key
  BY <1>0, FirstIsNotOlder
<1>2. run.seen \in Seq(Manifest) /\ run \in SbomRun
  BY <1>0, SbomFields
<1>3. run' = [run EXCEPT !.at = "ingest", !.todo = todo]
      /\ listing' = listing /\ file' = file /\ progress' = progress /\ call' = call
      /\ Served(Products, Nat)
  BY SbomServer DEF Sboms!Queue, Served
<1> HIDE DEF first
<1>4. kept \in SUBSET (1 .. Len(run.seen))
  BY <1>1
<1>40. \A n \in first : n \in kept <=> (run.full \/ progress.list[run.seen[n].key] # "completed")
  BY DEF Sboms!Wanted
<1>41. kept \subseteq first
  OBVIOUS
<1> HIDE DEF kept
<1>5. /\ todo \in Seq(Manifest)
      /\ \A i \in 1 .. Len(todo) : \E n \in kept : todo[i] = run.seen[n]
      /\ \A n \in kept : \E i \in 1 .. Len(todo) : todo[i] = run.seen[n]
      /\ \A i, j \in 1 .. Len(todo) : i # j =>
           \E m, n \in kept : m # n /\ todo[i] = run.seen[m] /\ todo[j] = run.seen[n]
  BY <1>2, <1>4, InOrderLists
<1> HIDE DEF todo
<1>6. /\ run'.at = "ingest" /\ run'.todo = todo /\ run'.seen = run.seen /\ run'.start = run.start
      /\ run' \in SbomRun
  BY <1>2, <1>3, <1>5 DEF SbomRun
<1>7. SbomTypes'
  BY <1>0, <1>3, <1>6, SbomLasts DEF SbomTypes
<1>8. \A id, k : Known(id, k)' <=> Known(id, k)
  BY <1>3 DEF Known, Position
<1>9. \A i \in 1 .. Len(todo) : Known(todo[i].id, todo[i].key)
  <2>1. ASSUME NEW i \in 1 .. Len(todo) PROVE Known(todo[i].id, todo[i].key)
    <3>1. PICK n \in kept : todo[i] = run.seen[n]
      BY <1>5
    <3>2. n \in 1 .. Len(run.seen)
      BY <1>4
    <3>3. QED BY <1>0, <3>1, <3>2 DEF ManifestsKnown
  <2>2. QED BY <2>1
<1>10. ManifestsKnown'
  BY <1>0, <1>3, <1>6, <1>8, <1>9 DEF ManifestsKnown
<1>11. PagesPass'
  BY <1>6 DEF PagesPass
<1>14. Awaited' /\ ManifestStored'
  BY <1>0, <1>3, SbomLasts DEF Awaited
<1>15. ASSUME run.whole, NEW k \in Products, run.start[k] # 0,
              run.full \/ progress.list[k] # "completed"
       PROVE  \E i \in 1 .. Len(todo) : todo[i].key = k /\ todo[i].id >= run.start[k]
  <2> DEFINE T == {n \in 1 .. Len(run.seen) : run.seen[n].key = k}
  <2>1. PICK j \in 1 .. Len(run.seen) : run.seen[j].id = run.start[k]
    BY <1>0, <1>15 DEF PagesPass, Seen
  <2>2. Known(run.start[k], k) /\ Known(run.seen[j].id, run.seen[j].key)
    BY <1>0, <1>15, <2>1 DEF ManifestsKnown
  <2>3. j \in T
    BY <2>1, <2>2 DEF Known
  <2>4. T \in SUBSET Nat
    OBVIOUS
  <2>5. PICK n \in T : \A x \in T : n <= x
    BY <2>3, <2>4, LeastNatural
  <2>6. \A x \in 1 .. n - 1 : run.seen[x].key # k
    <3>1. ASSUME NEW x \in 1 .. n - 1, run.seen[x].key = k PROVE FALSE
      <4>1. n \in 1 .. Len(run.seen) /\ Len(run.seen) \in Nat
        BY <1>0, <2>5, SbomFields
      <4>2. x \in 1 .. Len(run.seen) /\ ~ (n <= x)
        BY <4>1
      <4>3. QED BY <2>5, <3>1, <4>2
    <3>2. QED BY <3>1
  <2>7. n \in first
    BY <1>0, <2>5, <2>6, SbomFields DEF first, Sboms!Deduplicate
  <2>8. n \in kept /\ run.seen[n].key = k
    BY <1>15, <1>40, <2>5, <2>7
  <2>9. PICK i \in 1 .. Len(todo) : todo[i] = run.seen[n]
    BY <1>5, <2>8
  <2>10. run.start[k] <= run.seen[n].id /\ run.seen[n].id \in Nat /\ run.start[k] \in Nat
    BY <1>0, <1>1, <2>7, <2>8, SbomFields
  <2>11. todo[i].key = k /\ todo[i].id >= run.start[k]
    BY <2>8, <2>9, <2>10
  <2>12. QED BY <2>11
<1>16. QED BY <1>6, <1>7, <1>10, <1>11, <1>14, <1>15 DEF SbomInv

\* The record of a manifest that is stored, skipped, or neither.
LEMMA SbomRecord ==
  ASSUME Sboms!SbomerAssumption, SbomInv, Sboms!Ingesting, NEW status \in Lists,
         Sboms!Record(status),
         \/ UNCHANGED serverVars /\ status # "completed"
         \/ /\ call.n # 0 /\ status = "completed" /\ Remember(Sboms!Current.key, call.n)
            /\ \E q \in requests : q.key = Sboms!Current.key /\ q.n = call.n /\ Insert(q)
  PROVE  SbomInv'
<1>0. SbomTypes /\ ManifestsKnown /\ PagesPass /\ Awaited /\ ManifestStored
  BY DEF SbomInv
<1>1. /\ run \in SbomRun /\ run.todo \in Seq(Manifest) /\ Len(run.todo) \in Nat
      /\ run.at = "ingest" /\ run.todo # <<>>
  BY <1>0, SbomFields DEF Sboms!Ingesting
<1>2. PICK m, rest : m = Head(run.todo) /\ rest = Tail(run.todo)
  OBVIOUS
<1>3. /\ m = run.todo[1] /\ 1 \in 1 .. Len(run.todo) /\ m \in Manifest
      /\ rest \in Seq(Manifest) /\ Len(rest) = Len(run.todo) - 1
      /\ \A i \in 1 .. Len(rest) : rest[i] = run.todo[i + 1]
  <2>1. m \in Manifest /\ rest \in Seq(Manifest) /\ Len(rest) = Len(run.todo) - 1
        /\ \A i \in 1 .. Len(rest) : rest[i] = run.todo[i + 1]
    BY <1>1, <1>2, HeadTailProperties
  <2>2. m = run.todo[1] /\ 1 \in 1 .. Len(run.todo)
    BY <1>1, <1>2
  <2>3. QED BY <2>1, <2>2
<1>4. m.id \in Nat /\ m.key \in Products /\ Sboms!Current = m
  BY <1>2, <1>3 DEF Manifest, Sboms!Current
<1>5. /\ file' = progress' /\ run' = [run EXCEPT !.todo = rest]
      /\ progress' = [progress EXCEPT !.list[m.key] = status,
                                      !.id[m.key] = IF status = "completed" THEN m.id ELSE @]
      /\ listing' = listing /\ call' = [sends |-> 0, n |-> 0]
  BY <1>2, <1>4 DEF Sboms!Record, Sboms!NoCall
<1>6. /\ progress' = file'
      /\ file'.list = [file.list EXCEPT ![m.key] = status]
      /\ file'.id = [file.id EXCEPT ![m.key] = IF status = "completed" THEN m.id ELSE file.id[m.key]]
      /\ file' \in [list : [Products -> Lists \cup {None}], id : [Products -> Nat \cup {None}]]
  <2>1. progress = file /\ file \in [list : [Products -> Lists \cup {None}], id : [Products -> Nat \cup {None}]]
    BY <1>0 DEF SbomTypes
  <2>2. /\ file'.list = [file.list EXCEPT ![m.key] = status]
        /\ file'.id = [file.id EXCEPT ![m.key] = IF status = "completed" THEN m.id ELSE file.id[m.key]]
        /\ file' = [list |-> file'.list, id |-> file'.id]
    BY <1>4, <1>5, <2>1
  <2>3. file'.list \in [Products -> Lists \cup {None}]
    BY <1>4, <2>1, <2>2
  <2>4. file'.id \in [Products -> Nat \cup {None}]
    BY <1>4, <2>1, <2>2
  <2>5. QED BY <1>5, <2>2, <2>3, <2>4
<1>7. /\ file'.list[m.key] = status /\ (status = "completed" => file'.id[m.key] = m.id)
      /\ \A k \in Products \ {m.key} :
           file'.list[k] = file.list[k] /\ file'.id[k] = file.id[k]
  BY <1>0, <1>4, <1>6, SbomFields
<1>8. /\ run'.at = "ingest" /\ run'.todo = rest /\ run'.seen = run.seen /\ run'.start = run.start
      /\ run' \in SbomRun
  BY <1>1, <1>3, <1>5 DEF SbomRun
<1>9. ServerInv(Products, Nat)' /\ ManifestStored'
  <2>1. CASE UNCHANGED serverVars /\ status # "completed"
    <3>1. \A k \in Products : file'.list[k] = "completed" =>
            file.list[k] = "completed" /\ file'.id[k] = file.id[k]
      BY <1>7, <2>1
    <3>2. QED BY <2>1, <3>1, SbomLasts DEF Served
  <2>2. CASE /\ call.n # 0 /\ status = "completed" /\ Remember(m.key, call.n)
             /\ \E q \in requests : q.key = m.key /\ q.n = call.n /\ Insert(q)
    <3>1. PICK q \in requests : q.key = m.key /\ q.n = call.n /\ Insert(q)
      BY <2>2
    <3>2. q.content = m.id /\ Remember(q.key, q.n)
      BY <1>0, <1>2, <2>2, <3>1 DEF Awaited
    <3>3. PICK s : s = [n |-> q.n, content |-> q.content]
      OBVIOUS
    <3>4. ServerInv(Products, Nat) /\ MaxSends \in Nat
      BY <1>0, SbomFacts DEF SbomTypes
    <3>5. /\ ServerInv(Products, Nat)'
          /\ history'[m.key].recorded = q.n /\ Safe(m.key, q.n, s)'
          /\ \A j \in Products \ {m.key} : history'[j] = history[j] /\ server'[j] = server[j]
          /\ requests' \subseteq requests
      BY <3>1, <3>2, <3>3, <3>4, AnswerIsKept
    <3>6. ASSUME NEW k \in Products, file'.list[k] = "completed", Undisturbed(k)'
          PROVE  \E t \in server'[k] :
                   Safe(k, history[k].recorded, t)' /\ t.content = file'.id[k]
      <4>1. CASE k = m.key
        <5>1. s \in server'[k] /\ s.content = file'.id[k]
          BY <1>7, <2>2, <3>2, <3>3, <3>5, <4>1 DEF Safe
        <5>2. QED BY <3>5, <4>1, <5>1 DEF Safe
      <4>2. CASE k # m.key
        <5>1. Undisturbed(k) /\ file.list[k] = "completed" /\ file'.id[k] = file.id[k]
          BY <1>7, <3>5, <3>6, <4>2 DEF Undisturbed
        <5>2. PICK t \in server[k] : Safe(k, history[k].recorded, t) /\ t.content = file.id[k]
          BY <1>0, <5>1 DEF ManifestStored
        <5>3. t \in server'[k] /\ Safe(k, history[k].recorded, t)'
          BY <3>5, <4>2, <5>2 DEF Safe
        <5>4. QED BY <5>1, <5>2, <5>3
      <4>3. QED BY <4>1, <4>2
    <3>7. QED BY <3>5, <3>6 DEF ManifestStored
  <2>3. QED BY <1>4, <2>1, <2>2
<1>10. SbomTypes'
  BY <1>0, <1>5, <1>6, <1>8, <1>9 DEF SbomTypes
<1>11. \A id, k : Known(id, k)' <=> Known(id, k)
  BY <1>5 DEF Known, Position
<1>12. \A i \in 1 .. Len(rest) : i + 1 \in 1 .. Len(run.todo) /\ rest[i] = run.todo[i + 1]
  <2>1. ASSUME NEW i \in 1 .. Len(rest) PROVE i + 1 \in 1 .. Len(run.todo)
    BY <1>1, <1>3
  <2>2. QED BY <1>3, <2>1
<1>13. ManifestsKnown'
  <2>1. \A i \in 1 .. Len(rest) : Known(rest[i].id, rest[i].key)
    BY <1>0, <1>12 DEF ManifestsKnown
  <2>2. QED BY <1>0, <1>8, <1>11, <2>1 DEF ManifestsKnown
<1>14. PagesPass'
  BY <1>8 DEF PagesPass
<1>15. Awaited'
  BY <1>5 DEF Awaited
<1>16. QED BY <1>9, <1>10, <1>13, <1>14, <1>15 DEF SbomInv

\* A step that is the server's or the upload's alone.
LEMMA SbomSame ==
  ASSUME Sboms!SbomerAssumption, SbomInv, UNCHANGED <<listing, file, progress, run>>,
         Served(Products, Nat), call' \in [sends : Nat, n : Nat], call'.n = 0 \/ call' = call
  PROVE  SbomInv'
<1>1. ServerInv(Products, Nat)' /\ Lasting(Products) /\ ManifestStored'
  BY SbomLasts
<1>2. SbomTypes'
  BY <1>1 DEF SbomInv, SbomTypes
<1>3. ManifestsKnown' /\ PagesPass'
  BY DEF SbomInv, ManifestsKnown, PagesPass, Known, Seen, Position
<1>4. Awaited'
  <2>1. SUFFICES ASSUME call.n # 0, call' = call
                 PROVE  Awaited'
    BY DEF Awaited
  <2>2. Awaited /\ run.todo # <<>> /\ run.todo \in Seq(Manifest)
    BY <2>1, SbomFields DEF SbomInv, Awaited
  <2>3. PICK m \in Manifest : m = Head(run.todo)
    BY <2>2
  <2>4. PICK k \in Products : k = m.key
    BY DEF Manifest
  <2>5. /\ call.n \in Nat /\ history[k].n \in Nat /\ history'[k].n \in Nat
        /\ call.n <= history[k].n /\ history[k].n <= history'[k].n
    <3>1. ServerInv(Products, Nat) /\ MaxSends \in Nat /\ call.n \in Nat
      BY SbomFacts DEF SbomInv, SbomTypes
    <3>2. history[k].n \in Nat /\ history'[k].n \in Nat
      BY <1>1, <3>1 DEF ServerInv, ServerTypeOK
    <3>3. QED BY <1>1, <2>1, <2>2, <2>3, <2>4, <3>1, <3>2 DEF Awaited, Lasting
  <2>6. ASSUME NEW q \in requests', q.key = k, q.n = call.n
        PROVE  q.content = m.id
    <3>1. \/ \E p \in requests : p.key = q.key /\ p.n = q.n /\ p.content = q.content
          \/ q.n > history[q.key].n
      BY <1>1 DEF Lasting
    <3>2. ~ (q.n > history[q.key].n)
      BY <2>5, <2>6
    <3>3. QED BY <2>1, <2>2, <2>3, <2>4, <2>6, <3>1, <3>2 DEF Awaited
  <2>7. call.n <= history'[k].n
    BY <2>5
  <2>8. QED BY <2>1, <2>2, <2>3, <2>4, <2>6, <2>7 DEF Awaited
<1>5. QED BY <1>1, <1>2, <1>3, <1>4 DEF SbomInv

\* A manifest is sent, and its answer awaited.
LEMMA SbomSend ==
  ASSUME Sboms!SbomerAssumption, SbomInv, Sboms!Send PROVE SbomInv'
<1>1. /\ run.at = "ingest" /\ run.todo # <<>> /\ run.todo \in Seq(Manifest)
      /\ UNCHANGED <<listing, file, progress, run>>
      /\ call \in [sends : Nat, n : Nat] /\ MaxSends \in Nat /\ ServerInv(Products, Nat)
  BY SbomFields, SbomFacts DEF Sboms!Send, Sboms!Ingesting, SbomInv, SbomTypes
<1>2. PICK m \in Manifest : m = Head(run.todo)
  BY <1>1
<1>3. PICK k, id : k = m.key /\ id = m.id
  OBVIOUS
<1>4. k \in Products /\ id \in Nat /\ Sboms!Current = m
  BY <1>2, <1>3 DEF Manifest, Sboms!Current
<1>5. Receive(k, id) /\ call' = [sends |-> call.sends + 1, n |-> history[k].n + 1]
  BY <1>3, <1>4, SbomServer DEF Sboms!Send
<1>6. Served(Products, Nat)
  BY <1>4, <1>5 DEF Served
<1>7. ServerInv(Products, Nat)' /\ ManifestStored'
  BY <1>1, <1>6, SbomLasts
<1>8. PICK p : p = history[k]
  OBVIOUS
<1>9. p \in [n : 0..MaxSends, sole : BOOLEAN, recorded : 0..MaxSends] /\ k \in DOMAIN history
  BY <1>1, <1>4, <1>8 DEF ServerInv, ServerTypeOK
<1>10. history'[k].n = p.n + 1 /\ call'.n = p.n + 1 /\ p.n \in Nat /\ call' \in [sends : Nat, n : Nat]
  <2>1. p.n \in Nat
    BY <1>1, <1>9
  <2>2. history'[k].n = p.n + 1
    <3>1. history' = [history EXCEPT ![k].n = @ + 1, ![k].sole = (InHand(k) = {})]
      BY <1>5 DEF Receive
    <3>2. QED BY <1>8, <1>9, <3>1
  <2>3. call' = [sends |-> call.sends + 1, n |-> p.n + 1] /\ call.sends \in Nat
    BY <1>1, <1>5, <1>8
  <2>4. QED BY <2>1, <2>2, <2>3
<1>11. SbomTypes'
  BY <1>1, <1>7, <1>10 DEF SbomInv, SbomTypes
<1>12. ManifestsKnown' /\ PagesPass'
  BY <1>1 DEF SbomInv, ManifestsKnown, PagesPass, Known, Seen, Position
<1>13. \A q \in requests : q.key = k => q.n # p.n + 1
  <2>1. \A q \in requests : q.n \in Nat /\ q.n <= history[q.key].n
    BY <1>1, ServerNumbers DEF ServerInv
  <2>2. QED BY <1>8, <1>10, <2>1
<1>14. \A q \in requests' : q.key = k /\ q.n = p.n + 1 => q.content = id
  BY <1>5, <1>13 DEF Receive
<1>15. Awaited'
  BY <1>1, <1>2, <1>3, <1>10, <1>14 DEF Awaited
<1>16. QED BY <1>7, <1>11, <1>12, <1>15 DEF SbomInv

\* A new manifest moves all others one place towards the end.
LEMMA SbomCreate ==
  ASSUME Sboms!SbomerAssumption, SbomInv, Sboms!Create PROVE SbomInv'
<1> DEFINE n == Len(listing)
<1>0. SbomTypes /\ ManifestsKnown /\ PagesPass /\ Awaited
  BY DEF SbomInv
<1>1. PICK k \in Products : listing' = <<[id |-> n + 1, key |-> k]>> \o listing
  BY DEF Sboms!Create
<1>2. /\ file' = file /\ progress' = progress /\ run' = run /\ call' = call
      /\ Served(Products, Nat) /\ UNCHANGED <<history, requests>>
  BY SbomServer DEF Sboms!Create, Served, serverVars
<1> DEFINE m == [id |-> n + 1, key |-> k]
<1>3. n \in Nat /\ listing \in Seq(Manifest)
  BY <1>0 DEF SbomTypes
<1>4. m \in Manifest
  BY <1>3 DEF Manifest
<1>5. listing' = <<m>> \o listing
  BY <1>1
<1> HIDE DEF m
<1>6. <<m>> \in Seq(Manifest) /\ Len(<<m>>) = 1 /\ <<m>>[1] = m
  BY <1>4
<1>7. /\ listing' \in Seq(Manifest) /\ Len(listing') = 1 + n
      /\ \A i \in 1 .. 1 + n : listing'[i] = IF i <= 1 THEN <<m>>[i] ELSE listing[i - 1]
  <2>1. /\ <<m>> \o listing \in Seq(Manifest) /\ Len(<<m>> \o listing) = Len(<<m>>) + Len(listing)
        /\ \A i \in 1 .. Len(<<m>>) + Len(listing) :
             (<<m>> \o listing)[i] = IF i <= Len(<<m>>) THEN <<m>>[i] ELSE listing[i - Len(<<m>>)]
    BY <1>3, <1>6, ConcatProperties
  <2>2. QED BY <1>5, <1>6, <2>1
<1> HIDE DEF n
<1>8. listing'[1] = m /\ \A i \in 1 .. n : listing'[i + 1] = listing[i]
  <2>1. listing'[1] = m
    BY <1>3, <1>6, <1>7
  <2>2. ASSUME NEW i \in 1 .. n PROVE listing'[i + 1] = listing[i]
    <3>1. i + 1 \in 1 .. 1 + n /\ ~ (i + 1 <= 1) /\ i + 1 - 1 = i
      BY <1>3
    <3>2. QED BY <1>7, <3>1
  <2>3. QED BY <2>1, <2>2
<1>9. \A i \in 1 .. 1 + n : listing'[i].id = (1 + n) + 1 - i
  <2>1. ASSUME NEW i \in 1 .. 1 + n PROVE listing'[i].id = (1 + n) + 1 - i
    <3>1. CASE i = 1
      <4>1. m.id = n + 1
        BY DEF m
      <4>2. QED BY <1>3, <1>8, <3>1, <4>1
    <3>2. CASE i # 1
      <4>1. i - 1 \in 1 .. n /\ i - 1 + 1 = i
        BY <1>3, <3>2
      <4>2. listing'[i] = listing[i - 1]
        BY <1>8, <4>1
      <4>3. listing[i - 1].id = n + 1 - (i - 1)
        BY <1>0, <4>1 DEF SbomTypes, n
      <4>4. QED BY <1>3, <4>1, <4>2, <4>3
    <3>3. QED BY <3>1, <3>2
  <2>2. QED BY <2>1
<1>10. SbomTypes'
  BY <1>0, <1>2, <1>7, <1>9, SbomLasts DEF SbomTypes
<1>11. ASSUME NEW id, NEW p, Known(id, p) PROVE Known(id, p)'
  <2>1. id \in 1 .. n /\ listing[n + 1 - id].key = p
    BY <1>11 DEF Known, Position, n
  <2>2. /\ n + 1 - id \in 1 .. n /\ (n + 1 - id) + 1 = (1 + n) + 1 - id /\ id \in 1 .. 1 + n
    BY <1>3, <2>1
  <2>3. listing'[(1 + n) + 1 - id] = listing[n + 1 - id]
    BY <1>8, <2>2
  <2>4. QED BY <1>7, <2>1, <2>2, <2>3 DEF Known, Position
<1>12. ManifestsKnown'
  BY <1>0, <1>2, <1>11 DEF ManifestsKnown
<1>13. PagesPass'
  <2>1. ASSUME run.at = "discover"
        PROVE  /\ run.page * PageSize <= Len(listing')
               /\ \A p \in Products : run.start[p] # 0 /\ Len(listing') + 1 - run.start[p] <= run.page * PageSize
                    => Seen(run.start[p])
    <3> DEFINE P == run.page * PageSize
    <3>1. P \in Nat /\ P <= n
      <4>1. run.page \in Nat /\ PageSize \in Nat
        BY <1>0, SbomFields, SbomFacts
      <4>2. P <= n
        BY <1>0, <2>1 DEF PagesPass, n
      <4>3. QED BY <4>1, <4>2
    <3> HIDE DEF P
    <3>2. P <= Len(listing')
      BY <1>3, <1>7, <3>1
    <3>3. ASSUME NEW p \in Products, run.start[p] # 0, Len(listing') + 1 - run.start[p] <= P
          PROVE  Seen(run.start[p])
      <4>1. run.start[p] \in Nat
        BY <1>0, SbomFields
      <4>2. n + 1 - run.start[p] <= P
        BY <1>3, <1>7, <3>1, <3>3, <4>1
      <4>3. Position(run.start[p]) <= run.page * PageSize
        BY <4>2 DEF Position, n, P
      <4>4. QED BY <1>0, <2>1, <3>3, <4>3 DEF PagesPass
    <3>4. QED BY <3>2, <3>3 DEF P
  <2>2. \A id : Seen(id)' <=> Seen(id)
    BY <1>2 DEF Seen
  <2>3. QED BY <1>0, <1>2, <2>1, <2>2 DEF PagesPass, Position, Seen
<1>14. Awaited' /\ ManifestStored'
  BY <1>0, <1>2, SbomLasts DEF Awaited
<1>15. QED BY <1>10, <1>12, <1>13, <1>14 DEF SbomInv

LEMMA SbomNext ==
  ASSUME Sboms!SbomerAssumption, SbomInv, [Sboms!Next]_(Sboms!vars) PROVE SbomInv'
<1>0. /\ run \in SbomRun /\ SbomTypes /\ Awaited /\ call \in [sends : Nat, n : Nat]
      /\ Sboms!NoCall \in [sends : Nat, n : Nat] /\ Sboms!NoCall.n = 0
  BY SbomFields DEF SbomInv, SbomTypes, Sboms!NoCall
<1>1. CASE Sboms!Start
  BY <1>1, SbomStart
<1>2. CASE Sboms!Discover
  BY <1>2, SbomDiscover
<1>3. CASE Sboms!PageFails \/ Sboms!Abort \/ Sboms!Finish \/ Sboms!Kill
  <2>1. /\ listing' = listing /\ file' = file /\ progress' = progress
        /\ Served(Products, Nat)
        /\ \/ run' = [run EXCEPT !.at = "queue", !.whole = FALSE] /\ run.at = "discover"
           \/ run' = [run EXCEPT !.at = "aborted"]
           \/ run' = Sboms!Idle
    BY <1>3, SbomServer
    DEF Sboms!PageFails, Sboms!Abort, Sboms!Finish, Sboms!Kill, Served
  <2>2. run' \in SbomRun
    BY <1>0, <2>1, IdleIsRun DEF SbomRun
  <2>3. call' \in [sends : Nat, n : Nat] /\ call'.n = 0
    BY <1>0, <1>3 DEF Sboms!PageFails, Sboms!Abort, Sboms!Finish, Sboms!Kill, Awaited
  <2>4. QED BY <2>1, <2>2, <2>3, SbomPause
<1>4. CASE Sboms!Queue
  BY <1>4, SbomQueue
<1>5. CASE Sboms!Skip \/ Sboms!Fails \/ Sboms!Upload
  <2>1. /\ Sboms!Ingesting
        /\ \/ /\ \E status \in {"skipped", "failed"} : Sboms!Record(status)
              /\ UNCHANGED serverVars
           \/ /\ call.n # 0 /\ Sboms!Record("completed") /\ Remember(Sboms!Current.key, call.n)
              /\ \E q \in requests : q.key = Sboms!Current.key /\ q.n = call.n /\ Insert(q)
    BY <1>5, SbomServer DEF Sboms!Skip, Sboms!Fails, Sboms!Upload
  <2>2. \A status : status \in {"skipped", "failed"} => status \in Lists /\ status # "completed"
    BY DEF Lists
  <2>3. "completed" \in Lists
    BY DEF Lists
  <2>4. QED BY <2>1, <2>2, <2>3, SbomRecord
<1>6. CASE Sboms!Send
  BY <1>6, SbomSend
<1>7. CASE Sboms!SendInVain \/ Sboms!Cut \/ Sboms!ServerStep \/ UNCHANGED Sboms!vars
  <2>1. Served(Products, Nat) /\ UNCHANGED <<listing, file, progress, run>>
    <3>1. CASE Sboms!ServerStep
      BY <3>1, SbomServer DEF Sboms!ServerStep, Served
    <3>2. CASE ~ Sboms!ServerStep
      BY <1>7, <3>2, SbomServer DEF Sboms!SendInVain, Sboms!Cut, Sboms!vars, Served
    <3>3. QED BY <3>1, <3>2
  <2>2. call' \in [sends : Nat, n : Nat] /\ (call'.n = 0 \/ call' = call)
    <3>1. CASE Sboms!SendInVain
      BY <1>0, <3>1 DEF Sboms!SendInVain
    <3>2. CASE Sboms!Cut
      BY <1>0, <3>2 DEF Sboms!Cut
    <3>3. CASE Sboms!ServerStep \/ UNCHANGED Sboms!vars
      BY <1>0, <3>3 DEF Sboms!ServerStep, Sboms!vars
    <3>4. QED BY <1>7, <3>1, <3>2, <3>3
  <2>3. QED BY <2>1, <2>2, SbomSame
<1>8. CASE Sboms!Create
  BY <1>8, SbomCreate
<1>9. QED BY <1>1, <1>2, <1>3, <1>4, <1>5, <1>6, <1>7, <1>8
          DEF Sboms!Next, Sboms!Ingest, Sboms!Quiet

LEMMA AlwaysSboms == ASSUME Sboms!SbomerAssumption PROVE Sboms!Spec => []SbomInv
<1>1. Sboms!Init => SbomInv
  <2> SUFFICES ASSUME Sboms!Init PROVE SbomInv
    OBVIOUS
  <2> DEFINE n == Len(Initial)
  <2>1. /\ listing = [i \in 1 .. n |-> [id |-> n + 1 - i, key |-> Initial[i]]]
        /\ Sboms!ServerInit(Products) /\ file = Sboms!Empty /\ progress = Sboms!Empty
        /\ run = Sboms!Idle /\ call = [sends |-> 0, n |-> 0]
    BY DEF Sboms!Init, Sboms!NoCall
  <2>2. n \in Nat /\ \A i \in 1 .. n : Initial[i] \in Products
    BY SbomFacts
  <2>3. ASSUME NEW i \in 1 .. n PROVE [id |-> n + 1 - i, key |-> Initial[i]] \in Manifest
    BY <2>2 DEF Manifest
  <2> HIDE DEF n
  <2>4. /\ listing \in Seq(Manifest) /\ Len(listing) = n
        /\ \A i \in 1 .. n : listing[i].id = n + 1 - i
    BY <2>1, <2>2, <2>3
  <2>5. /\ file.list = [k \in Products |-> None] /\ file.id = [k \in Products |-> None]
        /\ file \in [list : [Products -> Lists \cup {None}], id : [Products -> Nat \cup {None}]]
    BY <2>1 DEF Sboms!Empty
  <2>50. ServerInv(Products, Nat)
    BY <2>1, SbomFacts DEF Sboms!ServerInit, ServerInv, ServerTypeOK
  <2>6. SbomTypes
    BY <2>1, <2>4, <2>5, <2>50, IdleIsRun DEF SbomTypes
  <2>7. /\ run.at = "idle" /\ 1 .. Len(run.seen) = {} /\ 1 .. Len(run.todo) = {}
        /\ \A k \in Products : run.start[k] = 0
    BY <2>1 DEF Sboms!Idle
  <2>8. \A k \in Products : file.id[k] = None /\ file.list[k] = None
    BY <2>5
  <2>9. ManifestsKnown
    BY <2>7 DEF ManifestsKnown
  <2>10. Awaited /\ ManifestStored
    BY <2>1, <2>8, SbomFacts DEF Awaited, ManifestStored, Lists
  <2>11. QED BY <2>6, <2>7, <2>9, <2>10 DEF SbomInv, PagesPass
<1>2. SbomInv /\ [Sboms!Next]_(Sboms!vars) => SbomInv'
  BY SbomNext
<1>3. QED BY <1>1, <1>2, PTL DEF Sboms!Spec

\* A product the progress file calls completed is stored, from the manifest the file
\* names, wherever a run was killed (run_discovery), unless another upload of it was in
\* hand beside the recorded one or sent after it.
THEOREM CompletedManifestsAreStored ==
  ASSUME Sboms!SbomerAssumption PROVE Sboms!Spec => []Sboms!CompletedIsStored
<1>1. SbomInv => Sboms!CompletedIsStored
  <2>1. ASSUME SbomInv, NEW k \in Products, file.list[k] = "completed", Undisturbed(k)
        PROVE  \E s \in KeptScans(k) : s.content = file.id[k]
    <3>1. PICK s \in server[k] : Safe(k, history[k].recorded, s) /\ s.content = file.id[k]
      BY <2>1 DEF SbomInv, ManifestStored
    <3>2. QED BY <3>1 DEF Safe, KeptScans
  <2>2. QED BY <2>1, SbomServer DEF Sboms!CompletedIsStored
<1>2. QED BY <1>1, AlwaysSboms, PTL

\* A discovery that read every page queues, of each product it may ingest, a manifest no
\* older than the newest there was when it began, however many were created between its
\* pages (discover_manifests, deduplicate_manifests).
THEOREM NewestAreQueued ==
  ASSUME Sboms!SbomerAssumption PROVE Sboms!Spec => [][Sboms!QueuesTheNewest]_(Sboms!vars)
<1>1. ASSUME SbomInv, [Sboms!Next]_(Sboms!vars) PROVE Sboms!QueuesTheNewest
  <2> SUFFICES ASSUME run.at = "queue", run'.at = "ingest", run.whole,
                      NEW k \in Products, run.start[k] # 0,
                      run.full \/ progress.list[k] # "completed"
               PROVE  \E m \in Sboms!ToSet(run'.todo) : m.key = k /\ m.id >= run.start[k]
    BY DEF Sboms!QueuesTheNewest
  <2>1. Sboms!Queue
    <3>1. run \in SbomRun /\ [run EXCEPT !.at = "aborted"].at = "aborted" /\ Sboms!Idle.at = "idle"
      BY <1>1, SbomFields DEF SbomInv, SbomRun, Sboms!Idle
    <3>2. QED BY <1>1, <3>1 DEF Sboms!Next, Sboms!Start, Sboms!Discover, Sboms!PageFails, Sboms!Abort,
                 Sboms!Ingest, Sboms!Ingesting, Sboms!Skip, Sboms!Send, Sboms!SendInVain,
                 Sboms!Upload, Sboms!Cut, Sboms!Fails, Sboms!Finish, Sboms!Kill,
                 Sboms!ServerStep, Sboms!Create, Sboms!Quiet, Sboms!vars
  <2>2. PICK i \in 1 .. Len(run'.todo) : run'.todo[i].key = k /\ run'.todo[i].id >= run.start[k]
    BY <1>1, <2>1, SbomQueue
  <2>3. DOMAIN run'.todo = 1 .. Len(run'.todo)
    <3>1. SbomInv'
      BY <1>1, SbomNext
    <3>2. run'.todo \in Seq(Manifest)
      BY <3>1 DEF SbomInv, SbomTypes, SbomRun
    <3>3. QED BY <3>2
  <2>4. run'.todo[i] \in Sboms!ToSet(run'.todo)
    BY <2>2, <2>3, SbomCount
  <2>5. QED BY <2>2, <2>4
<1>2. SbomInv /\ [Sboms!Next]_(Sboms!vars) => [Sboms!QueuesTheNewest]_(Sboms!vars)
  BY <1>1
<1>3. QED BY <1>2, AlwaysSboms, PTL DEF Sboms!Spec

=============================================================================
