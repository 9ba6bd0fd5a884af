-------------------------- MODULE ContainerScanner --------------------------
(***************************************************************************)
(* scripts/scan-containers.py: the main thread reads the progress file,    *)
(* queues the images of the inventory and records what the workers of a    *)
(* thread pool report; a worker gathers an image's SBOM, layers and        *)
(* attestations from the registry and uploads them.  Tags move meanwhile,  *)
(* answers are lost, and the scanner may be killed and started again while *)
(* the server goes on with what it was sent.                               *)
(***************************************************************************)
EXTENDS ScanServer, FiniteSets

CONSTANTS
  Images,   \* image references, each ending in a tag
  KeyOf,    \* product:version of an image reference
  Workers,  \* threads of the pool
  Retries,  \* SCAN_RETRIES
  Attempts, \* UPLOAD_RETRIES
  MaxMoves, \* bound: times a tag moves
  MaxRuns,  \* bound: times the scanner is started
  None

Keys == {KeyOf[i] : i \in Images}
Lists == {"completed", "failed", "skipped"}
Digests == 0..MaxMoves

\* What a worker has of an image, and what an upload holds.
Tasks == [image : Images,
          at : {"inspect", "sbom", "syft", "layers", "attestation", "upload", "wait"},
          digest : Digests \cup {None}, sbom : Digests \cup {None},
          layers : Digests \cup {None}, att : Digests \cup {None}, still : BOOLEAN,
          attempt : 1..Retries, sends : 0..Attempts, n : 0..MaxSends]
Scans == [image : Images, sbom : Digests, layers : Digests \cup {None},
          att : Digests \cup {None}, still : BOOLEAN]

ScannerAssumption ==
  /\ Retries \in Nat \ {0} /\ {Attempts, MaxMoves, MaxRuns, MaxSends} \subseteq Nat
  /\ None \notin Nat \cup Images \cup Lists /\ None \notin Tasks

VARIABLES
  registry,  \* the digest each tag points to, in the order they were pushed
  file,      \* the progress file
  progress,  \* the main thread's copy of it
  main,      \* the main thread: [at, inventory, todo, full]
  queue,     \* images submitted to the pool and not taken yet
  worker,    \* what each thread does, or None
  finished,  \* results of futures the main thread has not recorded
  runs

vars == <<registry, serverVars, file, progress, main, queue, worker, finished, runs>>

Empty == [list |-> [k \in Keys |-> None], digest |-> [k \in Keys |-> None]]
Idle  == [at |-> "idle", inventory |-> {}, todo |-> {}, full |-> FALSE]

Init ==
  /\ registry = [i \in Images |-> 0]
  /\ ServerInit(Keys)
  /\ file = Empty /\ progress = Empty /\ main = Idle
  /\ queue = {} /\ worker = [w \in Workers |-> None]
  /\ finished = {} /\ runs = 0

Completed(k) == progress.list[k] = "completed"

----------------------------------------------------------------------------
(* The main thread.                                                        *)

\* --full, --reset and --retry-failed; a filter or --image narrows the inventory.
\* --retry-failed forgets the failures, and saves that, before anything is scanned.
Start ==
  /\ main.at = "idle" /\ runs < MaxRuns
  /\ runs' = runs + 1
  /\ \E inventory \in SUBSET Images \ {{}}, full \in BOOLEAN :
       main' = [at |-> "build", inventory |-> inventory, todo |-> inventory, full |-> full]
  /\ \/ progress' = file
     \/ progress' = Empty
     \/ progress' = [file EXCEPT !.list =
                       [k \in Keys |-> IF @[k] = "failed" THEN None ELSE @[k]]]
  /\ file' = progress'
  /\ UNCHANGED <<registry, serverVars, queue, worker, finished>>

\* The delta check: a completed image is inspected, which may fail, and its
\* digest compared; whatever the comparison says, the image is not queued.
Enqueue ==
  /\ main.at = "build"
  /\ \E i \in main.todo :
       /\ main' = [main EXCEPT !.todo = @ \ {i}]
       /\ queue' = IF ~main.full /\ Completed(KeyOf[i]) THEN queue ELSE queue \cup {i}
  /\ UNCHANGED <<registry, serverVars, file, progress, worker, finished, runs>>

StartPool ==
  /\ main.at = "build" /\ main.todo = {}
  /\ main' = [main EXCEPT !.at = "scan"]
  /\ UNCHANGED <<registry, serverVars, file, progress, queue, worker, finished, runs>>

\* Mutant: the file is written at the end of the run.
RecordInMemory ==
  /\ \E r \in finished :
       /\ finished' = finished \ {r}
       /\ progress' = [progress EXCEPT !.list[KeyOf[r.image]] = r.status,
                         !.digest[KeyOf[r.image]] =
                            IF r.status = "completed" THEN r.digest ELSE @]
       /\ IF r.status = "completed" THEN Remember(KeyOf[r.image], r.n) ELSE UNCHANGED history
  /\ UNCHANGED <<registry, server, requests, file, main, queue, worker, runs>>

\* _record_result: the key moves to the list of its status, a completed one with
\* the digest its worker saw, and the file is replaced.
Record ==
  /\ \E r \in finished :
       /\ finished' = finished \ {r}
       /\ progress' = [progress EXCEPT !.list[KeyOf[r.image]] = r.status,
                         !.digest[KeyOf[r.image]] =
                            IF r.status = "completed" THEN r.digest ELSE @]
       /\ IF r.status = "completed" THEN Remember(KeyOf[r.image], r.n) ELSE UNCHANGED history
  /\ file' = progress'
  /\ UNCHANGED <<registry, server, requests, main, queue, worker, runs>>

\* as_completed is exhausted.
Finish ==
  /\ main.at = "scan" /\ queue = {} /\ finished = {} /\ \A w \in Workers : worker[w] = None
  /\ main' = Idle
  /\ UNCHANGED <<registry, serverVars, file, progress, queue, worker, finished, runs>>

\* The process is killed: only the file is left, and what the server has in hand.
Kill ==
  /\ main.at # "idle"
  /\ main' = Idle /\ queue' = {} /\ worker' = [w \in Workers |-> None]
  /\ finished' = {}
  /\ UNCHANGED <<registry, serverVars, file, progress, runs>>

----------------------------------------------------------------------------
(* A worker: process_image and scan_container.  A skopeo call that is out  *)
(* of retries has failed, and every caller goes on without its answer.     *)

Step(w, task) ==
  /\ worker' = [worker EXCEPT ![w] = task]
  /\ UNCHANGED <<registry, file, progress, main, runs>>

\* The future is done.
Report(w, status) ==
  /\ finished' = finished \cup
       {[image |-> worker[w].image, status |-> status, digest |-> worker[w].digest,
         n |-> worker[w].n]}
  /\ Step(w, None) /\ UNCHANGED queue

At(w, at) == worker[w] # None /\ worker[w].at = at

Take(w) ==
  /\ main.at = "scan" /\ worker[w] = None
  /\ \E i \in queue :
       /\ queue' = queue \ {i}
       /\ Step(w, [image |-> i, at |-> "inspect", digest |-> None, sbom |-> None,
                   layers |-> None, att |-> None, still |-> TRUE, attempt |-> 1,
                   sends |-> 0, n |-> 0])
  /\ UNCHANGED <<serverVars, finished>>

\* inspect_image: the digest the tag points to now.
Inspect(w) ==
  /\ At(w, "inspect")
  /\ \E digest \in {registry[worker[w].image], None} :
       Step(w, [worker[w] EXCEPT !.digest = digest, !.at = "sbom"])
  /\ UNCHANGED <<serverVars, queue, finished>>

\* download_sbom finds the SBOM published for the digest, or there is none; with
\* --no-download it does not look.
DownloadSbom(w) ==
  /\ At(w, "sbom")
  /\ \/ /\ worker[w].digest # None
        /\ Step(w, [worker[w] EXCEPT !.sbom = worker[w].digest, !.at = "layers"])
     \/ Step(w, [worker[w] EXCEPT !.at = "syft"])
  /\ UNCHANGED <<serverVars, queue, finished>>

\* scan_image_syft pulls by the tag.
ScanImage(w) ==
  /\ At(w, "syft")
  /\ \/ /\ Step(w, [worker[w] EXCEPT !.sbom = registry[worker[w].image], !.at = "layers"])
        /\ UNCHANGED <<serverVars, queue, finished>>
     \/ Report(w, "failed") /\ UNCHANGED serverVars

\* get_layer_chain inspects by the tag; without an answer there are no layers.
LayerChain(w) ==
  /\ At(w, "layers")
  /\ \E layers \in {registry[worker[w].image], None} :
       Step(w, [worker[w] EXCEPT !.layers = layers, !.at = "attestation"])
  /\ UNCHANGED <<serverVars, queue, finished>>

\* download_attestation finds those published for the digest, or none.
Attest(w) ==
  /\ At(w, "attestation")
  /\ \E att \in {worker[w].digest, None} :
       Step(w, [worker[w] EXCEPT !.att = att, !.at = "upload"])
  /\ UNCHANGED <<serverVars, queue, finished>>

\* The index has no packages.
NothingFound(w) ==
  /\ At(w, "upload") /\ worker[w].sends = 0
  /\ Report(w, "skipped") /\ UNCHANGED serverVars

\* An exception in scan_container, a program that is missing or a field that does
\* not parse: the image is scanned again, with the digest inspected first.
Raise(w) ==
  /\ At(w, "layers") \/ (At(w, "upload") /\ worker[w].sends = 0)
  /\ \/ /\ worker[w].attempt < Retries
        /\ Step(w, [worker[w] EXCEPT !.attempt = @ + 1, !.at = "sbom"])
        /\ UNCHANGED <<serverVars, queue, finished>>
     \/ worker[w].attempt = Retries /\ Report(w, "failed") /\ UNCHANGED serverVars

----------------------------------------------------------------------------
(* upload_to_syfter, as far as the server and the result are concerned     *)
(* (ScannerUpload has its health gate and what follows which answer).      *)

Content(task) ==
  [image |-> task.image, sbom |-> task.sbom, layers |-> task.layers,
   att |-> task.att, still |-> task.still]

\* An attempt that reaches the server.
Send(w) ==
  /\ At(w, "upload") /\ worker[w].sends < Attempts
  /\ Receive(KeyOf[worker[w].image], Content(worker[w]))
  /\ Step(w, [worker[w] EXCEPT !.at = "wait", !.sends = @ + 1,
                               !.n = history[KeyOf[worker[w].image]].n + 1])
  /\ UNCHANGED <<queue, finished>>

\* An attempt that does not.
SendInVain(w) ==
  /\ At(w, "upload") /\ worker[w].sends < Attempts
  /\ Step(w, [worker[w] EXCEPT !.sends = @ + 1])
  /\ UNCHANGED <<serverVars, queue, finished>>

Awaits(w, q) ==
  At(w, "wait") /\ KeyOf[worker[w].image] = q.key /\ worker[w].n = q.n

\* Mutant: an upload that failed is reported like one that was answered.
UploadUnanswered(w) ==
  /\ \E q \in requests : Awaits(w, q) /\ (Insert(q) \/ Fail(q))
  /\ UNCHANGED history
  /\ Report(w, "completed")

\* The scan is stored and its request answered 201.
Upload(w) ==
  /\ \E q \in requests : Awaits(w, q) /\ Insert(q)
  /\ UNCHANGED history
  /\ Report(w, "completed")

\* Another answer, or none in time: it does not stop what the server has in hand.
Cut(w) ==
  /\ At(w, "wait") /\ Step(w, [worker[w] EXCEPT !.at = "upload"])
  /\ UNCHANGED <<serverVars, queue, finished>>

\* upload_to_syfter raises: out of attempts, rejected, or the server is not healthy.
GiveUp(w) == At(w, "upload") /\ Report(w, "failed") /\ UNCHANGED serverVars

Work(w) ==
  \/ Take(w) \/ Inspect(w) \/ DownloadSbom(w) \/ ScanImage(w) \/ LayerChain(w)
  \/ Attest(w) \/ NothingFound(w) \/ Raise(w)
  \/ Send(w) \/ SendInVain(w) \/ Upload(w) \/ Cut(w) \/ GiveUp(w)

\* The server goes on with what it has in hand.
ServerStep ==
  /\ \E q \in requests : Serve(q)
  /\ UNCHANGED <<registry, file, progress, main, queue, worker, finished, runs>>

\* A new image is pushed under a tag.
MoveTag ==
  /\ \E i \in Images :
       /\ registry[i] < MaxMoves
       /\ registry' = [registry EXCEPT ![i] = @ + 1]
       /\ worker' = [w \in Workers |->
            IF worker[w] # None /\ worker[w].image = i
            THEN [worker[w] EXCEPT !.still = FALSE] ELSE worker[w]]
  /\ UNCHANGED <<serverVars, file, progress, main, queue, finished, runs>>

\* Nothing is left to do within the bounds.
Quiet == main.at = "idle" /\ runs = MaxRuns /\ UNCHANGED vars

Main == Start \/ Enqueue \/ StartPool \/ Record \/ Finish

Next == Main \/ Kill \/ MoveTag \/ ServerStep \/ Quiet \/ \E w \in Workers : Work(w)

\* The main thread and the threads of the pool go on.
Spec == /\ Init /\ [][Next]_vars
        /\ WF_vars(Enqueue) /\ WF_vars(StartPool) /\ WF_vars(Record) /\ WF_vars(Finish)
        /\ \A w \in Workers : WF_vars(Work(w))

----------------------------------------------------------------------------
(* Properties.                                                             *)

Progress == [list : [Keys -> Lists \cup {None}], digest : [Keys -> Digests \cup {None}]]

\* Every variable keeps its type, and the file is never ahead of the process's copy
\* while it runs (_record_result saves each result).
TypeOK ==
  /\ registry \in [Images -> Digests]
  /\ ServerTypeOK(Keys, Scans)
  /\ file \in Progress /\ progress \in Progress
  /\ main.at \in {"idle", "build", "scan"} /\ main.todo \subseteq main.inventory
  /\ queue \subseteq main.inventory
  /\ \A w \in Workers : worker[w] = None \/ worker[w] \in Tasks
  /\ main.at # "idle" => file = progress

\* A product the progress file calls completed has its scan on the server, whatever
\* was killed or lost on the way, as long as no other upload of it was in hand beside
\* the recorded one or sent after it: one that was may have deleted the scan and failed
\* (a --full run that re-uploads, an attempt the client gave up on).
CompletedIsStored ==
  \A k \in Keys : file.list[k] = "completed" /\ Undisturbed(k) => KeptScans(k) # {}

\* Nor is the digest recorded for it newer than the content of that scan, which the
\* report of --discover-only takes for unchanged while the tag has that digest.
StampNotAhead ==
  \A k \in Keys : file.digest[k] # None /\ Undisturbed(k) =>
    \E s \in KeptScans(k) : file.digest[k] <= s.content.sbom

\* SBOM, layers and attestations of a stored scan are of one image unless its tag
\* moved while it was scanned: they are fetched one after the other, by tag or digest.
OneImageIfStill ==
  \A k \in Keys : \A s \in server[k] : s.content.still =>
    /\ s.content.layers \in {None, s.content.sbom}
    /\ s.content.att \in {None, s.content.sbom}

\* When a run ends every image of its inventory is in one of the lists: no result
\* is lost between the pool and the file.
EveryImageAccounted ==
  main.at = "scan" /\ main'.at = "idle" /\ UNCHANGED <<queue, worker, finished>> =>
    \A i \in main.inventory : file'.list[KeyOf[i]] # None

============================================================================
