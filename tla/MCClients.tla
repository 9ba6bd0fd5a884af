----------------------------- MODULE MCClients -----------------------------
(***************************************************************************)
(* The programs that talk to a server or stand in for one: the local scan  *)
(* store, the command line's provenance and job uploads, and the scanner   *)
(* scripts, side by side in one state space: the initial state chooses a   *)
(* part, and the variables of the others stay empty.  They run as          *)
(* processes of their own and meet only in the server, which each of them  *)
(* models as far as it sees it.  Variables that have one name have one     *)
(* role.                                                                   *)
(***************************************************************************)
EXTENDS LocalStorage, Sequences, TLC

VARIABLES
  part,
  layersOf, home, mode, pc, todo, chain, previous, found, sources, imageLayers,
  trouble,                                          \* PackageProvenance
  cmd, job, objects,                                \* JobUpload
  up, request, outages,                             \* ScannerUpload
  call,                                             \* and SbomerScanner
  stored,                                           \* and PackageProvenance
  server, requests, history, file, progress,        \* the batch scanners
  main, queue, worker, finished,                    \* ContainerScanner, RepodataScanner
  registry,                                         \* ContainerScanner
  runs,                                             \* and SbomerScanner
  mirror, reachable, unchanged, since, still, count, \* RepodataScanner
  listing,                                          \* SbomerScanner
  run,                                              \* and JobUpload
  rows, missing, sync, edits, syncs                 \* RelationshipSync

provenanceVars == <<layersOf, home, mode, pc, todo, chain, previous, found, sources,
                    imageLayers, trouble>>
jobVars == <<cmd, job, objects>>
uploadVars == <<up, request, outages>>
batchVars == <<server, requests, history, file, progress>>
threadVars == <<main, queue, worker, finished>>
mirrorVars == <<mirror, reachable, unchanged, since, still, count>>
syncVars == <<rows, missing, sync, edits, syncs>>
scannerVars == <<batchVars, threadVars, registry, runs, mirrorVars, listing, run>>
allVars == <<part, vars, provenanceVars, jobVars, uploadVars, call, stored, scannerVars, syncVars>>

----------------------------------------------------------------------------
(* The instances.                                                          *)

\* One command after the other.
OneProcess == INSTANCE LocalStorage WITH Procs <- {"p1"}, MaxCommands <- MaxCommands + 1

\* A base, one built on it, an unrelated one, and one that shares a layer.
Provenance == INSTANCE PackageProvenance WITH
  Bases <- {"ubi", "s2i"}, Target <- "app", Rpms <- {"bash"}, Others <- {"gem"},
  LayerChoices <- {<<1>>, <<1, 2>>, <<4>>, <<1, 4>>}, TargetLayers <- <<1, 2, 3>>,
  NoName <- "unlabelled"

Jobs == INSTANCE JobUpload WITH Served <- TRUE, Timeout <- 3, MaxCommands <- 3

Uploads == INSTANCE ScannerUpload WITH
  Uploads <- {"u1", "u2"}, Attempts <- 2, MaxPolls <- 1, MaxOutages <- 1

\* Two images in two threads, one image in two runs while its tag moves, and one that is
\* scanned again after an exception.
Registry == INSTANCE ContainerScanner WITH
  Images <- {"i1", "i2"}, KeyOf <- [i \in {"i1", "i2"} |-> i], Workers <- {"w1", "w2"},
  Retries <- 1, Attempts <- 1, MaxMoves <- 0, MaxRuns <- 1, MaxSends <- 1
MovingTag == INSTANCE ContainerScanner WITH
  Images <- {"i1"}, KeyOf <- [i \in {"i1"} |-> i], Workers <- {"w1"},
  Retries <- 1, Attempts <- 1, MaxMoves <- 1, MaxRuns <- 2, MaxSends <- 2
ScannedAgain == INSTANCE ContainerScanner WITH
  Images <- {"i1"}, KeyOf <- [i \in {"i1"} |-> i], Workers <- {"w1"},
  Retries <- 2, Attempts <- 2, MaxMoves <- 1, MaxRuns <- 1, MaxSends <- 2

\* Two repositories of one product, whose uploads overlap when one is given up on, and
\* one repository that is published again.
Mirror == INSTANCE RepodataScanner WITH
  Repos <- {"r1", "r2"}, KeyOf <- [r \in {"r1", "r2"} |-> "k"], Workers <- {"w1"},
  Retries <- 1, Attempts <- 1, MaxPublish <- 0, MaxOutages <- 0, MaxRuns <- 2, MaxSends <- 2
PublishedAgain == INSTANCE RepodataScanner WITH
  Repos <- {"r1"}, KeyOf <- [r \in {"r1"} |-> "k"], Workers <- {"w1"},
  Retries <- 2, Attempts <- 1, MaxPublish <- 1, MaxOutages <- 1, MaxRuns <- 2, MaxSends <- 2

Sbomer == INSTANCE SbomerScanner WITH
  Keys <- {"k1", "k2"}, OciKeys <- {"k2"}, PageSize <- 2, Attempts <- 1, MaxSends <- 2,
  Initial <- <<"k1", "k1">>, MaxManifests <- 4, MaxRuns <- 2

\* A page of two, so that the second listing of a prune differs.
Sync == INSTANCE RelationshipSync WITH
  Pairs <- {"a", "b", "c"}, PageSize <- 2, MaxEdits <- 1, MaxSyncs <- 2

ASSUME PartsAssumption ==
  /\ OneProcess!LocalAssumption
  /\ Provenance!ProvenanceAssumption
  /\ Jobs!JobAssumption /\ Uploads!UploadAssumption /\ Sbomer!SbomerAssumption
  /\ Registry!ScannerAssumption /\ MovingTag!ScannerAssumption
  /\ ScannedAgain!ScannerAssumption
  /\ Mirror!RepodataAssumption /\ PublishedAgain!RepodataAssumption

----------------------------------------------------------------------------
(* One part runs.                                                          *)

\* The variables a part uses; no other part touches them.
Uses(p) ==
  CASE p \in {"local", "one process"} -> {"local"}
    [] p = "provenance" -> {"provenance", "stored"}
    [] p = "jobs" -> {"jobs", "run"}
    [] p = "uploads" -> {"uploads", "call", "stored"}
    [] p \in {"registry", "moving tag", "scanned again"} -> {"batch", "threads", "registry", "runs"}
    [] p \in {"mirror", "published again"} -> {"batch", "threads", "mirror"}
    [] p = "sbomer" -> {"batch", "listing", "run", "call", "runs"}
    [] p = "sync" -> {"sync"}

\* The other variables, at first and ever after.
OthersEmpty(p) ==
  /\ "local" \notin Uses(p) =>
       /\ db = Empty /\ draft = None /\ lock = None
       /\ readers = None /\ proc = None /\ started = None
  /\ "provenance" \notin Uses(p) =>
       /\ layersOf = None /\ home = None /\ mode = None /\ pc = None /\ todo = None
       /\ chain = None /\ previous = None /\ found = None /\ sources = None
       /\ imageLayers = None /\ trouble = None
  /\ "jobs" \notin Uses(p) => cmd = None /\ job = None /\ objects = None
  /\ "uploads" \notin Uses(p) => up = None /\ request = None /\ outages = None
  /\ "call" \notin Uses(p) => call = None
  /\ "stored" \notin Uses(p) => stored = None
  /\ "batch" \notin Uses(p) =>
       /\ server = None /\ requests = None /\ history = None
       /\ file = None /\ progress = None
  /\ "threads" \notin Uses(p) => main = None /\ queue = None /\ worker = None /\ finished = None
  /\ "registry" \notin Uses(p) => registry = None
  /\ "runs" \notin Uses(p) => runs = None
  /\ "mirror" \notin Uses(p) =>
       /\ mirror = None /\ reachable = None /\ unchanged = None
       /\ since = None /\ still = None /\ count = None
  /\ "listing" \notin Uses(p) => listing = None
  /\ "run" \notin Uses(p) => run = None
  /\ "sync" \notin Uses(p) =>
       rows = None /\ missing = None /\ sync = None /\ edits = None /\ syncs = None

OthersUnchanged(p) ==
  /\ "local" \notin Uses(p) => UNCHANGED vars
  /\ "provenance" \notin Uses(p) => UNCHANGED provenanceVars
  /\ "jobs" \notin Uses(p) => UNCHANGED jobVars
  /\ "uploads" \notin Uses(p) => UNCHANGED uploadVars
  /\ "call" \notin Uses(p) => UNCHANGED call
  /\ "stored" \notin Uses(p) => UNCHANGED stored
  /\ "batch" \notin Uses(p) => UNCHANGED batchVars
  /\ "threads" \notin Uses(p) => UNCHANGED threadVars
  /\ "registry" \notin Uses(p) => UNCHANGED registry
  /\ "runs" \notin Uses(p) => UNCHANGED runs
  /\ "mirror" \notin Uses(p) => UNCHANGED mirrorVars
  /\ "listing" \notin Uses(p) => UNCHANGED listing
  /\ "run" \notin Uses(p) => UNCHANGED run
  /\ "sync" \notin Uses(p) => UNCHANGED syncVars

Part(p, A) == part = p /\ A /\ UNCHANGED part /\ OthersUnchanged(p)

ClientsInit ==
  /\ \/ part = "local" /\ Init
     \/ part = "one process" /\ OneProcess!Init
     \/ part = "provenance" /\ Provenance!Init
     \/ part = "jobs" /\ Jobs!Init
     \/ part = "uploads" /\ Uploads!Init
     \/ part = "registry" /\ Registry!Init
     \/ part = "moving tag" /\ MovingTag!Init
     \/ part = "scanned again" /\ ScannedAgain!Init
     \/ part = "mirror" /\ Mirror!Init
     \/ part = "published again" /\ PublishedAgain!Init
     \/ part = "sbomer" /\ Sbomer!Init
     \/ part = "sync" /\ Sync!Init
  /\ OthersEmpty(part)

ClientsNext ==
  \/ Part("local", Next)
  \/ Part("one process", OneProcess!Next)
  \/ Part("provenance", Provenance!Next)
  \/ Part("jobs", Jobs!Next)
  \/ Part("uploads", Uploads!Next)
  \/ Part("registry", Registry!Next)
  \/ Part("moving tag", MovingTag!Next)
  \/ Part("scanned again", ScannedAgain!Next)
  \/ Part("mirror", Mirror!Next)
  \/ Part("published again", PublishedAgain!Next)
  \/ Part("sbomer", Sbomer!Next)
  \/ Part("sync", Sync!Next)

\* Fairness for the parts whose end is checked: each thread goes on, which is weaker
\* than what the parts state action by action.  Parts exclude one another, so that one
\* condition serves a thread of each.
ClientsSpec ==
  /\ ClientsInit /\ [][ClientsNext]_allVars
  /\ WF_allVars(\/ Part("moving tag", \/ MovingTag!Enqueue \/ MovingTag!StartPool
                                       \/ MovingTag!Record \/ MovingTag!Finish)
                \/ Part("scanned again", \/ ScannedAgain!Enqueue \/ ScannedAgain!StartPool
                                          \/ ScannedAgain!Record \/ ScannedAgain!Finish)
                \/ Part("published again", \/ PublishedAgain!Crawl \/ PublishedAgain!Enqueue
                                            \/ PublishedAgain!StartPool
                                            \/ PublishedAgain!Record \/ PublishedAgain!Finish)
                \/ Part("sbomer", \/ Sbomer!Discover \/ Sbomer!Queue \/ Sbomer!Abort
                                   \/ Sbomer!Ingest \/ Sbomer!Finish)
                \/ Part("jobs", Jobs!Client)
                \/ Part("sync", Sync!Script)
                \/ Part("uploads", Uploads!Client("u1")))
  /\ WF_allVars(\/ Part("moving tag", MovingTag!Work("w1"))
                \/ Part("scanned again", ScannedAgain!Work("w1"))
                \/ Part("published again", PublishedAgain!Work("w1"))
                \/ Part("uploads", Uploads!Client("u2")))
  /\ WF_allVars(Part("published again", PublishedAgain!Recover))

----------------------------------------------------------------------------
(* Properties.                                                             *)

\* The type invariant of every part that states one.
PartsTypeOK ==
  CASE part = "local" -> TypeOK
    [] part = "jobs" -> Jobs!TypeOK
    [] part = "uploads" -> Uploads!TypeOK
    [] part = "registry" -> Registry!TypeOK
    [] part = "moving tag" -> MovingTag!TypeOK
    [] part = "scanned again" -> ScannedAgain!TypeOK
    [] part = "mirror" -> Mirror!TypeOK
    [] part = "published again" -> PublishedAgain!TypeOK
    [] part = "sbomer" -> Sbomer!TypeOK
    [] part = "sync" -> Sync!TypeOK
    [] OTHER -> TRUE

\* The totals of the local store are its rows, and one process after the other
\* leaves one scan of a product.
LocalScansHold ==
  /\ part \in {"local", "one process"} => TotalsAreRows
  /\ part = "one process" => OneScanPerProduct

\* Packages and layers are put down to images that the scanned one is built on,
\* to the smallest that has the layer, and the two answers agree.
ProvenanceAgrees ==
  part = "provenance" =>
    /\ Provenance!RpmsFromTheirImage /\ Provenance!PackagesAgreeWithLayers
    /\ Provenance!OnlyAncestorsNamed

\* What a program reports or remembers as done is stored on the server, however it
\* was killed, its answers were lost or its job failed, unless another upload of the
\* product was under way beside the recorded one or came after it; what it remembers
\* of the content is then not newer than what was stored; the parts of a stored scan
\* are of one image unless its tag moved meanwhile; and a sync that nobody disturbs
\* ends with what its file names.
RecordedIsStored ==
  CASE part = "jobs" -> Jobs!CompleteIsStored
    [] part = "uploads" -> Uploads!DoneIsStored /\ Uploads!GatedAfterServerError
    [] part = "registry" -> Registry!CompletedIsStored
    [] part = "moving tag" ->
         /\ MovingTag!CompletedIsStored /\ MovingTag!StampNotAhead
         /\ MovingTag!OneImageIfStill
    [] part = "scanned again" ->
         /\ ScannedAgain!CompletedIsStored /\ ScannedAgain!StampNotAhead
         /\ ScannedAgain!OneImageIfStill
    [] part = "mirror" -> Mirror!CompletedIsStored /\ Mirror!UnchangedIfStill
    [] part = "published again" ->
         PublishedAgain!CompletedIsStored /\ PublishedAgain!UnchangedIfStill
    [] part = "sbomer" -> Sbomer!CompletedIsStored
    [] part = "sync" -> Sync!SyncedIfAlone
    [] OTHER -> TRUE

\* No run ends without a record of each image; a discovery queues the newest
\* manifests; no rejected upload is sent again; no job starts after a cut upload;
\* and no sync deletes what its file names.
StepsAreSafe ==
  [][/\ part = "registry" => Registry!EveryImageAccounted
     /\ part = "sbomer" => Sbomer!QueuesTheNewest
     /\ part = "uploads" => Uploads!RejectedIsFinal
     /\ part = "jobs" => Jobs!StartsOnlyUploaded
     /\ part = "sync" => Sync!KeepsTheFile]_allVars

Ended ==
  CASE part \in {"moving tag", "scanned again", "published again"} -> main.at = "idle"
    [] part = "sbomer" -> run.at \in {"idle", "aborted"}
    [] part = "jobs" -> cmd.pc = "idle"
    [] part = "uploads" -> Uploads!Ended("u1") /\ Uploads!Ended("u2")
    [] part = "sync" -> ~Sync!Running
    [] OTHER -> TRUE

\* Every run of a script, every command and every upload ends, whatever the registry,
\* the mirror, the job or the server does.
CommandsEnd == []<>Ended
=============================================================================
