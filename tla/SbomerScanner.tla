--------------------------- MODULE SbomerScanner ---------------------------
(***************************************************************************)
(* scripts/scan-sbomer.py --discover: the manifests of the SBOMer service  *)
(* are listed newest first, page by page, while new ones are created; one  *)
(* per product:version is kept and ingested, and the progress file says    *)
(* which products are done.  Answers to uploads are lost, and the server   *)
(* goes on with what it was sent when the process is killed.               *)
(***************************************************************************)
EXTENDS ScanServer, Sequences, FiniteSets, SequencesExt

CONSTANTS
  Keys,         \* product:version of the manifests' root purls
  OciKeys,      \* those whose root purl is an OCI reference with qualifiers
  PageSize,     \* page_size
  Attempts,     \* UPLOAD_RETRIES
  Initial,      \* keys of the manifests that exist at first, newest first
  MaxManifests, \* bound: manifests ever created
  MaxRuns,      \* bound: times the scanner is started
  None

SbomerAssumption ==
  /\ PageSize \in Nat \ {0} /\ {Attempts, MaxSends} \subseteq Nat /\ OciKeys \subseteq Keys /\ Initial \in Seq(Keys)
  /\ None \notin Nat \cup {"completed", "failed", "skipped"}

VARIABLES
  listing,  \* the service's manifests, newest first: <<[id, key], ...>>
  file,     \* the progress file: [list, id]
  progress, \* the process's copy of it
  run,      \* the run: [at, full, page, seen, todo, whole, start]; whole: no page failed
  call,     \* the call of upload_to_syfter: [sends, n], n the upload it waits for, or 0
  runs

vars == <<listing, serverVars, file, progress, run, call, runs>>

Empty == [list |-> [k \in Keys |-> None], id |-> [k \in Keys |-> None]]
Idle  == [at |-> "idle", full |-> FALSE, page |-> 0, seen |-> <<>>, todo |-> <<>>,
          whole |-> TRUE, start |-> [k \in Keys |-> 0]]
NoCall == [sends |-> 0, n |-> 0]

Init ==
  /\ listing = [n \in 1..Len(Initial) |-> [id |-> Len(Initial) + 1 - n, key |-> Initial[n]]]
  /\ ServerInit(Keys) /\ file = Empty /\ progress = Empty
  /\ run = Idle /\ call = NoCall /\ runs = 0

\* The newest manifest of a key in a listing, or 0.
Newest(k) ==
  LET ids == {m.id : m \in {x \in ToSet(listing) : x.key = k}}
  IN IF ids = {} THEN 0 ELSE CHOOSE n \in ids : \A i \in ids : i <= n

----------------------------------------------------------------------------
(* Discovery.                                                              *)

\* --retry-failed empties the list of failures and saves that.
Start ==
  /\ run.at = "idle" /\ runs < MaxRuns
  /\ runs' = runs + 1
  /\ \E full \in BOOLEAN :
       run' = [Idle EXCEPT !.at = "discover", !.full = full,
                           !.start = [k \in Keys |-> Newest(k)]]
  /\ \/ progress' = file
     \/ progress' = [file EXCEPT !.list =
                       [k \in Keys |-> IF @[k] = "failed" THEN None ELSE @[k]]]
  /\ file' = progress'
  /\ UNCHANGED <<listing, serverVars, call>>

Page(n) ==
  LET last == IF (n + 1) * PageSize < Len(listing) THEN (n + 1) * PageSize ELSE Len(listing)
  IN SubSeq(listing, n * PageSize + 1, last)

\* A short page is the last one.
Discover ==
  /\ run.at = "discover"
  /\ LET page == Page(run.page) IN
     run' = [run EXCEPT !.seen = @ \o page, !.page = @ + 1,
               !.at = IF Len(page) < PageSize THEN "queue" ELSE @]
  /\ UNCHANGED <<listing, serverVars, file, progress, call, runs>>

\* A page that fails ends the discovery, and the run goes on with what it has.
PageFails ==
  /\ run.at = "discover"
  /\ run' = [run EXCEPT !.at = "queue", !.whole = FALSE]
  /\ UNCHANGED <<listing, serverVars, file, progress, call, runs>>

\* Mutant: the last manifest of a product is kept.
KeepLast(seen) ==
  {n \in DOMAIN seen : \A j \in n + 1..Len(seen) : seen[j].key # seen[n].key}

\* deduplicate_manifests: the first manifest seen of each product:version.
Deduplicate(seen) ==
  {n \in DOMAIN seen : \A j \in 1..n - 1 : seen[j].key # seen[n].key}

\* What was seen at some positions, in their order.
InOrder(seen, kept) ==
  [i \in 1..Cardinality(kept) |->
     seen[CHOOSE n \in kept : Cardinality({j \in kept : j <= n}) = i]]

\* An OCI root purl with qualifiers: derive_product_from_purl treats the parsed
\* qualifiers as a string and raises, outside of any handler.
Abort ==
  /\ run.at = "queue" /\ \E m \in ToSet(run.seen) : m.key \in OciKeys
  /\ run' = [run EXCEPT !.at = "aborted"]
  /\ UNCHANGED <<listing, serverVars, file, progress, call, runs>>

\* Completed products are left out, unless --full.
Wanted(m) == run.full \/ progress.list[m.key] # "completed"

Queue ==
  /\ run.at = "queue" /\ \A m \in ToSet(run.seen) : m.key \notin OciKeys
  /\ LET kept == {n \in Deduplicate(run.seen) : Wanted(run.seen[n])}
     IN  run' = [run EXCEPT !.at = "ingest", !.todo = InOrder(run.seen, kept)]
  /\ UNCHANGED <<listing, serverVars, file, progress, call, runs>>

----------------------------------------------------------------------------
(* The ingestion, one manifest after the other.                            *)

\* The first of what is left to do.
Current == Head(run.todo)
Ingesting == run.at = "ingest" /\ run.todo # <<>>

Record(status) ==
  /\ progress' = [progress EXCEPT !.list[Current.key] = status,
                    !.id[Current.key] = IF status = "completed" THEN Current.id ELSE @]
  /\ file' = progress'
  /\ run' = [run EXCEPT !.todo = Tail(@)] /\ call' = NoCall
  /\ UNCHANGED <<listing, runs>>

\* The manifest is not CycloneDX, or has no packages.
Skip == Ingesting /\ call = NoCall /\ Record("skipped") /\ UNCHANGED serverVars

\* upload_to_syfter with the manifest fetched by its id, as in ContainerScanner.
Send ==
  /\ Ingesting /\ call.n = 0 /\ call.sends < Attempts
  /\ Receive(Current.key, Current.id)
  /\ call' = [sends |-> call.sends + 1, n |-> history[Current.key].n + 1]
  /\ UNCHANGED <<listing, file, progress, run, runs>>

SendInVain ==
  /\ Ingesting /\ call.n = 0 /\ call.sends < Attempts
  /\ call' = [call EXCEPT !.sends = @ + 1]
  /\ UNCHANGED <<listing, serverVars, file, progress, run, runs>>

\* The scan is stored, its request answered 201, and the product recorded as completed.
Upload ==
  /\ Ingesting /\ call.n # 0
  /\ \E q \in requests : q.key = Current.key /\ q.n = call.n /\ Insert(q)
  /\ Remember(Current.key, call.n)
  /\ Record("completed")

Cut ==
  /\ Ingesting /\ call.n # 0 /\ call' = [call EXCEPT !.n = 0]
  /\ UNCHANGED <<listing, serverVars, file, progress, run, runs>>

\* Any step raises, the download, the parsing or the upload.
Fails == Ingesting /\ call.n = 0 /\ Record("failed") /\ UNCHANGED serverVars

Finish ==
  /\ run.at = "ingest" /\ run.todo = <<>>
  /\ run' = Idle
  /\ UNCHANGED <<listing, serverVars, file, progress, call, runs>>

\* The process is killed, between an upload and its record too.
Kill ==
  /\ run.at # "idle"
  /\ run' = Idle /\ call' = NoCall
  /\ UNCHANGED <<listing, serverVars, file, progress, runs>>

\* The server goes on with what it has in hand.
ServerStep ==
  /\ \E q \in requests : Serve(q)
  /\ UNCHANGED <<listing, file, progress, run, call, runs>>

\* SBOMer generates a manifest.
Create ==
  /\ Len(listing) < MaxManifests
  /\ \E k \in Keys : listing' = <<[id |-> Len(listing) + 1, key |-> k]>> \o listing
  /\ UNCHANGED <<serverVars, file, progress, run, call, runs>>

Quiet == run.at = "idle" /\ runs = MaxRuns /\ UNCHANGED vars

Ingest == Skip \/ Send \/ SendInVain \/ Upload \/ Cut \/ Fails

Next == \/ Start \/ Discover \/ PageFails \/ Abort \/ Queue \/ Ingest \/ Finish
        \/ Kill \/ ServerStep \/ Create \/ Quiet

Spec == /\ Init /\ [][Next]_vars
        /\ WF_vars(Discover) /\ WF_vars(Queue \/ Abort) /\ WF_vars(Ingest) /\ WF_vars(Finish)

----------------------------------------------------------------------------
(* Properties.                                                             *)

TypeOK ==
  /\ ServerTypeOK(Keys, 1..MaxManifests)
  /\ call \in [sends : 0..Attempts, n : 0..MaxSends]
  /\ \A n \in 1..Len(listing) : listing[n].id = Len(listing) + 1 - n
  /\ file \in [list : [Keys -> {"completed", "failed", "skipped", None}],
               id : [Keys -> 1..MaxManifests \cup {None}]]
  /\ run.at \in {"idle", "discover", "queue", "ingest", "aborted"}
  /\ \A i, j \in 1..Len(run.todo) : i # j => run.todo[i].key # run.todo[j].key

\* "Keep one manifest per unique product:version": a discovery that read every page
\* queues, of each product it may ingest, a manifest no older than the newest there
\* was when it began, though manifests created meanwhile shift the pages.
QueuesTheNewest ==
  run.at = "queue" /\ run'.at = "ingest" /\ run.whole =>
    \A k \in Keys : run.start[k] # 0 /\ (run.full \/ progress.list[k] # "completed") =>
      \E m \in ToSet(run'.todo) : m.key = k /\ m.id >= run.start[k]

\* A product the file calls completed is stored, from the manifest the file names,
\* unless another upload of it was in hand beside the recorded one or sent after it.
CompletedIsStored ==
  \A k \in Keys : file.list[k] = "completed" /\ Undisturbed(k) =>
    \E s \in KeptScans(k) : s.content = file.id[k]

============================================================================
