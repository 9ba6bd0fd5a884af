-------------------------- MODULE RepodataScanner --------------------------
(***************************************************************************)
(* scripts/scan-repodata.py: the main thread crawls the content mirror for *)
(* repositories, queues those whose Last-Modified differs from the one in  *)
(* the progress file, and records what the workers report; a worker reads  *)
(* a repository's metadata and uploads it.  Repositories are published     *)
(* again meanwhile, the mirror is unreachable at times, answers are lost,  *)
(* and the scanner may be killed while the server goes on with what it was *)
(* sent.                                                                   *)
(***************************************************************************)
EXTENDS ScanServer, FiniteSets

CONSTANTS
  Repos,      \* repositories of the mirror
  KeyOf,      \* path_to_scan_info: product:version of a repository, not always its own
  Workers,    \* threads of the pool
  Retries,    \* SCAN_RETRIES
  Attempts,   \* UPLOAD_RETRIES
  MaxPublish, \* bound: times a repository is published again
  MaxOutages, \* bound: times the mirror is unreachable
  MaxRuns,    \* bound: times the scanner is started
  None

Keys == {KeyOf[r] : r \in Repos}
Lists == {"completed", "failed", "skipped"}
States == 0..MaxPublish

\* What a worker has of a repository, and what an upload holds.
Tasks == [repo : Repos, at : {"reach", "primary", "upload", "wait"},
          primary : States \cup {None}, attempt : 1..Retries, sends : 0..Attempts,
          n : 0..MaxSends]
Scans == [repo : Repos, primary : States]

RepodataAssumption ==
  /\ Retries \in Nat \ {0}
  /\ {Attempts, MaxPublish, MaxOutages, MaxRuns, MaxSends} \subseteq Nat
  /\ None \notin Nat \cup Repos \cup Lists /\ None \notin Tasks

VARIABLES
  mirror,    \* the published state of each repository, its Last-Modified
  reachable, \* whether the mirror answers
  file,      \* the progress file
  progress,  \* the main thread's copy of it
  main,      \* the main thread: [at, todo, full]
  queue,     \* repositories to scan
  worker,    \* what each thread does, or None
  finished,  \* results of futures the main thread has not recorded
  unchanged, \* history: the state in which this run found a repository unchanged
  since,     \* history: repositories published since their last download
  still,     \* history: what each product's last record is of was not published again
             \* between the download and the record
  count      \* runs and outages so far

vars == <<mirror, reachable, serverVars, file, progress, main, queue, worker, finished,
          unchanged, since, still, count>>

Fresh == [list |-> [k \in Keys |-> None], modified |-> [k \in Keys |-> None]]
Idle  == [at |-> "idle", todo |-> {}, full |-> FALSE]
Nowhere == [r \in Repos |-> None]

Init ==
  /\ mirror = [r \in Repos |-> 0] /\ reachable = TRUE
  /\ ServerInit(Keys) /\ file = Fresh /\ progress = Fresh /\ main = Idle
  /\ queue = {} /\ worker = [w \in Workers |-> None] /\ finished = {}
  /\ unchanged = Nowhere /\ since = {} /\ still = [k \in Keys |-> TRUE]
  /\ count = [runs |-> 0, outages |-> 0]

\* get_last_modified: HEAD, then GET, then no answer.
LastModified(r) == IF reachable THEN {mirror[r], None} ELSE {None}

----------------------------------------------------------------------------
(* The main thread.                                                        *)

\* --reset removes the file; --retry-failed empties its list of failures and saves.
Start ==
  /\ main.at = "idle" /\ count.runs < MaxRuns
  /\ count' = [count EXCEPT !.runs = @ + 1]
  /\ \E full \in BOOLEAN : main' = [at |-> "reach", todo |-> {}, full |-> full]
  /\ \/ progress' = file
     \/ progress' = Fresh
     \/ progress' = [file EXCEPT !.list =
                       [k \in Keys |-> IF @[k] = "failed" THEN None ELSE @[k]]]
  /\ file' = progress' /\ unchanged' = Nowhere
  /\ UNCHANGED <<mirror, reachable, serverVars, queue, worker, finished, since, still>>

\* What discover_repos may yield: a directory whose listing fails for good is taken for
\* empty, and with it the repositories below it; --prod-defs leaves some out.
Discovered == SUBSET Repos

\* check_pulp_reachable returns when the mirror answers.
Crawl ==
  /\ main.at = "reach" /\ reachable
  /\ \E found \in Discovered : main' = [main EXCEPT !.at = "build", !.todo = found]
  /\ UNCHANGED <<mirror, reachable, serverVars, file, progress, queue, worker, finished,
                 unchanged, since, still, count>>

\* repo_has_changed: what is not known has changed.
RepoHasChanged(r, now) ==
  progress.modified[KeyOf[r]] = None \/ now = None \/ now # progress.modified[KeyOf[r]]

\* A failed repository waits for --retry-failed or --full; new and skipped ones are
\* scanned, completed ones when they changed.
Enqueue ==
  /\ main.at = "build"
  /\ \E r \in main.todo : \E now \in LastModified(r) :
       LET known == progress.list[KeyOf[r]]
           delta == known = "completed" /\ ~main.full IN
       /\ main' = [main EXCEPT !.todo = @ \ {r}]
       /\ queue' = IF \/ known = "failed" /\ ~main.full
                      \/ delta /\ ~RepoHasChanged(r, now)
                   THEN queue ELSE queue \cup {r}
       /\ unchanged' = IF delta /\ ~RepoHasChanged(r, now)
                       THEN [unchanged EXCEPT ![r] = mirror[r]] ELSE unchanged
  /\ UNCHANGED <<mirror, reachable, serverVars, file, progress, worker, finished, since, still, count>>

StartPool ==
  /\ main.at = "build" /\ main.todo = {}
  /\ main' = [main EXCEPT !.at = "scan"]
  /\ UNCHANGED <<mirror, reachable, serverVars, file, progress, queue, worker, finished,
                 unchanged, since, still, count>>

\* The key moves to the list of its status; for a completed one record_timestamp asks
\* the mirror for the Last-Modified it has now, after the scan.
Record ==
  /\ \E f \in finished : \E now \in LastModified(f.repo) :
       LET k == KeyOf[f.repo]
           done == f.status = "completed" IN
       /\ finished' = finished \ {f}
       /\ progress' = [progress EXCEPT !.list[k] = f.status,
                         !.modified[k] = IF done THEN now ELSE @]
       /\ still' = [still EXCEPT ![k] = IF done THEN f.repo \notin since ELSE @]
       /\ IF done THEN Remember(k, f.n) ELSE UNCHANGED history
  /\ file' = progress'
  /\ UNCHANGED <<mirror, reachable, server, requests, main, queue, worker, unchanged, since, count>>

Finish ==
  /\ main.at = "scan" /\ queue = {} /\ finished = {} /\ \A w \in Workers : worker[w] = None
  /\ main' = Idle
  /\ UNCHANGED <<mirror, reachable, serverVars, file, progress, queue, worker, finished,
                 unchanged, since, still, count>>

\* The process is killed: only the file is left, and what the server has in hand.
Kill ==
  /\ main.at # "idle"
  /\ main' = Idle /\ queue' = {} /\ worker' = [w \in Workers |-> None] /\ finished' = {}
  /\ unchanged' = Nowhere
  /\ UNCHANGED <<mirror, reachable, serverVars, file, progress, since, still, count>>

----------------------------------------------------------------------------
(* A worker: process_repo and scan_repo.                                   *)

At(w, at) == worker[w] # None /\ worker[w].at = at

Step(w, task) ==
  /\ worker' = [worker EXCEPT ![w] = task]
  /\ UNCHANGED <<mirror, reachable, file, progress, main, unchanged, count>>

Report(w, status) ==
  /\ finished' = finished \cup
       {[repo |-> worker[w].repo, status |-> status, n |-> worker[w].n]}
  /\ Step(w, None) /\ UNCHANGED <<queue, since, still>>

Take(w) ==
  /\ main.at = "scan" /\ worker[w] = None
  /\ \E r \in queue :
       /\ queue' = queue \ {r}
       /\ Step(w, [repo |-> r, at |-> "reach", primary |-> None, attempt |-> 1,
                   sends |-> 0, n |-> 0])
  /\ UNCHANGED <<serverVars, finished, since, still>>

\* check_pulp_reachable again, without a limit.
Reach(w) ==
  /\ At(w, "reach") /\ reachable
  /\ Step(w, [worker[w] EXCEPT !.at = "primary"])
  /\ UNCHANGED <<serverVars, queue, finished, since, still>>

\* find_repodata_urls and the download of primary.xml.gz: a listing that fails or has
\* no metadata is skipped, a download that fails is a failure.
Primary(w) ==
  /\ At(w, "primary")
  /\ \/ /\ reachable
        /\ Step(w, [worker[w] EXCEPT !.primary = mirror[worker[w].repo], !.at = "upload"])
        /\ since' = since \ {worker[w].repo}
        /\ UNCHANGED <<serverVars, queue, finished, still>>
     \/ /\ \E status \in {"skipped", "failed"} : Report(w, status)
        /\ UNCHANGED serverVars

NoPackages(w) ==
  /\ At(w, "upload") /\ worker[w].sends = 0
  /\ Report(w, "skipped") /\ UNCHANGED serverVars

\* An exception while the metadata is parsed: scanned again after a pause.
\* filelists.xml.gz is best effort and adds only the files of these packages.
Raise(w) ==
  /\ At(w, "upload") /\ worker[w].sends = 0
  /\ \/ /\ worker[w].attempt < Retries
        /\ Step(w, [worker[w] EXCEPT !.attempt = @ + 1, !.at = "primary"])
        /\ UNCHANGED <<serverVars, queue, finished, since, still>>
     \/ /\ worker[w].attempt = Retries
        /\ Report(w, "failed") /\ UNCHANGED serverVars

\* upload_to_syfter, as in ContainerScanner.
Send(w) ==
  /\ At(w, "upload") /\ worker[w].sends < Attempts
  /\ Receive(KeyOf[worker[w].repo], [repo |-> worker[w].repo, primary |-> worker[w].primary])
  /\ Step(w, [worker[w] EXCEPT !.at = "wait", !.sends = @ + 1,
                               !.n = history[KeyOf[worker[w].repo]].n + 1])
  /\ UNCHANGED <<queue, finished, since, still>>

SendInVain(w) ==
  /\ At(w, "upload") /\ worker[w].sends < Attempts
  /\ Step(w, [worker[w] EXCEPT !.sends = @ + 1])
  /\ UNCHANGED <<serverVars, queue, finished, since, still>>

Awaits(w, q) ==
  At(w, "wait") /\ KeyOf[worker[w].repo] = q.key /\ worker[w].n = q.n

Upload(w) ==
  /\ \E q \in requests : Awaits(w, q) /\ Insert(q)
  /\ UNCHANGED history
  /\ Report(w, "completed")

Cut(w) ==
  /\ At(w, "wait") /\ Step(w, [worker[w] EXCEPT !.at = "upload"])
  /\ UNCHANGED <<serverVars, queue, finished, since, still>>

GiveUp(w) == At(w, "upload") /\ Report(w, "failed") /\ UNCHANGED serverVars

Work(w) == \/ Take(w) \/ Reach(w) \/ Primary(w) \/ NoPackages(w) \/ Raise(w)
           \/ Send(w) \/ SendInVain(w) \/ Upload(w) \/ Cut(w) \/ GiveUp(w)

\* The server goes on with what it has in hand.
ServerStep ==
  /\ \E q \in requests : Serve(q)
  /\ UNCHANGED <<mirror, reachable, file, progress, main, queue, worker, finished,
                 unchanged, since, still, count>>

----------------------------------------------------------------------------
(* The mirror.                                                             *)

Publish ==
  /\ \E r \in Repos :
       /\ mirror[r] < MaxPublish
       /\ mirror' = [mirror EXCEPT ![r] = @ + 1]
       /\ since' = since \cup {r}
  /\ UNCHANGED <<reachable, serverVars, file, progress, main, queue, worker, finished,
                 unchanged, still, count>>

Outage ==
  /\ reachable /\ count.outages < MaxOutages
  /\ reachable' = FALSE /\ count' = [count EXCEPT !.outages = @ + 1]
  /\ UNCHANGED <<mirror, serverVars, file, progress, main, queue, worker, finished, unchanged, since, still>>

Recover ==
  /\ ~reachable /\ reachable' = TRUE
  /\ UNCHANGED <<mirror, serverVars, file, progress, main, queue, worker, finished, unchanged,
                 since, still, count>>

Quiet == main.at = "idle" /\ count.runs = MaxRuns /\ UNCHANGED vars

Next == \/ Start \/ Crawl \/ Enqueue \/ StartPool \/ Record \/ Finish \/ Kill
        \/ ServerStep \/ Publish \/ Outage \/ Recover \/ Quiet
        \/ \E w \in Workers : Work(w)

\* The threads go on, and an outage of the mirror ends.
Spec == /\ Init /\ [][Next]_vars
        /\ WF_vars(Crawl) /\ WF_vars(Enqueue) /\ WF_vars(StartPool) /\ WF_vars(Record)
        /\ WF_vars(Finish) /\ WF_vars(Recover)
        /\ \A w \in Workers : WF_vars(Work(w))

----------------------------------------------------------------------------
(* Properties.                                                             *)

\* Types, and the file holds what the running process has recorded.
TypeOK ==
  /\ mirror \in [Repos -> States] /\ reachable \in BOOLEAN
  /\ ServerTypeOK(Keys, Scans)
  /\ {file, progress} \subseteq [list : [Keys -> Lists \cup {None}],
                                 modified : [Keys -> States \cup {None}]]
  /\ main.at \in {"idle", "reach", "build", "scan"} /\ main.todo \subseteq Repos
  /\ queue \subseteq Repos /\ finished \subseteq [repo : Repos, status : Lists, n : 0..MaxSends]
  /\ \A w \in Workers : worker[w] = None \/ worker[w] \in Tasks
  /\ main.at # "idle" => file = progress

\* A product the progress file calls completed has its scan on the server, unless
\* another upload of it was in hand beside the recorded one or sent after it (a later
\* run of a repository that changed, one with --full, a second repository of the same
\* product, an attempt given up on): that one may have deleted the scan and failed.
CompletedIsStored ==
  \A k \in Keys : file.list[k] = "completed" /\ Undisturbed(k) => KeptScans(k) # {}

\* What a run leaves out as unchanged is stored as the mirror has it, with the same
\* exception, and if it is this repository that the product was last scanned from and
\* it was not published between the download and the record.
UnchangedIfStill ==
  \A r \in Repos : unchanged[r] # None /\ still[KeyOf[r]] /\ Undisturbed(KeyOf[r]) =>
    \E s \in KeptScans(KeyOf[r]) : s.content.repo = r => s.content.primary = unchanged[r]

============================================================================
