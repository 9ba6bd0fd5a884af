----------------------------- MODULE JobUpload -----------------------------
(***************************************************************************)
(* Storing a scan through an import job: syfter/client.py creates the job, *)
(* uploads its files to presigned URLs, starts it and polls it; the        *)
(* commands system-scan and scan --remote of syfter/cli.py use it.  The    *)
(* job server and the object storage are external; the server of this      *)
(* repository has no job routes.                                           *)
(***************************************************************************)
EXTENDS Naturals, Sequences

CONSTANTS
  Served,   \* whether the server has job routes
  Timeout,  \* polls before wait_for_job gives up, an hour of them in the source
  MaxCommands, \* bound: commands run
  None

JobAssumption ==
  /\ Served \in BOOLEAN /\ Timeout \in Nat /\ MaxCommands \in Nat
  /\ None \notin {"complete"} \cup [status : {"pending", "processing", "complete", "failed",
                                           "cancelled"}, imported : BOOLEAN]

VARIABLES
  cmd,      \* the command: [kind, pc, todo, polls, cut, result]; cut: curl failed
  job,      \* the job on the server, or None: [status, imported]
  objects,  \* files of the job that are in the storage
  run       \* commands run

vars == <<cmd, job, objects, run>>

Init == /\ cmd = [kind |-> None, pc |-> "idle", todo |-> <<>>, polls |-> 0,
                  cut |-> FALSE, result |-> None]
        /\ job = None /\ objects = {} /\ run = 0

\* The command prints what became of it and exits.
Exit(result) ==
  /\ cmd' = [cmd EXCEPT !.pc = "idle", !.result = result]
  /\ UNCHANGED <<objects, run>>

Goto(pc) == cmd' = [cmd EXCEPT !.pc = pc] /\ UNCHANGED <<objects, run>>

----------------------------------------------------------------------------
(* The commands.                                                           *)

Required == {"original_sbom", "modified_sbom", "packages_tsv"}

\* files_tsv is uploaded when there are files.
FileLists == {<<"original_sbom", "modified_sbom", "packages_tsv">>,
              <<"original_sbom", "modified_sbom", "packages_tsv", "files_tsv">>}

Begin(kind, files) ==
  /\ cmd.pc = "idle" /\ run < MaxCommands
  /\ run' = run + 1
  /\ cmd' = [kind |-> kind, pc |-> "create", todo |-> files, polls |-> 0,
             cut |-> FALSE, result |-> None]
  /\ job' = None /\ objects' = {}

\* upload_scan_async, and upload_system_scan_async for system-scan.
BeginUpload == \E kind \in {"product", "system"}, files \in FileLists : Begin(kind, files)

\* scan --remote: the server fetches what it scans.
BeginRemote == Begin("remote", <<>>)

\* The scan itself fails, or --no-store: nothing is sent.
NothingToStore ==
  /\ cmd.pc = "create" /\ cmd.kind = "system"
  /\ \E result \in {"scan failed", "skipped"} : Exit(result) /\ UNCHANGED job

\* A route the server does not have answers 404.
CreateJob ==
  /\ cmd.pc = "create"
  /\ \/ ~Served /\ Exit("not found") /\ UNCHANGED job
     \/ Exit("unreachable") /\ UNCHANGED job
     \/ /\ Served
        /\ job' = [status |-> IF cmd.kind = "remote" THEN "processing" ELSE "pending",
                   imported |-> FALSE]
        /\ Goto(IF cmd.kind = "remote" THEN "poll" ELSE "upload")

\* What a PUT that was answered leaves in the storage, which may have refused it.
Put(cut) ==
  /\ \E stored \in BOOLEAN :
       objects' = IF stored THEN objects \cup {Head(cmd.todo)} ELSE objects
  /\ cmd' = [cmd EXCEPT !.todo = Tail(@), !.cut = @ \/ cut]
  /\ UNCHANGED <<job, run>>

\* curl reports a transport error by its exit code; a storage that refuses the
\* request has answered, and curl exits with 0.
Upload ==
  /\ cmd.pc = "upload" /\ cmd.todo # <<>>
  /\ \/ /\ cmd' = [cmd EXCEPT !.pc = "idle", !.result = "upload failed", !.cut = TRUE]
        /\ UNCHANGED <<job, objects, run>>
     \/ Put(FALSE)

\* A job that was cancelled does not start.
StartJob ==
  /\ cmd.pc = "upload" /\ cmd.todo = <<>>
  /\ IF job.status = "pending"
     THEN \/ job' = [job EXCEPT !.status = "processing"] /\ Goto("poll")
          \/ Exit("error") /\ UNCHANGED job
     ELSE Exit("error") /\ UNCHANGED job

\* wait_for_job: only the status ends it, or the time.
Poll ==
  /\ cmd.pc = "poll"
  /\ \/ Exit("error")
     \/ cmd.polls > Timeout /\ Exit("timed out")
     \/ /\ cmd.polls <= Timeout
        /\ \/ job.status = "complete" /\ Exit("complete")
           \/ job.status = "failed" /\ Exit("job failed")
           \/ /\ job.status \notin {"complete", "failed"}
              /\ cmd' = [cmd EXCEPT !.polls = @ + 1] /\ UNCHANGED <<objects, run>>
  /\ UNCHANGED job

----------------------------------------------------------------------------
(* The job server: a job imports its rows and then completes, or fails; it *)
(* cannot complete without its files.  A pending job may be cancelled.     *)

Import ==
  /\ job # None
  /\ job.status = "processing" /\ ~job.imported
  /\ cmd.kind = "remote" \/ Required \subseteq objects
  /\ job' = [job EXCEPT !.imported = TRUE]
  /\ UNCHANGED <<cmd, objects, run>>

Complete ==
  /\ job # None
  /\ job.status = "processing" /\ job.imported
  /\ job' = [job EXCEPT !.status = "complete"]
  /\ UNCHANGED <<cmd, objects, run>>

Fail ==
  /\ job # None
  /\ job.status = "processing"
  /\ job' = [job EXCEPT !.status = "failed"]
  /\ UNCHANGED <<cmd, objects, run>>

Cancel ==
  /\ job # None
  /\ job.status = "pending"
  /\ job' = [job EXCEPT !.status = "cancelled"]
  /\ UNCHANGED <<cmd, objects, run>>

----------------------------------------------------------------------------

Client == NothingToStore \/ CreateJob \/ Upload \/ StartJob \/ Poll

Quiet == cmd.pc = "idle" /\ run = MaxCommands /\ UNCHANGED vars

Next ==
  \/ BeginUpload \/ BeginRemote \/ Client
  \/ Import \/ Complete \/ Fail \/ Cancel
  \/ Quiet

Spec == Init /\ [][Next]_vars /\ WF_vars(Client)

----------------------------------------------------------------------------
(* Properties.                                                             *)

Results == {None, "scan failed", "skipped", "not found", "unreachable", "upload failed",
            "error", "timed out", "job failed", "complete"}

TypeOK ==
  /\ cmd.pc \in {"idle", "create", "upload", "poll"} /\ cmd.result \in Results
  /\ cmd.polls \in 0 .. Timeout + 1 /\ run \in 0 .. MaxCommands
  /\ job # None => job.status \in {"pending", "processing", "complete", "failed", "cancelled"}

\* A command reports a stored scan only when the job has completed, however the
\* polls interleave with the import and its failures.
CompleteIsStored == cmd.result = "complete" => job.status = "complete"

\* A job whose upload curl could not make never starts.
StartsOnlyUploaded ==
  job # None /\ job.status = "pending" /\ job' # None /\ job'.status = "processing" =>
    ~cmd.cut

============================================================================
