--------------------------- MODULE ScannerUpload ---------------------------
(***************************************************************************)
(* upload_to_syfter and wait_for_healthy_server of                         *)
(* scripts/scanner_common.py: the batch scanners upload through curl, wait *)
(* for the server to be healthy before the first attempt and after a       *)
(* server error, and try again when the answer is lost or says so.  The    *)
(* server goes down and comes up, and goes on with a request whose client  *)
(* has given up on it.                                                     *)
(***************************************************************************)
EXTENDS Naturals, FiniteSets

CONSTANTS
  Uploads,    \* calls of upload_to_syfter, one per worker thread
  Attempts,   \* UPLOAD_RETRIES
  MaxPolls,   \* health polls that fit in HEALTH_CHECK_MAX_WAIT
  MaxOutages, \* bound: times the server goes down
  None

\* What an attempt that is not answered 201 may meet.
Causes == {"timeout", "curl", "server error", "rate limited"}

UploadAssumption ==
  /\ Attempts \in Nat \ {0} /\ MaxPolls \in Nat \ {0} /\ MaxOutages \in Nat
  /\ None \notin Causes \cup {"rejected"}

VARIABLES
  call,    \* the call: [at, attempt, polls, gated, last]; gated: found the server
           \* healthy since the last attempt; last: what the last attempt met
  up,      \* whether the server is healthy
  request, \* requests the server has in hand: <<upload, attempt>>
  stored,  \* attempts whose scan was committed, per upload
  outages

vars == <<call, up, request, stored, outages>>

Init ==
  /\ call = [u \in Uploads |-> [at |-> "gate", attempt |-> 0, polls |-> 0,
                             gated |-> FALSE, last |-> None]]
  /\ up = TRUE /\ request = {} /\ stored = [u \in Uploads |-> {}] /\ outages = 0

Ended(u) == call[u].at \in {"done", "raised", "rejected"}

----------------------------------------------------------------------------
(* wait_for_healthy_server, before the first attempt and after a 5xx.      *)

\* A poll that is answered 200.
Healthy(u) ==
  /\ call[u].at = "gate" /\ up /\ call[u].polls < MaxPolls
  /\ call' = [call EXCEPT ![u].at = "send", ![u].polls = 0, ![u].gated = TRUE]
  /\ UNCHANGED <<up, request, stored, outages>>

\* Mutant: the deadline is not looked at.
GiveUpNever(u) ==
  /\ call[u].at = "gate" /\ call[u].polls = MaxPolls
  /\ call' = [call EXCEPT ![u].polls = 0]
  /\ UNCHANGED <<up, request, stored, outages>>

\* A poll that times out or is answered otherwise; a healthy server may be slow.
Unhealthy(u) ==
  /\ call[u].at = "gate" /\ call[u].polls < MaxPolls
  /\ call' = [call EXCEPT ![u].polls = @ + 1]
  /\ UNCHANGED <<up, request, stored, outages>>

\* The deadline has passed: the upload is aborted.
GiveUp(u) ==
  /\ call[u].at = "gate" /\ call[u].polls = MaxPolls
  /\ call' = [call EXCEPT ![u].at = "raised"]
  /\ UNCHANGED <<up, request, stored, outages>>

----------------------------------------------------------------------------
(* The attempts.                                                           *)

\* curl sends the whole form; a server that is down gets nothing.
Send(u) ==
  /\ call[u].at = "send"
  /\ call' = [call EXCEPT ![u].at = "wait", ![u].attempt = @ + 1, ![u].gated = FALSE]
  /\ request' = IF up THEN request \cup {<<u, call[u].attempt + 1>>} ELSE request
  /\ UNCHANGED <<up, stored, outages>>

\* After the last attempt the last error is raised; a server error is followed by
\* the health check, the other causes only by a pause.
Retry(u, cause) ==
  call' = [call EXCEPT ![u].last = cause,
             ![u].at = IF call[u].attempt = Attempts THEN "raised"
                       ELSE IF cause = "server error" THEN "gate" ELSE "send"]

\* The client's own timeout, or a connection that is refused or reset: it does not
\* stop what the server has in hand.
Cut(u) ==
  /\ call[u].at = "wait"
  /\ \E cause \in {"timeout", "curl"} : Retry(u, cause)
  /\ UNCHANGED <<up, request, stored, outages>>

\* The answer goes to the attempt it answers, or to nobody.
Reply(u, n, reaction) ==
  IF call[u].at = "wait" /\ call[u].attempt = n THEN reaction ELSE UNCHANGED call

Commit(u, n) ==
  /\ <<u, n>> \in request
  /\ request' = request \ {<<u, n>>}
  /\ stored' = [stored EXCEPT ![u] = @ \cup {n}]
  /\ Reply(u, n, call' = [call EXCEPT ![u].at = "done"])
  /\ UNCHANGED <<up, outages>>

\* The scan is stored and the request fails after that (its last step, the tags).
CommitAndFail(u, n) ==
  /\ <<u, n>> \in request
  /\ request' = request \ {<<u, n>>}
  /\ stored' = [stored EXCEPT ![u] = @ \cup {n}]
  /\ Reply(u, n, Retry(u, "server error"))
  /\ UNCHANGED <<up, outages>>

\* 5xx, or 429 from the rate limiter: tried again.
Refuse(u, n) ==
  /\ <<u, n>> \in request
  /\ request' = request \ {<<u, n>>}
  /\ \E cause \in {"server error", "rate limited"} : Reply(u, n, Retry(u, cause))
  /\ UNCHANGED <<up, stored, outages>>

\* Another 4xx is final.
Reject(u, n) ==
  /\ <<u, n>> \in request
  /\ request' = request \ {<<u, n>>}
  /\ Reply(u, n, call' = [call EXCEPT ![u].at = "rejected", ![u].last = "rejected"])
  /\ UNCHANGED <<up, stored, outages>>

\* The server goes down with what it has in hand, and comes back.
Down ==
  /\ up /\ outages < MaxOutages
  /\ up' = FALSE /\ outages' = outages + 1 /\ request' = {}
  /\ UNCHANGED <<call, stored>>

Up == ~up /\ up' = TRUE /\ UNCHANGED <<call, request, stored, outages>>

Quiet == (\A u \in Uploads : Ended(u)) /\ UNCHANGED vars

Client(u) == Healthy(u) \/ Unhealthy(u) \/ GiveUp(u) \/ Send(u) \/ Cut(u)

Answer(u, n) == Commit(u, n) \/ CommitAndFail(u, n) \/ Refuse(u, n) \/ Reject(u, n)

Next == \/ \E u \in Uploads : Client(u) \/ \E n \in 1..Attempts : Answer(u, n)
        \/ Down \/ Up \/ Quiet

\* A client's sleeps and timeouts elapse.
Spec == Init /\ [][Next]_vars /\ \A u \in Uploads : WF_vars(Client(u))

----------------------------------------------------------------------------
(* Properties.                                                             *)

TypeOK ==
  /\ call \in [Uploads -> [at : {"gate", "send", "wait", "done", "raised", "rejected"},
                           attempt : 0..Attempts, polls : 0..MaxPolls, gated : BOOLEAN,
                           last : Causes \cup {None, "rejected"}]]
  /\ up \in BOOLEAN /\ outages \in 0..MaxOutages
  /\ request \subseteq Uploads \X (1..Attempts)
  /\ stored \in [Uploads -> SUBSET (1..Attempts)]

\* An upload that returned is stored, by its last attempt.
DoneIsStored == \A u \in Uploads : call[u].at = "done" => call[u].attempt \in stored[u]

\* An attempt after a server error is sent only to a server found healthy again.
GatedAfterServerError ==
  \A u \in Uploads : call[u].at = "send" /\ call[u].last \in {None, "server error"} => call[u].gated

\* "curl with retry on transient errors" (the docstring): after a rejection nothing
\* is sent again.
RejectedIsFinal ==
  \A u \in Uploads : call[u].last = "rejected" => call'[u].attempt = call[u].attempt

============================================================================
