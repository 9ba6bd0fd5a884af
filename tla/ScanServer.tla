----------------------------- MODULE ScanServer -----------------------------
(***************************************************************************)
(* The syfter server as the batch scanners meet it: upload_scan of         *)
(* api/scans.py in the steps between which an upload can fail, its client  *)
(* can give up or be killed, and another upload of the product can come.   *)
(* The scan that is replaced is deleted, and the deletion committed,       *)
(* before the files are validated, parsed and stored; and the server goes  *)
(* on with a request whose client is gone.  (ScanLifecycle has the handler *)
(* row by row and commit by commit.)                                       *)
(***************************************************************************)
EXTENDS Naturals

CONSTANT MaxSends \* bound: uploads of a product that reach the server

VARIABLES
  server,   \* the scans of each product: [n, content], n the upload that stored it
  requests, \* uploads the server has in hand: [key, n, content, at]
  history   \* history: per product the uploads sent so far; whether none was in hand
            \* when the last was sent; the upload last recorded as completed

serverVars == <<server, requests, history>>

ServerInit(keys) ==
  /\ server = [k \in keys |-> {}] /\ requests = {}
  /\ history = [k \in keys |-> [n |-> 0, sole |-> TRUE, recorded |-> 0]]

InHand(k) == {q \in requests : q.key = k}

\* The form has arrived; the handler has not looked for the product's scan yet.
Receive(k, content) ==
  /\ history[k].n < MaxSends
  /\ requests' = requests \cup
       {[key |-> k, n |-> history[k].n + 1, content |-> content, at |-> "received"]}
  /\ history' = [history EXCEPT ![k].n = @ + 1, ![k].sole = (InHand(k) = {})]
  /\ UNCHANGED server

\* The first scan found is deleted, rows and all; there may be none, and one that
\* another upload found as well may be gone by now.
DeleteOld(q) ==
  /\ q.at = "received"
  /\ requests' = (requests \ {q}) \cup {[q EXCEPT !.at = "removed"]}
  /\ \/ \E s \in server[q.key] : server' = [server EXCEPT ![q.key] = @ \ {s}]
     \/ /\ server[q.key] = {} \/ \E p \in InHand(q.key) : p.at = "removed"
        /\ UNCHANGED server

\* The scan's row is committed; what fails after this leaves it there.
Insert(q) ==
  /\ q.at = "removed"
  /\ requests' = requests \ {q}
  /\ server' = [server EXCEPT ![q.key] = @ \cup {[n |-> q.n, content |-> q.content]}]

\* The request is refused, rejected, fails or dies with the server: before anything
\* was deleted or after.
Fail(q) == requests' = requests \ {q} /\ UNCHANGED server

\* What the server does of itself, whether or not anyone waits for an answer.
Serve(q) == (DeleteOld(q) \/ Insert(q) \/ Fail(q)) /\ UNCHANGED history

\* The client writes down that upload n of a product was answered.
Remember(k, n) == history' = [history EXCEPT ![k].recorded = n]

\* The upload last recorded as completed is the last that was sent, and no other of its
\* product was in hand when it was: nothing has come for the product since.
Undisturbed(k) == history[k].recorded = history[k].n /\ history[k].sole

\* The scan that the recorded upload stored, if it is there.
KeptScans(k) == {s \in server[k] : s.n = history[k].recorded}

ServerTypeOK(keys, contents) ==
  /\ server \in [keys -> SUBSET [n : 1..MaxSends, content : contents]]
  /\ requests \subseteq [key : keys, n : 1..MaxSends, content : contents,
                         at : {"received", "removed"}]
  /\ history \in [keys -> [n : 0..MaxSends, sole : BOOLEAN, recorded : 0..MaxSends]]

=============================================================================
