-------------------------- MODULE RelationshipSync --------------------------
(***************************************************************************)
(* scripts/manage-relationships.py sync [--prune]: the relationships of a  *)
(* CSV file are created one request at a time, then those of the server    *)
(* that are not in the file are deleted.  Products are added and removed   *)
(* and relationships created by others meanwhile.                          *)
(***************************************************************************)
EXTENDS Naturals, FiniteSets

CONSTANTS
  Pairs,    \* <<parent, component>>, each with its versions
  PageSize, \* the server's default limit for the listing, 100 in the source
  MaxEdits, \* bound: changes made by others
  MaxSyncs  \* bound: times the script is run

VARIABLES
  rows,     \* pairs with a relationship on the server
  missing,  \* pairs one of whose products does not exist
  sync,     \* the script: [at, csv, todo, stale, prune]
  edits, syncs

vars == <<rows, missing, sync, edits, syncs>>

Idle == [at |-> "idle", csv |-> {}, todo |-> {}, stale |-> {}, prune |-> FALSE]

Init == /\ rows \in SUBSET Pairs /\ missing \in SUBSET (Pairs \ rows)
        /\ sync = Idle /\ edits = 0 /\ syncs = 0

Running == sync.at \in {"create", "list", "prune"}

Start ==
  /\ ~Running /\ syncs < MaxSyncs
  /\ \E csv \in SUBSET Pairs \ {{}}, prune \in BOOLEAN :
       sync' = [Idle EXCEPT !.at = "create", !.csv = csv, !.todo = csv, !.prune = prune]
  /\ syncs' = syncs + 1 /\ UNCHANGED <<rows, missing, edits>>

\* 409 means it exists, 404 that a product does not: only the first is told from a
\* relationship that was created.
Create ==
  /\ sync.at = "create"
  /\ \E p \in sync.todo :
       /\ rows' = IF p \in missing THEN rows ELSE rows \cup {p}
       /\ sync' = [sync EXCEPT !.todo = @ \ {p}]
  /\ UNCHANGED <<missing, edits, syncs>>

Created ==
  /\ sync.at = "create" /\ sync.todo = {}
  /\ sync' = [sync EXCEPT !.at = IF sync.prune THEN "list" ELSE "done"]
  /\ UNCHANGED <<rows, missing, edits, syncs>>

\* The listing has no order and the server's default limit.
List ==
  /\ sync.at = "list"
  /\ \E page \in SUBSET rows :
       /\ Cardinality(page) = (IF Cardinality(rows) < PageSize THEN Cardinality(rows) ELSE PageSize)
       /\ sync' = [sync EXCEPT !.at = "prune", !.stale = page \ sync.csv]
  /\ UNCHANGED <<rows, missing, edits, syncs>>

\* DELETE answers 204 without a body; the script decodes it as JSON, which raises.  A
\* relationship that is gone already is a 404, and not an error.
Delete ==
  /\ sync.at = "prune"
  /\ \E p \in sync.stale :
       /\ rows' = rows \ {p}
       /\ sync' = IF p \in rows THEN [sync EXCEPT !.at = "error"]
                  ELSE [sync EXCEPT !.stale = @ \ {p}]
  /\ UNCHANGED <<missing, edits, syncs>>

Pruned ==
  /\ sync.at = "prune" /\ sync.stale = {}
  /\ sync' = [sync EXCEPT !.at = "done"]
  /\ UNCHANGED <<rows, missing, edits, syncs>>

\* Any request may fail for good: the script stops where it is.
Fail == /\ Running /\ sync' = [sync EXCEPT !.at = "error"]
        /\ UNCHANGED <<rows, missing, edits, syncs>>

\* Others create and delete relationships, and products with them.
Edit ==
  /\ edits < MaxEdits /\ edits' = edits + 1
  /\ \E p \in Pairs :
       \/ /\ p \notin missing /\ UNCHANGED missing
          /\ \E new \in {rows \cup {p}, rows \ {p}} : rows' = new
       \/ rows' = rows \ {p} /\ missing' = missing \cup {p}
       \/ missing' = missing \ {p} /\ UNCHANGED rows
  /\ UNCHANGED <<sync, syncs>>

Quiet == ~Running /\ syncs = MaxSyncs /\ UNCHANGED vars

Script == Create \/ Created \/ List \/ Delete \/ Pruned

Next == Start \/ Script \/ Fail \/ Edit \/ Quiet

Spec == Init /\ [][Next]_vars /\ WF_vars(Script)

----------------------------------------------------------------------------
(* Properties.                                                             *)

TypeOK ==
  /\ rows \subseteq Pairs /\ missing \subseteq Pairs /\ rows \cap missing = {}
  /\ sync.at \in {"idle", "create", "list", "prune", "done", "error"}
  /\ sync.todo \subseteq sync.csv /\ sync.stale \subseteq Pairs

\* The script deletes no relationship of its file, whoever else edits meanwhile.
KeepsTheFile ==
  \A p \in Pairs :
    /\ sync.at = "prune" /\ sync'.at \in {"prune", "error"} /\ UNCHANGED edits
    /\ p \in rows /\ p \notin rows'
    => p \notin sync.csv

\* A sync that nobody disturbs ends with every pair of the file whose products exist.
SyncedIfAlone ==
  sync.at = "done" /\ edits = 0 => sync.csv \ missing \subseteq rows

============================================================================
