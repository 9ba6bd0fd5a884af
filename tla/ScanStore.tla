----------------------------- MODULE ScanStore -----------------------------
(***************************************************************************)
(* What the local store promises, whatever runs beside it: scans appear    *)
(* whole or not at all, and one step replaces or removes them.             *)
(***************************************************************************)
EXTENDS Naturals

CONSTANTS Names, Sizes, Ids

VARIABLE store  \* scans: the product's name, the scan's id, what was stored

Scans(n) == {s \in store : s.name = n}

\* A scan takes the place of the scan it replaces, if there is one.
Put(n) ==
  \E old \in {{}} \cup {{s} : s \in Scans(n)}, id \in Ids, k \in Sizes :
    /\ \A s \in store : s.id # id
    /\ store' = (store \ old) \cup
         {[name |-> n, id |-> id, declared |-> k, packages |-> k]}

Drop(n) == store' = store \ Scans(n)

DropOne == \E s \in store : store' = store \ {s}

Init == store = {}

Next == DropOne \/ \E n \in Names : Put(n) \/ Drop(n)

Spec == Init /\ [][Next]_store
============================================================================
