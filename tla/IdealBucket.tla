---------------------------- MODULE IdealBucket ----------------------------
(***************************************************************************)
(* What a rate limit promises, with no implementation in it: every bucket  *)
(* has a level that rises steadily up to its brim, an admitted request     *)
(* takes a fixed amount out of it, and a request that finds less than that *)
(* is refused and changes nothing.                                         *)
(***************************************************************************)
EXTENDS Naturals

CONSTANTS
  Buckets,  \* the buckets, each with its own limit
  Cost,     \* what one request takes
  Gain,     \* Gain[b]: what bucket b gains per unit of time
  Brim      \* Brim[b]: what bucket b holds when full

VARIABLE level

Capped(b, x) == IF x > Brim[b] THEN Brim[b] ELSE x

Init == level = Brim

Rise == level' = [b \in Buckets |-> Capped(b, level[b] + Gain[b])]

Admit(b) ==
  /\ level[b] >= Cost
  /\ level' = [level EXCEPT ![b] = @ - Cost]

Next == Rise \/ \E b \in Buckets : Admit(b)

Spec == Init /\ [][Next]_level
============================================================================
