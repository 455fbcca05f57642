--------------------------- MODULE MCOrderPipeline ---------------------------
(* OrderPipeline on small instances: one buyer who clicks more than once    *)
(* and another who competes for the same units.                             *)
EXTENDS OrderPipeline, TLC

CONSTANTS u1, u2, r1, r2, r4, e1, e2

(* r1 and r2 are clicks of u1, r4 is u2's.                                  *)
MCUserOf == [r \in Request |-> IF r = r4 THEN u2 ELSE u1]

(* With one click each, the buyers are alike: swapping them with their      *)
(* requests changes nothing, nor does swapping the slots.                   *)
SwapBuyers == u1 :> u2 @@ u2 :> u1 @@ r1 :> r4 @@ r4 :> r1
Symmetric == Permutations(Slot) \cup {SwapBuyers}
=============================================================================
