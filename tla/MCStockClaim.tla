---------------------------- MODULE MCStockClaim -----------------------------
(* StockClaim on small instances: three buyers after two units, a fourth    *)
(* who bought before job ids were recorded, and an unknown product.         *)
EXTENDS StockClaim, TLC

CONSTANTS u1, u2, u3, u4, phone, ghost, j1, j2, j3, j4, r1, r2, r3

(* One job per purchase, as createOrder names them; two runs may get the    *)
(* same one.                                                                *)
MCClaim ==
    { [user |-> u1, product |-> phone, job |-> j1],
      [user |-> u2, product |-> phone, job |-> j2],
      [user |-> u3, product |-> phone, job |-> j3],
      [user |-> u4, product |-> phone, job |-> j4],
      [user |-> u2, product |-> ghost, job |-> j2] }

MCLegacy == {<<u4, phone>>}

(* Three units, one of them u4's.                                           *)
MCTotalStock == (phone :> 3) @@ (ghost :> 0)

(* Every worker may have been started with a strategy of its own.           *)
MixedDeployment == [Run -> Strategy]

(* One STOCK_CLAIM_STRATEGY for the service.                                *)
UniformDeployment == {[r \in Run |-> s] : s \in Strategy}

Symmetric == Permutations(Run)
=============================================================================
