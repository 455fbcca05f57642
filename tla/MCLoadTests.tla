------------------------------ MODULE MCLoadTests -----------------------------
(* LoadTests on small instances: catalogues around the page sizes 10 and    *)
(* 20 and around the last page the DTO serves, two rush users for one unit, *)
(* two page sizes and two rounds of invalidation, a benchmark of three      *)
(* users, alike, for one unit, with two stalls.                             *)
EXTENDS LoadTests, TLC

CONSTANTS u1, u2, u3

MCSweepLimits == <<10, 20>>
Symmetric == Permutations(User)
MCRushUsers == <<"rush1", "rush2">>
=============================================================================
