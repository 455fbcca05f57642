------------------------------- MODULE LoadTests ------------------------------
(***************************************************************************)
(* The scripts of load-test/ that judge the system, one per behaviour:     *)
(* each against a service that may lose answers, commit late, or have the  *)
(* defects the script was written to find.  The question is the same for   *)
(* all of them: what does a verdict of this script prove?                  *)
(***************************************************************************)
EXTENDS PageContract, OrderProbes, InvalidationProbe, Benchmark

Init == InitPages \/ InitOrders \/ InitInvalidation \/ InitBench
Next == NextPages \/ NextOrders \/ NextInvalidation \/ NextBench

Spec == Init /\ [][Next]_vars
=============================================================================
