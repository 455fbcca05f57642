---------------------------- MODULE LoadTestClient ----------------------------
(* What the models of the load-test scripts share: a script that walks      *)
(* through its phases against a service, remembers what it read, and        *)
(* reports what it holds against the service under a FAIL_ name.  LoadTests *)
(* puts the scripts together.                                               *)

VARIABLES
    pc,                 \* what the script does next
    svc,                \* the service it runs against
    mem,                \* which script it is, and what it remembers
    fails,              \* the FAIL_ counters that are not zero
    rig                 \* what went wrong outside the service (history)

vars == <<pc, svc, mem, fails, rig>>

Report(names) == fails' = fails \cup names
GoTo(step) == pc' = step
=============================================================================
