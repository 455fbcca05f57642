----------------------------- MODULE OrderProbes ------------------------------
(***************************************************************************)
(* load-test/order-concurrency.js, and the burst of orders-50.js: bursts   *)
(* of identical orders, one user after two products, an order with a       *)
(* quantity, an order repeated after the entry lock expired, and a rush of *)
(* more users than units.  A script sees only answers and remainingStock,  *)
(* and waits for the stock to stop moving before it counts units.  The     *)
(* service is one that keeps the rules of the shop, under either contract  *)
(* the script allows for duplicates, or one that breaks a rule.  The stock *)
(* that is read is the committed one: a page that stays old after a lost   *)
(* bump looks like a worker that is late, and is covered as that only; the *)
(* API's own Redis commands do not fail here (OrderPipeline has those).    *)
(*                                                                         *)
(*   svc = [defect, refuses, strict, stock, orders, locks, jobs, made]     *)
(*   mem = [script, at, before, after, ids, status]; at is phase and step  *)
(*   rig = [lost, late, swift]: requests and readings lost, the stock      *)
(*   moved again after it had seemed settled, the first of two orders for  *)
(*   different products was done before the second arrived                 *)
(***************************************************************************)
EXTENDS LoadTestClient, Integers, Sequences, FiniteSets

CONSTANTS
    Spares,             \* bound: the units the two probe products may have
    RushUnits,          \* bound: the units of the rush
    RushUsers,          \* bound: its users, a sequence
    MaxLost,            \* bound: requests and readings that are lost, in a run
                        \* where the worker is never late
    Unknown             \* a stock that could not be read

A == "probeA"
B == "probeB"
R == "rush"
Product == {A, B, R}
Names == {"burst", "two", "quantity", "delayed"} \cup {RushUsers[n] : n \in DOMAIN RushUsers}
Ids == (Names \X Product) \X Nat

ASSUME OrdersAssumption ==
    /\ Spares \subseteq Int /\ RushUnits \in Nat /\ RushUsers \in Seq(STRING)
    /\ MaxLost \in Nat /\ Unknown \notin Int /\ Unknown \notin Ids

BrokenRules == {"none", "userLock", "noLock", "quantity", "noUnique", "loses", "noGuard"}

MinSpare == 3

(* setup(): the fullest two of the other products have enough units each.   *)
InitOrders ==
    /\ pc = "phases"
    /\ \E defect \in BrokenRules, refuses \in BOOLEAN, strict \in BOOLEAN, a \in Spares, b \in Spares :
          /\ a >= b /\ b >= MinSpare
          /\ svc = [defect |-> defect, refuses |-> refuses, strict |-> strict,
                    stock |-> [p \in Product |-> CASE p = A -> a [] p = B -> b [] p = R -> RushUnits],
                    orders |-> {}, locks |-> {}, jobs |-> {}, made |-> 0]
    /\ mem = [script |-> "orders", at |-> <<1, 1>>,
              before |-> [p \in Product |-> Unknown], after |-> [p \in Product |-> Unknown],
              ids |-> <<>>, status |-> 0]
    /\ fails = {} /\ rig = [lost |-> 0, late |-> FALSE, swift |-> FALSE]

\* ------------------------------------------------------------- the service

lockKey(u, p) == <<u, IF svc.defect = "userLock" THEN A ELSE p>>

(* POST /orders: the status and job id it answers, and what becomes of it.  *)
Locked(u, p) == lockKey(u, p) \in svc.locks /\ svc.defect # "noLock"
JobId(u, p) == <<lockKey(u, p), IF svc.defect = "noLock" THEN svc.made ELSE 0>>
StatusOf(u, p, q) == IF q > 1 /\ svc.strict THEN 400
                     ELSE IF Locked(u, p) /\ svc.refuses THEN 409 ELSE 202
AfterOrder(u, p, q) ==
    IF Locked(u, p) \/ StatusOf(u, p, q) # 202 THEN svc
    ELSE [svc EXCEPT
            !.locks = @ \cup {lockKey(u, p)},
            !.made = IF svc.defect = "noLock" THEN @ + 1 ELSE @,
            !.jobs = IF svc.defect = "loses" THEN @
                     ELSE @ \cup {[id |-> JobId(u, p), user |-> u, product |-> p,
                                   units |-> IF svc.defect = "quantity" THEN q ELSE 1]}]

\* -------------------------------------------------- the script, as its steps

Read(p) == [do |-> "read", user |-> "", product |-> p, units |-> 0]
Order(u, p, q) == [do |-> "order", user |-> u, product |-> p, units |-> q]
Settle(p) == [do |-> "settle", user |-> "", product |-> p, units |-> 0]
Sleep == [do |-> "sleep", user |-> "", product |-> "", units |-> 0]

PhaseA == <<Read(A), Order("burst", A, 1), Order("burst", A, 1), Settle(A)>>
PhaseB == <<Read(A), Read(B), Order("two", A, 1), Order("two", B, 1), Settle(A), Settle(B)>>
PhaseC == <<Read(B), Order("quantity", B, 5), Settle(B)>>
PhaseD == <<Read(A), Order("delayed", A, 1), Settle(A), Sleep, Order("delayed", A, 1), Settle(A)>>
(* setup() has read the rush product, which no other phase touches.         *)
Rush == <<Read(R)>> \o [n \in DOMAIN RushUsers |-> Order(RushUsers[n], R, 1)] \o <<Settle(R)>>

Script == <<PhaseA, PhaseB, PhaseC, PhaseD, Rush>>
Phase == mem.at[1]
Step == mem.at[2]
Instr == Script[Phase][Step]
At(do) == pc = "phases" /\ Step <= Len(Script[Phase]) /\ Instr.do = do

(* stockOf: every reading below zero is reported.                           *)
NegativeStock(p) == Report({flag \in {"stock_negative"} : svc.stock[p] < 0})
LoseOne == rig.lost < MaxLost /\ ~rig.late /\ rig' = [rig EXCEPT !.lost = @ + 1]

ReadStock ==
    LET p == Instr.product IN
    /\ At("read")
    /\ \/ /\ mem' = [mem EXCEPT !.at[2] = @ + 1, !.before[p] = svc.stock[p], !.ids = <<>>]
          /\ NegativeStock(p)
          /\ UNCHANGED rig
       \/ /\ LoseOne
          /\ mem' = [mem EXCEPT !.at[2] = @ + 1, !.before[p] = Unknown, !.ids = <<>>]
          /\ UNCHANGED fails
    /\ UNCHANGED <<pc, svc>>

(* order(), and one of the requests of an http.batch; a request that does   *)
(* not get through leaves no job.                                           *)
SendOrder ==
    LET u == Instr.user  p == Instr.product  q == Instr.units  status == StatusOf(u, p, q) IN
    /\ At("order")
    /\ \/ /\ svc' = AfterOrder(u, p, q)
          /\ mem' = [mem EXCEPT !.at[2] = @ + 1, !.status = status,
                                !.ids = Append(@, IF status = 202 THEN JobId(u, p) ELSE Unknown)]
          /\ UNCHANGED rig
       \/ /\ LoseOne
          /\ mem' = [mem EXCEPT !.at[2] = @ + 1, !.status = 0, !.ids = Append(@, Unknown)]
          /\ UNCHANGED svc
    /\ UNCHANGED <<pc, fails>>

Pending(p) == \E job \in svc.jobs : job.product = p

(* settle(): no movement for QUIET_MS.  A worker that takes longer than     *)
(* that to get to an order is taken for one that has nothing to do.         *)
SettleStock ==
    LET p == Instr.product IN
    /\ At("settle")
    /\ \/ /\ mem' = [mem EXCEPT !.at[2] = @ + 1, !.after[p] = svc.stock[p]]
          /\ NegativeStock(p)
          /\ \/ ~Pending(p) /\ UNCHANGED rig
             \/ Pending(p) /\ rig.lost = 0 /\ rig' = [rig EXCEPT !.late = TRUE]
       \/ /\ ~Pending(p) /\ LoseOne
          /\ mem' = [mem EXCEPT !.at[2] = @ + 1, !.after[p] = Unknown]
          /\ UNCHANGED fails
    /\ UNCHANGED <<pc, svc>>

(* DELAY_SEC outlasts the entry lock.                                       *)
SleepDelay ==
    /\ At("sleep")
    /\ svc' = [svc EXCEPT !.locks = {}]
    /\ mem' = [mem EXCEPT !.at[2] = @ + 1]
    /\ UNCHANGED <<pc, fails, rig>>

\* -------------------------------------------------------------- the worker

(* The worker: one unit, once per user and product, while there is one.     *)
Work ==
    pc = "phases" /\ \E job \in svc.jobs :
       LET key == <<job.user, job.product>>
           sells == /\ key \notin svc.orders \/ svc.defect = "noUnique"
                    /\ svc.stock[job.product] >= job.units \/ svc.defect = "noGuard"
       IN
       /\ svc' = [svc EXCEPT
                    !.jobs = @ \ {job},
                    !.locks = @ \ {lockKey(job.user, job.product)},
                    !.orders = IF sells THEN @ \cup {key} ELSE @,
                    !.stock[job.product] = IF sells THEN @ - job.units ELSE @]
       /\ rig' = [rig EXCEPT !.swift = @ \/ (At("order") /\ Instr.user = job.user
                                              /\ Instr.product # job.product)]
       /\ UNCHANGED <<pc, mem, fails>>

\* ------------------------------------------------------------- the verdicts

Known(p) == mem.before[p] # Unknown /\ mem.after[p] # Unknown
Consumed(p, n) == Known(p) /\ mem.before[p] - mem.after[p] = n
MoreThanOne(p) == Known(p) /\ mem.before[p] - mem.after[p] > 1

(* orders-50.js: every click of a burst got a 202 with one and the same     *)
(* job id.                                                                  *)
allCollapsedToOne == Cardinality({mem.ids[n] : n \in DOMAIN mem.ids}) = 1
                        /\ mem.ids[1] # Unknown

(* Mutant: a replayed answer counts as a second accepted order.             *)
BugJudgeA == {flag \in {"two_accepted_job_ids"} :
    Cardinality({n \in DOMAIN mem.ids : mem.ids[n] # Unknown}) > 1}

JudgeA == {flag \in {"two_accepted_job_ids", "burst_took_more_than_one", "write_lost",
                     "duplicate_lock_violations"} :
    \/ /\ flag = "two_accepted_job_ids"
       /\ Cardinality({mem.ids[n] : n \in DOMAIN mem.ids} \ {Unknown}) > 1
    \/ flag = "burst_took_more_than_one" /\ MoreThanOne(A)
    \/ flag = "write_lost" /\ Consumed(A, 0)
    \/ flag = "duplicate_lock_violations" /\ ~allCollapsedToOne}

JudgeB == {flag \in {"lock_blocks_other_product"} : ~(Consumed(A, 1) /\ Consumed(B, 1))}

JudgeC == {flag \in {"quantity_field_honoured", "write_lost"} :
    /\ mem.status = 400 => ~Consumed(B, 0)
    /\ \/ flag = "quantity_field_honoured" /\ MoreThanOne(B)
       \/ flag = "write_lost" /\ Consumed(B, 0) /\ mem.status = 202}

(* Mutant: three units, not two, are too many.                              *)
BugJudgeD == {flag \in {"delayed_duplicate_accepted"} :
    Known(A) /\ mem.before[A] - mem.after[A] > 2}

JudgeD == {flag \in {"delayed_duplicate_accepted"} : MoreThanOne(A)}

teardown == {flag \in {"oversold"} : Known(R) /\ mem.before[R] - mem.after[R] > mem.before[R]}

Judge ==
    /\ pc = "phases" /\ Step > Len(Script[Phase])
    /\ Report(<<JudgeA, JudgeB, JudgeC, JudgeD, teardown>>[Phase])
    /\ GoTo(IF Phase = Len(Script) THEN "done" ELSE "phases")
    /\ mem' = [mem EXCEPT !.at = <<Phase + 1, 1>>,
                          !.before = [p \in Product |-> Unknown],
                          !.after = [p \in Product |-> Unknown], !.ids = <<>>, !.status = 0]
    /\ UNCHANGED <<svc, rig>>

ScriptStep == ReadStock \/ SendOrder \/ SettleStock \/ SleepDelay \/ Judge
NextOrders == ScriptStep \/ Work

\* ---------------------------------------------------------------- properties

(* The rules whose breaking each flag stands for.                           *)
Breaks(flag) ==
    CASE flag \in {"two_accepted_job_ids", "duplicate_lock_violations"} -> {"noLock"}
      [] flag \in {"burst_took_more_than_one", "delayed_duplicate_accepted"} -> {"noUnique"}
      [] flag = "write_lost" -> {"loses", "quantity"}
      [] flag = "lock_blocks_other_product" -> {"userLock", "loses"}
      [] flag = "quantity_field_honoured" -> {"quantity"}
      [] flag \in {"oversold", "stock_negative"} -> {"noGuard"}

(* What else raises it.  Units are counted only as well as the stock was    *)
(* read and settled; a burst lost entirely looks like a lost write; and     *)
(* orders-50.js ("fires only if ... more than one distinct orderJobId")     *)
(* also counts a click it got no 202 for.                                   *)
MisledBy(flag) ==
    \/ rig.late /\ flag \notin {"two_accepted_job_ids", "duplicate_lock_violations",
                                "oversold", "stock_negative"}
    \/ rig.lost > 0 /\ flag = "lock_blocks_other_product"
    \/ rig.lost > 1 /\ flag = "write_lost"
    \/ (rig.lost > 0 \/ svc.refuses) /\ flag = "duplicate_lock_violations"

(* Whatever the worker interleaves, and under either contract for           *)
(* duplicates, a service is accused of breaking a rule only when it does or *)
(* when the rig misled the script in the way named above: what the script   *)
(* says of a negative or oversold stock and of two job ids is always true.  *)
AccusedOnlyIfGuilty ==
    mem.script = "orders" =>
        \A flag \in fails : svc.defect \in Breaks(flag) \/ MisledBy(flag)

(* The users in the rush, each counted once.                                *)
Crowd == {RushUsers[n] : n \in DOMAIN RushUsers}

(* A broken rule is found when nothing is lost or late -- except where the  *)
(* service gives the script no chance: a body with a quantity is refused, a *)
(* lock on the user is free again before the second order arrives, there is *)
(* no unit left to sell twice in phase D, for which the three units that    *)
(* setup() asks for are one too few, or the rush has no more users than     *)
(* units, which setup() prints and does not compare.                        *)
GuiltyIsAccused ==
    mem.script = "orders" /\ pc = "done" /\ svc.defect # "none" /\ fails = {} =>
        \/ rig.lost > 0 \/ rig.late
        \/ svc.defect = "noGuard" /\ Cardinality(Crowd) <= RushUnits
        \/ svc.defect = "quantity" /\ svc.strict
        \/ svc.defect = "userLock" /\ rig.swift
        \/ svc.defect = "noUnique" /\ svc.stock[A] = 0

OrderJob == [id : Ids, user : Names, product : Product, units : Nat \ {0}]
OrderMemory ==
    [script : {"orders"}, at : Nat \X Nat, before : [Product -> Int \cup {Unknown}],
     after : [Product -> Int \cup {Unknown}], ids : Seq(Ids \cup {Unknown}),
     status : {0, 202, 400, 409}]
OrderService ==
    [defect : BrokenRules, refuses : BOOLEAN, strict : BOOLEAN, stock : [Product -> Int],
     orders : SUBSET (Names \X Product), locks : SUBSET (Names \X Product),
     jobs : SUBSET OrderJob, made : Nat]
OrderTypeOK ==
    /\ pc \in {"phases", "done"}
    /\ svc \in OrderService /\ IsFiniteSet(svc.jobs)
    /\ mem \in OrderMemory /\ rig \in [lost : Nat, late : BOOLEAN, swift : BOOLEAN]
    /\ pc = "phases" => Phase \in 1..5 /\ Step \in 1..(Len(Script[Phase]) + 1)

=============================================================================
