------------------------------- MODULE Benchmark ------------------------------
(***************************************************************************)
(* One measured run, as test-3 and test-4 do it: reset the system          *)
(* (reset.sh), load it with one order per user, wait for the queue to      *)
(* drain, prove the integrity of the database (verify.sql) and read the    *)
(* finished jobs out of the queue (measure.js); sweep.sh also restarts the *)
(* worker after the reset.  The jobs of an earlier run may still be under  *)
(* way: the worker is not stopped for the reset.  Instead of a reset the   *)
(* product may be seeded again.  The worker claims pessimistically, the    *)
(* default; a claim may fail at any statement, its commit may be answered  *)
(* to nobody, and a job whose slot stalls is run again, twice at most,     *)
(* while the stalled slot may still be at its claim.                       *)
(*                                                                         *)
(*   svc = [stock, orders, job, recorded, stalled, late]; job[era][u] is   *)
(*   the order of u in the earlier run or in this one, recorded the eras   *)
(*   whose jobs the queue still knows, stalled the jobs that stalled once, *)
(*   late those which a slot they were taken from is still working on      *)
(*   mem = [script, asked, sold, left, completed, failed]: the users of    *)
(*   this run, and what was read at its end                                *)
(*   rig = [overlap, reseeded, gaveUp, unheard, stalls]: a job was under   *)
(*   way at the reset, the stock was seeded over orders, the drain was not *)
(*   waited for; an order was committed by a slot that could not report    *)
(*   it, and how often a slot stalled                                      *)
(***************************************************************************)
EXTENDS LoadTestClient, Integers, FiniteSetsExt

CONSTANTS
    User, Units,
    WorkerConcurrency,
    MaxStalls           \* bound: how often a slot stalls

ASSUME BenchAssumption ==
    IsFiniteSet(User) /\ Units \in Nat /\ WorkerConcurrency \in Nat /\ MaxStalls \in Nat

Era == {"earlier", "this"}
InClaim == {"active", "holding", "inserted", "classify"}
InWorker == InClaim \cup {"committed"}
Unfinished == {"wait"} \cup InWorker
Lost == {"lock timeout", "errored", "stalled"}
Refused == {"OUT_OF_STOCK", "DUPLICATE_ORDER"} \cup Lost
Finished == {"completed"} \cup Refused

InitBench ==
    /\ pc = "reset"
    /\ \E earlier \in [User -> {"none", "wait"}] :
          svc = [stock |-> Units, orders |-> {},
                 job |-> [era \in Era |-> IF era = "this" THEN [u \in User |-> "none"]
                                          ELSE earlier],
                 recorded |-> Era, stalled |-> {}, late |-> {}]
    /\ mem = [script |-> "bench", asked |-> {}, sold |-> 0, left |-> 0, completed |-> 0, failed |-> 0]
    /\ fails = {}
    /\ rig = [overlap |-> FALSE, reseeded |-> FALSE, gaveUp |-> FALSE, unheard |-> FALSE,
              stalls |-> 0]

Jobs(states) == {job \in Era \X User : svc.job[job[1]][job[2]] \in states}
Recorded(states) == {job \in Jobs(states) : job[1] \in svc.recorded}
RowFree == Jobs({"holding", "inserted"}) = {}

\* -------------------------------------------------------------- the worker

Becomes(era, u, state) == [svc EXCEPT !.job[era][u] = state]
WorkerStep == UNCHANGED <<pc, mem, fails, rig>>

(* A job the queue no longer knows cannot be reported as finished.          *)
Outcome(era, state) == IF era \in svc.recorded THEN state ELSE "gone"

PickUp(era, u) ==
    /\ svc.job[era][u] = "wait"
    /\ Cardinality(Jobs(InWorker)) + Cardinality(svc.late) < WorkerConcurrency
    /\ svc' = Becomes(era, u, "active")
    /\ WorkerStep

(* SELECT ... FOR UPDATE, which waits for the row no longer than its        *)
(* timeout, and the decrement.  A late slot may have the row, too.          *)
LockRow(era, u) ==
    /\ svc.job[era][u] = "active"
    /\ \/ RowFree /\ svc' = Becomes(era, u, IF svc.stock > 0 THEN "holding"
                                             ELSE Outcome(era, "OUT_OF_STOCK"))
       \/ (~RowFree \/ svc.late # {})
          /\ svc' = Becomes(era, u, Outcome(era, "lock timeout"))
    /\ WorkerStep

(* The INSERT, which a TRUNCATE waits for from here on; a second order of   *)
(* the user is rolled back and looked up.                                   *)
InsertOrder(era, u) ==
    /\ svc.job[era][u] = "holding"
    /\ svc' = Becomes(era, u, IF u \in svc.orders THEN "classify" ELSE "inserted")
    /\ WorkerStep

(* The other order is this job's: a job is named after its user and product.*)
(* There is none when the table was truncated in the meantime.              *)
ClassifyDuplicate(era, u) ==
    /\ svc.job[era][u] = "classify"
    /\ svc' = Becomes(era, u, Outcome(era, IF u \in svc.orders THEN "completed"
                                                               ELSE "DUPLICATE_ORDER"))
    /\ WorkerStep

(* No connection in the pool, or one that is lost: the transaction is       *)
(* rolled back.                                                             *)
ClaimFails(era, u) ==
    /\ svc.job[era][u] \in InClaim
    /\ svc' = Becomes(era, u, Outcome(era, "errored"))
    /\ WorkerStep

Sell(service, u) == [service EXCEPT !.stock = @ - 1, !.orders = @ \cup {u}]
CommitOrder(era, u) ==
    /\ svc.job[era][u] = "inserted"
    /\ svc' = Sell(Becomes(era, u, "committed"), u)
    /\ WorkerStep

(* The commit is done and its answer lost: the claim fails all the same.    *)
CommitUnheard(era, u) ==
    /\ svc.job[era][u] = "inserted"
    /\ svc' = Sell(Becomes(era, u, Outcome(era, "errored")), u)
    /\ rig' = [rig EXCEPT !.unheard = TRUE]
    /\ UNCHANGED <<pc, mem, fails>>

(* After the bump of the version, which fails no job.                       *)
ReportSale(era, u) ==
    /\ svc.job[era][u] = "committed"
    /\ svc' = Becomes(era, u, Outcome(era, "completed"))
    /\ WorkerStep

(* A slot dies or does not renew its job: BullMQ hands the job out again,   *)
(* once.  A slot that is only late goes on with its claim.                  *)
Stall(era, u) ==
    LET job == <<era, u>> IN
    /\ svc.job[era][u] \in InWorker /\ era \in svc.recorded /\ rig.stalls < MaxStalls
    /\ \E slots \in SUBSET {job} :
          /\ svc.job[era][u] = "committed" => slots = {}
          /\ svc' = [Becomes(era, u, IF job \in svc.stalled THEN "stalled" ELSE "wait") EXCEPT
                        !.stalled = @ \cup {job}, !.late = @ \cup slots]
    /\ rig' = [rig EXCEPT !.stalls = @ + 1,
                          !.unheard = @ \/ svc.job[era][u] = "committed"]
    /\ UNCHANGED <<pc, mem, fails>>

(* What a late slot can still do: sell, to no one's knowledge, or fail.     *)
LateCommit(era, u) ==
    /\ <<era, u>> \in svc.late /\ RowFree /\ svc.stock > 0 /\ u \notin svc.orders
    /\ svc' = Sell([svc EXCEPT !.late = @ \ {<<era, u>>}], u)
    /\ rig' = [rig EXCEPT !.unheard = TRUE]
    /\ UNCHANGED <<pc, mem, fails>>

LateFails(era, u) ==
    /\ <<era, u>> \in svc.late
    /\ svc' = [svc EXCEPT !.late = @ \ {<<era, u>>}]
    /\ WorkerStep

\* ------------------------------------------------------------- the scripts

(* Mutant: the orders of the earlier run stay.                              *)
BugKeepOrders ==
    /\ pc = "reset"
    /\ Jobs({"inserted"}) = {}
    /\ rig' = [rig EXCEPT !.overlap = Jobs(Unfinished) # {} \/ svc.late # {}]
    /\ GoTo("restock")
    /\ UNCHANGED <<svc, mem, fails>>

(* TRUNCATE orders waits for every transaction that wrote to the table.     *)
TruncateOrders ==
    /\ pc = "reset"
    /\ Jobs({"inserted"}) = {}
    /\ svc' = [svc EXCEPT !.orders = {}]
    /\ rig' = [rig EXCEPT !.overlap = Jobs(Unfinished) # {} \/ svc.late # {}]
    /\ GoTo("restock")
    /\ UNCHANGED <<mem, fails>>

RestoreStock ==
    /\ pc = "restock"
    /\ RowFree
    /\ svc' = [svc EXCEPT !.stock = Units]
    /\ GoTo("clear")
    /\ UNCHANGED <<mem, fails, rig>>

(* bull:orders:* and the other keys are deleted: what waits or is finished  *)
(* is gone, what a worker has in hand goes on.                              *)
ClearRedis ==
    /\ pc = "clear"
    /\ svc' = [svc EXCEPT
                  !.recorded = {"this"},
                  !.job["earlier"] = [u \in User |-> IF @[u] \in InWorker THEN @[u] ELSE "gone"]]
    /\ GoTo("restart")
    /\ UNCHANGED <<mem, fails, rig>>

(* sweep.sh gives each configuration a new worker, the others keep theirs.  *)
RestartWorker ==
    /\ pc = "restart"
    /\ \/ svc' = [svc EXCEPT !.job["earlier"] = [u \in User |-> "gone"], !.late = {}]
       \/ UNCHANGED svc
    /\ GoTo("load")
    /\ UNCHANGED <<mem, fails, rig>>

(* seed.ts upserts remainingStock; the orders stay, and so does the queue.  *)
Seed ==
    /\ pc = "reset"
    /\ RowFree
    /\ svc' = [svc EXCEPT !.stock = Units]
    /\ rig' = [rig EXCEPT !.reseeded = TRUE]
    /\ GoTo("load")
    /\ UNCHANGED <<mem, fails>>

(* One order per user, unless its request is lost; add() does nothing when  *)
(* the queue knows a job of this id.                                        *)
Load ==
    pc = "load" /\ \E u \in User \ mem.asked :
       /\ mem' = [mem EXCEPT !.asked = @ \cup {u}]
       /\ \/ <<"earlier", u>> \notin Recorded(Unfinished \cup Finished) /\ svc' = Becomes("this", u, "wait")
          \/ UNCHANGED svc
       /\ UNCHANGED <<pc, fails, rig>>

(* Mutant: jobs that were picked up are not waited for.                     *)
BugDrained == Recorded({"wait"}) = {}

(* LLEN wait + LLEN active.                                                 *)
Drained == Recorded(Unfinished) = {}

(* Polled every other second, ninety times.                                 *)
WaitForDrain ==
    /\ pc = "load" /\ mem.asked = User
    /\ rig' = [rig EXCEPT !.gaveUp = ~Drained]
    /\ GoTo("verify")
    /\ UNCHANGED <<svc, mem, fails>>

(* verify.sql, queries 1, 2 and 4; each is answered from one snapshot.      *)
drift == (Units - svc.stock) - Cardinality(svc.orders)
Verify ==
    /\ pc = "verify"
    /\ mem' = [mem EXCEPT !.left = svc.stock, !.sold = Cardinality(svc.orders)]
    /\ Report({flag \in {"stock_not_zero", "not_all_sold", "drift"} :
                 \/ flag = "stock_not_zero" /\ svc.stock # 0
                 \/ flag = "not_all_sold" /\ Cardinality(svc.orders) # Units
                 \/ flag = "drift" /\ drift # 0})
    /\ GoTo("measure")
    /\ UNCHANGED <<svc, rig>>

(* measure.js: the completed and the failed set of the queue.               *)
Measure ==
    /\ pc = "measure"
    /\ mem' = [mem EXCEPT !.completed = Cardinality(Recorded({"completed"})),
                          !.failed = Cardinality(Recorded(Refused))]
    /\ GoTo("done")
    /\ UNCHANGED <<svc, fails, rig>>

Claim(era, u) ==
    \/ LockRow(era, u) \/ InsertOrder(era, u) \/ ClassifyDuplicate(era, u) \/ ClaimFails(era, u)
    \/ CommitOrder(era, u) \/ CommitUnheard(era, u) \/ ReportSale(era, u)
LateSlot(era, u) == LateCommit(era, u) \/ LateFails(era, u)
RunJob ==
    /\ mem.script = "bench" /\ pc # "done"
    /\ \E era \in Era, u \in User :
          PickUp(era, u) \/ Claim(era, u) \/ Stall(era, u) \/ LateSlot(era, u)
Reset == TruncateOrders \/ RestoreStock \/ ClearRedis \/ RestartWorker
NextBench == RunJob \/ Reset \/ Seed \/ Load \/ WaitForDrain \/ Verify \/ Measure

\* ---------------------------------------------------------------- properties

(* "units sold == units gone from stock": the cross-check of verify.sql     *)
(* fails for no run of a correct worker, drained or not, unless a job was   *)
(* under way during the reset or the product was seeded over its orders --  *)
(* and then it shows orders without a unit, never a unit without an order.  *)
DriftExplained ==
    mem.script = "bench" /\ "drift" \in fails =>
        /\ rig.overlap \/ rig.reseeded
        /\ mem.sold > Units - mem.left

(* What is reported at the end is the run that was loaded.  When nothing    *)
(* was under way at the reset and the queue was seen empty: each job ended  *)
(* one way or the other, the completed jobs have their orders, all of them  *)
(* but where a slot committed and could not report it, and a unit left over *)
(* while someone was refused means that a job was lost to a timeout, to an  *)
(* error or to stalling ("any shortfall is jobs dying, not stock running    *)
(* out").                                                                   *)
RunProven ==
    mem.script = "bench" =>
    LET mine == {u \in User : svc.job["this"][u] # "none"} IN
    pc = "done" /\ ~rig.overlap /\ ~rig.reseeded /\ ~rig.gaveUp =>
        /\ mem.completed + mem.failed = Cardinality(mine)
        /\ mem.completed <= mem.sold /\ (~rig.unheard => mem.completed = mem.sold)
        /\ mem.left > 0 /\ mem.failed > 0 => \E u \in mine : svc.job["this"][u] \in Lost

JobState == {"none", "gone"} \cup Unfinished \cup Finished
BenchService == [stock : Int, orders : SUBSET User, job : [Era -> [User -> JobState]],
                 recorded : {Era, {"this"}}, stalled : SUBSET (Era \X User),
                 late : SUBSET (Era \X User)]
BenchRig == [overlap : BOOLEAN, reseeded : BOOLEAN, gaveUp : BOOLEAN, unheard : BOOLEAN,
             stalls : Nat]

BenchTypeOK ==
    /\ pc \in {"reset", "restock", "clear", "restart", "load", "verify", "measure", "done"}
    /\ svc \in BenchService
    /\ mem \in [script : {"bench"}, asked : SUBSET User, sold : Nat, left : Int,
                completed : Nat, failed : Nat]
    /\ rig \in BenchRig

=============================================================================
