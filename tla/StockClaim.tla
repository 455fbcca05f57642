----------------------------- MODULE StockClaim ------------------------------
(***************************************************************************)
(* StockClaimService.claim() at the granularity of its SQL statements: any *)
(* number of claims run at once (the worker's job slots), each under one   *)
(* of the three strategies, against PostgreSQL at READ COMMITTED.          *)
(*                                                                         *)
(* The database is its committed rows (stock, version, orders) and the row *)
(* lock on each product.  What a transaction has written and not committed *)
(* is private to its run (draft, and the order it is about to commit): a   *)
(* rollback is the lock released and the draft forgotten.                  *)
(***************************************************************************)
EXTENDS Integers, FiniteSets

CONSTANTS
    User, Product,
    Catalog,            \* the products that exist; the others are unknown ids
    TotalStock,         \* product |-> units the catalogue started with
    Job,                \* ids of queue jobs
    Legacy,             \* <<user, product>> sold before orders had a job_id
    Run,                \* executions of claim(); a redelivered job runs again
    Claim,              \* the arguments claim() is called with
    Deployment,         \* allowed assignments of a strategy to every run
    MaxAttempts,        \* OPTIMISTIC_MAX_ATTEMPTS
    NoOrder, NullJob, Free

Strategy == {"pessimistic", "optimistic", "atomic"}

LegacyBuyers(p) == {u \in User : <<u, p>> \in Legacy}

ASSUME CatalogAssumption == Catalog \subseteq Product
ASSUME UserAssumption == IsFiniteSet(User)
ASSUME ClaimAssumption == Claim \subseteq [user : User, product : Product, job : Job]
ASSUME DeploymentAssumption == Deployment \subseteq [Run -> Strategy]
ASSUME LegacyAssumption == Legacy \subseteq User \X Catalog
ASSUME TotalStockAssumption ==
    /\ TotalStock \in [Product -> Nat]
    /\ \A p \in Product : Cardinality(LegacyBuyers(p)) <= TotalStock[p]
ASSUME MaxAttemptsAssumption == MaxAttempts \in Nat \ {0}
ASSUME NullAssumption ==
    /\ NoOrder \notin Job \cup {NullJob}
    /\ NullJob \notin Job
    /\ Free \notin Run

VARIABLES
    \* --- PostgreSQL ---
    stock,              \* products.remaining_stock, committed
    version,            \* products.version, committed
    orders,             \* <<user, product>> |-> orders.job_id, or NoOrder
    rowLock,            \* product |-> the run whose transaction locks the row
    \* --- one call of claim() per run ---
    claim, strategy,    \* its arguments and the worker's strategy: never change
    pc,                 \* the next statement, or the verdict it ended with
    attempt,            \* the pass of the optimistic loop
    seen, seenVersion,  \* the product row as this run read it
    draft               \* the remaining_stock its transaction has written

dbVars == <<stock, version, orders>>
runVars == <<attempt, seen, seenVersion, draft>>
vars == <<dbVars, rowLock, claim, strategy, pc, runVars>>

(* "begin": before the first statement of a pass.  "locked": SELECT ... FOR *)
(* UPDATE returned.  "cas": the plain read returned.  "insert" and          *)
(* "commit": those statements are next.  "probe": zero rows, look whether   *)
(* the product exists.  "classify": rolled back on 23505, read the order.   *)
InTransaction == {"locked", "insert", "commit"}
Working == InTransaction \cup {"begin", "cas", "probe", "classify"}

(* "confirmed" is a returned ClaimResult, the others a thrown error;        *)
(* "aborted" is a connection, or a whole worker, that went away.            *)
Verdict == {"confirmed", "replayed", "duplicate", "outOfStock", "notFound",
            "lockTimeout", "exhausted", "aborted"}

product(r) == claim[r].product
key(r) == <<claim[r].user, claim[r].product>>
job(r) == claim[r].job

(* ClaimResult.remainingStock of a confirmed run.                           *)
remainingStock(r) == seen[r] - 1

InitialStock == [p \in Product |-> TotalStock[p] - Cardinality(LegacyBuyers(p))]
InitialOrders == [k \in User \X Product |-> IF k \in Legacy THEN NullJob ELSE NoOrder]

Init ==
    /\ stock = InitialStock
    /\ version = [p \in Product |-> 0]
    /\ orders = InitialOrders
    /\ rowLock = [p \in Product |-> Free]
    /\ claim \in [Run -> Claim]
    /\ strategy \in Deployment
    /\ pc = [r \in Run |-> "begin"]
    /\ attempt = [r \in Run |-> 1]
    /\ seen = [r \in Run |-> 0]
    /\ seenVersion = [r \in Run |-> 0]
    /\ draft = [r \in Run |-> 0]

GoTo(r, to) == pc' = [pc EXCEPT ![r] = to]

LockRow(r) == /\ rowLock[product(r)] = Free
              /\ rowLock' = [rowLock EXCEPT ![product(r)] = r]

ReleaseRow(r) ==
    rowLock' = [p \in Product |-> IF rowLock[p] = r THEN Free ELSE rowLock[p]]

(* Mutant: the read of every pass is one snapshot, as in a transaction that *)
(* wraps the whole loop at REPEATABLE READ.                                 *)
BugReadSnapshot(r) ==
    /\ seen' = [seen EXCEPT ![r] = stock[product(r)]]
    /\ UNCHANGED seenVersion

(* The row is read as it is committed now.                                  *)
ReadProduct(r) ==
    /\ seen' = [seen EXCEPT ![r] = stock[product(r)]]
    /\ seenVersion' = [seenVersion EXCEPT ![r] = version[product(r)]]

\* ------------------------------------------------------------- pessimistic

(* Mutant: the read without its FOR UPDATE.                                 *)
BugSelectUnlocked(r) ==
    /\ pc[r] = "begin" /\ strategy[r] = "pessimistic"
    /\ product(r) \in Catalog
    /\ ReadProduct(r)
    /\ GoTo(r, "locked")
    /\ UNCHANGED <<dbVars, rowLock, claim, strategy, attempt, draft>>

(* SELECT ... FOR UPDATE waits for the row's holder, then reads what that   *)
(* holder committed.                                                        *)
SelectForUpdate(r) ==
    /\ pc[r] = "begin" /\ strategy[r] = "pessimistic"
    /\ product(r) \in Catalog
    /\ LockRow(r)
    /\ ReadProduct(r)
    /\ GoTo(r, "locked")
    /\ UNCHANGED <<dbVars, claim, strategy, attempt, draft>>

(* The decrement is computed in the worker and written as an absolute value.*)
UpdateLocked(r) ==
    /\ pc[r] = "locked" /\ seen[r] > 0
    /\ draft' = [draft EXCEPT ![r] = seen[r] - 1]
    /\ GoTo(r, "insert")
    /\ UNCHANGED <<dbVars, rowLock, claim, strategy, attempt, seen, seenVersion>>

RefuseLocked(r) ==
    /\ pc[r] = "locked" /\ seen[r] <= 0
    /\ ReleaseRow(r)
    /\ GoTo(r, "outOfStock")
    /\ UNCHANGED <<dbVars, claim, strategy, runVars>>

(* Both strategies that read first throw ProductNotFoundError when the read *)
(* finds no row; there is no row to wait for.                               *)
ProductMissing(r) ==
    /\ pc[r] = "begin" /\ strategy[r] \in {"pessimistic", "optimistic"}
    /\ product(r) \notin Catalog
    /\ GoTo(r, "notFound")
    /\ UNCHANGED <<dbVars, rowLock, claim, strategy, runVars>>

\* -------------------------------------------------------------- optimistic

(* Mutant: the pass goes on with a stock it has read to be empty.           *)
BugReadUnchecked(r) ==
    /\ pc[r] = "begin" /\ strategy[r] = "optimistic"
    /\ product(r) \in Catalog
    /\ ReadProduct(r)
    /\ GoTo(r, "cas")
    /\ UNCHANGED <<dbVars, rowLock, claim, strategy, attempt, draft>>

(* A plain read: it waits for nobody.                                       *)
PlainRead(r) ==
    /\ pc[r] = "begin" /\ strategy[r] = "optimistic"
    /\ product(r) \in Catalog
    /\ ReadProduct(r)
    /\ GoTo(r, IF stock[product(r)] <= 0 THEN "outOfStock" ELSE "cas")
    /\ UNCHANGED <<dbVars, rowLock, claim, strategy, attempt, draft>>

(* Mutant: WHERE remaining_stock > 0 alone.                                 *)
BugVersionIgnored(r) == stock[product(r)] > 0

VersionMatches(r) == /\ version[product(r)] = seenVersion[r]
                     /\ stock[product(r)] > 0

(* UPDATE ... WHERE version = :version AND remaining_stock > 0.  A row that *)
(* matches is waited for and matched again; the decrement is relative to    *)
(* the row as it is then.                                                   *)
CasWon(r) ==
    /\ pc[r] = "cas" /\ VersionMatches(r)
    /\ LockRow(r)
    /\ draft' = [draft EXCEPT ![r] = stock[product(r)] - 1]
    /\ GoTo(r, "insert")
    /\ UNCHANGED <<dbVars, claim, strategy, attempt, seen, seenVersion>>

(* Mutant: one pass too many.                                               *)
BugOnePassMore(r) ==
    /\ pc[r] = "cas" /\ ~VersionMatches(r)
    /\ attempt[r] <= MaxAttempts
    /\ attempt' = [attempt EXCEPT ![r] = @ + 1]
    /\ GoTo(r, "begin")
    /\ UNCHANGED <<dbVars, rowLock, claim, strategy, seen, seenVersion, draft>>

(* Zero rows matched: an empty transaction commits and the loop goes on, or *)
(* gives up after the last pass.                                            *)
CasLost(r) ==
    /\ pc[r] = "cas" /\ ~VersionMatches(r)
    /\ \/ /\ attempt[r] < MaxAttempts
          /\ attempt' = [attempt EXCEPT ![r] = @ + 1]
          /\ GoTo(r, "begin")
       \/ /\ attempt[r] = MaxAttempts
          /\ GoTo(r, "exhausted")
          /\ UNCHANGED attempt
    /\ UNCHANGED <<dbVars, rowLock, claim, strategy, seen, seenVersion, draft>>

\* ------------------------------------------------------------------ atomic

(* Mutant: the UPDATE without AND remaining_stock > 0.                      *)
BugUpdateUnguarded(r) ==
    /\ pc[r] = "begin" /\ strategy[r] = "atomic"
    /\ product(r) \in Catalog
    /\ LockRow(r)
    /\ ReadProduct(r)
    /\ draft' = [draft EXCEPT ![r] = stock[product(r)] - 1]
    /\ GoTo(r, "insert")
    /\ UNCHANGED <<dbVars, claim, strategy, attempt>>

(* The UPDATE half of the CTE: RETURNING gives the decremented value.       *)
UpdateReturning(r) ==
    /\ pc[r] = "begin" /\ strategy[r] = "atomic"
    /\ product(r) \in Catalog /\ stock[product(r)] > 0
    /\ LockRow(r)
    /\ ReadProduct(r)
    /\ draft' = [draft EXCEPT ![r] = stock[product(r)] - 1]
    /\ GoTo(r, "insert")
    /\ UNCHANGED <<dbVars, claim, strategy, attempt>>

(* The UPDATE matched nothing, so the INSERT wrote nothing: zero rows.      *)
NothingClaimed(r) ==
    /\ pc[r] = "begin" /\ strategy[r] = "atomic"
    /\ product(r) \notin Catalog \/ stock[product(r)] <= 0
    /\ GoTo(r, "probe")
    /\ UNCHANGED <<dbVars, rowLock, claim, strategy, runVars>>

(* SELECT 1 FROM products: tell "sold out" from "no such product".          *)
ProbeProduct(r) ==
    /\ pc[r] = "probe"
    /\ GoTo(r, IF product(r) \in Catalog THEN "outOfStock" ELSE "notFound")
    /\ UNCHANGED <<dbVars, rowLock, claim, strategy, runVars>>

\* --------------------------------------------- the tail all three share

(* Mutant: orders without the unique constraint.                            *)
BugInsertNotUnique(r) ==
    /\ pc[r] = "insert"
    /\ GoTo(r, "commit")
    /\ UNCHANGED <<dbVars, rowLock, claim, strategy, runVars>>

(* No other transaction has an uncommitted order with this key: it would    *)
(* hold the product's row.                                                  *)
InsertOrder(r) ==
    /\ pc[r] = "insert" /\ orders[key(r)] = NoOrder
    /\ GoTo(r, "commit")
    /\ UNCHANGED <<dbVars, rowLock, claim, strategy, runVars>>

(* Mutant: the 23505 is handled inside the transaction, which then commits. *)
BugDecrementKept(r) ==
    /\ pc[r] = "insert" /\ orders[key(r)] # NoOrder
    /\ stock' = [stock EXCEPT ![product(r)] = draft[r]]
    /\ ReleaseRow(r)
    /\ GoTo(r, "classify")
    /\ UNCHANGED <<version, orders, claim, strategy, runVars>>

(* Mutant: the failed transaction is left open, holding the row.            *)
BugNoRollback(r) ==
    /\ pc[r] = "insert" /\ orders[key(r)] # NoOrder
    /\ GoTo(r, "classify")
    /\ UNCHANGED <<dbVars, rowLock, claim, strategy, runVars>>

(* 23505 on (user_id, product_id): the decrement rolls back with the order. *)
UniqueViolation(r) ==
    /\ pc[r] = "insert" /\ orders[key(r)] # NoOrder
    /\ ReleaseRow(r)
    /\ GoTo(r, "classify")
    /\ UNCHANGED <<dbVars, claim, strategy, runVars>>

(* Mutant: any existing order counts as this job's.                         *)
BugAnyOrderIsMine(r) ==
    /\ pc[r] = "classify"
    /\ GoTo(r, "replayed")
    /\ UNCHANGED <<dbVars, rowLock, claim, strategy, runVars>>

(* Mutant: a replay returns a ClaimResult instead of throwing.              *)
BugReplayConfirms(r) ==
    /\ pc[r] = "classify"
    /\ GoTo(r, IF orders[key(r)] = job(r) THEN "confirmed" ELSE "duplicate")
    /\ UNCHANGED <<dbVars, rowLock, claim, strategy, runVars>>

(* On a connection of its own, after the rollback.                          *)
ClassifyUniqueViolation(r) ==
    /\ pc[r] = "classify"
    /\ GoTo(r, IF orders[key(r)] = job(r) THEN "replayed" ELSE "duplicate")
    /\ UNCHANGED <<dbVars, rowLock, claim, strategy, runVars>>

CommitAnswered(r, answer) ==
    /\ pc[r] = "commit"
    /\ stock' = [stock EXCEPT ![product(r)] = draft[r]]
    /\ version' = [version EXCEPT ![product(r)] =
                      IF strategy[r] = "optimistic" THEN @ + 1 ELSE @]
    /\ orders' = [orders EXCEPT ![key(r)] = job(r)]
    /\ ReleaseRow(r)
    /\ GoTo(r, answer)
    /\ UNCHANGED <<claim, strategy, runVars>>

Commit(r) == CommitAnswered(r, "confirmed")

\* ---------------------------------------------------------------- failures

(* The commit reached the database and its answer never reached the worker. *)
CommitUnacknowledged(r) == CommitAnswered(r, "aborted")

(* The connection or the worker dies: PostgreSQL rolls the transaction back.*)
ConnectionLost(r) ==
    /\ pc[r] \in Working
    /\ ReleaseRow(r)
    /\ GoTo(r, "aborted")
    /\ UNCHANGED <<dbVars, claim, strategy, runVars>>

(* SET LOCAL lock_timeout covers the two strategies that open a transaction *)
(* themselves; the atomic statement runs without one and keeps waiting.     *)
LockTimeout(r) ==
    /\ \/ pc[r] = "begin" /\ strategy[r] = "pessimistic"
       \/ pc[r] = "cas" /\ VersionMatches(r)
    /\ rowLock[product(r)] # Free
    /\ GoTo(r, "lockTimeout")
    /\ UNCHANGED <<dbVars, rowLock, claim, strategy, runVars>>

\* ----------------------------------------------------------- specification

Pessimistic(r) == SelectForUpdate(r) \/ UpdateLocked(r) \/ RefuseLocked(r)
Optimistic(r) == PlainRead(r) \/ CasWon(r) \/ CasLost(r)
Atomic(r) == UpdateReturning(r) \/ NothingClaimed(r) \/ ProbeProduct(r)
Tail(r) == InsertOrder(r) \/ UniqueViolation(r) \/ ClassifyUniqueViolation(r) \/ Commit(r)
Failure(r) == CommitUnacknowledged(r) \/ ConnectionLost(r) \/ LockTimeout(r)

(* The statements of claim() itself, without the failures.                  *)
Statement(r) ==
    ProductMissing(r) \/ Pessimistic(r) \/ Optimistic(r) \/ Atomic(r) \/ Tail(r)

Answered == \A r \in Run : pc[r] \in Verdict

(* Every call has been answered.                                            *)
Quiescent == Answered /\ UNCHANGED vars

Next == (\E r \in Run : Statement(r) \/ Failure(r)) \/ Quiescent

Spec == Init /\ [][Next]_vars

(* A started statement ends: the driver and the database keep running.      *)
(* Nothing makes a failure happen.                                          *)
FairSpec == Spec /\ \A r \in Run : WF_vars(Statement(r))

\* -------------------------------------------------------------- properties

TypeOK ==
    /\ stock \in [Product -> Int]
    /\ version \in [Product -> Nat]
    /\ orders \in [User \X Product -> Job \cup {NullJob, NoOrder}]
    /\ rowLock \in [Product -> Run \cup {Free}]
    /\ claim \in [Run -> Claim]
    /\ strategy \in [Run -> Strategy]
    /\ pc \in [Run -> Working \cup Verdict]
    /\ attempt \in [Run -> 1..MaxAttempts]
    /\ seen \in [Run -> Int]
    /\ seenVersion \in [Run -> Nat]
    /\ draft \in [Run -> Int]

Buyers(p) == {u \in User : orders[<<u, p>>] # NoOrder}

(* verify.sql check 4, at every instant and not only once the queue has     *)
(* drained: units gone from stock = orders recorded, whatever rolled back,  *)
(* was replayed or was refused.                                             *)
StockConserved == \A p \in Product : stock[p] + Cardinality(Buyers(p)) = TotalStock[p]

(* verify.sql check 1 and the bonus check: no claim of any strategy sells a *)
(* unit that is not there, in whatever order the statements interleave.     *)
NoOversell == \A p \in Product : stock[p] >= 0

(* No lost update: while a transaction of the service has the row, nobody   *)
(* else has it, the committed row is still the one the transaction started  *)
(* from, and what it will write is one unit less.                           *)
RowLockDiscipline ==
    \A r \in Run : pc[r] \in InTransaction =>
        /\ rowLock[product(r)] = r
        /\ pc[r] = "locked" => seen[r] = stock[product(r)]
        /\ pc[r] \in {"insert", "commit"} => draft[r] = stock[product(r)] - 1
        /\ pc[r] = "commit" => orders[key(r)] = NoOrder

(* What claim() answered stays true of the database: a confirmed or         *)
(* replayed run's own job is on the order, a duplicate's is not, and a      *)
(* product reported sold out has nothing left.                              *)
VerdictsHold ==
    \A r \in Run :
        /\ pc[r] \in {"confirmed", "replayed"} => orders[key(r)] = job(r)
        /\ pc[r] = "duplicate" => orders[key(r)] \notin {NoOrder, job(r)}
        /\ pc[r] = "outOfStock" => product(r) \in Catalog /\ stock[product(r)] <= 0
        /\ pc[r] = "notFound" => product(r) \notin Catalog

(* handleClaimError's comment: a replay must not sell the unit twice.  Of   *)
(* all the runs that buy one product for one user, at most one is told it   *)
(* made the sale.                                                           *)
SoldOnce ==
    \A r, s \in Run : pc[r] = "confirmed" /\ pc[s] = "confirmed" /\ key(r) = key(s)
                        => r = s

Sold(p) == InitialStock[p] - stock[p]

(* The optimistic loop's progress argument: every pass a run lost is a unit *)
(* somebody else sold meanwhile, so OptimisticRetryExhaustedError needs at  *)
(* least OPTIMISTIC_MAX_ATTEMPTS sales during the claim.                    *)
RetriesPaidBySales ==
    \A r \in Run :
        /\ attempt[r] - 1 <= Sold(product(r))
        /\ pc[r] = "exhausted" => MaxAttempts <= Sold(product(r))

(* Under one strategy for every run, the remainingStock two claims report   *)
(* is never the same: each names the unit it took.                          *)
UnitsNumbered ==
    \A r, s \in Run :
        pc[r] = "confirmed" /\ pc[s] = "confirmed" /\ product(r) = product(s) /\ r # s
            => remainingStock(r) # remainingStock(s)

(* Nobody waits for ever on a row, and the optimistic loop ends: under any  *)
(* failures, every call of claim() is answered.                             *)
EveryClaimAnswered == \A r \in Run : <>(pc[r] \in Verdict)

(* What the invariants above rest on: what each program counter says of the *)
(* committed rows until the run takes its next step.                        *)
StepFacts(r) ==
    /\ pc[r] \in InTransaction => product(r) \in Catalog
    /\ pc[r] \in {"insert", "commit"} => stock[product(r)] > 0
    /\ pc[r] = "classify" => orders[key(r)] # NoOrder
    /\ pc[r] = "probe" => product(r) \notin Catalog \/ stock[product(r)] <= 0
    /\ pc[r] = "cas" =>
          /\ product(r) \in Catalog
          /\ stock[product(r)] <= seen[r]
          /\ version[product(r)] # seenVersion[r] => stock[product(r)] < seen[r]
          /\ seen[r] > 0
          /\ attempt[r] - 1 <= InitialStock[product(r)] - seen[r]

(* The inductive invariant: no statement of any run, from any state that    *)
(* satisfies it, leaves it.                                                 *)
IInv == /\ TypeOK
        /\ StockConserved
        /\ NoOversell
        /\ RowLockDiscipline
        /\ VerdictsHold
        /\ SoldOnce
        /\ RetriesPaidBySales
        /\ \A r \in Run : StepFacts(r)

Sale == INSTANCE FlashSale

(* Every step of every strategy is one sale of the abstract service or      *)
(* leaves it unchanged.                                                     *)
SaleSpec == Sale!Spec
=============================================================================
