---------------------------- MODULE OrderPipeline ----------------------------
(***************************************************************************)
(* An order from POST /orders to the freed entry lock: the API's           *)
(* createOrder, the Redis entry lock with its TTL, BullMQ's queue and      *)
(* stalled-job check, the worker's processor and its cache version bump,   *)
(* and the listener that frees the lock when BullMQ reports a job done.    *)
(*                                                                         *)
(* Lock key, job id and lock payload are functions of (user, product); the *)
(* module follows one product, so a User stands for the pair.  claim() is  *)
(* one step here: StockClaim shows that each of its runs is one atomic     *)
(* sale or none (StockClaim!SaleSpec, proved in StockClaimProofs).         *)
(***************************************************************************)
EXTENDS Integers, FiniteSets

CONSTANTS
    User,
    LeftLocked,         \* users locked by a request that died after its SET
    Request,            \* HTTP requests, on any API instance
    UserOf,             \* request |-> the authenticated user
    Slot,               \* the worker's concurrent job slots
    Units,              \* stock on sale
    MaxAcquire,         \* MAX_ACQUIRE_ATTEMPTS
    MaxCrashes,         \* bound: worker crashes
    MaxRetries,         \* bound: retries an operator asks for
    MaxResends,         \* bound: executed INCRs sent again by the client
    IncrMayFail,        \* whether Redis may refuse the version bump
    Free, Gone, Idle, Nobody

ASSUME UserAssumption == IsFiniteSet(User)
ASSUME LeftLockedAssumption == LeftLocked \subseteq User
ASSUME RequestAssumption == UserOf \in [Request -> User]
ASSUME UnitsAssumption == Units \in Nat
ASSUME BoundAssumption == /\ MaxAcquire \in Nat \ {0}
                          /\ MaxCrashes \in Nat
                          /\ MaxRetries \in Nat
                          /\ MaxResends \in Nat
                          /\ IncrMayFail \in BOOLEAN
ASSUME NullAssumption == /\ Free \notin Request \cup {Gone}
                         /\ Gone \notin Request
                         /\ Idle \notin User
                         /\ Nobody \notin Slot

VARIABLES
    \* --- API instances ---
    pc, attempt,        \* per request: where createOrder is, its loop counter
    \* --- Redis: entry lock and BullMQ ---
    lock,               \* per user: the request whose SET created it, or Free;
                        \* Gone when no request knows it to be its own
    job,                \* per user: the state of job order:user:product
    token,              \* per user: the slot that owns the active job
    stalls,             \* per user: BullMQ's stalled counter
    events,             \* per user: completed/failed events not yet delivered
    version,            \* the products cache version
    \* --- worker slots ---
    running, step,      \* per slot: the job it executes, and how far it is
    \* --- PostgreSQL ---
    stock, orders,      \* units left, and the users who have an order
    \* --- bounds ---
    crashes, retries, resends

apiVars == <<pc, attempt>>
queueVars == <<job, token, stalls, events>>
slotVars == <<running, step>>
dbVars == <<stock, orders>>
boundVars == <<crashes, retries, resends>>
vars == <<apiVars, lock, queueVars, version, slotVars, dbVars, boundVars>>

(* The error a failed job ends with.  "errored" stands for every verdict of *)
(* claim() but OutOfStock: lock timeout, exhausted retries, lost connection,*)
(* duplicate, unknown product.  No BullMQ attempts option is set anywhere,  *)
(* so each of them ends the job.                                            *)
FailedState == {"outOfStock", "errored", "stalledOut"}
Finished == FailedState \cup {"completed"}
JobState == Finished \cup {"none", "waiting", "active"}

Answers == {"accepted", "rejected"}
RequestState == Answers \cup {"set", "get", "add", "addDirect", "undo"}

(* A slot in a Finished step has its result and is about to report it.      *)
SlotState == Finished \cup {"idle", "claim", "bump"}

Init ==
    /\ pc = [r \in Request |-> "set"]
    /\ attempt = [r \in Request |-> 0]
    /\ lock = [u \in User |-> IF u \in LeftLocked THEN Gone ELSE Free]
    /\ job = [u \in User |-> "none"]
    /\ token = [u \in User |-> Nobody]
    /\ stalls = [u \in User |-> 0]
    /\ events = [u \in User |-> 0]
    /\ version = 0
    /\ running = [e \in Slot |-> Idle]
    /\ step = [e \in Slot |-> "idle"]
    /\ stock = Units
    /\ orders = {}
    /\ crashes = 0
    /\ retries = 0
    /\ resends = 0

\* ------------------------------------------------ API: OrdersService.createOrder

RequestTo(r, to) == pc' = [pc EXCEPT ![r] = to]

(* SET key payload EX 30 NX *)
AcquireLock(r) ==
    /\ pc[r] = "set"
    /\ IF lock[UserOf[r]] = Free
         THEN lock' = [lock EXCEPT ![UserOf[r]] = r] /\ RequestTo(r, "add")
         ELSE UNCHANGED lock /\ RequestTo(r, "get")
    /\ UNCHANGED <<attempt, queueVars, version, slotVars, dbVars, boundVars>>

(* The SET took effect and its answer was lost.  The client sends it again, *)
(* and createOrder will take the lock it finds for somebody else's; or the  *)
(* command is given up and throws, outside the try that frees the lock.     *)
AcquireUnheard(r) ==
    /\ pc[r] = "set" /\ lock[UserOf[r]] = Free
    /\ lock' = [lock EXCEPT ![UserOf[r]] = Gone]
    /\ UNCHANGED pc \/ RequestTo(r, "rejected")
    /\ UNCHANGED <<attempt, queueVars, version, slotVars, dbVars, boundVars>>

(* Mutant: the loop ends and nothing enqueues the job.                      *)
BugNoFallback(r) ==
    /\ pc[r] = "get"
    /\ \/ lock[UserOf[r]] # Free /\ RequestTo(r, "accepted") /\ UNCHANGED attempt
       \/ /\ lock[UserOf[r]] = Free /\ attempt[r] + 1 < MaxAcquire
          /\ attempt' = [attempt EXCEPT ![r] = @ + 1]
          /\ RequestTo(r, "set")
    /\ UNCHANGED <<lock, queueVars, version, slotVars, dbVars, boundVars>>

(* GET: a holder's payload is the answer; a lock that is gone is tried for  *)
(* again, and after the last attempt the job is enqueued without it.        *)
ReadHolder(r) ==
    /\ pc[r] = "get"
    /\ \/ lock[UserOf[r]] # Free /\ RequestTo(r, "accepted") /\ UNCHANGED attempt
       \/ /\ lock[UserOf[r]] = Free
          /\ attempt' = [attempt EXCEPT ![r] = @ + 1]
          /\ RequestTo(r, IF attempt[r] + 1 < MaxAcquire THEN "set" ELSE "addDirect")
    /\ UNCHANGED <<lock, queueVars, version, slotVars, dbVars, boundVars>>

(* Queue.add with a job id: a job of that id, in whatever state it is,      *)
(* makes it a no-op that still resolves.                                    *)
AddJob(u) == job' = [job EXCEPT ![u] = IF @ = "none" THEN "waiting" ELSE @]

(* Mutant: the answer does not wait for add().                              *)
BugNotAwaited(r) ==
    /\ pc[r] \in {"add", "addDirect"}
    /\ AddJob(UserOf[r]) \/ UNCHANGED job
    /\ RequestTo(r, "accepted")
    /\ UNCHANGED <<attempt, lock, token, stalls, events, version, slotVars, dbVars, boundVars>>

Enqueue(r) ==
    /\ pc[r] \in {"add", "addDirect"}
    /\ AddJob(UserOf[r])
    /\ RequestTo(r, "accepted")
    /\ UNCHANGED <<attempt, lock, token, stalls, events, version, slotVars, dbVars, boundVars>>

(* add() threw: the job may be in the queue all the same when only the      *)
(* answer was lost.  The path without the lock has nothing to undo.         *)
EnqueueError(r) ==
    /\ pc[r] \in {"add", "addDirect"}
    /\ AddJob(UserOf[r]) \/ UNCHANGED job
    /\ RequestTo(r, IF pc[r] = "add" THEN "undo" ELSE "rejected")
    /\ UNCHANGED <<attempt, lock, token, stalls, events, version, slotVars, dbVars, boundVars>>

(* COMPARE_AND_DELETE_SCRIPT.  Every lock of a user carries the same        *)
(* payload, so the comparison succeeds whichever request set it.  A script  *)
(* sent again deletes a second time; its first run is an ExpireLock here.   *)
CompareAndDelete(u) == lock' = [lock EXCEPT ![u] = Free]

UndoLock(r) ==
    /\ pc[r] = "undo"
    /\ CompareAndDelete(UserOf[r])
    /\ RequestTo(r, "rejected")
    /\ UNCHANGED <<attempt, queueVars, version, slotVars, dbVars, boundVars>>

(* A Redis command throws or the instance dies: the lock stays as it is.    *)
RequestFails(r) ==
    /\ pc[r] \notin Answers
    /\ RequestTo(r, "rejected")
    /\ UNCHANGED <<attempt, lock, queueVars, version, slotVars, dbVars, boundVars>>

(* The lock's TTL runs out.                                                 *)
ExpireLock(u) ==
    /\ lock[u] # Free
    /\ lock' = [lock EXCEPT ![u] = Free]
    /\ UNCHANGED <<apiVars, queueVars, version, slotVars, dbVars, boundVars>>

\* ------------------------------------------------------- BullMQ and the worker

SlotTo(e, to) == step' = [step EXCEPT ![e] = to]

PickUp(e, u) ==
    /\ step[e] = "idle" /\ job[u] = "waiting"
    /\ job' = [job EXCEPT ![u] = "active"]
    /\ token' = [token EXCEPT ![u] = e]
    /\ running' = [running EXCEPT ![e] = u]
    /\ SlotTo(e, "claim")
    /\ UNCHANGED <<apiVars, lock, stalls, events, version, dbVars, boundVars>>

(* claim() committed: one unit for this user, under this job's id.          *)
Sell(u) ==
    /\ stock > 0 /\ u \notin orders
    /\ stock' = stock - 1
    /\ orders' = orders \cup {u}

ClaimConfirmed(e) ==
    /\ step[e] = "claim"
    /\ Sell(running[e])
    /\ SlotTo(e, "bump")
    /\ UNCHANGED <<apiVars, lock, queueVars, version, running, boundVars>>

(* Mutant: a replay goes on to the bump like a first run.                   *)
BugReplayBumps(e) ==
    /\ step[e] = "claim"
    /\ stock > 0 /\ running[e] \in orders
    /\ SlotTo(e, "bump")
    /\ UNCHANGED <<apiVars, lock, queueVars, version, running, dbVars, boundVars>>

(* Mutant: a replay is recognised inside the transaction, which commits.    *)
BugReplaySells(e) ==
    /\ step[e] = "claim"
    /\ stock > 0 /\ running[e] \in orders
    /\ stock' = stock - 1
    /\ SlotTo(e, "completed")
    /\ UNCHANGED <<apiVars, lock, queueVars, version, running, orders, boundVars>>

(* ReplayDetectedError: the job sold its unit in an earlier run.  Success   *)
(* is reported and the cache is left alone.                                 *)
ClaimReplayed(e) ==
    /\ step[e] = "claim"
    /\ stock > 0 /\ running[e] \in orders
    /\ SlotTo(e, "completed")
    /\ UNCHANGED <<apiVars, lock, queueVars, version, running, dbVars, boundVars>>

(* Mutant: the last unit is never offered.                                  *)
BugLastUnitRefused(e) ==
    /\ step[e] = "claim"
    /\ stock <= 1
    /\ SlotTo(e, "outOfStock")
    /\ UNCHANGED <<apiVars, lock, queueVars, version, running, dbVars, boundVars>>

(* The stock is looked at before the order: a sold-out product is reported  *)
(* sold out, to a user who has one of its units too.                        *)
ClaimSoldOut(e) ==
    /\ step[e] = "claim"
    /\ stock = 0
    /\ SlotTo(e, "outOfStock")
    /\ UNCHANGED <<apiVars, lock, queueVars, version, running, dbVars, boundVars>>

(* Mutant: the processor catches every error as if it were a replay.        *)
BugErrorsSwallowed(e) ==
    /\ step[e] = "claim"
    /\ Sell(running[e]) \/ UNCHANGED dbVars
    /\ SlotTo(e, "completed")
    /\ UNCHANGED <<apiVars, lock, queueVars, version, running, boundVars>>

(* Any other error; the commit may have gone through unacknowledged.        *)
ClaimErrored(e) ==
    /\ step[e] = "claim"
    /\ Sell(running[e]) \/ UNCHANGED dbVars
    /\ SlotTo(e, "errored")
    /\ UNCHANGED <<apiVars, lock, queueVars, version, running, boundVars>>

(* bumpCacheVersion: INCR, whose failure is logged and swallowed.           *)
BumpVersion(e) ==
    /\ step[e] = "bump"
    /\ version' = version + 1 \/ (IncrMayFail /\ UNCHANGED version)
    /\ SlotTo(e, "completed")
    /\ UNCHANGED <<apiVars, lock, queueVars, running, dbVars, boundVars>>

(* The INCR ran and its answer was lost: the client is to send it again.    *)
BumpUnheard(e) ==
    /\ step[e] = "bump" /\ resends < MaxResends
    /\ version' = version + 1
    /\ resends' = resends + 1
    /\ UNCHANGED <<apiVars, lock, queueVars, slotVars, dbVars, crashes, retries>>

(* Mutant: the job's lock is not checked when its state is recorded.        *)
BugReportWithoutToken(e) ==
    LET u == running[e] IN
    /\ step[e] \in Finished
    /\ job' = [job EXCEPT ![u] = step[e]]
    /\ token' = [token EXCEPT ![u] = Nobody]
    /\ events' = [events EXCEPT ![u] = @ + 1]
    /\ running' = [running EXCEPT ![e] = Idle]
    /\ SlotTo(e, "idle")
    /\ UNCHANGED <<apiVars, lock, stalls, version, dbVars, boundVars>>

(* The job's final state is recorded and its event published, if this slot  *)
(* still owns the job; a job taken away from it as stalled is left alone.   *)
Report(e) ==
    LET u == running[e] IN
    /\ step[e] \in Finished
    /\ IF token[u] = e
         THEN /\ job' = [job EXCEPT ![u] = step[e]]
              /\ token' = [token EXCEPT ![u] = Nobody]
              /\ events' = [events EXCEPT ![u] = @ + 1]
         ELSE UNCHANGED <<job, token, events>>
    /\ running' = [running EXCEPT ![e] = Idle]
    /\ SlotTo(e, "idle")
    /\ UNCHANGED <<apiVars, lock, stalls, version, dbVars, boundVars>>

(* Mutant: a job past maxStalledCount is neither queued again nor failed.   *)
BugStalledTwiceForgotten(u) ==
    /\ job[u] = "active" /\ stalls[u] = 0
    /\ token' = [token EXCEPT ![u] = Nobody]
    /\ job' = [job EXCEPT ![u] = "waiting"]
    /\ stalls' = [stalls EXCEPT ![u] = 1]
    /\ UNCHANGED <<apiVars, lock, events, version, slotVars, dbVars, boundVars>>

(* Mutant: a job is queued again one stall too often.                       *)
BugStalledOnceMore(u) ==
    /\ job[u] = "active" /\ stalls[u] <= 1
    /\ token' = [token EXCEPT ![u] = Nobody]
    /\ job' = [job EXCEPT ![u] = "waiting"]
    /\ stalls' = [stalls EXCEPT ![u] = @ + 1]
    /\ UNCHANGED <<apiVars, lock, events, version, slotVars, dbVars, boundVars>>

(* The stalled-job check: an active job whose owner stopped renewing it     *)
(* goes back to the queue the first time (maxStalledCount = 1), and fails   *)
(* the second.  A slot may be alive and merely late.                        *)
Stall(u) ==
    /\ job[u] = "active"
    /\ token' = [token EXCEPT ![u] = Nobody]
    /\ \/ /\ stalls[u] = 0
          /\ job' = [job EXCEPT ![u] = "waiting"]
          /\ stalls' = [stalls EXCEPT ![u] = 1]
          /\ UNCHANGED events
       \/ /\ stalls[u] = 1
          /\ job' = [job EXCEPT ![u] = "stalledOut"]
          /\ events' = [events EXCEPT ![u] = @ + 1]
          /\ UNCHANGED stalls
    /\ UNCHANGED <<apiVars, lock, version, slotVars, dbVars, boundVars>>

(* The worker process dies with its slots and its listener, which restarts  *)
(* reading at '$': what was published and not delivered is never seen.      *)
CrashWorker ==
    /\ crashes < MaxCrashes
    /\ crashes' = crashes + 1
    /\ running' = [e \in Slot |-> Idle]
    /\ step' = [e \in Slot |-> "idle"]
    /\ events' = [u \in User |-> 0]
    /\ UNCHANGED <<apiVars, lock, job, token, stalls, version, dbVars, retries, resends>>

(* Bull Board's retry button puts a failed job back in the queue.           *)
RetryFailedJob(u) ==
    /\ retries < MaxRetries
    /\ job[u] \in FailedState
    /\ job' = [job EXCEPT ![u] = "waiting"]
    /\ retries' = retries + 1
    /\ UNCHANGED <<apiVars, lock, token, stalls, events, version, slotVars, dbVars, crashes,
                   resends>>

\* ------------------------------------------- listener: OrdersLockReleaseListener

ReleaseOnEvent(u) ==
    /\ events[u] > 0
    /\ events' = [events EXCEPT ![u] = @ - 1]
    /\ CompareAndDelete(u)
    /\ UNCHANGED <<apiVars, job, token, stalls, version, slotVars, dbVars, boundVars>>

\* ---------------------------------------------------------------- specification

CreateOrder(r) == AcquireLock(r) \/ ReadHolder(r) \/ Enqueue(r) \/ UndoLock(r)
Work(e) == \/ \E u \in User : PickUp(e, u)
           \/ ClaimConfirmed(e) \/ ClaimReplayed(e) \/ ClaimSoldOut(e)
           \/ BumpVersion(e) \/ Report(e)

(* A job that no slot is executing under its token.                         *)
Orphaned(u) == job[u] = "active" /\ \A e \in Slot : ~(token[u] = e /\ running[e] = u)
ReclaimOrphan(u) == Orphaned(u) /\ Stall(u)

Next ==
    \/ \E r \in Request : CreateOrder(r) \/ AcquireUnheard(r) \/ EnqueueError(r)
                           \/ RequestFails(r)
    \/ \E e \in Slot : Work(e) \/ ClaimErrored(e) \/ BumpUnheard(e)
    \/ \E u \in User : Stall(u) \/ ReleaseOnEvent(u) \/ ExpireLock(u) \/ RetryFailedJob(u)
    \/ CrashWorker

Spec == Init /\ [][Next]_vars

(* The processes keep running, the stalled check recurs, Redis delivers and *)
(* expires; no fault is ever bound to happen.                               *)
Fairness ==
    /\ \A r \in Request : WF_vars(CreateOrder(r))
    /\ \A e \in Slot : WF_vars(Work(e))
    /\ \A u \in User : WF_vars(ReclaimOrphan(u)) /\ WF_vars(ReleaseOnEvent(u))
    /\ \A u \in User : WF_vars(ExpireLock(u))

FairSpec == Spec /\ Fairness

\* -------------------------------------------------------------------- properties

TypeOK ==
    /\ pc \in [Request -> RequestState]
    /\ attempt \in [Request -> 0..MaxAcquire]
    /\ lock \in [User -> Request \cup {Free, Gone}]
    /\ job \in [User -> JobState]
    /\ token \in [User -> Slot \cup {Nobody}]
    /\ stalls \in [User -> 0..1]
    /\ events \in [User -> Nat]
    /\ version \in Nat
    /\ running \in [Slot -> User \cup {Idle}]
    /\ step \in [Slot -> SlotState]
    /\ stock \in 0..Units
    /\ orders \subseteq User
    /\ crashes \in 0..MaxCrashes
    /\ retries \in 0..MaxRetries
    /\ resends \in 0..MaxResends

(* A job BullMQ shows as completed has its order, through every crash,      *)
(* stall, double run and replay.                                            *)
CompletedMeansSold == \A u \in User : job[u] = "completed" => u \in orders

(* Nobody is told "sold out" while a unit is left.                          *)
SoldOutIsTrue ==
    \A u \in User : job[u] = "outOfStock" => stock = 0

(* The cache version moves strictly after a commit, and once for it: what   *)
(* goes beyond is an INCR that the client sent again, never a job that      *)
(* committed and was run again.                                             *)
VersionNeverAhead == version <= Cardinality(orders) + resends

(* A slot that lost its job as stalled and finishes late does not overwrite *)
(* what the second run recorded: a completed job stays completed, a failed  *)
(* one changes only when an operator retries it.                            *)
OutcomeIsFinal ==
    [][\A u \in User : job[u] \in Finished /\ job'[u] # job[u] =>
            job[u] # "completed" /\ retries' = retries + 1]_vars

(* Every enqueued job ends in a verdict, through crashes, stalls and        *)
(* retries.                                                                 *)
JobsFinish == \A u \in User : job[u] \in {"waiting", "active"} ~> job[u] \in Finished

(* Every request is answered, even when the lock vanishes on each attempt.  *)
RequestsAnswered == \A r \in Request : <>(pc[r] \in Answers)

(* "Hand back the same response the original request produced": a second    *)
(* click is answered 202 from the lock before the first is over, so it may  *)
(* speak of a job that does not exist -- but only while the request that    *)
(* set the lock is still in add(), or failed there, or when no request      *)
(* knows the lock to be its own: the answer to its SET was lost, on this    *)
(* very request perhaps, or its setter died.                                *)
ReplayVouchesForJob ==
    [][\A r \in Request :
            LET holder == lock[UserOf[r]] IN
            pc[r] = "get" /\ pc'[r] = "accepted" /\ job[UserOf[r]] = "none" =>
                \/ holder = Gone
                \/ pc[holder] \in {"add", "undo", "rejected"}]_vars

(* What a slot holds in memory is still true of the database: a job about   *)
(* to be reported as completed has its order, one about to be reported as   *)
(* sold out finds no unit.                                                  *)
SlotsInformed ==
    \A e \in Slot :
        /\ step[e] # "idle" => running[e] \in User
        /\ step[e] \in {"bump", "completed"} => running[e] \in orders
        /\ step[e] = "outOfStock" => stock = 0

(* The users whose order is committed and not announced yet; no two slots   *)
(* are about to announce the same one.                                      *)
Owed == {u \in User : \E e \in Slot : running[e] = u /\ step[e] = "bump"}
BumpsOwed ==
    /\ \A d, e \in Slot :
            step[d] = "bump" /\ step[e] = "bump" /\ running[d] = running[e] => d = e
    /\ version + Cardinality(Owed) <= Cardinality(orders) + resends

(* A job's lock is dropped with every state it leaves "active" for.         *)
TokenMeansActive == \A u \in User : token[u] # Nobody => job[u] = "active"

(* A lock that a request set is backed by that request's add() or by a job. *)
LocksVouched ==
    \A u \in User : lock[u] \in Request =>
        /\ UserOf[lock[u]] = u
        /\ pc[lock[u]] \in {"add", "undo", "rejected"} \/ job[u] # "none"

(* Another pass is begun only if there is one left.                         *)
PassesLeft == \A r \in Request : pc[r] \in {"set", "get"} => attempt[r] < MaxAcquire

(* The inductive invariant.                                                 *)
IInv == /\ TypeOK
        /\ CompletedMeansSold /\ SoldOutIsTrue
        /\ SlotsInformed /\ BumpsOwed /\ TokenMeansActive
        /\ LocksVouched /\ PassesLeft

hot == "hot"
Sale == INSTANCE FlashSale
    WITH Product <- {hot}, Job <- {"job"}, NoOrder <- "none",
         InitialStock <- [p \in {hot} |-> Units],
         InitialOrders <- [k \in User \X {hot} |-> "none"],
         stock <- [p \in {hot} |-> stock],
         orders <- [k \in User \X {hot} |-> IF k[1] \in orders THEN "job" ELSE "none"]

(* Whatever is crashed, retried or run twice, the database sees only sales  *)
(* of the abstract service.                                                 *)
SaleSpec == Sale!Spec

\* ----------------------------------- what the repository says, and the code does not

(* OrdersLockReleaseListener: the release "is what stops a failed job ...   *)
(* from locking that user out of retrying".  A request that wins the lock   *)
(* and is accepted leaves a job that can still run or has sold.             *)
RetryEnqueues ==
    [][\A r \in Request : pc[r] = "add" /\ pc'[r] = "accepted"
            => job'[UserOf[r]] \notin FailedState]_vars

(* orders.processor.ts on a job that committed and is run again: "The order *)
(* exists and is correct: report success."                                  *)
CommittedIsNotRefused ==
    \A u \in User : u \in orders => job[u] # "outOfStock"

(* OrdersLockReleaseListener.release: compare-and-delete "guarantees we     *)
(* only ever remove the lock we're actually releasing": a request between   *)
(* its SET and its add() keeps its lock when an earlier job's event fires.  *)
EventKeepsNewLock ==
    [][\A u \in User, r \in Request :
            events'[u] < events[u] /\ lock[u] = r /\ pc[r] = "add" => lock'[u] = r]_vars
=============================================================================
