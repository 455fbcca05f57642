------------------------- MODULE OrderPipelineProofs --------------------------
(***************************************************************************)
(* Proofs about OrderPipeline, for every set of users, requests and slots, *)
(* any stock and any number of crashes, stalls, operator retries, and Redis*)
(* commands that are executed, not answered and sent again.                *)
(***************************************************************************)
EXTENDS OrderPipeline, FiniteSetTheorems, TLAPS

USE UserAssumption, LeftLockedAssumption, RequestAssumption, UnitsAssumption,
    BoundAssumption, NullAssumption

(* The inductive invariant without the counts, which are not first-order.   *)
CoreInv == /\ TypeOK
           /\ CompletedMeansSold /\ SoldOutIsTrue
           /\ SlotsInformed /\ TokenMeansActive
           /\ LocksVouched /\ PassesLeft

(* A step of the API or of Redis, of a slot, or of BullMQ and its listener. *)
RequestStep(r) == \/ AcquireLock(r) \/ AcquireUnheard(r) \/ ReadHolder(r) \/ Enqueue(r)
                  \/ EnqueueError(r) \/ UndoLock(r) \/ RequestFails(r)
SlotStep(e) == \/ \E u \in User : PickUp(e, u)
               \/ ClaimConfirmed(e) \/ ClaimReplayed(e) \/ ClaimSoldOut(e)
               \/ ClaimErrored(e) \/ BumpVersion(e) \/ BumpUnheard(e) \/ Report(e)
JobStep(u) == Stall(u) \/ ReleaseOnEvent(u) \/ ExpireLock(u) \/ RetryFailedJob(u)

(* Next, grouped by who acts.                                               *)
LEMMA NextSplit ==
    [Next]_vars <=> \/ UNCHANGED vars
                    \/ \E r \in Request : RequestStep(r)
                    \/ \E e \in Slot : SlotStep(e)
                    \/ \E u \in User : JobStep(u)
                    \/ CrashWorker
BY DEF Next, CreateOrder, Work, RequestStep, SlotStep, JobStep

(* A request moves its own program counter and loop counter, its user's     *)
(* lock and its user's job; it leaves the worker and the database alone.    *)
LEMMA RequestStepKeeps ==
    ASSUME CoreInv, NEW r \in Request, RequestStep(r)
    PROVE  CoreInv'
<1> DEFINE u == UserOf[r]
<1> USE DEF CoreInv, TypeOK, RequestTo, RequestState, Answers, JobState, Finished, FailedState,
            queueVars, slotVars, dbVars, boundVars, apiVars,
            CompletedMeansSold, SoldOutIsTrue, SlotsInformed, TokenMeansActive,
            LocksVouched, PassesLeft
<1>0. u \in User /\ r \in Request
  OBVIOUS
<1>1. CASE AcquireLock(r)
  BY <1>0, <1>1 DEF AcquireLock
<1>2. CASE ReadHolder(r)
  BY <1>0, <1>2 DEF ReadHolder
<1>3. CASE Enqueue(r)
  BY <1>0, <1>3 DEF Enqueue, AddJob
<1>4. CASE EnqueueError(r)
  BY <1>0, <1>4 DEF EnqueueError, AddJob
<1>5. CASE UndoLock(r)
  BY <1>0, <1>5 DEF UndoLock, CompareAndDelete
<1>6. CASE RequestFails(r)
  BY <1>0, <1>6 DEF RequestFails
<1>7. CASE AcquireUnheard(r)
  BY <1>0, <1>7 DEF AcquireUnheard
<1> QED
  BY <1>1, <1>2, <1>3, <1>4, <1>5, <1>6, <1>7 DEF RequestStep

(* A slot's step, whichever of the claim's outcomes it has.                 *)
LEMMA SlotStepKeeps ==
    ASSUME CoreInv, NEW e \in Slot, SlotStep(e)
    PROVE  CoreInv'
<1> USE DEF CoreInv, TypeOK, SlotTo, SlotState, JobState, Finished, FailedState,
            queueVars, slotVars, dbVars, boundVars, apiVars,
            CompletedMeansSold, SoldOutIsTrue, SlotsInformed, TokenMeansActive,
            LocksVouched, PassesLeft
<1>1. ASSUME NEW u \in User, PickUp(e, u)
      PROVE  CoreInv'
  BY <1>1 DEF PickUp
<1>2. CASE ClaimConfirmed(e)
  BY <1>2 DEF ClaimConfirmed, Sell
<1>3. CASE ClaimReplayed(e)
  BY <1>3 DEF ClaimReplayed
<1>4. CASE ClaimSoldOut(e)
  BY <1>4 DEF ClaimSoldOut
<1>5. CASE ClaimErrored(e)
  BY <1>5 DEF ClaimErrored, Sell
<1>6. CASE BumpVersion(e)
  BY <1>6 DEF BumpVersion
<1>7. CASE Report(e)
  BY <1>7 DEF Report
<1>8. CASE BumpUnheard(e)
  BY <1>8 DEF BumpUnheard
<1> QED
  BY <1>1, <1>2, <1>3, <1>4, <1>5, <1>6, <1>7, <1>8 DEF SlotStep

(* The stalled-job check, an operator's retry, an expiry and the listener.  *)
LEMMA JobStepKeeps ==
    ASSUME CoreInv, NEW u \in User, JobStep(u)
    PROVE  CoreInv'
<1> USE DEF CoreInv, TypeOK, JobState, Finished, FailedState,
            queueVars, slotVars, dbVars, boundVars, apiVars,
            CompletedMeansSold, SoldOutIsTrue, SlotsInformed, TokenMeansActive,
            LocksVouched, PassesLeft
<1>1. CASE Stall(u)
  BY <1>1 DEF Stall
<1>2. CASE ReleaseOnEvent(u)
  BY <1>2 DEF ReleaseOnEvent, CompareAndDelete
<1>3. CASE ExpireLock(u)
  BY <1>3 DEF ExpireLock
<1>4. CASE RetryFailedJob(u)
  BY <1>4 DEF RetryFailedJob
<1> QED
  BY <1>1, <1>2, <1>3, <1>4 DEF JobStep

(* The crash forgets the slots and the events; the tokens stay in Redis.    *)
LEMMA CrashKeeps ==
    ASSUME CoreInv, CrashWorker
    PROVE  CoreInv'
BY DEF CrashWorker, CoreInv, TypeOK, SlotState, queueVars, slotVars, dbVars, apiVars,
       CompletedMeansSold, SoldOutIsTrue, SlotsInformed, TokenMeansActive,
       LocksVouched, PassesLeft

(* Every set of users is finite, so that its members can be counted.        *)
LEMMA UsersCounted ==
    ASSUME NEW S \in SUBSET User
    PROVE  IsFiniteSet(S) /\ Cardinality(S) \in Nat
BY FS_Subset, FS_CardinalityType

(* What a step does to the orders, the version and the announcements that   *)
(* are due: only a sale adds an order, only a bump adds to the version, and *)
(* a slot gets to "bump" by its own sale.                                   *)
LEMMA Bookkeeping ==
    ASSUME CoreInv, [Next]_vars
    PROVE  \/ UNCHANGED <<orders, version, resends>> /\ \A e \in Slot :
                step'[e] = "bump" => step[e] = "bump" /\ running'[e] = running[e]
           \/ \E e \in Slot : \/ ClaimConfirmed(e) \/ ClaimErrored(e)
                              \/ BumpVersion(e) \/ BumpUnheard(e)
<1> USE DEF CoreInv, TypeOK, SlotTo, Finished, FailedState,
            queueVars, slotVars, dbVars, boundVars, apiVars
<1>1. CASE UNCHANGED vars
  BY <1>1 DEF vars
<1>2. ASSUME NEW r \in Request, RequestStep(r)
      PROVE  UNCHANGED <<orders, version, resends, slotVars>>
  BY <1>2 DEF RequestStep, AcquireLock, AcquireUnheard, ReadHolder, Enqueue, EnqueueError, UndoLock,
              RequestFails
<1>3. ASSUME NEW u \in User, JobStep(u)
      PROVE  UNCHANGED <<orders, version, resends, slotVars>>
  BY <1>3 DEF JobStep, Stall, ReleaseOnEvent, ExpireLock, RetryFailedJob
<1>4. ASSUME NEW e \in Slot, \/ \E u \in User : PickUp(e, u)
                             \/ ClaimReplayed(e) \/ ClaimSoldOut(e) \/ Report(e)
      PROVE  UNCHANGED <<orders, version, resends>> /\ \A d \in Slot :
                step'[d] = "bump" => step[d] = "bump" /\ running'[d] = running[d]
  BY <1>4 DEF PickUp, ClaimReplayed, ClaimSoldOut, Report
<1>5. CASE CrashWorker
  BY <1>5 DEF CrashWorker
<1> QED
  BY <1>1, <1>2, <1>3, <1>4, <1>5, NextSplit DEF SlotStep

(* The version stays behind the orders by at least the announcements due:   *)
(* a sale makes one due, a bump pays for it, a crash writes it off, and an  *)
(* INCR that is to be sent again is on the resends' account.                *)
LEMMA BumpsOwedStep ==
    ASSUME CoreInv, BumpsOwed, [Next]_vars
    PROVE  BumpsOwed'
<1>0. /\ Owed \in SUBSET User /\ Owed' \in SUBSET User
      /\ orders \in SUBSET User /\ version \in Nat /\ resends \in Nat
      /\ step \in [Slot -> SlotState] /\ running \in [Slot -> User \cup {Idle}]
  BY DEF CoreInv, TypeOK, Owed
<1>1. /\ IsFiniteSet(Owed) /\ Cardinality(Owed) \in Nat /\ Cardinality(Owed') \in Nat
      /\ IsFiniteSet(orders) /\ Cardinality(orders) \in Nat
  BY <1>0, UsersCounted
<1>2. version + Cardinality(Owed) <= Cardinality(orders) + resends
  BY DEF BumpsOwed
<1>3. CASE UNCHANGED <<orders, version, resends>> /\ \A e \in Slot :
               step'[e] = "bump" => step[e] = "bump" /\ running'[e] = running[e]
  <2>1. Owed' \in SUBSET Owed
    BY <1>3 DEF Owed
  <2>2. Cardinality(Owed') <= Cardinality(Owed)
    BY <1>1, <2>1, FS_Subset
  <2>3. version' + Cardinality(Owed') <= Cardinality(orders') + resends'
    BY <1>0, <1>1, <1>2, <1>3, <2>2
  <2> QED
    BY <1>3, <2>3 DEF BumpsOwed
<1>4. ASSUME NEW e \in Slot, ClaimConfirmed(e)
      PROVE  BumpsOwed'
  <2>1. /\ step[e] = "claim" /\ running[e] \notin orders /\ running' = running
        /\ step' = [step EXCEPT ![e] = "bump"]
        /\ orders' = orders \cup {running[e]} /\ version' = version /\ resends' = resends
    BY <1>4 DEF ClaimConfirmed, Sell, SlotTo, boundVars
  <2>2. running[e] \in User
    BY <2>1 DEF CoreInv, SlotsInformed
  <2>3. \A d \in Slot : step[d] = "bump" => running[d] # running[e]
    BY <2>1 DEF CoreInv, SlotsInformed
  <2>4. Owed' = Owed \cup {running[e]}
    BY <1>0, <2>1, <2>2 DEF Owed
  <2>5. Cardinality(Owed') = Cardinality(Owed) + 1
    <3>1. running[e] \notin Owed
      BY <2>3 DEF Owed
    <3> QED
      BY <1>1, <2>4, <3>1, FS_AddElement
  <2>6. Cardinality(orders') = Cardinality(orders) + 1
    BY <1>1, <2>1, FS_AddElement
  <2>7. version' + Cardinality(Owed') <= Cardinality(orders') + resends'
    BY <1>0, <1>1, <1>2, <2>1, <2>5, <2>6
  <2>8. \A d, c \in Slot :
            step'[d] = "bump" /\ step'[c] = "bump" /\ running'[d] = running'[c] => d = c
    BY <1>0, <2>1, <2>3 DEF BumpsOwed
  <2> QED
    BY <2>7, <2>8 DEF BumpsOwed
<1>5. ASSUME NEW e \in Slot, ClaimErrored(e)
      PROVE  BumpsOwed'
  <2>1. /\ running' = running /\ step' = [step EXCEPT ![e] = "errored"]
        /\ step[e] = "claim" /\ version' = version /\ resends' = resends
        /\ orders' = orders \/ orders' = orders \cup {running[e]}
    BY <1>5 DEF ClaimErrored, Sell, SlotTo, dbVars, boundVars
  <2>2. Owed' = Owed
    BY <1>0, <2>1 DEF Owed
  <2>3. Cardinality(orders') >= Cardinality(orders) /\ Cardinality(orders') \in Nat
    <3>1. CASE orders' = orders
      BY <1>1, <3>1
    <3>2. CASE orders' = orders \cup {running[e]}
      <4>1. Cardinality(orders') \in {Cardinality(orders), Cardinality(orders) + 1}
        BY <1>1, <3>2, FS_AddElement
      <4> QED
        BY <1>1, <4>1
    <3> QED
      BY <2>1, <3>1, <3>2
  <2>4. version' + Cardinality(Owed') <= Cardinality(orders') + resends'
    BY <1>0, <1>1, <1>2, <2>1, <2>2, <2>3
  <2> QED
    BY <1>0, <2>1, <2>4 DEF BumpsOwed
<1>6. ASSUME NEW e \in Slot, BumpVersion(e)
      PROVE  BumpsOwed'
  <2>1. /\ step[e] = "bump" /\ running' = running /\ orders' = orders
        /\ step' = [step EXCEPT ![e] = "completed"]
        /\ version' \in {version, version + 1} /\ resends' = resends
    BY <1>6 DEF BumpVersion, SlotTo, dbVars, boundVars
  <2>2. running[e] \in Owed
    BY <1>0, <2>1 DEF Owed, CoreInv, SlotsInformed
  <2>3. Owed' = Owed \ {running[e]}
    BY <1>0, <2>1 DEF Owed, BumpsOwed
  <2>4. Cardinality(Owed') = Cardinality(Owed) - 1
    BY <1>1, <2>2, <2>3, FS_RemoveElement
  <2>5. version' + Cardinality(Owed') <= Cardinality(orders') + resends'
    BY <1>0, <1>1, <1>2, <2>1, <2>4
  <2> QED
    BY <1>0, <2>1, <2>5 DEF BumpsOwed
<1>7. ASSUME NEW e \in Slot, BumpUnheard(e)
      PROVE  BumpsOwed'
  <2>1. /\ UNCHANGED <<running, step, orders>>
        /\ version' = version + 1 /\ resends' = resends + 1
    BY <1>7 DEF BumpUnheard, slotVars, dbVars
  <2>2. Owed' = Owed
    BY <2>1 DEF Owed
  <2>3. version' + Cardinality(Owed') <= Cardinality(orders') + resends'
    BY <1>0, <1>1, <1>2, <2>1, <2>2
  <2> QED
    BY <2>1, <2>3 DEF BumpsOwed
<1> QED
  BY <1>3, <1>4, <1>5, <1>6, <1>7, Bookkeeping

(* The invariant is inductive.                                              *)
LEMMA StepPreserves == IInv /\ [Next]_vars => IInv'
<1> SUFFICES ASSUME IInv, [Next]_vars PROVE IInv'
  OBVIOUS
<1>1. CoreInv /\ BumpsOwed
  BY DEF IInv, CoreInv
<1>2. ASSUME UNCHANGED vars PROVE CoreInv'
  BY <1>1, <1>2 DEF vars, apiVars, queueVars, slotVars, dbVars, boundVars, CoreInv, TypeOK,
     CompletedMeansSold, SoldOutIsTrue, SlotsInformed, TokenMeansActive, LocksVouched,
     PassesLeft
<1>3. CoreInv'
  BY <1>1, <1>2, NextSplit, RequestStepKeeps, SlotStepKeeps, JobStepKeeps, CrashKeeps
<1>4. BumpsOwed'
  BY <1>1, BumpsOwedStep
<1> QED
  BY <1>3, <1>4 DEF IInv, CoreInv

(* No job yet, and no lock but those left over by dead requests.            *)
LEMMA InitEstablishes == Init => IInv
<1> SUFFICES ASSUME Init PROVE IInv
  OBVIOUS
<1>1. TypeOK
  BY DEF Init, TypeOK, RequestState, JobState, SlotState
<1>2. Owed = {}
  BY DEF Init, Owed
<1>3. BumpsOwed
  BY <1>2, FS_EmptySet DEF Init, BumpsOwed
<1> QED
  BY <1>1, <1>3 DEF Init, IInv, CompletedMeansSold, SoldOutIsTrue, SlotsInformed,
     TokenMeansActive, LocksVouched, PassesLeft, FailedState, Finished

(* Through every crash, stall, double run, lost answer and operator retry   *)
(* the pipeline keeps the inductive invariant.                              *)
THEOREM Invariance == Spec => []IInv
<1>1. Init => IInv
  BY InitEstablishes
<1>2. IInv /\ [Next]_vars => IInv'
  BY StepPreserves
<1> QED
  BY <1>1, <1>2, PTL DEF Spec

(* The variables keep their types; the loop of createOrder never goes       *)
(* beyond MAX_ACQUIRE_ATTEMPTS, and a job is never recorded as stalled      *)
(* more than once.                                                          *)
THEOREM TypeCorrect == Spec => []TypeOK
<1>1. IInv => TypeOK
  BY DEF IInv
<1> QED
  BY <1>1, Invariance, PTL

(* A job BullMQ shows as completed has its order in the database.           *)
THEOREM CompletedTheorem == Spec => []CompletedMeansSold
<1>1. IInv => CompletedMeansSold
  BY DEF IInv
<1> QED
  BY <1>1, Invariance, PTL

(* A job that ended in OUT_OF_STOCK ended so with no unit left.             *)
THEOREM SoldOutTheorem == Spec => []SoldOutIsTrue
<1>1. IInv => SoldOutIsTrue
  BY DEF IInv
<1> QED
  BY <1>1, Invariance, PTL

(* The cache version is never ahead of the orders but for INCRs sent again: *)
(* a job bumps at most once for its commit, and never before it.            *)
THEOREM VersionTheorem == Spec => []VersionNeverAhead
<1>1. IInv => VersionNeverAhead
  <2> SUFFICES ASSUME IInv PROVE VersionNeverAhead
    OBVIOUS
  <2>1. version \in Nat /\ resends \in Nat /\ Owed \in SUBSET User /\ orders \in SUBSET User
    BY DEF IInv, TypeOK, Owed
  <2>2. Cardinality(Owed) \in Nat /\ Cardinality(orders) \in Nat
    BY <2>1, UsersCounted
  <2>3. version + Cardinality(Owed) <= Cardinality(orders) + resends
    BY DEF IInv, BumpsOwed
  <2> QED
    BY <2>1, <2>2, <2>3 DEF VersionNeverAhead
<1> QED
  BY <1>1, Invariance, PTL

(* What one step may do to a finished job: nothing, but for the retry of a  *)
(* failed one.  A late slot has lost its token with the job's "active".     *)
LEMMA OutcomeStep ==
    ASSUME IInv, [Next]_vars
    PROVE  \A u \in User : job[u] \in Finished /\ job'[u] # job[u] =>
                job[u] # "completed" /\ retries' = retries + 1
<1> USE DEF IInv, TypeOK, Finished, FailedState, queueVars, slotVars, dbVars, boundVars, apiVars
<1>1. CASE UNCHANGED vars
  BY <1>1 DEF vars
<1>2. ASSUME NEW r \in Request, RequestStep(r)
      PROVE  \A u \in User : job[u] \in Finished => job'[u] = job[u]
  BY <1>2 DEF RequestStep, AcquireLock, AcquireUnheard, ReadHolder, Enqueue, EnqueueError, AddJob, UndoLock,
              RequestFails
<1>3. ASSUME NEW e \in Slot, SlotStep(e)
      PROVE  \A u \in User : job[u] \in Finished => job'[u] = job[u]
  <2>1. CASE Report(e)
    <3>1. token[running[e]] = e => job[running[e]] = "active"
      BY <2>1 DEF Report, SlotsInformed, TokenMeansActive
    <3> QED
      BY <2>1, <3>1 DEF Report
  <2>2. CASE ~Report(e)
    BY <1>3, <2>2 DEF SlotStep, PickUp, ClaimConfirmed, ClaimReplayed, ClaimSoldOut,
                      ClaimErrored, BumpVersion, BumpUnheard
  <2> QED
    BY <2>1, <2>2
<1>4. ASSUME NEW v \in User, JobStep(v), NEW u \in User, job[u] \in Finished, job'[u] # job[u]
      PROVE  job[u] # "completed" /\ retries' = retries + 1
  <2>1. RetryFailedJob(v) /\ u = v
    BY <1>4 DEF JobStep, Stall, ReleaseOnEvent, ExpireLock, RetryFailedJob
  <2> QED
    BY <2>1 DEF RetryFailedJob
<1>5. CASE CrashWorker
  BY <1>5 DEF CrashWorker
<1> QED
  BY <1>1, <1>2, <1>3, <1>4, <1>5, NextSplit

(* The verdict of a job is final but for an operator's retry of a failure:  *)
(* a slot that was late and lost its job cannot record over it.             *)
THEOREM OutcomeTheorem == Spec => OutcomeIsFinal
<1>1. IInv /\ [Next]_vars =>
        [\A u \in User : job[u] \in Finished /\ job'[u] # job[u] =>
            job[u] # "completed" /\ retries' = retries + 1]_vars
  BY OutcomeStep
<1> QED
  BY <1>1, Invariance, PTL DEF Spec, OutcomeIsFinal

(* A request is answered from the lock by the step that reads the holder.   *)
LEMMA ReplayStep ==
    ASSUME IInv, [Next]_vars, NEW r \in Request,
           pc[r] = "get", pc'[r] = "accepted", job[UserOf[r]] = "none"
    PROVE  \/ lock[UserOf[r]] = Gone
           \/ pc[lock[UserOf[r]]] \in {"add", "undo", "rejected"}
<1> USE DEF IInv, TypeOK, queueVars, slotVars, dbVars, boundVars, apiVars, RequestTo
<1>1. UserOf[r] \in User
  OBVIOUS
<1>2. lock[UserOf[r]] # Free
  <2>1. ~UNCHANGED pc
    OBVIOUS
  <2>2. PICK q \in Request : RequestStep(q)
    BY <2>1, NextSplit DEF vars, SlotStep, PickUp, ClaimConfirmed, ClaimReplayed, ClaimSoldOut,
       ClaimErrored, BumpVersion, BumpUnheard, Report, JobStep, Stall, ReleaseOnEvent, ExpireLock,
       RetryFailedJob, CrashWorker
  <2> QED
    BY <2>2 DEF RequestStep, AcquireLock, AcquireUnheard, ReadHolder, Enqueue, EnqueueError, UndoLock,
                RequestFails
<1> QED
  BY <1>1, <1>2 DEF LocksVouched

(* An answer replayed from the lock speaks of a job that exists, or of one  *)
(* the lock's setter is still adding or failed to add, or the answer to the *)
(* SET that set the lock was lost.                                          *)
THEOREM ReplayTheorem == Spec => ReplayVouchesForJob
<1>1. IInv /\ [Next]_vars =>
        [\A r \in Request :
            LET holder == lock[UserOf[r]] IN
            pc[r] = "get" /\ pc'[r] = "accepted" /\ job[UserOf[r]] = "none" =>
                \/ holder = Gone
                \/ pc[holder] \in {"add", "undo", "rejected"}]_vars
  BY ReplayStep
<1> QED
  BY <1>1, Invariance, PTL DEF Spec, ReplayVouchesForJob

(* A commit is one sale of FlashSale, whoever hears of it; nothing else is  *)
(* seen there.                                                              *)
LEMMA SaleStep == IInv /\ [Next]_vars => [Sale!Next]_(Sale!vars)
<1> SUFFICES ASSUME IInv, [Next]_vars PROVE [Sale!Next]_(Sale!vars)
  OBVIOUS
<1> USE DEF queueVars, slotVars, dbVars, boundVars, apiVars
<1>1. CASE UNCHANGED dbVars
  BY <1>1 DEF Sale!vars
<1>2. ASSUME NEW e \in Slot, Sell(running[e]), step[e] = "claim"
      PROVE  Sale!Next
  <2>1. running[e] \in User
    BY <1>2 DEF IInv, SlotsInformed
  <2> DEFINE u == running[e]
             Units_(s) == [p \in {hot} |-> s]
             Owner(S) == [k \in User \X {hot} |-> IF k[1] \in S THEN "job" ELSE "none"]
  <2>2. Units_(stock)[hot] > 0 /\ Owner(orders)[<<u, hot>>] = "none"
    BY <1>2, <2>1 DEF Sell
  <2>3. Units_(stock') = [Units_(stock) EXCEPT ![hot] = @ - 1]
    BY <1>2 DEF Sell
  <2>4. Owner(orders') = [Owner(orders) EXCEPT ![<<u, hot>>] = "job"]
    <3>1. ASSUME NEW k \in User \X {hot}
          PROVE  Owner(orders')[k] = [Owner(orders) EXCEPT ![<<u, hot>>] = "job"][k]
      <4>1. k = <<k[1], hot>> /\ k[1] \in User
        OBVIOUS
      <4>2. CASE k[1] = u
        BY <1>2, <2>1, <4>1, <4>2 DEF Sell
      <4>3. CASE k[1] # u
        BY <1>2, <2>1, <4>1, <4>3 DEF Sell
      <4> QED
        BY <4>2, <4>3
    <3> QED
      BY <3>1
  <2>5. Sale!Sell(u, hot, "job")
    BY <2>2, <2>3, <2>4 DEF Sale!Sell
  <2> QED
    BY <2>1, <2>5 DEF Sale!Next
<1>3. UNCHANGED dbVars \/ \E e \in Slot : Sell(running[e]) /\ step[e] = "claim"
  BY NextSplit DEF vars, RequestStep, AcquireLock, AcquireUnheard, ReadHolder, Enqueue, EnqueueError, UndoLock,
     RequestFails, SlotStep, PickUp, ClaimConfirmed, ClaimReplayed, ClaimSoldOut,
     ClaimErrored, BumpVersion, BumpUnheard, Report, JobStep, Stall, ReleaseOnEvent, ExpireLock,
     RetryFailedJob, CrashWorker
<1> QED
  BY <1>1, <1>2, <1>3

(* Queue, slots, crashes and retries included, the pipeline implements the  *)
(* abstract sale.                                                           *)
THEOREM ImplementsSale == Spec => SaleSpec
<1>1. Init => Sale!Init
  BY DEF Init, Sale!Init, hot
<1>2. IInv /\ [Next]_vars => [Sale!Next]_(Sale!vars)
  BY SaleStep
<1> QED
  BY <1>1, <1>2, Invariance, PTL DEF Spec, SaleSpec, Sale!Spec
=============================================================================
