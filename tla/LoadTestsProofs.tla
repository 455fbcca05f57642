----------------------------- MODULE LoadTestsProofs ---------------------------
(***************************************************************************)
(* What a measured run proves, for any users, units and worker slots (the  *)
(* steps of Benchmark keep BenchInv), and what all scripts together do.    *)
(* The scripts of LoadTests share their variables: a script is what it was *)
(* at the start, and no other script's step is enabled under it; so the    *)
(* four invariants hold of every behaviour.                                *)
(***************************************************************************)
EXTENDS LoadTests, PageProbesProofs, OrderProbesProofs

\* --------------------------------------- the inductive invariant of a measured run

(* The row has one holder, and what it has inserted is not there yet.       *)
OneHolder ==
    /\ \A one, other \in Jobs({"holding", "inserted"}) : one = other
    /\ \A inserted \in Jobs({"inserted"}) : inserted[2] \notin svc.orders

(* From the new stock to the verdict no unit is gone without an order; the  *)
(* other way round only after an overlap or a seed.                         *)
Balance ==
    /\ pc \in {"clear", "restart", "load", "verify"} =>
          drift <= 0 /\ (~rig.overlap /\ ~rig.reseeded => drift = 0)
    /\ pc \notin {"measure", "done"} => "drift" \notin fails

(* The jobs of this run come from its users, one each.                      *)
Loaded ==
    /\ \A u \in User : u \notin mem.asked =>
          svc.job["this"][u] = "none" /\ <<"this", u>> \notin svc.late
    /\ pc \in {"reset", "restock", "clear", "restart"} => mem.asked = {}
    /\ pc \notin {"reset", "restock", "clear"} /\ ~rig.reseeded => svc.recorded = {"this"}

(* Those of this run's users whose order is committed and acknowledged, and *)
(* those of them whose job the queue has as completed.                      *)
Acknowledged == {u \in User : svc.job["this"][u] \in {"committed", "completed"}}
Completed == {u \in User : svc.job["this"][u] \in {"completed"}}

(* After a clean reset the database knows this run only: whoever is         *)
(* acknowledged or to be classified has an order, every order is            *)
(* acknowledged but where a commit was not heard of, whoever was refused    *)
(* found no unit or was lost, and the queue that was seen empty stays so.   *)
CleanRun ==
    ~rig.overlap /\ ~rig.reseeded /\ pc # "reset" =>
        /\ \A u \in User : svc.job["earlier"][u] \notin Unfinished /\ <<"earlier", u>> \notin svc.late
        /\ \A u \in User : svc.job["this"][u] \notin {"gone", "DUPLICATE_ORDER"}
        /\ \A u \in User : svc.job["this"][u] = "classify" => u \in svc.orders
        /\ Acknowledged \subseteq svc.orders
        /\ ~rig.unheard => svc.orders \subseteq Acknowledged
        /\ pc = "restock" => svc.orders = {}
        /\ pc # "restock" /\ (\E u \in User : svc.job["this"][u] = "OUT_OF_STOCK") => svc.stock <= 0
        /\ pc \in {"verify", "measure", "done"} /\ ~rig.gaveUp =>
              /\ \A u \in User : svc.job["this"][u] \notin Unfinished
              /\ pc # "verify" =>
                    /\ Cardinality(Completed) <= mem.sold
                    /\ ~rig.unheard => Cardinality(Completed) = mem.sold
                    /\ (\E u \in User : svc.job["this"][u] = "OUT_OF_STOCK") => mem.left <= 0
              /\ pc = "done" => /\ mem.completed = Cardinality(Recorded({"completed"}))
                                /\ mem.failed = Cardinality(Recorded(Refused))

(* The inductive invariant of a measured run.                               *)
BenchInv ==
    mem.script = "bench" =>
        BenchTypeOK /\ OneHolder /\ Balance /\ Loaded /\ CleanRun /\ DriftExplained /\ RunProven

\* ----------------------------------------------------------- the measured run

USE BenchAssumption

(* A job is in Jobs(states) when its state is one of them.                  *)
LEMMA JobsMembers ==
    ASSUME NEW states, NEW era \in Era, NEW u \in User
    PROVE  <<era, u>> \in Jobs(states) <=> svc.job[era][u] \in states
BY DEF Jobs

(* One holder of the row, in terms of eras and users.                       *)
LEMMA OneHolderMeans ==
    OneHolder <=>
        /\ \A era, other \in Era : \A u, v \in User :
              svc.job[era][u] \in {"holding", "inserted"}
                /\ svc.job[other][v] \in {"holding", "inserted"} => era = other /\ u = v
        /\ \A era \in Era : \A u \in User : svc.job[era][u] = "inserted" => u \notin svc.orders
<1> DEFINE H == {"holding", "inserted"}
<1>1. OneHolder => \A era, other \in Era : \A u, v \in User :
         svc.job[era][u] \in H /\ svc.job[other][v] \in H => era = other /\ u = v
  <2> SUFFICES ASSUME OneHolder, NEW era \in Era, NEW other \in Era, NEW u \in User, NEW v \in User,
                      svc.job[era][u] \in H, svc.job[other][v] \in H
               PROVE  era = other /\ u = v
    OBVIOUS
  <2>1. <<era, u>> \in Jobs(H) /\ <<other, v>> \in Jobs(H)
    BY JobsMembers
  <2>2. <<era, u>> = <<other, v>>
    BY <2>1 DEF OneHolder
  <2> QED BY <2>2
<1>2. OneHolder => \A era \in Era : \A u \in User :
         svc.job[era][u] = "inserted" => u \notin svc.orders
  <2> SUFFICES ASSUME OneHolder, NEW era \in Era, NEW u \in User, svc.job[era][u] = "inserted"
               PROVE  u \notin svc.orders
    OBVIOUS
  <2>1. <<era, u>> \in Jobs({"inserted"})
    BY JobsMembers
  <2>2. <<era, u>>[2] \notin svc.orders
    BY <2>1 DEF OneHolder
  <2> QED BY <2>2
<1>3. ASSUME \A era, other \in Era : \A u, v \in User :
                svc.job[era][u] \in H /\ svc.job[other][v] \in H => era = other /\ u = v,
             \A era \in Era : \A u \in User : svc.job[era][u] = "inserted" => u \notin svc.orders
      PROVE  OneHolder
  <2>1. ASSUME NEW one \in Jobs(H), NEW other \in Jobs(H) PROVE one = other
    <3>1. /\ one \in Era \X User /\ svc.job[one[1]][one[2]] \in H
          /\ other \in Era \X User /\ svc.job[other[1]][other[2]] \in H
      BY <2>1 DEF Jobs
    <3>2. one[1] = other[1] /\ one[2] = other[2]
      BY <1>3, <3>1
    <3> QED BY <3>1, <3>2
  <2>2. ASSUME NEW inserted \in Jobs({"inserted"}) PROVE inserted[2] \notin svc.orders
    BY <1>3, <2>2 DEF Jobs
  <2> QED BY <2>1, <2>2 DEF OneHolder
<1> QED BY <1>1, <1>2, <1>3

(* The orders are few enough to count.                                      *)
LEMMA OrdersFinite ==
    ASSUME NEW S \in SUBSET User
    PROVE  IsFiniteSet(S) /\ Cardinality(S) \in Nat
BY FS_Subset, FS_CardinalityType

(* What the step of one job changes, and what it does not.                  *)
LEMMA BecomesFacts ==
    ASSUME svc \in BenchService, NEW era \in Era, NEW u \in User, NEW state \in JobState
    PROVE  LET then == Becomes(era, u, state) IN
           /\ then \in BenchService
           /\ then.stock = svc.stock /\ then.orders = svc.orders /\ then.recorded = svc.recorded
           /\ then.stalled = svc.stalled /\ then.late = svc.late
           /\ then.job[era][u] = state
           /\ \A other \in Era, v \in User :
                 <<other, v>> # <<era, u>> => then.job[other][v] = svc.job[other][v]
<1>1. /\ svc.job \in [Era -> [User -> JobState]]
      /\ svc = [stock |-> svc.stock, orders |-> svc.orders, job |-> svc.job,
                recorded |-> svc.recorded, stalled |-> svc.stalled, late |-> svc.late]
  BY DEF BenchService
<1> DEFINE changed == [svc.job EXCEPT ![era] = [svc.job[era] EXCEPT ![u] = state]]
<1>2. changed \in [Era -> [User -> JobState]]
  BY <1>1
<1>3. /\ changed[era][u] = state
      /\ \A other \in Era, v \in User :
            <<other, v>> # <<era, u>> => changed[other][v] = svc.job[other][v]
  BY <1>1
<1>4. Becomes(era, u, state) = [svc EXCEPT !.job = changed]
  BY <1>1 DEF Becomes, BenchService
<1> HIDE DEF changed
<1>5. [svc EXCEPT !.job = changed] =
         [stock |-> svc.stock, orders |-> svc.orders, job |-> changed,
          recorded |-> svc.recorded, stalled |-> svc.stalled, late |-> svc.late]
  BY <1>1
<1>6. Becomes(era, u, state) \in BenchService
  BY <1>2, <1>4, <1>5 DEF BenchService
<1> QED BY <1>3, <1>4, <1>5, <1>6

(* A finished job has an outcome, or is forgotten.                          *)
LEMMA OutcomeTyped ==
    ASSUME svc \in BenchService, NEW era \in Era, NEW state \in Finished
    PROVE  /\ Outcome(era, state) \in {state, "gone"} /\ Outcome(era, state) \in JobState
           /\ era = "this" => Outcome(era, state) = state
BY DEF Outcome, JobState, BenchService, Era

\* ---------------------------------------------------------------- the steps

(* What the worker leaves alone, and what it may note of an unheard commit. *)
Working ==
    /\ svc' \in BenchService /\ rig' \in BenchRig /\ UNCHANGED <<pc, mem, fails>>
    /\ rig'.overlap = rig.overlap /\ rig'.reseeded = rig.reseeded /\ rig'.gaveUp = rig.gaveUp
    /\ rig.unheard => rig'.unheard
    /\ svc'.recorded = svc.recorded

Unsold == svc'.stock = svc.stock /\ svc'.orders = svc.orders
SoldTo(u) == svc'.stock = svc.stock - 1 /\ svc'.orders = svc.orders \cup {u}

(* One job's state is changed, and no other's.                              *)
MovesTo(era, u, state) ==
    /\ Working /\ svc'.job[era][u] = state
    /\ \A other \in Era, v \in User :
          <<other, v>> # <<era, u>> => svc'.job[other][v] = svc.job[other][v]
    /\ svc'.late \subseteq svc.late \cup {<<era, u>>}
    /\ era = "this" => svc'.job[era][u] # "gone"

(* The ways a job of the worker moves on.                                   *)
Moves(era, u) ==
    LET was == svc.job[era][u]  is == svc'.job[era][u] IN
    /\ Working
    /\ \A other \in Era, v \in User :
          <<other, v>> # <<era, u>> => svc'.job[other][v] = svc.job[other][v]
    /\ svc'.late \subseteq svc.late \cup {<<era, u>>}
    /\ era = "this" => is # "gone"
    /\ \/ /\ Unsold
          /\ \/ was = "wait" /\ is = "active"
             \/ was = "active" /\ is = "holding" /\ RowFree
             \/ was = "active" /\ is \in {"OUT_OF_STOCK", "gone"} /\ svc.stock <= 0
             \/ was = "active" /\ is \in {"lock timeout", "gone"}
             \/ was = "holding" /\ is = "inserted" /\ u \notin svc.orders
             \/ was = "holding" /\ is = "classify" /\ u \in svc.orders
             \/ was = "classify" /\ is \in {"completed", "gone"} /\ u \in svc.orders
             \/ was = "classify" /\ is \in {"DUPLICATE_ORDER", "gone"} /\ u \notin svc.orders
             \/ was \in InClaim /\ is \in {"errored", "gone"}
             \/ was = "committed" /\ is \in {"completed", "gone"}
             \/ was \in InWorker /\ is \in {"wait", "stalled"} /\ (was = "committed" => rig'.unheard)
       \/ /\ was = "inserted" /\ is \in {"committed", "errored", "gone"} /\ SoldTo(u)
          /\ is # "committed" => rig'.unheard

(* What a late slot does: no job moves.                                     *)
LateMoves(era, u) ==
    /\ Working /\ svc'.job = svc.job
    /\ <<era, u>> \in svc.late /\ svc'.late \subseteq svc.late
    /\ Unsold \/ (RowFree /\ u \notin svc.orders /\ SoldTo(u) /\ rig'.unheard)

(* The step of one job, in terms of the state it moves to.                  *)
LEMMA StateFacts ==
    ASSUME BenchTypeOK, NEW era \in Era, NEW u \in User, NEW state \in JobState,
           svc' = Becomes(era, u, state), WorkerStep, era = "this" => state # "gone"
    PROVE  MovesTo(era, u, state) /\ Unsold
<1>1. svc \in BenchService /\ rig \in BenchRig
  BY DEF BenchTypeOK
<1>2. UNCHANGED <<pc, mem, fails, rig>>
  BY DEF WorkerStep
<1>3. /\ svc' \in BenchService
      /\ svc'.stock = svc.stock /\ svc'.orders = svc.orders /\ svc'.recorded = svc.recorded
      /\ svc'.late = svc.late /\ svc'.job[era][u] = state
      /\ \A other \in Era, v \in User :
            <<other, v>> # <<era, u>> => svc'.job[other][v] = svc.job[other][v]
  BY <1>1, BecomesFacts
<1> QED BY <1>1, <1>2, <1>3 DEF Working, Unsold, MovesTo

(* A commit, in terms of the state its job moves to.                        *)
LEMMA SellFacts ==
    ASSUME BenchTypeOK, NEW era \in Era, NEW u \in User, NEW state \in JobState,
           svc' = Sell(Becomes(era, u, state), u), UNCHANGED <<pc, mem, fails>>,
           rig' = rig \/ rig' = [rig EXCEPT !.unheard = TRUE], era = "this" => state # "gone"
    PROVE  MovesTo(era, u, state) /\ SoldTo(u)
<1> DEFINE then == Becomes(era, u, state)
<1>1. svc \in BenchService /\ rig \in BenchRig
  BY DEF BenchTypeOK
<1>2. /\ then \in BenchService
      /\ then.stock = svc.stock /\ then.orders = svc.orders /\ then.recorded = svc.recorded
      /\ then.late = svc.late /\ then.job[era][u] = state
      /\ \A other \in Era, v \in User :
            <<other, v>> # <<era, u>> => then.job[other][v] = svc.job[other][v]
  BY <1>1, BecomesFacts
<1> HIDE DEF then
<1>3. svc' = [then EXCEPT !.stock = then.stock - 1, !.orders = then.orders \cup {u}]
  BY DEF Sell, then
<1>4. then.stock - 1 \in Int /\ then.orders \cup {u} \in SUBSET User
  BY <1>2 DEF BenchService
<1>5. /\ svc' \in BenchService /\ svc'.recorded = then.recorded /\ svc'.job = then.job
      /\ svc'.late = then.late /\ svc'.stock = svc.stock - 1 /\ svc'.orders = svc.orders \cup {u}
  BY <1>2, <1>3, <1>4 DEF BenchService
<1>6. /\ rig' \in BenchRig /\ rig'.overlap = rig.overlap /\ rig'.reseeded = rig.reseeded
      /\ rig'.gaveUp = rig.gaveUp /\ (rig.unheard => rig'.unheard)
  BY <1>1 DEF BenchRig
<1> QED BY <1>2, <1>5, <1>6 DEF Working, SoldTo, MovesTo

(* A stalled job goes back to the queue, or fails for good.                 *)
LEMMA StallFacts ==
    ASSUME BenchTypeOK, NEW era \in Era, NEW u \in User, Stall(era, u)
    PROVE  Moves(era, u)
<1> DEFINE job == <<era, u>>
           state == IF job \in svc.stalled THEN "stalled" ELSE "wait"
           then == Becomes(era, u, state)
<1>1. svc \in BenchService /\ rig \in BenchRig /\ svc.job[era][u] \in InWorker
  BY DEF BenchTypeOK, Stall
<1>2. PICK slots \in SUBSET {job} :
         svc' = [then EXCEPT !.stalled = then.stalled \cup {job}, !.late = then.late \cup slots]
  BY DEF Stall
<1>3. /\ state \in JobState /\ state \in {"wait", "stalled"}
  BY DEF JobState, Unfinished, Finished, Refused, Lost
<1>4. /\ then \in BenchService
      /\ then.stock = svc.stock /\ then.orders = svc.orders /\ then.recorded = svc.recorded
      /\ then.late = svc.late /\ then.job[era][u] = state
      /\ \A other \in Era, v \in User :
            <<other, v>> # <<era, u>> => then.job[other][v] = svc.job[other][v]
  <2> HIDE DEF state
  <2> QED BY <1>1, <1>3, BecomesFacts
<1> HIDE DEF then, state
<1>5. then.stalled \cup {job} \in SUBSET (Era \X User) /\ then.late \cup slots \in SUBSET (Era \X User)
  BY <1>4 DEF BenchService
<1>6. /\ svc' \in BenchService /\ svc'.recorded = then.recorded /\ svc'.job = then.job
      /\ svc'.late = then.late \cup slots /\ svc'.stock = then.stock /\ svc'.orders = then.orders
  BY <1>2, <1>4, <1>5 DEF BenchService
<1>7. /\ rig' \in BenchRig /\ rig'.overlap = rig.overlap /\ rig'.reseeded = rig.reseeded
      /\ rig'.gaveUp = rig.gaveUp /\ (rig.unheard => rig'.unheard)
      /\ svc.job[era][u] = "committed" => rig'.unheard
      /\ UNCHANGED <<pc, mem, fails>>
  <2>1. PICK n \in Nat : n = rig.stalls + 1
    BY <1>1 DEF BenchRig
  <2>2. PICK told \in BOOLEAN : told <=> rig.unheard \/ svc.job[era][u] = "committed"
    OBVIOUS
  <2>3. rig' = [rig EXCEPT !.stalls = n, !.unheard = told] /\ UNCHANGED <<pc, mem, fails>>
    <3>1. told = (rig.unheard \/ svc.job[era][u] = "committed")
      BY <1>1, <2>2 DEF BenchRig
    <3> QED BY <2>1, <3>1 DEF Stall
  <2> QED BY <1>1, <2>2, <2>3 DEF BenchRig
<1>8. Working /\ Unsold
  BY <1>4, <1>6, <1>7 DEF Working, Unsold
<1> QED BY <1>1, <1>3, <1>4, <1>6, <1>7, <1>8 DEF Moves

(* Picking a job up, each step of its claim and its stalling are such moves.*)
LEMMA WorkerMoves ==
    ASSUME BenchTypeOK, NEW era \in Era, NEW u \in User,
           PickUp(era, u) \/ Claim(era, u) \/ Stall(era, u)
    PROVE  Moves(era, u)
<1>1. svc \in BenchService /\ svc.stock \in Int
  BY DEF BenchTypeOK, BenchService
<1>2. \A state \in {"OUT_OF_STOCK", "lock timeout", "DUPLICATE_ORDER", "errored", "completed"} :
         /\ Outcome(era, state) \in {state, "gone"} /\ Outcome(era, state) \in JobState
         /\ era = "this" => Outcome(era, state) # "gone"
  BY <1>1, OutcomeTyped DEF Finished, Refused, Lost
<1>3. {"active", "holding", "inserted", "classify", "committed"} \subseteq JobState
  BY DEF JobState, Unfinished, InWorker, InClaim
<1>5. CASE PickUp(era, u)
  <2>1. svc' = Becomes(era, u, "active") /\ WorkerStep /\ svc.job[era][u] = "wait"
    BY <1>5 DEF PickUp
  <2>2. MovesTo(era, u, "active") /\ Unsold
    BY <1>3, <2>1, StateFacts
  <2> QED BY <2>1, <2>2 DEF Moves, MovesTo
<1>6. CASE LockRow(era, u)
  <2>1. WorkerStep /\ svc.job[era][u] = "active"
    BY <1>6 DEF LockRow
  <2>2. CASE RowFree /\ svc.stock > 0 /\ svc' = Becomes(era, u, "holding")
    <3>1. MovesTo(era, u, "holding") /\ Unsold
      BY <1>3, <2>1, <2>2, StateFacts
    <3> QED BY <2>1, <2>2, <3>1 DEF Moves, MovesTo
  <2>3. CASE ~(svc.stock > 0) /\ svc' = Becomes(era, u, Outcome(era, "OUT_OF_STOCK"))
    <3>1. PICK state \in JobState :
             /\ state = Outcome(era, "OUT_OF_STOCK") /\ state \in {"OUT_OF_STOCK", "gone"}
             /\ era = "this" => state # "gone"
      BY <1>2
    <3>2. svc.stock <= 0
      BY <1>1, <2>3
    <3>3. MovesTo(era, u, state) /\ Unsold
      BY <2>1, <2>3, <3>1, StateFacts
    <3> QED BY <2>1, <3>1, <3>2, <3>3 DEF Moves, MovesTo
  <2>4. CASE svc' = Becomes(era, u, Outcome(era, "lock timeout"))
    <3>1. PICK state \in JobState :
             /\ state = Outcome(era, "lock timeout") /\ state \in {"lock timeout", "gone"}
             /\ era = "this" => state # "gone"
      BY <1>2
    <3>2. MovesTo(era, u, state) /\ Unsold
      BY <2>1, <2>4, <3>1, StateFacts
    <3> QED BY <2>1, <3>1, <3>2 DEF Moves, MovesTo
  <2> QED BY <1>6, <2>2, <2>3, <2>4 DEF LockRow
<1>7. CASE InsertOrder(era, u)
  <2>1. WorkerStep /\ svc.job[era][u] = "holding"
    BY <1>7 DEF InsertOrder
  <2>2. CASE u \in svc.orders /\ svc' = Becomes(era, u, "classify")
    <3>1. MovesTo(era, u, "classify") /\ Unsold
      BY <1>3, <2>1, <2>2, StateFacts
    <3> QED BY <2>1, <2>2, <3>1 DEF Moves, MovesTo
  <2>3. CASE u \notin svc.orders /\ svc' = Becomes(era, u, "inserted")
    <3>1. MovesTo(era, u, "inserted") /\ Unsold
      BY <1>3, <2>1, <2>3, StateFacts
    <3> QED BY <2>1, <2>3, <3>1 DEF Moves, MovesTo
  <2> QED BY <1>7, <2>2, <2>3 DEF InsertOrder
<1>8. CASE ClassifyDuplicate(era, u)
  <2>1. WorkerStep /\ svc.job[era][u] = "classify"
    BY <1>8 DEF ClassifyDuplicate
  <2>2. PICK told \in {"completed", "DUPLICATE_ORDER"} :
           /\ told = "completed" <=> u \in svc.orders
           /\ svc' = Becomes(era, u, Outcome(era, told))
    BY <1>8 DEF ClassifyDuplicate
  <2>3. PICK state \in JobState :
           /\ state = Outcome(era, told) /\ state \in {told, "gone"}
           /\ era = "this" => state # "gone"
    BY <1>2
  <2>4. MovesTo(era, u, state) /\ Unsold
    BY <2>1, <2>2, <2>3, StateFacts
  <2> QED BY <2>1, <2>2, <2>3, <2>4 DEF Moves, MovesTo
<1>9. CASE ClaimFails(era, u) \/ ReportSale(era, u)
  <2>1. PICK told \in {"errored", "completed"} :
           /\ svc' = Becomes(era, u, Outcome(era, told)) /\ WorkerStep
           /\ \/ told = "errored" /\ svc.job[era][u] \in InClaim
              \/ told = "completed" /\ svc.job[era][u] = "committed"
    BY <1>9 DEF ClaimFails, ReportSale
  <2>2. PICK state \in JobState :
           /\ state = Outcome(era, told) /\ state \in {told, "gone"}
           /\ era = "this" => state # "gone"
    BY <1>2
  <2>3. MovesTo(era, u, state) /\ Unsold
    BY <2>1, <2>2, StateFacts
  <2> QED BY <2>1, <2>2, <2>3 DEF Moves, MovesTo
<1>10. CASE CommitOrder(era, u)
  <2>1. /\ svc' = Sell(Becomes(era, u, "committed"), u) /\ svc.job[era][u] = "inserted"
        /\ UNCHANGED <<pc, mem, fails, rig>>
    BY <1>10 DEF CommitOrder, WorkerStep
  <2>2. MovesTo(era, u, "committed") /\ SoldTo(u)
    BY <1>3, <2>1, SellFacts
  <2> QED BY <2>1, <2>2 DEF Moves, MovesTo
<1>11. CASE CommitUnheard(era, u)
  <2>1. PICK state \in JobState :
           /\ state = Outcome(era, "errored") /\ state \in {"errored", "gone"}
           /\ era = "this" => state # "gone"
    BY <1>2
  <2>2. /\ svc' = Sell(Becomes(era, u, state), u) /\ svc.job[era][u] = "inserted"
        /\ UNCHANGED <<pc, mem, fails>> /\ rig' = [rig EXCEPT !.unheard = TRUE]
    BY <1>11, <2>1 DEF CommitUnheard
  <2>3. rig'.unheard
    BY <2>2 DEF BenchTypeOK, BenchRig
  <2>4. MovesTo(era, u, state) /\ SoldTo(u)
    BY <2>1, <2>2, SellFacts
  <2> QED BY <2>1, <2>2, <2>3, <2>4 DEF Moves, MovesTo
<1>12. CASE Stall(era, u)
  BY <1>12, StallFacts
<1> QED BY <1>5, <1>6, <1>7, <1>8, <1>9, <1>10, <1>11, <1>12 DEF Claim

(* A late slot ends its claim one way or the other.                         *)
LEMMA LateSlotMoves ==
    ASSUME BenchTypeOK, NEW era \in Era, NEW u \in User, LateSlot(era, u)
    PROVE  LateMoves(era, u)
<1> DEFINE left == svc.late \ {<<era, u>>}
<1>1. svc \in BenchService /\ rig \in BenchRig /\ left \in SUBSET (Era \X User)
  BY DEF BenchTypeOK, BenchService
<1>2. CASE LateCommit(era, u)
  <2>1. /\ svc' = [svc EXCEPT !.late = left, !.stock = svc.stock - 1, !.orders = svc.orders \cup {u}]
        /\ <<era, u>> \in svc.late /\ RowFree /\ u \notin svc.orders
        /\ rig' = [rig EXCEPT !.unheard = TRUE] /\ UNCHANGED <<pc, mem, fails>>
    BY <1>1, <1>2 DEF LateCommit, Sell, BenchService
  <2>2. svc.stock - 1 \in Int /\ svc.orders \cup {u} \in SUBSET User
    BY <1>1 DEF BenchService
  <2> HIDE DEF left
  <2>3. /\ svc' \in BenchService /\ svc'.job = svc.job /\ svc'.recorded = svc.recorded
        /\ svc'.late = left /\ SoldTo(u)
    BY <1>1, <2>1, <2>2 DEF BenchService, SoldTo
  <2>4. /\ rig' \in BenchRig /\ rig'.overlap = rig.overlap /\ rig'.reseeded = rig.reseeded
        /\ rig'.gaveUp = rig.gaveUp /\ rig'.unheard
    BY <1>1, <2>1 DEF BenchRig
  <2> QED BY <2>1, <2>3, <2>4 DEF LateMoves, Working, left
<1>3. CASE LateFails(era, u)
  <2>1. /\ svc' = [svc EXCEPT !.late = left] /\ <<era, u>> \in svc.late
        /\ UNCHANGED <<pc, mem, fails, rig>>
    BY <1>3 DEF LateFails, WorkerStep
  <2> HIDE DEF left
  <2>2. /\ svc' \in BenchService /\ svc'.job = svc.job /\ svc'.recorded = svc.recorded
        /\ svc'.late = left /\ Unsold
    BY <1>1, <2>1 DEF BenchService, Unsold
  <2> QED BY <1>1, <2>1, <2>2 DEF LateMoves, Working, left
<1> QED BY <1>2, <1>3 DEF LateSlot

(* What the scripts do to the service, statement by statement.              *)
LEMMA TruncateFacts ==
    ASSUME BenchTypeOK, TruncateOrders
    PROVE  /\ svc' \in BenchService /\ svc'.orders = {} /\ svc'.stock = svc.stock
           /\ svc'.job = svc.job /\ svc'.recorded = svc.recorded /\ svc'.late = svc.late
           /\ rig' = [rig EXCEPT !.overlap = Jobs(Unfinished) # {} \/ svc.late # {}]
           /\ pc = "reset" /\ pc' = "restock" /\ mem' = mem /\ fails' = fails
           /\ Jobs({"inserted"}) = {}
BY DEF BenchTypeOK, BenchService, TruncateOrders, GoTo

(* What the restore of the stock leaves alone.                              *)
LEMMA RestoreFacts ==
    ASSUME BenchTypeOK, RestoreStock
    PROVE  /\ svc' \in BenchService /\ svc'.orders = svc.orders /\ svc'.stock = Units
           /\ svc'.job = svc.job /\ svc'.recorded = svc.recorded /\ svc'.late = svc.late
           /\ pc = "restock" /\ pc' = "clear" /\ mem' = mem /\ fails' = fails /\ rig' = rig
BY DEF BenchTypeOK, BenchService, RestoreStock, GoTo

(* What the seed leaves alone.                                              *)
LEMMA SeedFacts ==
    ASSUME BenchTypeOK, Seed
    PROVE  /\ svc' \in BenchService /\ svc'.orders = svc.orders /\ svc'.stock = Units
           /\ svc'.job = svc.job /\ svc'.recorded = svc.recorded /\ svc'.late = svc.late
           /\ rig' = [rig EXCEPT !.reseeded = TRUE]
           /\ pc = "reset" /\ pc' = "load" /\ mem' = mem /\ fails' = fails
BY DEF BenchTypeOK, BenchService, Seed, GoTo

(* Redis cleared, worker restarted: jobs of the earlier run are forgotten.  *)
LEMMA ClearFacts ==
    ASSUME BenchTypeOK, ClearRedis \/ RestartWorker
    PROVE  /\ svc' \in BenchService /\ svc'.orders = svc.orders /\ svc'.stock = svc.stock
           /\ mem' = mem /\ fails' = fails /\ rig' = rig
           /\ svc'.job["this"] = svc.job["this"] /\ svc'.late \subseteq svc.late
           /\ \A u \in User : svc'.job["earlier"][u] \in {svc.job["earlier"][u], "gone"}
           /\ \/ pc = "clear" /\ pc' = "restart" /\ svc'.recorded = {"this"}
              \/ pc = "restart" /\ pc' = "load" /\ svc'.recorded = svc.recorded
<1> DEFINE forgets == [u \in User |-> IF svc.job["earlier"][u] \in InWorker
                                       THEN svc.job["earlier"][u] ELSE "gone"]
           all == [u \in User |-> "gone"]
<1>1. /\ svc \in BenchService /\ svc.job \in [Era -> [User -> JobState]]
      /\ "earlier" \in Era /\ "this" \in Era /\ "gone" \in JobState
  BY DEF BenchTypeOK, BenchService, Era, JobState
<1>2. forgets \in [User -> JobState] /\ all \in [User -> JobState]
      /\ \A u \in User : forgets[u] \in {svc.job["earlier"][u], "gone"} /\ all[u] = "gone"
  BY <1>1
<1>3. CASE ClearRedis
  <2>1. svc' = [svc EXCEPT !.recorded = {"this"}, !.job = [svc.job EXCEPT !["earlier"] = forgets]]
        /\ pc = "clear" /\ pc' = "restart" /\ mem' = mem /\ fails' = fails /\ rig' = rig
    BY <1>1, <1>3 DEF ClearRedis, GoTo, BenchService
  <2> HIDE DEF forgets
  <2> QED BY <1>1, <1>2, <2>1 DEF BenchService
<1>4. CASE RestartWorker
  <2>1. pc = "restart" /\ pc' = "load" /\ mem' = mem /\ fails' = fails /\ rig' = rig
    BY <1>4 DEF RestartWorker, GoTo
  <2>2. CASE svc' = svc
    BY <1>1, <2>1, <2>2
  <2>3. CASE svc' # svc
    <3>1. svc' = [svc EXCEPT !.job = [svc.job EXCEPT !["earlier"] = all], !.late = {}]
      BY <1>1, <1>4, <2>3 DEF RestartWorker, BenchService
    <3> HIDE DEF all
    <3>2. [svc.job EXCEPT !["earlier"] = all] \in [Era -> [User -> JobState]]
      BY <1>1, <1>2
    <3>3. /\ svc' \in BenchService /\ svc'.orders = svc.orders /\ svc'.stock = svc.stock
          /\ svc'.recorded = svc.recorded /\ svc'.late = {}
          /\ svc'.job = [svc.job EXCEPT !["earlier"] = all]
      BY <1>1, <3>1, <3>2 DEF BenchService
    <3> QED BY <1>1, <1>2, <2>1, <3>3
  <2> QED BY <2>2, <2>3
<1> QED BY <1>3, <1>4

(* One user's request: a job of this run, unless it is lost.                *)
LEMMA LoadFacts ==
    ASSUME BenchTypeOK, Loaded, Load
    PROVE  \E u \in User \ mem.asked :
              /\ mem' = [mem EXCEPT !.asked = mem.asked \cup {u}]
              /\ pc = "load" /\ UNCHANGED <<pc, fails, rig>>
              /\ svc' \in BenchService /\ svc'.orders = svc.orders /\ svc'.stock = svc.stock
              /\ svc'.recorded = svc.recorded /\ svc'.late = svc.late
              /\ svc.job["this"][u] = "none" /\ svc'.job["this"][u] \in {"none", "wait"}
              /\ \A other \in Era, v \in User :
                    <<other, v>> # <<"this", u>> => svc'.job[other][v] = svc.job[other][v]
<1>1. PICK u \in User \ mem.asked :
         /\ mem' = [mem EXCEPT !.asked = mem.asked \cup {u}]
         /\ svc' = Becomes("this", u, "wait") \/ svc' = svc
         /\ pc = "load" /\ UNCHANGED <<pc, fails, rig>>
  BY DEF Load
<1>2. /\ svc \in BenchService /\ "wait" \in JobState /\ "this" \in Era /\ u \in User
      /\ svc.job["this"][u] = "none"
  BY <1>1 DEF BenchTypeOK, JobState, Unfinished, Era, Loaded
<1>3. CASE svc' = Becomes("this", u, "wait")
  <2>1. /\ svc' \in BenchService /\ svc'.orders = svc.orders /\ svc'.stock = svc.stock
        /\ svc'.recorded = svc.recorded /\ svc'.late = svc.late /\ svc'.job["this"][u] = "wait"
        /\ \A other \in Era, v \in User :
              <<other, v>> # <<"this", u>> => svc'.job[other][v] = svc.job[other][v]
    BY <1>2, <1>3, BecomesFacts
  <2> QED BY <1>1, <1>2, <2>1
<1>4. CASE svc' = svc
  BY <1>1, <1>2, <1>4
<1> QED BY <1>1, <1>3, <1>4

(* What a step of the run is: of a job, of the reset, or of the measurement.*)
LEMMA Steps ==
    ASSUME BenchTypeOK, NextBench
    PROVE  \/ \E era \in Era, u \in User : (Moves(era, u) \/ LateMoves(era, u)) /\ pc # "done"
           \/ TruncateOrders \/ RestoreStock \/ ClearRedis \/ RestartWorker \/ Seed
           \/ Load \/ WaitForDrain \/ Verify \/ Measure
BY WorkerMoves, LateSlotMoves DEF NextBench, RunJob, Reset

(* Every step keeps the types.                                              *)
LEMMA BenchTypeStep ==
    ASSUME BenchTypeOK, Loaded, NextBench
    PROVE  BenchTypeOK'
<1>1. /\ Cardinality(svc.orders) \in Nat /\ svc.stock \in Int /\ svc \in BenchService
      /\ \A states : Cardinality(Recorded(states)) \in Nat
  <2>1. IsFiniteSet(Era \X User)
    <3>1. IsFiniteSet({"earlier"})
      BY FS_Singleton
    <3>2. IsFiniteSet(Era)
      <4>1. Era = {"earlier"} \cup {"this"}
        BY DEF Era
      <4> QED BY <3>1, <4>1, FS_AddElement
    <3> QED BY <3>2, FS_Product
  <2>2. \A states : IsFiniteSet(Recorded(states))
    <3>1. \A states : Recorded(states) \subseteq Era \X User
      BY DEF Recorded, Jobs
    <3> QED BY <2>1, <3>1, FS_Subset
  <2> QED BY <2>2, OrdersFinite, FS_CardinalityType DEF BenchTypeOK, BenchService
<1> USE DEF BenchTypeOK
<1>2. ASSUME NEW era \in Era, NEW u \in User, Moves(era, u) \/ LateMoves(era, u) PROVE BenchTypeOK'
  BY <1>2 DEF Moves, LateMoves, Working
<1>3. CASE TruncateOrders
  BY <1>3, TruncateFacts DEF BenchRig
<1>4. CASE RestoreStock
  BY <1>4, RestoreFacts
<1>5. CASE ClearRedis \/ RestartWorker
  BY <1>5, ClearFacts
<1>6. CASE Seed
  BY <1>6, SeedFacts DEF BenchRig
<1>7. CASE Load
  BY <1>7, LoadFacts
<1>8. CASE WaitForDrain
  BY <1>8 DEF WaitForDrain, GoTo, BenchRig
<1>9. CASE Verify
  BY <1>1, <1>9 DEF Verify, GoTo
<1>10. CASE Measure
  BY <1>1, <1>10 DEF Measure, GoTo
<1> HIDE DEF BenchTypeOK
<1> QED BY <1>2, <1>3, <1>4, <1>5, <1>6, <1>7, <1>8, <1>9, <1>10, Steps

(* The row lock: a second holder would have needed the row to be free.      *)
LEMMA HolderStep ==
    ASSUME BenchTypeOK, OneHolder, Loaded, NextBench
    PROVE  OneHolder'
<1> DEFINE H == {"holding", "inserted"}
<1>1. /\ \A era, other \in Era : \A u, v \in User :
            svc.job[era][u] \in H /\ svc.job[other][v] \in H => era = other /\ u = v
      /\ \A era \in Era : \A u \in User : svc.job[era][u] = "inserted" => u \notin svc.orders
  BY OneHolderMeans
<1>2. OneHolder' <=>
        /\ \A era, other \in Era : \A u, v \in User :
              svc'.job[era][u] \in H /\ svc'.job[other][v] \in H => era = other /\ u = v
        /\ \A era \in Era : \A u \in User : svc'.job[era][u] = "inserted" => u \notin svc'.orders
  <2>1. (OneHolder <=>
        /\ \A era, other \in Era : \A u, v \in User :
              svc.job[era][u] \in {"holding", "inserted"}
                /\ svc.job[other][v] \in {"holding", "inserted"} => era = other /\ u = v
        /\ \A era \in Era : \A u \in User : svc.job[era][u] = "inserted" => u \notin svc.orders)'
    BY OneHolderMeans, PTL
  <2> QED BY <2>1
<1>3. ASSUME svc'.orders \subseteq svc.orders,
             \A era \in Era, u \in User :
                svc'.job[era][u] = svc.job[era][u] \/ svc'.job[era][u] \notin H
      PROVE  OneHolder'
  BY <1>1, <1>2, <1>3
<1>4. ASSUME NEW era \in Era, NEW u \in User, Moves(era, u) PROVE OneHolder'
  <2>1. CASE svc'.job[era][u] = "holding"
    <3>1. RowFree /\ svc'.orders = svc.orders
      BY <1>4, <2>1 DEF Moves, Unsold
    <3>2. \A other \in Era, v \in User : svc.job[other][v] \notin H
      BY <3>1, JobsMembers DEF RowFree
    <3> QED BY <1>2, <1>4, <2>1, <3>1, <3>2 DEF Moves
  <2>2. CASE svc'.job[era][u] = "inserted"
    <3>1. svc.job[era][u] = "holding" /\ u \notin svc.orders /\ svc'.orders = svc.orders
      BY <1>4, <2>2 DEF Moves, Unsold
    <3> QED BY <1>1, <1>2, <1>4, <2>2, <3>1 DEF Moves
  <2>3. CASE svc'.job[era][u] \notin H
    <3>1. CASE svc'.orders = svc.orders
      BY <1>3, <1>4, <2>3, <3>1 DEF Moves
    <3>2. CASE svc'.orders # svc.orders
      <4>1. svc.job[era][u] = "inserted"
        BY <1>4, <3>2 DEF Moves, Unsold
      <4>2. \A other \in Era, v \in User : svc'.job[other][v] \notin H
        BY <1>1, <1>4, <2>3, <4>1 DEF Moves
      <4> QED BY <1>2, <4>2
    <3> QED BY <3>1, <3>2
  <2> QED BY <2>1, <2>2, <2>3
<1>11. ASSUME NEW era \in Era, NEW u \in User, LateMoves(era, u) PROVE OneHolder'
  <2>1. svc'.job = svc.job
    BY <1>11 DEF LateMoves
  <2>2. CASE Unsold
    BY <1>3, <2>1, <2>2 DEF Unsold
  <2>3. CASE RowFree
    <3>1. \A other \in Era, v \in User : svc'.job[other][v] \notin H
      BY <2>1, <2>3, JobsMembers DEF RowFree
    <3> QED BY <1>2, <3>1
  <2> QED BY <1>11, <2>2, <2>3 DEF LateMoves
<1>5. CASE TruncateOrders
  BY <1>3, <1>5, TruncateFacts
<1>6. CASE RestoreStock
  BY <1>3, <1>6, RestoreFacts
<1>7. CASE ClearRedis \/ RestartWorker
  BY <1>3, <1>7, ClearFacts DEF Era
<1>8. CASE Seed
  BY <1>3, <1>8, SeedFacts
<1>9. CASE Load
  <2>1. PICK u \in User \ mem.asked :
           /\ svc'.orders = svc.orders /\ svc'.job["this"][u] \in {"none", "wait"}
           /\ \A other \in Era, v \in User :
                 <<other, v>> # <<"this", u>> => svc'.job[other][v] = svc.job[other][v]
    BY <1>9, LoadFacts
  <2> QED BY <1>3, <2>1
<1>10. CASE WaitForDrain \/ Verify \/ Measure
  BY <1>3, <1>10 DEF WaitForDrain, Verify, Measure
<1> QED BY <1>4, <1>5, <1>6, <1>7, <1>8, <1>9, <1>10, <1>11, Steps

(* A user who was not asked has no job in this run.                         *)
LEMMA LoadedStep ==
    ASSUME BenchTypeOK, Loaded, CleanRun, NextBench
    PROVE  Loaded'
<1> USE DEF BenchTypeOK, Loaded
<1>0. "this" \in Era
  BY DEF Era
<1>1. ASSUME NEW era \in Era, NEW u \in User, Moves(era, u) PROVE Loaded'
  <2>1. UNCHANGED <<pc, mem>> /\ rig'.reseeded = rig.reseeded /\ svc'.recorded = svc.recorded
    BY <1>1 DEF Moves, Working
  <2>2. svc.job[era][u] # "none"
    BY <1>1 DEF Moves, InWorker, InClaim
  <2>3. \A v \in User : v \notin mem.asked => svc'.job["this"][v] = "none"
    BY <1>0, <1>1, <2>2 DEF Moves
  <2>4. svc'.late \subseteq svc.late \cup {<<era, u>>}
    BY <1>1 DEF Moves
  <2>5. \A v \in User : v \notin mem.asked => <<"this", v>> \notin svc'.late
    BY <2>2, <2>4
  <2> QED BY <2>1, <2>3, <2>5
<1>10. ASSUME NEW era \in Era, NEW u \in User, LateMoves(era, u) PROVE Loaded'
  BY <1>10 DEF LateMoves, Working
<1>2. CASE TruncateOrders
  BY <1>2, TruncateFacts
<1>3. CASE RestoreStock
  BY <1>3, RestoreFacts
<1>4. CASE ClearRedis \/ RestartWorker
  BY <1>4, ClearFacts
<1>5. CASE Seed
  BY <1>5, SeedFacts DEF BenchRig
<1>6. CASE Load
  BY <1>0, <1>6, LoadFacts
<1>7. CASE WaitForDrain
  BY <1>7 DEF WaitForDrain, GoTo
<1>8. CASE Verify
  BY <1>8 DEF Verify, GoTo
<1>9. CASE Measure
  BY <1>9 DEF Measure, GoTo
<1> HIDE DEF BenchTypeOK, Loaded
<1> QED BY <1>1, <1>2, <1>3, <1>4, <1>5, <1>6, <1>7, <1>8, <1>9, <1>10, Steps

(* Committing an order takes a unit for it; cardinalities of the orders.    *)
LEMMA OrdersCount ==
    ASSUME BenchTypeOK
    PROVE  /\ drift \in Int /\ Cardinality(svc.orders) \in Nat /\ svc.stock \in Int
           /\ \A u \in User \ svc.orders :
                 Cardinality(svc.orders \cup {u}) = Cardinality(svc.orders) + 1
<1>1. svc.orders \in SUBSET User /\ svc.stock \in Int
  BY DEF BenchTypeOK, BenchService
<1>2. IsFiniteSet(svc.orders) /\ Cardinality(svc.orders) \in Nat
  BY <1>1, OrdersFinite
<1> QED BY <1>1, <1>2, FS_AddElement DEF drift

(* A claim keeps the balance, and only the reset and the seed change it.    *)
LEMMA BalanceStep ==
    ASSUME BenchTypeOK, OneHolder, Balance, CleanRun, Loaded, NextBench
    PROVE  Balance'
<1>1. /\ drift \in Int /\ Cardinality(svc.orders) \in Nat /\ svc.stock \in Int
      /\ \A u \in User \ svc.orders :
            Cardinality(svc.orders \cup {u}) = Cardinality(svc.orders) + 1
  BY OrdersCount
<1>2. ASSUME svc'.stock = svc.stock, svc'.orders = svc.orders PROVE drift' = drift
  BY <1>2 DEF drift
<1>3. ASSUME NEW era \in Era, NEW u \in User, Moves(era, u) \/ LateMoves(era, u) PROVE Balance'
  <2>1. /\ UNCHANGED <<pc, fails>>
        /\ rig'.overlap = rig.overlap /\ rig'.reseeded = rig.reseeded
    BY <1>3 DEF Moves, LateMoves, Working
  <2>2. drift' = drift
    <3>1. CASE Unsold
      BY <1>2, <3>1 DEF Unsold
    <3>2. CASE SoldTo(u) /\ u \notin svc.orders
      <4>1. svc'.stock = svc.stock - 1 /\ svc'.orders = svc.orders \cup {u}
        BY <3>2 DEF SoldTo
      <4>2. Cardinality(svc'.orders) = Cardinality(svc.orders) + 1
        BY <1>1, <3>2, <4>1
      <4> QED BY <1>1, <4>1, <4>2 DEF drift
    <3>3. svc.job[era][u] = "inserted" => u \notin svc.orders
      BY OneHolderMeans
    <3>4. Unsold \/ (SoldTo(u) /\ u \notin svc.orders)
      BY <1>3, <3>3 DEF Moves, LateMoves
    <3> QED BY <3>1, <3>2, <3>4
  <2> QED BY <2>1, <2>2 DEF Balance
<1>4. CASE TruncateOrders
  BY <1>4, TruncateFacts DEF Balance
<1>5. CASE RestoreStock
  <2>1. /\ svc'.orders = svc.orders /\ svc'.stock = Units
        /\ pc = "restock" /\ pc' = "clear" /\ fails' = fails /\ rig' = rig
    BY <1>5, RestoreFacts
  <2>2. drift' = 0 - Cardinality(svc.orders)
    BY <1>1, <2>1 DEF drift
  <2>3. ~rig.overlap /\ ~rig.reseeded => Cardinality(svc.orders) = 0
    <3> SUFFICES ASSUME ~rig.overlap, ~rig.reseeded PROVE svc.orders = {}
      BY FS_EmptySet
    <3> QED BY <2>1 DEF CleanRun
  <2> QED BY <1>1, <2>1, <2>2, <2>3 DEF Balance
<1>6. CASE ClearRedis \/ RestartWorker
  <2>1. /\ svc'.orders = svc.orders /\ svc'.stock = svc.stock /\ fails' = fails /\ rig' = rig
        /\ pc \in {"clear", "restart"} /\ pc' \in {"restart", "load"}
    BY <1>6, ClearFacts
  <2> QED BY <1>2, <2>1 DEF Balance
<1>7. CASE Seed
  <2>1. /\ svc'.orders = svc.orders /\ svc'.stock = Units /\ fails' = fails
        /\ pc = "reset" /\ pc' = "load" /\ rig'.reseeded
    BY <1>7, SeedFacts DEF BenchTypeOK, BenchRig
  <2>2. drift' <= 0
    BY <1>1, <2>1 DEF drift
  <2> QED BY <2>1, <2>2 DEF Balance
<1>8. CASE Load
  <2>1. svc'.orders = svc.orders /\ svc'.stock = svc.stock /\ UNCHANGED <<pc, fails, rig>>
    BY <1>8, LoadFacts
  <2> QED BY <1>2, <2>1 DEF Balance
<1>9. CASE WaitForDrain
  <2>1. /\ svc' = svc /\ fails' = fails /\ pc = "load" /\ pc' = "verify"
        /\ rig'.overlap = rig.overlap /\ rig'.reseeded = rig.reseeded
    BY <1>9 DEF WaitForDrain, GoTo, BenchTypeOK, BenchRig
  <2> QED BY <1>2, <2>1 DEF Balance
<1>10. CASE Verify \/ Measure
  BY <1>10 DEF Verify, Measure, GoTo, Balance
<1> QED BY <1>3, <1>4, <1>5, <1>6, <1>7, <1>8, <1>9, <1>10, Steps

(* What verify.sql reports of the units is explained.                       *)
LEMMA DriftStep ==
    ASSUME mem.script = "bench", BenchTypeOK, Balance, DriftExplained, NextBench
    PROVE  DriftExplained'
<1>1. CASE Verify
  <2>1. /\ pc = "verify" /\ svc' = svc /\ rig' = rig
        /\ mem'.left = svc.stock /\ mem'.sold = Cardinality(svc.orders)
    BY <1>1 DEF Verify, BenchTypeOK
  <2>2. "drift" \in fails' => drift # 0
    BY <1>1, <2>1 DEF Verify, Report, Balance
  <2>3. drift <= 0 /\ (~rig.overlap /\ ~rig.reseeded => drift = 0)
    BY <2>1 DEF Balance
  <2>4. drift # 0 => Cardinality(svc.orders) > Units - svc.stock
    BY <2>3, OrdersCount DEF drift
  <2> QED BY <2>1, <2>2, <2>3, <2>4 DEF DriftExplained
<1>2. CASE Measure
  BY <1>2 DEF Measure, DriftExplained, BenchTypeOK
<1>3. ASSUME NEW era \in Era, NEW u \in User, Moves(era, u) \/ LateMoves(era, u)
      PROVE  DriftExplained'
  BY <1>3 DEF Moves, LateMoves, Working, DriftExplained
<1>4. ASSUME pc \notin {"measure", "done"}, fails' = fails PROVE DriftExplained'
  BY <1>4 DEF Balance, DriftExplained
<1>5. CASE TruncateOrders \/ RestoreStock \/ ClearRedis \/ RestartWorker \/ Seed \/ Load \/ WaitForDrain
  BY <1>4, <1>5 DEF TruncateOrders, RestoreStock, ClearRedis, RestartWorker, Seed, Load, WaitForDrain
<1> QED BY <1>1, <1>2, <1>3, <1>5, Steps

(* After a clean reset only the jobs of this run move, and each as it       *)
(* should.                                                                  *)
LEMMA CleanStep ==
    ASSUME BenchTypeOK, Loaded, CleanRun, NextBench
    PROVE  CleanRun'
<1> SUFFICES ASSUME ~rig'.overlap, ~rig'.reseeded, pc' # "reset"
             PROVE  CleanRun'
  BY DEF CleanRun
<1> DEFINE this == svc.job["this"]
           Sure == {"committed", "completed"}
           Clean == /\ \A u \in User : /\ svc.job["earlier"][u] \notin Unfinished
                                       /\ <<"earlier", u>> \notin svc.late
                    /\ \A u \in User : this[u] \notin {"gone", "DUPLICATE_ORDER"}
                    /\ \A u \in User : this[u] = "classify" => u \in svc.orders
                    /\ \A u \in User : this[u] \in Sure => u \in svc.orders
                    /\ ~rig.unheard => \A u \in svc.orders : this[u] \in Sure
           Short == (\E u \in User : this[u] = "OUT_OF_STOCK") => svc.stock <= 0
           Quiet == \A u \in User : this[u] \notin Unfinished
           Told == /\ Cardinality(Completed) <= mem.sold
                   /\ ~rig.unheard => Cardinality(Completed) = mem.sold
                   /\ (\E u \in User : this[u] = "OUT_OF_STOCK") => mem.left <= 0
           Measured == /\ mem.completed = Cardinality(Recorded({"completed"}))
                       /\ mem.failed = Cardinality(Recorded(Refused))
<1>0. "this" \in Era /\ "earlier" \in Era /\ "this" # "earlier"
  BY DEF Era
<1>1. /\ svc.stock \in Int /\ svc.orders \subseteq User /\ svc \in BenchService
      /\ svc.job \in [Era -> [User -> JobState]]
      /\ rig \in BenchRig
      /\ mem \in [script : {"bench"}, asked : SUBSET User, sold : Nat, left : Int,
                  completed : Nat, failed : Nat]
  BY DEF BenchTypeOK, BenchService
<1>2. ASSUME ~rig.overlap, ~rig.reseeded, pc # "reset"
      PROVE  /\ Clean
             /\ pc = "restock" => svc.orders = {}
             /\ pc # "restock" => Short
             /\ pc \in {"verify", "measure", "done"} /\ ~rig.gaveUp =>
                   Quiet /\ (pc # "verify" => Told) /\ (pc = "done" => Measured)
  BY <1>1, <1>2 DEF CleanRun, Acknowledged
<1>3. ASSUME Clean', pc' = "restock" => svc'.orders = {}, pc' # "restock" => Short',
             pc' \in {"verify", "measure", "done"} /\ ~rig'.gaveUp =>
                Quiet' /\ (pc' # "verify" => Told') /\ (pc' = "done" => Measured')
      PROVE  CleanRun'
  <2>1. svc'.orders \subseteq User
    <3>1. BenchTypeOK'
      BY BenchTypeStep
    <3> QED BY <3>1 DEF BenchTypeOK, BenchService
  <2>2. /\ (Acknowledged \subseteq svc.orders)'
        /\ (~rig.unheard => svc.orders \subseteq Acknowledged)'
    BY <1>3, <2>1 DEF Acknowledged
  <2> HIDE DEF Told, Measured
  <2>3. /\ (\A u \in User : svc.job["earlier"][u] \notin Unfinished /\ <<"earlier", u>> \notin svc.late)'
        /\ (\A u \in User : svc.job["this"][u] \notin {"gone", "DUPLICATE_ORDER"})'
        /\ (\A u \in User : svc.job["this"][u] = "classify" => u \in svc.orders)'
    BY <1>3
  <2>4. /\ pc' # "restock" /\ (\E u \in User : svc.job["this"][u] = "OUT_OF_STOCK")' => svc'.stock <= 0
        /\ pc' \in {"verify", "measure", "done"} /\ ~rig'.gaveUp =>
              /\ (\A u \in User : svc.job["this"][u] \notin Unfinished)'
              /\ pc' # "verify" => Told'
              /\ pc' = "done" => Measured'
    BY <1>3
  <2> USE DEF Told, Measured
  <2> HIDE DEF Clean, Short, Quiet, this
  <2> QED BY <1>3, <2>2, <2>3, <2>4 DEF CleanRun, this
<1> HIDE DEF Told, Measured
<1>4. ASSUME NEW era \in Era, NEW u \in User, Moves(era, u), pc # "done" PROVE CleanRun'
  <2> DEFINE was == svc.job[era][u]
             is == svc'.job[era][u]
  <2>1. /\ UNCHANGED <<pc, mem>> /\ rig'.gaveUp = rig.gaveUp
        /\ ~rig.overlap /\ ~rig.reseeded /\ pc # "reset" /\ (rig.unheard => rig'.unheard)
        /\ was \in Unfinished
    BY <1>4 DEF Moves, Working, Unfinished, InWorker, InClaim
  <2>2. /\ Clean /\ (pc # "restock" => Short)
        /\ pc \in {"verify", "measure", "done"} /\ ~rig.gaveUp => Quiet
    BY <1>2, <2>1
  <2>3. era = "this"
    BY <2>1, <2>2 DEF Era
  <2>4. ~(pc \in {"verify", "measure", "done"} /\ ~rig.gaveUp)
    BY <2>1, <2>2, <2>3
  <2>5. /\ \A v \in User : svc'.job["earlier"][v] = svc.job["earlier"][v]
        /\ \A v \in User \ {u} : svc'.job["this"][v] = this[v]
        /\ \A v \in User : <<"earlier", v>> \notin svc'.late
    <3>1. svc'.late \subseteq svc.late \cup {<<"this", u>>}
      BY <1>4, <2>3 DEF Moves
    <3>2. \A v \in User : <<"earlier", v>> # <<"this", u>>
      BY <1>0
    <3>3. \A v \in User : <<"earlier", v>> \notin svc'.late
      BY <2>2, <3>1, <3>2
    <3> QED BY <1>0, <1>4, <2>3, <3>3 DEF Moves
  <2>6. pc # "restock"
    <3>1. was # "none"
      BY <2>1 DEF Unfinished, InWorker, InClaim
    <3> QED BY <2>3, <3>1 DEF Loaded
  <2>7. /\ was = "classify" => u \in svc.orders
        /\ was = "committed" => u \in svc.orders
    BY <2>2, <2>3
  <2> DEFINE Progress == /\ is \notin {"gone", "DUPLICATE_ORDER"}
                         /\ svc.orders \subseteq svc'.orders
                         /\ is = "classify" => u \in svc'.orders
                         /\ is \in Sure => u \in svc'.orders
                         /\ ~rig'.unheard => (was \in Sure => is \in Sure)
                         /\ ~rig'.unheard => \A v \in svc'.orders \ svc.orders : v = u /\ is \in Sure
                         /\ svc'.stock <= svc.stock /\ svc'.stock \in Int
                         /\ is = "OUT_OF_STOCK" => svc'.stock <= 0
  <2>8. ASSUME SoldTo(u) PROVE Progress
    <3>1. /\ svc'.stock = svc.stock - 1 /\ svc'.orders = svc.orders \cup {u}
      BY <2>8 DEF SoldTo
    <3>2. CASE Unsold
      BY <1>1, <3>1, <3>2 DEF Unsold
    <3>3. CASE was = "inserted" /\ is \in {"committed", "errored"} /\ (is # "committed" => rig'.unheard)
      BY <1>1, <3>1, <3>3
    <3> QED BY <1>4, <2>3, <3>2, <3>3 DEF Moves
  <2>9. ASSUME Unsold PROVE Progress
    <3>1. svc'.stock = svc.stock /\ svc'.orders = svc.orders
      BY <2>9 DEF Unsold
    <3>2. \/ was = "wait" /\ is = "active"
          \/ was = "active" /\ is = "holding"
          \/ was = "active" /\ is = "OUT_OF_STOCK" /\ svc.stock <= 0
          \/ was = "active" /\ is = "lock timeout"
          \/ was = "holding" /\ is = "inserted"
          \/ was = "holding" /\ is = "classify" /\ u \in svc.orders
          \/ was = "classify" /\ is = "completed"
          \/ was \in InClaim /\ is = "errored"
          \/ was = "committed" /\ is = "completed"
          \/ was \in InWorker /\ is \in {"wait", "stalled"} /\ (was = "committed" => rig'.unheard)
      <4>1. SoldTo(u) => FALSE
        BY <1>1, <3>1 DEF SoldTo
      <4> HIDE DEF was, is
      <4> QED BY <1>4, <2>3, <2>7, <4>1 DEF Moves, was, is
    <3> HIDE DEF was, is
    <3>3. is \notin {"gone", "DUPLICATE_ORDER"} /\ (is = "classify" => u \in svc.orders)
      BY <3>2
    <3>4. is \in Sure => was \in {"classify", "committed"}
      BY <3>2
    <3>5. was \in Sure => is \in Sure \/ rig'.unheard
      BY <3>2 DEF InClaim, InWorker
    <3>6. is = "OUT_OF_STOCK" => svc.stock <= 0
      BY <3>2
    <3>7. svc'.orders \ svc.orders = {}
      BY <3>1
    <3> QED BY <1>1, <2>7, <3>1, <3>3, <3>4, <3>5, <3>6, <3>7
  <2>10. Progress
    BY <1>4, <2>8, <2>9 DEF Moves
  <2>11. Clean'
    <3>1. \A v \in User : v # u => svc'.job["this"][v] = this[v]
      BY <2>5
    <3>2. /\ \A v \in User : svc'.job["this"][v] \notin {"gone", "DUPLICATE_ORDER"}
          /\ \A v \in User : svc'.job["this"][v] = "classify" => v \in svc'.orders
          /\ \A v \in User : svc'.job["this"][v] \in Sure => v \in svc'.orders
      BY <2>2, <2>3, <2>10, <3>1
    <3>3. ASSUME ~rig'.unheard, NEW v \in svc'.orders PROVE svc'.job["this"][v] \in Sure
      <4>1. svc'.orders \subseteq User
        BY <1>4 DEF Moves, Working, BenchService
      <4>2. CASE v \in svc.orders
        <5>1. this[v] \in Sure /\ v \in User
          BY <2>1, <2>2, <3>3, <4>1, <4>2
        <5> QED BY <2>3, <2>10, <3>1, <3>3, <5>1
      <4>3. CASE v \notin svc.orders
        BY <2>3, <2>10, <3>3, <4>3
      <4> QED BY <4>2, <4>3
    <3> QED BY <2>2, <2>5, <3>2, <3>3
  <2>12. Short'
    <3>1. (\E v \in User \ {u} : svc'.job["this"][v] = "OUT_OF_STOCK") => svc'.stock <= 0
      BY <1>1, <2>2, <2>5, <2>6, <2>10
    <3> QED BY <2>3, <2>10, <3>1
  <2> HIDE DEF Clean, Short, Quiet
  <2> QED BY <1>3, <2>1, <2>4, <2>6, <2>11, <2>12
<1>13. ASSUME NEW era \in Era, NEW u \in User, LateMoves(era, u), pc # "done" PROVE CleanRun'
  <2>1. /\ UNCHANGED <<pc, mem>> /\ rig'.gaveUp = rig.gaveUp /\ svc'.recorded = svc.recorded
        /\ ~rig.overlap /\ ~rig.reseeded /\ pc # "reset" /\ (rig.unheard => rig'.unheard)
        /\ svc'.job = svc.job /\ svc'.late \subseteq svc.late /\ <<era, u>> \in svc.late
    BY <1>13 DEF LateMoves, Working
  <2>2. /\ Clean /\ (pc # "restock" => Short)
        /\ pc \in {"verify", "measure", "done"} /\ ~rig.gaveUp =>
              Quiet /\ (pc # "verify" => Told) /\ (pc = "done" => Measured)
    BY <1>2, <2>1
  <2>3. era = "this"
    BY <2>1, <2>2 DEF Era
  <2>4. pc # "restock"
    BY <2>1, <2>3 DEF Loaded
  <2>5. /\ svc.orders \subseteq svc'.orders /\ svc'.stock <= svc.stock /\ svc'.stock \in Int
        /\ ~rig'.unheard => svc'.orders = svc.orders
    BY <1>1, <1>13 DEF LateMoves, Unsold, SoldTo
  <2>6. Clean' /\ Short'
    BY <1>1, <2>1, <2>2, <2>4, <2>5
  <2>7. Quiet => Quiet'
    BY <2>1
  <2>8. Told => Told'
    BY <2>1 DEF Told, Completed
  <2>9. Measured => Measured'
    BY <2>1 DEF Measured, Recorded, Jobs
  <2> HIDE DEF Clean, Short, Quiet
  <2> QED BY <1>3, <2>1, <2>2, <2>4, <2>6, <2>7, <2>8, <2>9
<1>5. CASE TruncateOrders
  <2>1. /\ svc'.orders = {} /\ svc'.job = svc.job /\ pc = "reset" /\ pc' = "restock"
        /\ Jobs(Unfinished) = {} /\ svc.late = {} /\ svc'.late = svc.late
    BY <1>1, <1>5, TruncateFacts DEF BenchRig
  <2>2. \A era \in Era, u \in User : svc.job[era][u] \notin Unfinished
    BY <2>1, JobsMembers
  <2>3. \A u \in User : this[u] = "none"
    BY <2>1 DEF Loaded
  <2>4. Clean'
    BY <1>0, <2>1, <2>2, <2>3
  <2> HIDE DEF Clean
  <2> QED BY <1>3, <2>1, <2>4
<1>6. CASE RestoreStock
  <2>1. /\ svc'.orders = svc.orders /\ svc'.job = svc.job /\ pc = "restock" /\ pc' = "clear"
        /\ rig' = rig /\ svc'.late = svc.late
    BY <1>6, RestoreFacts
  <2>2. \A u \in User : this[u] = "none"
    BY <2>1 DEF Loaded
  <2>3. Clean' /\ Short'
    BY <1>2, <2>1, <2>2
  <2> HIDE DEF Clean, Short
  <2> QED BY <1>3, <2>1, <2>3
<1>7. CASE ClearRedis \/ RestartWorker
  <2>1. /\ svc'.orders = svc.orders /\ svc'.stock = svc.stock /\ rig' = rig
        /\ svc'.job["this"] = this /\ svc'.late \subseteq svc.late
        /\ \A u \in User : svc'.job["earlier"][u] \in {svc.job["earlier"][u], "gone"}
        /\ pc \in {"clear", "restart"} /\ pc' \in {"restart", "load"}
    BY <1>7, ClearFacts
  <2>2. Clean' /\ Short'
    BY <1>2, <2>1 DEF Unfinished, InWorker, InClaim
  <2> HIDE DEF Clean, Short
  <2> QED BY <1>3, <2>1, <2>2
<1>8. CASE Seed
  <2>1. rig' = [rig EXCEPT !.reseeded = TRUE]
    BY <1>8, SeedFacts
  <2> QED BY <1>1, <2>1 DEF BenchRig
<1>9. CASE Load
  <2>1. PICK u \in User \ mem.asked :
           /\ pc = "load" /\ pc' = pc /\ rig' = rig
           /\ svc'.orders = svc.orders /\ svc'.stock = svc.stock /\ svc'.late = svc.late
           /\ this[u] = "none" /\ svc'.job["this"][u] \in {"none", "wait"}
           /\ \A other \in Era, v \in User :
                 <<other, v>> # <<"this", u>> => svc'.job[other][v] = svc.job[other][v]
    BY <1>9, LoadFacts
  <2>2. Clean /\ Short
    BY <1>2, <2>1
  <2>3. /\ \A v \in User : svc'.job["earlier"][v] = svc.job["earlier"][v]
        /\ \A v \in User : v # u => svc'.job["this"][v] = this[v]
    BY <1>0, <2>1
  <2>4. /\ \A v \in User : svc'.job["this"][v] = this[v]
                           \/ (svc'.job["this"][v] \in {"none", "wait"} /\ this[v] = "none")
    BY <2>1, <2>3
  <2>5. Clean' /\ Short'
    BY <1>1, <2>1, <2>2, <2>3, <2>4
  <2> HIDE DEF Clean, Short
  <2> QED BY <1>3, <2>1, <2>5
<1>10. CASE WaitForDrain
  <2>1. /\ svc' = svc /\ pc = "load" /\ pc' = "verify" /\ rig'.gaveUp = ~Drained
        /\ rig'.overlap = rig.overlap /\ rig'.reseeded = rig.reseeded /\ rig'.unheard = rig.unheard
    BY <1>1, <1>10 DEF WaitForDrain, GoTo, BenchRig
  <2>2. Drained => Quiet
    <3>1. svc.recorded = {"this"}
      BY <2>1 DEF Loaded
    <3> SUFFICES ASSUME Drained, NEW u \in User, this[u] \in Unfinished PROVE FALSE
      OBVIOUS
    <3>2. <<"this", u>> \in Jobs(Unfinished)
      BY <1>0, JobsMembers
    <3>3. <<"this", u>> \in Recorded(Unfinished)
      BY <3>1, <3>2 DEF Recorded
    <3> QED BY <3>3 DEF Drained
  <2>3. Clean' /\ Short' /\ (Quiet => Quiet')
    BY <1>2, <2>1
  <2> HIDE DEF Clean, Short, Quiet
  <2> QED BY <1>3, <2>1, <2>2, <2>3
<1>11. CASE Verify
  <2>1. /\ svc' = svc /\ pc = "verify" /\ pc' = "measure" /\ rig' = rig
        /\ mem'.sold = Cardinality(svc.orders) /\ mem'.left = svc.stock
    BY <1>1, <1>11 DEF Verify, GoTo
  <2>2. Clean /\ Short /\ (~rig.gaveUp => Quiet)
    BY <1>2, <2>1
  <2>3. Clean' /\ Short' /\ (Quiet => Quiet')
    BY <2>1, <2>2
  <2>4. Completed \subseteq svc.orders /\ Completed' = Completed
    BY <2>1, <2>2 DEF Completed
  <2>5. Cardinality(Completed) <= Cardinality(svc.orders)
    BY <1>1, <2>4, OrdersFinite, FS_Subset
  <2>6. Quiet /\ ~rig.unheard => svc.orders \subseteq Completed
    BY <1>1, <2>2 DEF Completed, Unfinished, InWorker
  <2>7. Quiet => Told'
    <3>1. Quiet /\ ~rig.unheard => Cardinality(Completed) = Cardinality(svc.orders)
      BY <2>4, <2>6
    <3>2. (\E u \in User : svc'.job["this"][u] = "OUT_OF_STOCK") => mem'.left <= 0
      BY <2>1, <2>2
    <3> HIDE DEF Quiet
    <3> QED BY <2>1, <2>4, <2>5, <3>1, <3>2 DEF Told
  <2> HIDE DEF Clean, Short, Quiet
  <2> QED BY <1>3, <2>1, <2>2, <2>3, <2>7
<1>12. CASE Measure
  <2>1. /\ svc' = svc /\ pc = "measure" /\ pc' = "done" /\ rig' = rig
        /\ mem'.sold = mem.sold /\ mem'.left = mem.left
        /\ mem'.completed = Cardinality(Recorded({"completed"}))
        /\ mem'.failed = Cardinality(Recorded(Refused))
    BY <1>1, <1>12 DEF Measure, GoTo
  <2>2. Clean' /\ Short' /\ (~rig.gaveUp => Quiet')
    BY <1>2, <2>1
  <2>3. Told => Told'
    BY <2>1 DEF Told, Completed
  <2>4. Measured'
    BY <2>1 DEF Measured, Recorded, Jobs
  <2> HIDE DEF Clean, Short, Quiet
  <2> QED BY <1>2, <1>3, <2>1, <2>2, <2>3, <2>4
<1> HIDE DEF Clean, Short, Quiet
<1> QED BY <1>4, <1>5, <1>6, <1>7, <1>8, <1>9, <1>10, <1>11, <1>12, <1>13, Steps

(* The jobs of the only era the queue knows, counted as users.              *)
LEMMA RecordedCount ==
    ASSUME svc.recorded = {"this"}, NEW states
    PROVE  LET those == {u \in User : svc.job["this"][u] \in states} IN
           /\ IsFiniteSet(those) /\ Cardinality(those) \in Nat
           /\ Cardinality(Recorded(states)) = Cardinality(those)
<1> DEFINE those == {u \in User : svc.job["this"][u] \in states}
<1>1. IsFiniteSet(those) /\ Cardinality(those) \in Nat
  <2>1. those \in SUBSET User
    OBVIOUS
  <2> HIDE DEF those
  <2> QED BY <2>1, OrdersFinite
<1>2. Recorded(states) = {"this"} \X those
  BY DEF Recorded, Jobs, Era
<1> HIDE DEF those
<1>3. Cardinality({"this"} \X those) = 1 * Cardinality(those)
  <2>1. IsFiniteSet({"this"}) /\ Cardinality({"this"}) = 1
    BY FS_Singleton
  <2>2. Cardinality({"this"} \X those) = Cardinality({"this"}) * Cardinality(those)
    BY <1>1, <2>1, FS_Product
  <2> QED BY <2>1, <2>2
<1> QED BY <1>1, <1>2, <1>3 DEF those

(* What a clean, drained run shows at its end.                              *)
LEMMA RunProvenHolds == BenchTypeOK /\ Loaded /\ CleanRun => RunProven
<1> DEFINE mine == {u \in User : svc.job["this"][u] # "none"}
           F == {u \in User : svc.job["this"][u] \in Refused}
<1> SUFFICES ASSUME BenchTypeOK, Loaded, CleanRun, pc = "done",
                    ~rig.overlap, ~rig.reseeded, ~rig.gaveUp
             PROVE  /\ mem.completed + mem.failed = Cardinality(mine)
                    /\ mem.completed <= mem.sold /\ (~rig.unheard => mem.completed = mem.sold)
                    /\ mem.left > 0 /\ mem.failed > 0 => \E u \in mine : svc.job["this"][u] \in Lost
  BY DEF RunProven
<1>1. /\ svc.recorded = {"this"}
      /\ \A u \in User : svc.job["this"][u] \notin {"gone", "DUPLICATE_ORDER"} \cup Unfinished
      /\ Cardinality(Completed) <= mem.sold
      /\ ~rig.unheard => Cardinality(Completed) = mem.sold
      /\ (\E u \in User : svc.job["this"][u] = "OUT_OF_STOCK") => mem.left <= 0
      /\ mem.completed = Cardinality(Recorded({"completed"}))
      /\ mem.failed = Cardinality(Recorded(Refused))
  BY DEF CleanRun, Loaded
<1>2. /\ IsFiniteSet(Completed) /\ Cardinality(Recorded({"completed"})) = Cardinality(Completed)
      /\ IsFiniteSet(F) /\ Cardinality(Recorded(Refused)) = Cardinality(F)
      /\ Cardinality(Completed) \in Nat /\ Cardinality(F) \in Nat
  BY <1>1, RecordedCount DEF Completed
<1>3. mine = Completed \cup F /\ Completed \cap F = {}
  <2>1. \A u \in User : svc.job["this"][u] \in JobState
    BY DEF BenchTypeOK, BenchService, Era
  <2> QED BY <1>1, <2>1 DEF JobState, Finished, Refused, Lost, Completed
<1>4. Cardinality(mine) = Cardinality(Completed) + Cardinality(F)
  <2> HIDE DEF mine, F
  <2>1. Cardinality(Completed \cup F) = Cardinality(Completed) + Cardinality(F) - Cardinality(Completed \cap F)
    BY <1>2, FS_Union
  <2>2. Cardinality({}) = 0
    BY FS_EmptySet
  <2>3. Cardinality(Completed \cap F) = 0 /\ Cardinality(mine) = Cardinality(Completed \cup F)
    BY <1>3, <2>2
  <2> QED BY <1>2, <2>1, <2>3
<1>5. ASSUME mem.left > 0, mem.failed > 0
      PROVE  \E u \in mine : svc.job["this"][u] \in Lost
  <2>1. F # {}
    <3> HIDE DEF F
    <3> QED BY <1>1, <1>2, <1>5, FS_EmptySet
  <2>2. PICK u \in User : svc.job["this"][u] \in Refused
    BY <2>1
  <2>3. svc.job["this"][u] # "OUT_OF_STOCK"
    <3>1. mem.left \in Int
      BY DEF BenchTypeOK
    <3> QED BY <1>1, <1>5, <3>1
  <2> QED BY <1>1, <2>2, <2>3 DEF Refused, Lost
<1> HIDE DEF mine, F
<1>6. /\ mem.completed + mem.failed = Cardinality(mine)
      /\ mem.completed <= mem.sold /\ (~rig.unheard => mem.completed = mem.sold)
  BY <1>1, <1>2, <1>4
<1> QED BY <1>5, <1>6

(* A measured run starts in the invariant ...                               *)
LEMMA BenchInit == InitBench => BenchInv
<1> SUFFICES ASSUME InitBench PROVE BenchInv
  OBVIOUS
<1>1. PICK earlier \in [User -> {"none", "wait"}] :
         svc = [stock |-> Units, orders |-> {},
                job |-> [era \in Era |-> IF era = "this" THEN [u \in User |-> "none"] ELSE earlier],
                recorded |-> Era, stalled |-> {}, late |-> {}]
  BY DEF InitBench
<1>2. /\ pc = "reset" /\ fails = {}
      /\ mem = [script |-> "bench", asked |-> {}, sold |-> 0, left |-> 0, completed |-> 0,
                failed |-> 0]
      /\ rig = [overlap |-> FALSE, reseeded |-> FALSE, gaveUp |-> FALSE, unheard |-> FALSE,
                stalls |-> 0]
  BY DEF InitBench
<1>3. svc.job \in [Era -> [User -> {"none", "wait"}]]
      /\ \A u \in User : svc.job["this"][u] = "none"
  BY <1>1 DEF Era
<1>4. BenchTypeOK
  BY <1>1, <1>2, <1>3 DEF BenchTypeOK, BenchService, BenchRig, JobState, Unfinished
<1>5. OneHolder
  BY <1>3, OneHolderMeans
<1>6. Loaded
  BY <1>1, <1>2, <1>3 DEF Loaded
<1>7. Balance /\ CleanRun /\ DriftExplained /\ RunProven
  BY <1>2 DEF Balance, CleanRun, DriftExplained, RunProven
<1> QED BY <1>4, <1>5, <1>6, <1>7 DEF BenchInv

(* ... and stays there.                                                     *)
LEMMA BenchStep ==
    ASSUME mem.script = "bench", BenchInv, NextBench
    PROVE  BenchInv'
<1>1. BenchTypeOK /\ OneHolder /\ Balance /\ Loaded /\ CleanRun /\ DriftExplained
  BY DEF BenchInv
<1>2. /\ BenchTypeOK' /\ OneHolder' /\ Balance' /\ Loaded' /\ CleanRun' /\ DriftExplained'
  BY <1>1, BenchTypeStep, HolderStep, BalanceStep, LoadedStep, CleanStep, DriftStep
<1>3. RunProven'
  <2>1. (BenchTypeOK /\ Loaded /\ CleanRun => RunProven)'
    BY RunProvenHolds, PTL
  <2> QED BY <1>2, <2>1
<1> QED BY <1>2, <1>3 DEF BenchInv

\* ----------------------------------------------------------- the scripts, one by one

ScriptNamed == "script" \in DOMAIN mem

(* No step changes which script is running.                                 *)
LEMMA ScriptKept ==
    ASSUME ScriptNamed, [Next]_vars
    PROVE  ScriptNamed' /\ mem'.script = mem.script
<1>1. CASE UNCHANGED vars
  BY <1>1 DEF vars, ScriptNamed
<1>2. CASE NextPages
  <2>1. CASE CrawlPage \/ CrawlBroken
    BY <2>1 DEF CrawlPage, CrawlBroken, NextCrawl, ScriptNamed
  <2>2. CASE CompareCrawls \/ PagesDistinct \/ BeyondTheEnd \/ QueryProbe
    BY <2>2 DEF CompareCrawls, PagesDistinct, BeyondTheEnd, QueryProbe, ScriptNamed
  <2> QED BY <1>2, <2>1, <2>2 DEF NextPages
<1>3. CASE NextOrders
  <2>1. CASE ReadStock
    BY <2>1 DEF ReadStock, ScriptNamed
  <2>2. CASE SendOrder
    BY <2>2 DEF SendOrder, ScriptNamed
  <2>3. CASE SettleStock
    BY <2>3 DEF SettleStock, ScriptNamed
  <2>4. CASE SleepDelay \/ Work
    BY <2>4 DEF SleepDelay, Work, ScriptNamed
  <2>5. CASE Judge
    BY <2>5 DEF Judge, ScriptNamed
  <2> QED BY <1>3, <2>1, <2>2, <2>3, <2>4, <2>5 DEF NextOrders, ScriptStep
<1>4. CASE NextInvalidation
  <2>1. CASE Commit \/ Announce \/ Reader \/ PollBlackbox
    BY <2>1 DEF Commit, Announce, Reader, PollBlackbox, ScriptNamed
  <2>2. CASE BaselineRead \/ PollVariant
    BY <2>2 DEF BaselineRead, PollVariant, ScriptNamed
  <2>3. CASE BaselineUnreadable \/ PlaceOrder \/ ReportRound
    BY <2>3 DEF BaselineUnreadable, PlaceOrder, ReportRound, NextRound, ScriptNamed
  <2> QED BY <1>4, <2>1, <2>2, <2>3 DEF NextInvalidation
<1>5. CASE NextBench
  <2>1. CASE RunJob \/ Reset \/ Seed
    BY <2>1 DEF RunJob, PickUp, Claim, LockRow, InsertOrder, ClassifyDuplicate, ClaimFails,
       CommitOrder, CommitUnheard, ReportSale, Stall, LateSlot, LateCommit, LateFails, WorkerStep,
       Reset, TruncateOrders, RestoreStock, ClearRedis, RestartWorker, Seed, ScriptNamed
  <2>2. CASE Load \/ WaitForDrain \/ Verify \/ Measure
    BY <2>2 DEF Load, WaitForDrain, Verify, Measure, ScriptNamed
  <2> QED BY <1>5, <2>1, <2>2 DEF NextBench
<1> QED BY <1>1, <1>2, <1>3, <1>4, <1>5 DEF Next

(* Under a measured run no step of another script is enabled.               *)
LEMMA OnlyBench ==
    ASSUME mem.script = "bench", BenchTypeOK, Next
    PROVE  NextBench
BY DEF Next, BenchTypeOK,
       NextPages, CrawlPage, CrawlBroken, CompareCrawls, PagesDistinct, BeyondTheEnd, QueryProbe,
       NextOrders, ScriptStep, ReadStock, SendOrder, SettleStock, SleepDelay, Judge, Work, At,
       NextInvalidation, Commit, Announce, Reader, BaselineRead, BaselineUnreadable, PlaceOrder,
       PollVariant, ReportRound, PollBlackbox

(* Under an invalidation probe no step of another script is enabled.        *)
LEMMA OnlyProbe ==
    ASSUME mem.script \in {"rounds", "blackbox"}, ProbeTypeOK, Next
    PROVE  NextInvalidation
BY DEF Next, ProbeTypeOK,
       NextPages, CrawlPage, CrawlBroken, CompareCrawls, PagesDistinct, BeyondTheEnd, QueryProbe,
       NextOrders, ScriptStep, ReadStock, SendOrder, SettleStock, SleepDelay, Judge, Work, At,
       NextBench, RunJob, Reset, TruncateOrders, RestoreStock, ClearRedis, RestartWorker, Seed,
       Load, WaitForDrain, Verify, Measure

(* Under the page contract no step of another script is enabled.            *)
LEMMA OnlyPages ==
    ASSUME mem.script = "pages", PageTypeOK, Next
    PROVE  NextPages
BY DEF Next, PageTypeOK,
       NextOrders, ScriptStep, ReadStock, SendOrder, SettleStock, SleepDelay, Judge, Work, At,
       NextInvalidation, Commit, Announce, Reader, BaselineRead, BaselineUnreadable, PlaceOrder,
       PollVariant, ReportRound, PollBlackbox,
       NextBench, RunJob, Reset, TruncateOrders, RestoreStock, ClearRedis, RestartWorker, Seed,
       Load, WaitForDrain, Verify, Measure

(* Under the order probes no step of another script is enabled.             *)
LEMMA OnlyOrders ==
    ASSUME mem.script = "orders", OrderTypeOK, Next
    PROVE  NextOrders
BY DEF Next, OrderTypeOK,
       NextPages, CrawlPage, CrawlBroken, CompareCrawls, PagesDistinct, BeyondTheEnd, QueryProbe,
       NextInvalidation, Commit, Announce, Reader, BaselineRead, BaselineUnreadable, PlaceOrder,
       PollVariant, ReportRound, PollBlackbox,
       NextBench, RunJob, Reset, TruncateOrders, RestoreStock, ClearRedis, RestartWorker, Seed,
       Load, WaitForDrain, Verify, Measure

(* A script starts under its name, in its own initial state.                *)
LEMMA Starts == Init => ScriptNamed /\ BenchInv /\ ProbeInv /\ PageInv /\ OrderInv
<1>1. ASSUME InitPages PROVE ScriptNamed /\ BenchInv /\ ProbeInv /\ PageInv /\ OrderInv
  <2>1. ScriptNamed /\ mem.script = "pages"
    BY <1>1 DEF InitPages, ScriptNamed
  <2> QED BY <1>1, <2>1, PageInit DEF BenchInv, ProbeInv, PageInv, OrderInv
<1>2. ASSUME InitOrders PROVE ScriptNamed /\ BenchInv /\ ProbeInv /\ PageInv /\ OrderInv
  <2>1. ScriptNamed /\ mem.script = "orders"
    BY <1>2 DEF InitOrders, ScriptNamed
  <2> QED BY <1>2, <2>1, OrderInit DEF BenchInv, ProbeInv, PageInv
<1>3. ASSUME InitInvalidation PROVE ScriptNamed /\ BenchInv /\ ProbeInv /\ PageInv /\ OrderInv
  <2>0. PICK script \in {"rounds", "blackbox"}, watch \in VariantLimits :
           mem = [script |-> script, round |-> 1, left |-> VariantLimits,
                  before |-> Unreads, final |-> Unreads, watch |-> watch,
                  lastSeen |-> Unread, verdict |-> "not tested"]
    BY <1>3 DEF InitInvalidation
  <2>1. ScriptNamed /\ mem.script \notin {"bench", "pages", "orders"}
    BY <2>0 DEF ScriptNamed
  <2> QED BY <1>3, <2>1, ProbeInit DEF BenchInv, PageInv, OrderInv
<1>4. ASSUME InitBench PROVE ScriptNamed /\ BenchInv /\ ProbeInv /\ PageInv /\ OrderInv
  <2>1. ScriptNamed /\ mem.script = "bench"
    BY <1>4 DEF InitBench, ScriptNamed
  <2> QED BY <1>4, <2>1, BenchInit DEF ProbeInv, PageInv, OrderInv
<1> QED BY <1>1, <1>2, <1>3, <1>4 DEF Init

(* The invariants of the measured run, of the invalidation probes, of the   *)
(* page contract and of the order probes hold of every behaviour of the     *)
(* load tests.                                                              *)
THEOREM ProbesInvariance == Spec => [](ScriptNamed /\ BenchInv /\ ProbeInv /\ PageInv /\ OrderInv)
<1>1. ASSUME ScriptNamed, BenchInv, ProbeInv, PageInv, OrderInv, [Next]_vars
      PROVE  ScriptNamed' /\ BenchInv' /\ ProbeInv' /\ PageInv' /\ OrderInv'
  <2>1. ScriptNamed' /\ mem'.script = mem.script
    BY <1>1, ScriptKept
  <2>2. CASE UNCHANGED vars
    <3>0. BenchTypeOK' = BenchTypeOK /\ OneHolder' = OneHolder /\ Balance' = Balance
          /\ Loaded' = Loaded /\ CleanRun' = CleanRun /\ DriftExplained' = DriftExplained
          /\ RunProven' = RunProven
      <4>1. BenchTypeOK' = BenchTypeOK /\ Loaded' = Loaded
        BY <2>2 DEF vars, BenchTypeOK, Loaded
      <4>2. OneHolder' = OneHolder
        BY <2>2 DEF vars, OneHolder, Jobs
      <4>3. Balance' = Balance /\ DriftExplained' = DriftExplained
        BY <2>2 DEF vars, Balance, DriftExplained, drift
      <4>4. CleanRun' = CleanRun
        BY <2>2 DEF vars, CleanRun, Acknowledged, Completed, Jobs, Recorded
      <4>5. RunProven' = RunProven
        BY <2>2 DEF vars, RunProven
      <4> QED BY <4>1, <4>2, <4>3, <4>4, <4>5
    <3>1. BenchInv'
      BY <1>1, <2>1, <3>0 DEF BenchInv
    <3>2. ProbeInv'
      BY <1>1, <2>2 DEF vars, ProbeInv, ProbeTypeOK, BaselineTaken, PollSettles, RoundsCost,
         RoundsFair, StaleFound, BlackboxVerdict, baselineValues, Variants, Idle
    <3>3. PageInv'
      BY <1>1, <2>2, PageStutter
    <3>4. OrderInv'
      BY <1>1, <2>2, OrderStutter
    <3> QED BY <2>1, <3>1, <3>2, <3>3, <3>4
  <2>3. CASE Next
    <3>1. BenchInv'
      <4>1. CASE mem.script = "bench"
        BY <1>1, <2>3, <4>1, OnlyBench, BenchStep DEF BenchInv
      <4>2. CASE mem.script # "bench"
        BY <2>1, <4>2 DEF BenchInv
      <4> QED BY <4>1, <4>2
    <3>2. ProbeInv'
      <4>1. CASE mem.script \in {"rounds", "blackbox"}
        BY <1>1, <2>3, <4>1, OnlyProbe, ProbeStep DEF ProbeInv
      <4>2. CASE mem.script \notin {"rounds", "blackbox"}
        BY <2>1, <4>2 DEF ProbeInv
      <4> QED BY <4>1, <4>2
    <3>3. PageInv'
      <4>1. CASE mem.script = "pages"
        <5>1. NextPages
          BY <1>1, <2>3, <4>1, OnlyPages DEF PageInv
        <5> QED BY <1>1, <4>1, <5>1, PageStep
      <4>2. CASE mem.script # "pages"
        BY <2>1, <4>2 DEF PageInv
      <4> QED BY <4>1, <4>2
    <3>4. OrderInv'
      <4>1. CASE mem.script = "orders"
        <5>1. NextOrders
          BY <1>1, <2>3, <4>1, OnlyOrders DEF OrderInv
        <5> QED BY <1>1, <4>1, <5>1, OrderStep
      <4>2. CASE mem.script # "orders"
        BY <2>1, <4>2 DEF OrderInv
      <4> QED BY <4>1, <4>2
    <3> QED BY <2>1, <3>1, <3>2, <3>3, <3>4
  <2> QED BY <1>1, <2>2, <2>3
<1>2. Init => ScriptNamed /\ BenchInv /\ ProbeInv /\ PageInv /\ OrderInv
  BY Starts
<1> QED BY <1>1, <1>2, PTL DEF Spec

(* verify.sql finds a drift only when a job was under way at the reset or   *)
(* the product was seeded over its orders.                                  *)
THEOREM DriftTheorem == Spec => []DriftExplained
<1>1. BenchInv => DriftExplained
  BY DEF BenchInv, DriftExplained
<1> QED BY <1>1, ProbesInvariance, PTL

(* Every job a clean, drained run loaded is reported, and as completed none *)
(* but those with an order; an order without a completed job was committed  *)
(* by a slot that could not report it, and a unit that is left while        *)
(* someone was refused is a job that timed out, failed or stalled.          *)
THEOREM RunTheorem == Spec => []RunProven
<1>1. BenchInv => RunProven
  BY DEF BenchInv, RunProven
<1> QED BY <1>1, ProbesInvariance, PTL

(* cache-invalidation.js holds nothing against a correct service in a round *)
(* that was left alone, but that the stock climbs between a commit and its  *)
(* bump.                                                                    *)
THEOREM RoundsTheorem == Spec => []RoundsFair
<1>1. ProbeInv => RoundsFair
  BY DEF ProbeInv, RoundsFair
<1> QED BY <1>1, ProbesInvariance, PTL

(* cache-invalidation.js finds a page size that is never invalidated.       *)
THEOREM StaleTheorem == Spec => []StaleFound
<1>1. ProbeInv => StaleFound
  BY DEF ProbeInv, StaleFound
<1> QED BY <1>1, ProbesInvariance, PTL

(* The verdict of cache-blackbox.js is what the stock did.                  *)
THEOREM BlackboxTheorem == Spec => []BlackboxVerdict
<1>1. ProbeInv => BlackboxVerdict
  BY DEF ProbeInv, BlackboxVerdict
<1> QED BY <1>1, ProbesInvariance, PTL

(* order-concurrency.js and the burst of orders-50.js accuse a service of   *)
(* breaking a rule only when it does, or when the rig misled them.          *)
THEOREM AccusedTheorem == Spec => []AccusedOnlyIfGuilty
<1>1. OrderInv => AccusedOnlyIfGuilty
  BY DEF OrderInv, AccusedOnlyIfGuilty
<1> QED BY <1>1, ProbesInvariance, PTL

(* Where nothing was lost or late they accuse a service that breaks a rule, *)
(* unless there was nothing to see of it.                                   *)
THEOREM GuiltyTheorem == Spec => []GuiltyIsAccused
<1>1. OrderInv => GuiltyIsAccused
  <2>1. CASE mem.script = "orders"
    BY <2>1, FoundMeansAccused DEF OrderInv
  <2>2. CASE mem.script # "orders"
    BY <2>2 DEF GuiltyIsAccused
  <2> QED BY <2>1, <2>2
<1> QED BY <1>1, ProbesInvariance, PTL

(* The page contract holds nothing against a service without a defect but   *)
(* what a lost answer explains, a walk cut short at MAX_CRAWL_PAGES, or a   *)
(* catalogue of more pages than the DTO lets anyone ask for; unless its own *)
(* ceiling lets the crawl itself run into that clamp.                       *)
THEOREM ContractTheorem == Spec => []ContractSound
<1>1. PageInv => ContractSound
  BY DEF PageInv, Unaccused, Coherent, ContractSound
<1> QED BY <1>1, ProbesInvariance, PTL

(* A defect that shows on a page of the catalogue at some page size is      *)
(* found by a run that loses no answer and walks all pages, none of them    *)
(* clamped, unless the pages belong to another page size, which is not      *)
(* found.                                                                   *)
THEOREM DefectTheorem == Spec => []DefectFound
<1>1. PageInv => DefectFound
  <2>1. CASE mem.script = "pages"
    BY <2>1, DefectIsFound DEF PageInv
  <2>2. CASE mem.script # "pages"
    BY <2>2 DEF DefectFound
  <2> QED BY <2>1, <2>2
<1> QED BY <1>1, ProbesInvariance, PTL

(* Whatever is asked for as page and limit, the DTO refuses what is no      *)
(* number or below 1, answers what is whole, and then with a page that is   *)
(* cached and holds what was asked for, up to the largest page size.        *)
THEOREM QueryTheorem == Spec => []QueryAnswered
<1>1. PageInv => QueryAnswered
  <2>1. CASE mem.script = "pages"
    BY <2>1, QueryIsAnswered DEF PageInv
  <2>2. CASE mem.script # "pages"
    BY <2>2 DEF QueryAnswered
  <2> QED BY <2>1, <2>2
<1> QED BY <1>1, ProbesInvariance, PTL

=============================================================================
