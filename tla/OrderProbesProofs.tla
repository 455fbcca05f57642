----------------------------- MODULE OrderProbesProofs -------------------------
(***************************************************************************)
(* What the verdicts of the order probes prove, for any units, any number  *)
(* of users in the rush and any number of lost requests: the steps of      *)
(* OrderProbes keep OrderInv.  LoadTestsProofs draws the theorems about    *)
(* the script from it: whom it accuses broke the rule, and a broken rule   *)
(* is found.                                                               *)
(***************************************************************************)
EXTENDS OrderProbes, FiniteSetTheorems, TLAPS

\* ------------------------------------------------- the inductive invariant: the parts

(* The users of the phases that count units, and where such a phase is.     *)
Clients == <<"burst", "two", "quantity", "delayed">>
Client == Clients[Phase]
Counting == pc = "phases" /\ Phase <= 4
Sent(p) == \E n \in 1..(Step - 1) : Script[Phase][n].do = "order" /\ Script[Phase][n].product = p
Ahead(p) == \E n \in Step..Len(Script[Phase]) : Script[Phase][n] = Settle(p)
Taken(p) == IF <<Client, p>> \in svc.orders THEN 1 ELSE 0
Answered == \E n \in DOMAIN mem.ids : mem.ids[n] # Unknown

(* Only a service without the guard sells what is not there.                *)
Guarded ==
    svc.defect # "noGuard" =>
        \A p \in Product : svc.stock[p] >= 0 /\ (mem.after[p] = Unknown \/ mem.after[p] >= 0)

(* A user whose phase has sent nothing yet has left no trace, and a product *)
(* that was not ordered yet none of the user.                               *)
Newcomers ==
    /\ pc = "phases" => \A n \in DOMAIN Clients, p \in Product :
          n > Phase \/ (n = Phase /\ \A q \in Product : ~Sent(q)) =>
             /\ <<Clients[n], p>> \notin svc.orders \cup svc.locks
             /\ \A job \in svc.jobs : job.user # Clients[n]
    /\ Counting => \A p \in Product : ~Sent(p) =>
          /\ <<Client, p>> \notin svc.orders
          /\ svc.defect # "userLock" => <<Client, p>> \notin svc.locks
          /\ \A job \in svc.jobs : ~(job.user = Client /\ job.product = p)

(* The ids a burst was answered: of one job, when the lock is kept.         *)
BurstIds ==
    Counting /\ Phase = 1 =>
        /\ Len(mem.ids) = IF Step <= 2 THEN 0 ELSE IF Step = 3 THEN 1 ELSE 2
        /\ ~Answered => rig.lost >= Len(mem.ids) /\ <<"burst", A>> \notin svc.locks
        /\ svc.defect # "noLock" =>
              \A n \in DOMAIN mem.ids :
                 \/ mem.ids[n] = <<<<"burst", A>>, 0>>
                 \/ mem.ids[n] = Unknown /\ (rig.lost > 0 \/ svc.refuses)

(* While the script is never too early: the jobs under way are those of the *)
(* phase and are waited for, and a stock that was waited for stands.        *)
Waited ==
    Counting /\ ~rig.late =>
        /\ \A job \in svc.jobs :
              /\ job.user = Client /\ Ahead(job.product)
              /\ job.units = 1 \/ (Phase = 3 /\ svc.defect = "quantity")
              /\ Phase \in {2, 3} =>
                    /\ <<Client, job.product>> \notin svc.orders
                    /\ \A other \in svc.jobs : other.product = job.product => other = job
        /\ \A p \in Product : Ahead(p) \/ mem.after[p] \in {Unknown, svc.stock[p]}

(* The units gone since the stock was read are the orders of the phase.     *)
Counted ==
    Counting /\ ~rig.late => \A p \in Product : mem.before[p] # Unknown =>
        /\ mem.before[p] - svc.stock[p] >= Taken(p)
        /\ \/ mem.before[p] - svc.stock[p] = Taken(p)
           \/ Phase \in {1, 4} /\ svc.defect = "noUnique"
           \/ Phase = 3 /\ svc.defect = "quantity"

(* There is a unit left for whoever a phase expects to get one.             *)
Stocked ==
    Counting /\ ~rig.late =>
        /\ Phase = 1 => /\ svc.stock[A] >= 3 - Len(mem.ids) + Cardinality(svc.jobs)
                        /\ svc.stock[A] >= 3 \/ Taken(A) = 1
                        /\ svc.stock[B] >= 3
        /\ Phase = 2 => svc.stock[A] >= 1 - Taken(A) /\ svc.stock[B] >= 3 - Taken(B)
        /\ Phase = 3 => svc.stock[B] >= 1 \/ Taken(B) = 1

(* An order that was taken is in the queue or recorded.                     *)
NoneForgotten ==
    Counting /\ ~rig.late /\ svc.defect # "loses" =>
        /\ Phase = 1 /\ Answered => svc.jobs # {} \/ Taken(A) = 1
        /\ Phase = 2 /\ rig.lost = 0 /\ svc.defect # "userLock" =>
              \A p \in {A, B} :
                 Sent(p) => Taken(p) = 1 \/ \E job \in svc.jobs : job.product = p
        /\ Phase = 3 /\ mem.status = 202 /\ svc.defect # "quantity" =>
              svc.jobs # {} \/ Taken(B) = 1

(* Without a loss the script has read what it compares.                     *)
BothRead ==
    Counting /\ Phase = 2 /\ rig.lost = 0 =>
        /\ Step > 1 => mem.before[A] # Unknown
        /\ Step > 2 => mem.before[B] # Unknown
        /\ \A p \in {A, B} : Ahead(p) \/ mem.after[p] # Unknown

\* ------------------------------------------- a broken rule is found

(* Nothing was lost and the script was never too early.                     *)
Smooth == rig.lost = 0 /\ ~rig.late
In(phase) == pc = "phases" /\ Phase = phase
Judged(phase) == pc = "done" \/ Phase > phase

(* What the script was to read it has read.                                 *)
AllRead ==
    Counting /\ Smooth => \A n \in 1..(Step - 1), p \in Product :
        /\ Script[Phase][n] = Read(p) => mem.before[p] # Unknown
        /\ Script[Phase][n] = Settle(p) => mem.after[p] # Unknown

(* Every lock is held for a job, and the jobs of the rush are for its       *)
(* product.                                                                 *)
LocksHeld ==
    /\ svc.defect # "loses" =>
          \A key \in svc.locks : \E job \in svc.jobs : lockKey(job.user, job.product) = key
    /\ Smooth /\ In(5) => \A job \in svc.jobs : job.product = R

(* Without the lock every order of the burst has a job of its own.          *)
NoLockFound ==
    Smooth /\ svc.defect = "noLock" =>
        /\ In(1) =>
              /\ \A n \in DOMAIN mem.ids : \E made \in Nat :
                    made < svc.made /\ mem.ids[n] = <<<<"burst", A>>, made>>
              /\ \A n, k \in DOMAIN mem.ids : mem.ids[n] = mem.ids[k] => n = k
        /\ Judged(1) => fails # {}

(* A service that loses its orders never sells anything.                    *)
LosesFound ==
    Smooth /\ svc.defect = "loses" =>
        svc.jobs = {} /\ svc.orders = {} /\ (Judged(1) => fails # {})

(* A lock on the user, still held when the second order arrives, keeps it   *)
(* out.                                                                     *)
UserLockFound ==
    Smooth /\ svc.defect = "userLock" /\ ~rig.swift =>
        /\ In(2) /\ Step = 4 => <<"two", A>> \in svc.locks
        /\ In(2) /\ Step > 4 => <<"two", B>> \notin svc.orders
                                /\ \A job \in svc.jobs : job.product # B
        /\ Judged(2) => fails # {}

(* An order for five units takes them all or none.                          *)
QuantityFound ==
    Smooth /\ svc.defect = "quantity" /\ ~svc.strict =>
        /\ In(3) /\ Step > 1 =>
              /\ mem.before[B] - svc.stock[B] \in {0, 5}
              /\ \A job \in svc.jobs : job.units = 5 /\ mem.before[B] - svc.stock[B] = 0
              /\ Step = 2 => svc.jobs = {} /\ mem.before[B] - svc.stock[B] = 0
        /\ In(3) /\ Step > 2 => mem.status = 202
        /\ Judged(3) => fails # {}

(* The orders of phase D that were sent.                                    *)
Due == IF Step < 3 THEN 0 ELSE IF Step < 6 THEN 1 ELSE 2

(* Without the unique constraint both orders of phase D sell, as long as    *)
(* there is a unit.                                                         *)
NoUniqueFound ==
    Smooth /\ svc.defect = "noUnique" =>
        /\ In(4) /\ Step > 1 =>
              /\ \/ svc.stock[A] = 0
                 \/ svc.jobs = {} /\ mem.before[A] - svc.stock[A] = Due
                 \/ svc.jobs # {} /\ mem.before[A] - svc.stock[A] = Due - 1
              /\ \A job, other \in svc.jobs : job = other
              /\ Step \in {2, 4, 5} => svc.jobs = {}
              /\ Step = 5 => svc.locks = {}
        /\ Judged(4) => fails # {} \/ svc.stock[A] = 0

(* The recorded orders of the rush.                                         *)
RushOrders == {order \in svc.orders : order[2] = R}

(* Without the guard everyone in the rush gets a unit.                      *)
NoGuardFound ==
    svc.defect = "noGuard" =>
        /\ IsFiniteSet(RushOrders) /\ svc.stock[R] + Cardinality(RushOrders) = RushUnits
        /\ \A job \in svc.jobs : job.units = 1
        /\ Smooth /\ In(5) => \A n \in 1..(Step - 1), user \in Names :
              Script[5][n] = Order(user, R, 1) =>
                 \/ <<user, R>> \in svc.orders
                 \/ \E job \in svc.jobs : job.user = user /\ job.product = R
        /\ Smooth /\ (pc = "done" \/ (In(5) /\ Step > Len(Script[5]))) =>
              fails # {} \/ Cardinality(Crowd) <= RushUnits

(* A broken rule is found as soon as its phase is judged.                   *)
Found ==
    /\ AllRead /\ LocksHeld /\ NoLockFound /\ LosesFound /\ UserLockFound /\ QuantityFound
    /\ NoUniqueFound /\ NoGuardFound

(* The inductive invariant of the order probes.                             *)
OrderInv ==
    mem.script = "orders" =>
        /\ OrderTypeOK /\ Guarded /\ Newcomers /\ BurstIds /\ Waited /\ Counted /\ Stocked
        /\ NoneForgotten /\ BothRead /\ AccusedOnlyIfGuilty /\ Found

\* ------------------------------------------------------ the phases, step by step

(* The phases that count units, step by step.                               *)
LEMMA Instructions ==
    /\ Len(Script[1]) = 4 /\ Len(Script[2]) = 6 /\ Len(Script[3]) = 3 /\ Len(Script[4]) = 6
    /\ Script[1][1] = Read(A) /\ Script[1][2] = Order("burst", A, 1)
    /\ Script[1][3] = Order("burst", A, 1) /\ Script[1][4] = Settle(A)
    /\ Script[2][1] = Read(A) /\ Script[2][2] = Read(B)
    /\ Script[2][3] = Order("two", A, 1) /\ Script[2][4] = Order("two", B, 1)
    /\ Script[2][5] = Settle(A) /\ Script[2][6] = Settle(B)
    /\ Script[3][1] = Read(B) /\ Script[3][2] = Order("quantity", B, 5)
    /\ Script[3][3] = Settle(B)
    /\ Script[4][1] = Read(A) /\ Script[4][2] = Order("delayed", A, 1)
    /\ Script[4][3] = Settle(A) /\ Script[4][4] = Sleep
    /\ Script[4][5] = Order("delayed", A, 1) /\ Script[4][6] = Settle(A)
<1>1. Script[1] = PhaseA /\ Script[2] = PhaseB /\ Script[3] = PhaseC /\ Script[4] = PhaseD
  BY DEF Script
<1>2. /\ Len(PhaseA) = 4 /\ PhaseA[1] = Read(A) /\ PhaseA[2] = Order("burst", A, 1)
      /\ PhaseA[3] = Order("burst", A, 1) /\ PhaseA[4] = Settle(A)
  BY DEF PhaseA
<1>3. /\ Len(PhaseB) = 6 /\ PhaseB[1] = Read(A) /\ PhaseB[2] = Read(B)
      /\ PhaseB[3] = Order("two", A, 1) /\ PhaseB[4] = Order("two", B, 1)
      /\ PhaseB[5] = Settle(A) /\ PhaseB[6] = Settle(B)
  BY DEF PhaseB
<1>4. /\ Len(PhaseC) = 3 /\ PhaseC[1] = Read(B) /\ PhaseC[2] = Order("quantity", B, 5)
      /\ PhaseC[3] = Settle(B)
  BY DEF PhaseC
<1>5. /\ Len(PhaseD) = 6 /\ PhaseD[1] = Read(A) /\ PhaseD[2] = Order("delayed", A, 1)
      /\ PhaseD[3] = Settle(A) /\ PhaseD[4] = Sleep
      /\ PhaseD[5] = Order("delayed", A, 1) /\ PhaseD[6] = Settle(A)
  BY DEF PhaseD
<1> QED BY <1>1, <1>2, <1>3, <1>4, <1>5

(* What the steps of a phase hold.                                          *)
LEMMA InstrFields ==
    ASSUME NEW u, NEW p, NEW q
    PROVE  /\ Read(p).do = "read" /\ Read(p).product = p
           /\ Order(u, p, q).do = "order" /\ Order(u, p, q).user = u
           /\ Order(u, p, q).product = p /\ Order(u, p, q).units = q
           /\ Settle(p).do = "settle" /\ Settle(p).product = p /\ Sleep.do = "sleep"
BY DEF Read, Order, Settle, Sleep

(* The products are three.                                                  *)
LEMMA Products == A # B /\ A # R /\ B # R /\ A \in Product /\ B \in Product /\ R \in Product
BY DEF A, B, R, Product

(* The steps of the rush are about its product only.                        *)
LEMMA RushSteps ==
    /\ Len(Script[5]) \in Nat \ {0}
    /\ \A n \in 1..Len(Script[5]) : LET i == Script[5][n] IN
          \/ i = Read(R) \/ i = Settle(R) \/ \E u \in Names : i = Order(u, R, 1)
<1> DEFINE orders == [n \in DOMAIN RushUsers |-> Order(RushUsers[n], R, 1)]
           Steps == {Read(R), Settle(R)} \cup {Order(u, R, 1) : u \in Names}
<1>1. Len(RushUsers) \in Nat /\ DOMAIN RushUsers = 1..Len(RushUsers)
      /\ \A n \in 1..Len(RushUsers) : RushUsers[n] \in Names
  <2>1. Len(RushUsers) \in Nat /\ DOMAIN RushUsers = 1..Len(RushUsers)
    BY OrdersAssumption
  <2> QED BY <2>1 DEF Names
<1>2. orders \in Seq(Steps) /\ <<Read(R)>> \in Seq(Steps) /\ <<Settle(R)>> \in Seq(Steps)
  <2>1. \A n \in 1..Len(RushUsers) : orders[n] \in Steps
    BY <1>1
  <2>2. orders \in [1..Len(RushUsers) -> Steps]
    BY <1>1, <2>1
  <2>3. Read(R) \in Steps /\ Settle(R) \in Steps
    OBVIOUS
  <2> HIDE DEF orders, Steps
  <2> QED BY <1>1, <2>2, <2>3
<1> HIDE DEF orders, Steps
<1>3. /\ Script[5] = <<Read(R)>> \o orders \o <<Settle(R)>>
  BY DEF Script, Rush, orders
<1>4. Script[5] \in Seq(Steps) /\ Len(Script[5]) > 0
  BY <1>2, <1>3
<1>5. Len(Script[5]) \in Nat \ {0} /\ \A n \in 1..Len(Script[5]) : Script[5][n] \in Steps
  BY <1>4
<1> QED BY <1>5 DEF Steps

(* What every phase that counts units keeps to: it reads a stock before it  *)
(* orders the product, orders as its own user, and waits for the product    *)
(* after its last order of it.                                              *)
LEMMA ScriptShape ==
    ASSUME NEW P \in 1..4, NEW n \in 1..Len(Script[P])
    PROVE  LET i == Script[P][n] IN
           /\ Len(Script[P]) \in Nat
           /\ i.do \in {"read", "order", "settle", "sleep"}
           /\ i.do # "sleep" => i.product \in {A, B}
           /\ i.do = "read" => \A k \in 1..(n - 1) : Script[P][k].do = "read"
           /\ i.do = "order" =>
                 /\ i.user = Clients[P] /\ i.units \in Nat \ {0} /\ (i.units = 1 \/ P = 3)
                 /\ \E k \in (n + 1)..Len(Script[P]) : Script[P][k] = Settle(i.product)
                 /\ P \in {2, 3} => \A k \in 1..(n - 1) :
                       ~(Script[P][k].do = "order" /\ Script[P][k].product = i.product)
           /\ i.do = "settle" => i = Settle(i.product)
<1>1. CASE P = 1
  <2>1. n \in {1, 2, 3, 4} /\ Len(Script[P]) = 4
    BY <1>1, Instructions
  <2>2. CASE n = 1
    BY <1>1, <2>1, <2>2, Instructions, InstrFields
  <2>3. CASE n \in {2, 3}
    <3>1. 4 \in (n + 1)..Len(Script[P]) /\ Script[P][4] = Settle(A)
      BY <1>1, <2>1, <2>3, Instructions
    <3> QED BY <1>1, <2>1, <2>3, <3>1, Instructions, InstrFields DEF Clients
  <2>4. CASE n = 4
    BY <1>1, <2>1, <2>4, Instructions, InstrFields
  <2> QED BY <2>1, <2>2, <2>3, <2>4
<1>2. CASE P = 2
  <2>1. n \in {1, 2, 3, 4, 5, 6} /\ Len(Script[P]) = 6
    BY <1>2, Instructions
  <2>2. CASE n \in {1, 2}
    <3>1. Script[P][1].do = "read" /\ Script[P][n].do = "read" /\ Script[P][n].product \in {A, B}
      BY <1>2, <2>2, Instructions, InstrFields
    <3> QED BY <2>1, <2>2, <3>1
  <2>3. CASE n = 3
    <3>1. 5 \in (n + 1)..Len(Script[P]) /\ Script[P][5] = Settle(A)
      BY <1>2, <2>1, <2>3, Instructions
    <3>2. \A k \in 1..(n - 1) : Script[P][k].do = "read"
      <4>1. \A k \in 1..2 : Script[2][k].do = "read"
        <5>1. Script[2][1].do = "read" /\ Script[2][2].do = "read"
          BY Instructions, InstrFields
        <5> QED BY <5>1
      <4> QED BY <1>2, <2>3, <4>1
    <3> QED BY <1>2, <2>1, <2>3, <3>1, <3>2, Instructions, InstrFields DEF Clients
  <2>4. CASE n = 4
    <3>1. 6 \in (n + 1)..Len(Script[P]) /\ Script[P][6] = Settle(B)
      BY <1>2, <2>1, <2>4, Instructions
    <3>2. \A k \in 1..(n - 1) : ~(Script[P][k].do = "order" /\ Script[P][k].product = B)
      <4>1. \A k \in 1..3 : ~(Script[2][k].do = "order" /\ Script[2][k].product = B)
        <5>1. Script[2][1].do = "read" /\ Script[2][2].do = "read" /\ Script[2][3].product = A
          BY Instructions, InstrFields
        <5> QED BY <5>1, Products
      <4> QED BY <1>2, <2>4, <4>1
    <3> QED BY <1>2, <2>1, <2>4, <3>1, <3>2, Instructions, InstrFields DEF Clients
  <2>5. CASE n \in {5, 6}
    BY <1>2, <2>1, <2>5, Instructions, InstrFields
  <2> QED BY <2>1, <2>2, <2>3, <2>4, <2>5
<1>3. CASE P = 3
  <2>1. n \in {1, 2, 3} /\ Len(Script[P]) = 3
    BY <1>3, Instructions
  <2>2. CASE n = 1
    BY <1>3, <2>1, <2>2, Instructions, InstrFields
  <2>3. CASE n = 2
    <3>1. 3 \in (n + 1)..Len(Script[P]) /\ Script[P][3] = Settle(B)
      BY <1>3, <2>1, <2>3, Instructions
    <3>2. \A k \in 1..(n - 1) : Script[P][k].do = "read"
      <4>1. Script[3][1].do = "read"
        BY Instructions, InstrFields
      <4> QED BY <1>3, <2>3, <4>1
    <3> QED BY <1>3, <2>1, <2>3, <3>1, <3>2, Instructions, InstrFields DEF Clients
  <2>4. CASE n = 3
    BY <1>3, <2>1, <2>4, Instructions, InstrFields
  <2> QED BY <2>1, <2>2, <2>3, <2>4
<1>4. CASE P = 4
  <2>1. n \in {1, 2, 3, 4, 5, 6} /\ Len(Script[P]) = 6
    BY <1>4, Instructions
  <2>2. CASE n = 1
    BY <1>4, <2>1, <2>2, Instructions, InstrFields
  <2>3. CASE n \in {2, 5}
    <3>1. 6 \in (n + 1)..Len(Script[P]) /\ Script[P][6] = Settle(A)
      BY <1>4, <2>1, <2>3, Instructions
    <3> QED BY <1>4, <2>1, <2>3, <3>1, Instructions, InstrFields DEF Clients
  <2>4. CASE n \in {3, 4, 6}
    BY <1>4, <2>1, <2>4, Instructions, InstrFields
  <2> QED BY <2>1, <2>2, <2>3, <2>4
<1> QED BY <1>1, <1>2, <1>3, <1>4

\* -------------------------------------------------------- what each step does

(* What the types say of each field.                                        *)
LEMMA OrderFields ==
    ASSUME OrderTypeOK
    PROVE  /\ mem.script = "orders" /\ mem.at \in Nat \X Nat /\ Phase \in Nat /\ Step \in Nat
           /\ mem.before \in [Product -> Int \cup {Unknown}]
           /\ mem.after \in [Product -> Int \cup {Unknown}]
           /\ mem.ids \in Seq(Ids \cup {Unknown}) /\ mem.status \in {0, 202, 400, 409}
           /\ svc.defect \in BrokenRules /\ svc.refuses \in BOOLEAN /\ svc.strict \in BOOLEAN
           /\ svc.stock \in [Product -> Int] /\ svc.orders \subseteq Names \X Product
           /\ svc.locks \subseteq Names \X Product /\ svc.jobs \subseteq OrderJob
           /\ svc.made \in Nat /\ IsFiniteSet(svc.jobs)
           /\ rig.lost \in Nat /\ rig.late \in BOOLEAN /\ rig.swift \in BOOLEAN
           /\ MaxLost \in Nat /\ Unknown \notin Int /\ Unknown \notin Ids
<1>1. /\ mem.script = "orders" /\ mem.at \in Nat \X Nat /\ Phase \in Nat /\ Step \in Nat
      /\ mem.before \in [Product -> Int \cup {Unknown}]
      /\ mem.after \in [Product -> Int \cup {Unknown}]
      /\ mem.ids \in Seq(Ids \cup {Unknown}) /\ mem.status \in {0, 202, 400, 409}
  <2>1. mem \in OrderMemory
    BY DEF OrderTypeOK
  <2>2. mem.at \in Nat \X Nat
    BY <2>1 DEF OrderMemory
  <2> QED BY <2>1, <2>2 DEF OrderMemory, Phase, Step
<1>2. /\ svc.defect \in BrokenRules /\ svc.refuses \in BOOLEAN /\ svc.strict \in BOOLEAN
      /\ svc.stock \in [Product -> Int] /\ svc.orders \subseteq Names \X Product
      /\ svc.locks \subseteq Names \X Product /\ svc.jobs \subseteq OrderJob
      /\ svc.made \in Nat /\ IsFiniteSet(svc.jobs)
  BY DEF OrderTypeOK, OrderService
<1>3. rig.lost \in Nat /\ rig.late \in BOOLEAN /\ rig.swift \in BOOLEAN
  BY DEF OrderTypeOK
<1>4. MaxLost \in Nat /\ Unknown \notin Int /\ Unknown \notin Ids
  BY OrdersAssumption
<1> QED BY <1>1, <1>2, <1>3, <1>4

(* The script moves on by one step, and takes down what it read.            *)
MovesOn(before, after, ids, status) ==
    mem' = [mem EXCEPT !.at = [mem.at EXCEPT ![2] = Step + 1], !.before = before,
                       !.after = after, !.ids = ids, !.status = status]

(* What the script remembers after a step.                                  *)
Updated(m, at, before, after, ids, status) ==
    [m EXCEPT !.at = at, !.before = before, !.after = after, !.ids = ids, !.status = status]

(* It has the values it was given, and their types.                         *)
LEMMA MemoryUpdate ==
    ASSUME NEW m \in OrderMemory, NEW at \in Nat \X Nat, NEW before, NEW after, NEW ids, NEW status,
           before \in [Product -> Int \cup {Unknown}], after \in [Product -> Int \cup {Unknown}],
           ids \in Seq(Ids \cup {Unknown}), status \in {0, 202, 400, 409}
    PROVE  LET new == Updated(m, at, before, after, ids, status) IN
               /\ new \in OrderMemory /\ new.at = at /\ new.before = before /\ new.after = after
               /\ new.ids = ids /\ new.status = status
<1> DEFINE Numbers == [Product -> Int \cup {Unknown}]
           IdSeqs == Seq(Ids \cup {Unknown})
           Pairs == Nat \X Nat
           Codes == {0, 202, 400, 409}
           new == Updated(m, at, before, after, ids, status)
<1>1. OrderMemory = [script : {"orders"}, at : Pairs, before : Numbers, after : Numbers,
                     ids : IdSeqs, status : Codes]
  BY DEF OrderMemory
<1>2. m \in OrderMemory
  OBVIOUS
<1>3. at \in Pairs /\ before \in Numbers /\ after \in Numbers /\ ids \in IdSeqs /\ status \in Codes
  OBVIOUS
<1> HIDE DEF Numbers, IdSeqs, Pairs, Codes
<1>4. new \in [script : {"orders"}, at : Pairs, before : Numbers, after : Numbers,
               ids : IdSeqs, status : Codes]
  BY <1>1, <1>2, <1>3 DEF Updated
<1>5. new.at = at /\ new.before = before /\ new.after = after
      /\ new.ids = ids /\ new.status = status
  BY <1>1, <1>2 DEF Updated
<1> QED BY <1>1, <1>4, <1>5

(* The same of a step that moves the script on.                             *)
LEMMA Advance ==
    ASSUME mem \in OrderMemory, NEW before, NEW after, NEW ids, NEW status,
           before \in [Product -> Int \cup {Unknown}], after \in [Product -> Int \cup {Unknown}],
           ids \in Seq(Ids \cup {Unknown}), status \in {0, 202, 400, 409},
           MovesOn(before, after, ids, status)
    PROVE  /\ mem' \in OrderMemory /\ Phase' = Phase /\ Step' = Step + 1
           /\ mem'.before = before /\ mem'.after = after /\ mem'.ids = ids /\ mem'.status = status
<1> DEFINE at == [mem.at EXCEPT ![2] = Step + 1]
<1>1. mem.at \in Nat \X Nat
  BY DEF OrderMemory
<1>2. at \in Nat \X Nat /\ at[1] = Phase /\ at[2] = Step + 1
  BY <1>1 DEF Phase, Step
<1>3. mem' = Updated(mem, at, before, after, ids, status)
  BY DEF MovesOn, Updated
<1> HIDE DEF at
<1>4. /\ mem' \in OrderMemory /\ mem'.at = at
      /\ mem'.before = before /\ mem'.after = after /\ mem'.ids = ids /\ mem'.status = status
  BY <1>2, <1>3, MemoryUpdate
<1> QED BY <1>2, <1>4 DEF Phase, Step

(* The users of the four phases are four.                                   *)
LEMMA ClientNames ==
    /\ DOMAIN Clients = 1..4
    /\ \A n \in 1..4 : Clients[n] \in Names
    /\ \A n, k \in 1..4 : Clients[n] = Clients[k] => n = k
    /\ Clients[1] = "burst" /\ Clients[2] = "two" /\ Clients[3] = "quantity"
    /\ Clients[4] = "delayed"
<1>1. /\ DOMAIN Clients = 1..4 /\ Clients[1] = "burst" /\ Clients[2] = "two"
      /\ Clients[3] = "quantity" /\ Clients[4] = "delayed"
  BY DEF Clients
<1>2. ASSUME NEW n \in 1..4 PROVE n = 1 \/ n = 2 \/ n = 3 \/ n = 4
  OBVIOUS
<1>3. ASSUME NEW n \in 1..4 PROVE Clients[n] \in Names
  <2>1. Clients[1] \in Names /\ Clients[2] \in Names /\ Clients[3] \in Names
        /\ Clients[4] \in Names
    BY <1>1 DEF Names
  <2> QED BY <1>2, <2>1
<1>4. ASSUME NEW n \in 1..4, NEW k \in 1..4, Clients[n] = Clients[k] PROVE n = k
  BY <1>1, <1>4
<1> QED BY <1>1, <1>3, <1>4

(* Where an enabled step of the script stands.                              *)
LEMMA AtFacts ==
    ASSUME OrderTypeOK, NEW do, At(do)
    PROVE  /\ pc = "phases" /\ Phase \in 1..5 /\ Step \in 1..Len(Script[Phase])
           /\ Len(Script[Phase]) \in Nat
           /\ Instr = Script[Phase][Step] /\ Instr.do = do
<1>1. pc = "phases" /\ Phase \in 1..5 /\ Step <= Len(Script[Phase])
      /\ Step \in 1..(Len(Script[Phase]) + 1) /\ Instr.do = do /\ Instr = Script[Phase][Step]
  BY DEF OrderTypeOK, At, Instr
<1>2. Len(Script[Phase]) \in Nat
  <2>1. CASE Phase = 5
    BY <2>1, RushSteps
  <2>2. CASE Phase \in 1..4
    BY <2>2, Instructions
  <2> QED BY <1>1, <2>1, <2>2
<1> QED BY <1>1, <1>2

(* The product of a step that reads, orders or waits.                       *)
LEMMA InstrProduct ==
    ASSUME OrderTypeOK, NEW do \in {"read", "order", "settle"}, At(do)
    PROVE  /\ Instr.product \in Product
           /\ do = "order" => Instr.user \in Names /\ Instr.units \in Nat \ {0}
           /\ do = "settle" => Instr = Settle(Instr.product)
<1>1. /\ pc = "phases" /\ Phase \in 1..5 /\ Step \in 1..Len(Script[Phase])
      /\ Instr = Script[Phase][Step] /\ Instr.do = do
  BY AtFacts
<1>2. CASE Phase = 5
  <2>1. \/ Instr = Read(R) \/ Instr = Settle(R) \/ \E u \in Names : Instr = Order(u, R, 1)
    BY <1>1, <1>2, RushSteps
  <2> QED BY <1>1, <2>1, InstrFields, Products
<1>3. CASE Phase \in 1..4
  <2>1. /\ Instr.do # "sleep" => Instr.product \in {A, B}
        /\ Instr.do = "order" => Instr.user = Clients[Phase] /\ Instr.units \in Nat \ {0}
        /\ Instr.do = "settle" => Instr = Settle(Instr.product)
    BY <1>1, <1>3, ScriptShape
  <2>2. Clients[Phase] \in Names
    BY <1>3, ClientNames
  <2> QED BY <1>1, <2>1, <2>2, Products
<1> QED BY <1>1, <1>2, <1>3

(* The three forms of a reading, an order, a wait and a pause.              *)
LEMMA ReadFacts ==
    ASSUME OrderTypeOK, ReadStock
    PROVE  LET p == Instr.product IN
           /\ At("read") /\ p \in Product /\ UNCHANGED <<pc, svc>>
           /\ mem' \in OrderMemory /\ Phase' = Phase /\ Step' = Step + 1
           /\ mem'.after = mem.after /\ mem'.ids = <<>> /\ mem'.status = mem.status
           /\ \/ mem'.before = [mem.before EXCEPT ![p] = svc.stock[p]] /\ NegativeStock(p)
                 /\ UNCHANGED rig
              \/ mem'.before = [mem.before EXCEPT ![p] = Unknown] /\ LoseOne /\ UNCHANGED fails
<1> DEFINE p == Instr.product
           Took(v) == mem' = [mem EXCEPT !.at[2] = @ + 1, !.before[p] = v, !.ids = <<>>]
<1>1. At("read") /\ UNCHANGED <<pc, svc>>
  BY DEF ReadStock
<1>2. p \in Product
  BY <1>1, InstrProduct
<1>3. mem \in OrderMemory /\ svc.stock[p] \in Int /\ Phase \in Nat /\ Step \in Nat
      /\ mem.before \in [Product -> Int \cup {Unknown}]
      /\ mem.after \in [Product -> Int \cup {Unknown}]
      /\ <<>> \in Seq(Ids \cup {Unknown}) /\ mem.status \in {0, 202, 400, 409}
  BY <1>2, OrderFields DEF OrderTypeOK
<1>4. ASSUME NEW v \in Int \cup {Unknown}, Took(v)
      PROVE  /\ mem' \in OrderMemory /\ Phase' = Phase /\ Step' = Step + 1
             /\ mem'.after = mem.after /\ mem'.ids = <<>> /\ mem'.status = mem.status
             /\ mem'.before = [mem.before EXCEPT ![p] = v]
  <2> DEFINE before == [mem.before EXCEPT ![p] = v]
             none == <<>>
  <2>1. none \in Seq(Ids \cup {Unknown}) /\ before \in [Product -> Int \cup {Unknown}]
    BY <1>3
  <2>2. MovesOn(before, mem.after, none, mem.status)
    BY <1>3, <1>4 DEF MovesOn, Step, OrderMemory
  <2> HIDE DEF before, none
  <2>3. /\ mem' \in OrderMemory /\ Phase' = Phase /\ Step' = Step + 1
        /\ mem'.after = mem.after /\ mem'.ids = none /\ mem'.status = mem.status
        /\ mem'.before = before
    BY <1>3, <2>1, <2>2, Advance
  <2> QED BY <2>3 DEF before, none
<1>5. \/ Took(svc.stock[p]) /\ NegativeStock(p) /\ UNCHANGED rig
      \/ LoseOne /\ Took(Unknown) /\ UNCHANGED fails
  BY DEF ReadStock
<1> HIDE DEF Took
<1>6. CASE Took(svc.stock[p]) /\ NegativeStock(p) /\ UNCHANGED rig
  <2>1. svc.stock[p] \in Int \cup {Unknown}
    BY <1>3
  <2>2. /\ mem' \in OrderMemory /\ Phase' = Phase /\ Step' = Step + 1
        /\ mem'.after = mem.after /\ mem'.ids = <<>> /\ mem'.status = mem.status
        /\ mem'.before = [mem.before EXCEPT ![p] = svc.stock[p]]
    BY <1>4, <1>6, <2>1
  <2> QED BY <1>1, <1>2, <1>6, <2>2
<1>7. CASE LoseOne /\ Took(Unknown) /\ UNCHANGED fails
  <2>1. Unknown \in Int \cup {Unknown}
    BY <1>3
  <2>2. /\ mem' \in OrderMemory /\ Phase' = Phase /\ Step' = Step + 1
        /\ mem'.after = mem.after /\ mem'.ids = <<>> /\ mem'.status = mem.status
        /\ mem'.before = [mem.before EXCEPT ![p] = Unknown]
    BY <1>4, <1>7, <2>1
  <2> QED BY <1>1, <1>2, <1>7, <2>2
<1> QED BY <1>5, <1>6, <1>7

(* An order that gets through is answered, and one that does not leaves     *)
(* nothing.                                                                 *)
LEMMA SendFacts ==
    ASSUME OrderTypeOK, SendOrder
    PROVE  LET u == Instr.user  p == Instr.product  q == Instr.units  status == StatusOf(u, p, q)
           IN
           /\ At("order") /\ p \in Product /\ u \in Names /\ q \in Nat \ {0}
           /\ UNCHANGED <<pc, fails>>
           /\ mem' \in OrderMemory /\ Phase' = Phase /\ Step' = Step + 1
           /\ mem'.before = mem.before /\ mem'.after = mem.after
           /\ \/ /\ svc' = AfterOrder(u, p, q) /\ mem'.status = status /\ UNCHANGED rig
                 /\ mem'.ids = Append(mem.ids, IF status = 202 THEN JobId(u, p) ELSE Unknown)
              \/ /\ LoseOne /\ UNCHANGED svc /\ mem'.status = 0
                 /\ mem'.ids = Append(mem.ids, Unknown)
<1> DEFINE u == Instr.user
           p == Instr.product
           q == Instr.units
           status == StatusOf(u, p, q)
           id == IF status = 202 THEN JobId(u, p) ELSE Unknown
           Took(s, i) == mem' = [mem EXCEPT !.at[2] = @ + 1, !.status = s, !.ids = Append(@, i)]
<1>1. At("order") /\ UNCHANGED <<pc, fails>>
  BY DEF SendOrder
<1>2. p \in Product /\ u \in Names /\ q \in Nat \ {0}
  BY <1>1, InstrProduct
<1>3. mem \in OrderMemory /\ Phase \in Nat /\ Step \in Nat
      /\ mem.before \in [Product -> Int \cup {Unknown}]
      /\ mem.after \in [Product -> Int \cup {Unknown}]
      /\ mem.ids \in Seq(Ids \cup {Unknown}) /\ svc.made \in Nat
  BY OrderFields DEF OrderTypeOK
<1>4. JobId(u, p) \in Ids /\ status \in {0, 202, 400, 409}
  <2>1. lockKey(u, p) \in Names \X Product
    BY <1>2, Products DEF lockKey
  <2>2. JobId(u, p) \in Ids
    <3> HIDE DEF u, p
    <3> QED BY <1>3, <2>1 DEF JobId, Ids
  <2> QED BY <2>2 DEF StatusOf
<1>5. ASSUME NEW s \in {0, 202, 400, 409}, NEW i \in Ids \cup {Unknown}, Took(s, i)
      PROVE  /\ mem' \in OrderMemory /\ Phase' = Phase /\ Step' = Step + 1
             /\ mem'.before = mem.before /\ mem'.after = mem.after
             /\ mem'.status = s /\ mem'.ids = Append(mem.ids, i)
  <2> DEFINE ids == Append(mem.ids, i)
  <2>1. ids \in Seq(Ids \cup {Unknown})
    BY <1>3
  <2>2. MovesOn(mem.before, mem.after, ids, s)
    BY <1>3, <1>5 DEF MovesOn, Step, OrderMemory
  <2> HIDE DEF ids
  <2>3. /\ mem' \in OrderMemory /\ Phase' = Phase /\ Step' = Step + 1
        /\ mem'.before = mem.before /\ mem'.after = mem.after
        /\ mem'.status = s /\ mem'.ids = ids
    BY <1>3, <2>1, <2>2, Advance
  <2> QED BY <2>3 DEF ids
<1>6. \/ svc' = AfterOrder(u, p, q) /\ Took(status, id) /\ UNCHANGED rig
      \/ LoseOne /\ Took(0, Unknown) /\ UNCHANGED svc
  BY DEF SendOrder
<1> HIDE DEF Took
<1>7. id \in Ids \cup {Unknown}
  BY <1>4
<1> HIDE DEF id, status
<1>8. CASE svc' = AfterOrder(u, p, q) /\ Took(status, id) /\ UNCHANGED rig
  BY <1>1, <1>2, <1>4, <1>5, <1>7, <1>8 DEF id, status
<1>9. CASE LoseOne /\ Took(0, Unknown) /\ UNCHANGED svc
  BY <1>1, <1>2, <1>5, <1>9
<1> QED BY <1>6, <1>8, <1>9

(* A wait ends with a reading, or with one that was lost.                   *)
LEMMA SettleFacts ==
    ASSUME OrderTypeOK, SettleStock
    PROVE  LET p == Instr.product IN
           /\ At("settle") /\ p \in Product /\ Instr = Settle(p) /\ UNCHANGED <<pc, svc>>
           /\ mem' \in OrderMemory /\ Phase' = Phase /\ Step' = Step + 1
           /\ mem'.before = mem.before /\ mem'.ids = mem.ids /\ mem'.status = mem.status
           /\ \/ /\ mem'.after = [mem.after EXCEPT ![p] = svc.stock[p]] /\ NegativeStock(p)
                 /\ \/ ~Pending(p) /\ UNCHANGED rig
                    \/ rig' = [rig EXCEPT !.late = TRUE]
              \/ /\ mem'.after = [mem.after EXCEPT ![p] = Unknown]
                 /\ ~Pending(p) /\ LoseOne /\ UNCHANGED fails
<1> DEFINE p == Instr.product
           Took(v) == mem' = [mem EXCEPT !.at[2] = @ + 1, !.after[p] = v]
<1>1. At("settle") /\ UNCHANGED <<pc, svc>>
  BY DEF SettleStock
<1>2. p \in Product /\ Instr = Settle(p)
  BY <1>1, InstrProduct
<1>3. mem \in OrderMemory /\ svc.stock[p] \in Int /\ Phase \in Nat /\ Step \in Nat
      /\ mem.before \in [Product -> Int \cup {Unknown}]
      /\ mem.after \in [Product -> Int \cup {Unknown}]
      /\ mem.ids \in Seq(Ids \cup {Unknown}) /\ mem.status \in {0, 202, 400, 409}
  BY <1>2, OrderFields DEF OrderTypeOK
<1>4. ASSUME NEW v \in Int \cup {Unknown}, Took(v)
      PROVE  /\ mem' \in OrderMemory /\ Phase' = Phase /\ Step' = Step + 1
             /\ mem'.before = mem.before /\ mem'.ids = mem.ids /\ mem'.status = mem.status
             /\ mem'.after = [mem.after EXCEPT ![p] = v]
  <2> DEFINE after == [mem.after EXCEPT ![p] = v]
  <2>1. after \in [Product -> Int \cup {Unknown}]
    BY <1>3
  <2>2. MovesOn(mem.before, after, mem.ids, mem.status)
    BY <1>3, <1>4 DEF MovesOn, Step, OrderMemory
  <2> HIDE DEF after
  <2>3. /\ mem' \in OrderMemory /\ Phase' = Phase /\ Step' = Step + 1
        /\ mem'.before = mem.before /\ mem'.ids = mem.ids /\ mem'.status = mem.status
        /\ mem'.after = after
    BY <1>3, <2>1, <2>2, Advance
  <2> QED BY <2>3 DEF after
<1>5. \/ /\ Took(svc.stock[p]) /\ NegativeStock(p)
         /\ \/ ~Pending(p) /\ UNCHANGED rig
            \/ rig' = [rig EXCEPT !.late = TRUE]
      \/ Took(Unknown) /\ ~Pending(p) /\ LoseOne /\ UNCHANGED fails
  BY DEF SettleStock
<1> HIDE DEF Took
<1> QED BY <1>1, <1>2, <1>3, <1>4, <1>5

(* The pause outlasts every lock and changes nothing else.                  *)
LEMMA SleepFacts ==
    ASSUME OrderTypeOK, SleepDelay
    PROVE  /\ At("sleep") /\ svc' = [svc EXCEPT !.locks = {}] /\ UNCHANGED <<pc, fails, rig>>
           /\ mem' \in OrderMemory /\ Phase' = Phase /\ Step' = Step + 1
           /\ mem'.before = mem.before /\ mem'.after = mem.after /\ mem'.ids = mem.ids
           /\ mem'.status = mem.status
<1>1. At("sleep") /\ svc' = [svc EXCEPT !.locks = {}] /\ UNCHANGED <<pc, fails, rig>>
      /\ mem' = [mem EXCEPT !.at[2] = @ + 1]
  BY DEF SleepDelay
<1>2. mem \in OrderMemory /\ Phase \in Nat /\ Step \in Nat
      /\ mem.before \in [Product -> Int \cup {Unknown}]
      /\ mem.after \in [Product -> Int \cup {Unknown}]
      /\ mem.ids \in Seq(Ids \cup {Unknown}) /\ mem.status \in {0, 202, 400, 409}
  BY OrderFields DEF OrderTypeOK
<1>3. MovesOn(mem.before, mem.after, mem.ids, mem.status)
  BY <1>1, <1>2 DEF MovesOn, Step, OrderMemory
<1>4. /\ mem' \in OrderMemory /\ Phase' = Phase /\ Step' = Step + 1
      /\ mem'.before = mem.before /\ mem'.after = mem.after /\ mem'.ids = mem.ids
      /\ mem'.status = mem.status
  BY <1>2, <1>3, Advance
<1> QED BY <1>1, <1>4

(* What becomes of an order that got through: nothing, or a lock and,       *)
(* unless it is forgotten, a job.                                           *)
LEMMA OrderMade ==
    ASSUME OrderTypeOK, NEW u \in Names, NEW p \in Product, NEW q \in Nat \ {0},
           svc' = AfterOrder(u, p, q)
    PROVE  /\ svc' \in OrderService /\ IsFiniteSet(svc'.jobs)
           /\ svc'.defect = svc.defect /\ svc'.refuses = svc.refuses /\ svc'.strict = svc.strict
           /\ svc'.stock = svc.stock /\ svc'.orders = svc.orders
           /\ \/ svc' = svc /\ (Locked(u, p) \/ StatusOf(u, p, q) # 202)
              \/ /\ ~Locked(u, p) /\ StatusOf(u, p, q) = 202
                 /\ svc'.locks = svc.locks \cup {lockKey(u, p)}
                 /\ svc.defect = "loses" => svc'.jobs = svc.jobs
                 /\ svc.defect # "loses" => \E job \in OrderJob :
                       /\ svc'.jobs = svc.jobs \cup {job} /\ job.user = u /\ job.product = p
                       /\ job.units = IF svc.defect = "quantity" THEN q ELSE 1
<1>1. CASE Locked(u, p) \/ StatusOf(u, p, q) # 202
  BY <1>1 DEF AfterOrder, OrderTypeOK
<1>2. CASE ~Locked(u, p) /\ StatusOf(u, p, q) = 202
  <2> DEFINE job == [id |-> JobId(u, p), user |-> u, product |-> p,
                     units |-> IF svc.defect = "quantity" THEN q ELSE 1]
             key == lockKey(u, p)
             made == IF svc.defect = "noLock" THEN svc.made + 1 ELSE svc.made
             jobs == IF svc.defect = "loses" THEN svc.jobs ELSE svc.jobs \cup {job}
  <2>1. key \in Names \X Product
    BY Products DEF lockKey
  <2>2. JobId(u, p) \in Ids
    BY <2>1, OrderFields DEF JobId, Ids
  <2>3. job \in OrderJob
    BY <2>2 DEF OrderJob
  <2>4. made \in Nat /\ jobs \subseteq OrderJob /\ IsFiniteSet(jobs)
    <3>1. IsFiniteSet(svc.jobs) /\ svc.jobs \subseteq OrderJob /\ svc.made \in Nat
      BY OrderFields
    <3>2. IsFiniteSet(svc.jobs \cup {job})
      BY <3>1, FS_AddElement
    <3> QED BY <2>3, <3>1, <3>2
  <2>5. svc' = [svc EXCEPT !.locks = svc.locks \cup {key}, !.made = made, !.jobs = jobs]
    BY <1>2 DEF AfterOrder, OrderTypeOK, OrderService
  <2> DEFINE locks == svc.locks \cup {key}
  <2>6. locks \subseteq Names \X Product
    BY <2>1, OrderFields
  <2>7. /\ job.user = u /\ job.product = p
        /\ job.units = IF svc.defect = "quantity" THEN q ELSE 1
    OBVIOUS
  <2> HIDE DEF job, key, made, jobs
  <2>8. svc' = [svc EXCEPT !.locks = locks, !.made = made, !.jobs = jobs]
    BY <2>5
  <2> HIDE DEF locks
  <2>9. /\ svc' \in OrderService /\ svc'.locks = locks /\ svc'.jobs = jobs
        /\ svc'.defect = svc.defect /\ svc'.refuses = svc.refuses /\ svc'.strict = svc.strict
        /\ svc'.stock = svc.stock /\ svc'.orders = svc.orders
    <3>1. svc \in OrderService
      BY DEF OrderTypeOK
    <3> QED BY <2>4, <2>6, <2>8, <3>1 DEF OrderService
  <2> QED BY <1>2, <2>3, <2>4, <2>7, <2>9 DEF jobs, locks, key
<1> QED BY <1>1, <1>2

(* The worker finishes one job: it sells what the job asks for, once per    *)
(* user and product and while there is enough, unless a rule is broken.     *)
LEMMA WorkFacts ==
    ASSUME OrderTypeOK, Work
    PROVE  /\ pc = "phases" /\ UNCHANGED <<pc, mem, fails>>
           /\ rig' \in [lost : Nat, late : BOOLEAN, swift : BOOLEAN]
           /\ rig'.lost = rig.lost /\ rig'.late = rig.late
           /\ svc' \in OrderService /\ IsFiniteSet(svc'.jobs)
           /\ svc'.defect = svc.defect /\ svc'.refuses = svc.refuses /\ svc'.strict = svc.strict
           /\ \E job \in svc.jobs :
                 LET key == <<job.user, job.product>>
                     sells == /\ key \notin svc.orders \/ svc.defect = "noUnique"
                              /\ svc.stock[job.product] >= job.units \/ svc.defect = "noGuard"
                 IN
                 /\ svc'.jobs = svc.jobs \ {job} /\ svc'.locks \subseteq svc.locks
                 /\ svc'.locks = svc.locks \ {lockKey(job.user, job.product)}
                 /\ rig'.swift = (rig.swift \/ (At("order") /\ Instr.user = job.user
                                                 /\ Instr.product # job.product))
                 /\ svc'.orders = IF sells THEN svc.orders \cup {key} ELSE svc.orders
                 /\ \A p \in Product : svc'.stock[p] =
                       IF sells /\ p = job.product THEN svc.stock[p] - job.units ELSE svc.stock[p]
<1>1. PICK job \in svc.jobs :
         LET key == <<job.user, job.product>>
             sells == /\ key \notin svc.orders \/ svc.defect = "noUnique"
                      /\ svc.stock[job.product] >= job.units \/ svc.defect = "noGuard"
         IN
         /\ svc' = [svc EXCEPT
                      !.jobs = @ \ {job},
                      !.locks = @ \ {lockKey(job.user, job.product)},
                      !.orders = IF sells THEN @ \cup {key} ELSE @,
                      !.stock[job.product] = IF sells THEN @ - job.units ELSE @]
         /\ rig' = [rig EXCEPT !.swift = @ \/ (At("order") /\ Instr.user = job.user
                                                /\ Instr.product # job.product)]
         /\ UNCHANGED <<pc, mem, fails>>
  BY DEF Work
<1>2. /\ job \in OrderJob /\ job.user \in Names /\ job.product \in Product
      /\ job.units \in Nat \ {0}
  BY OrderFields DEF OrderJob
<1> DEFINE key == <<job.user, job.product>>
           sells == /\ key \notin svc.orders \/ svc.defect = "noUnique"
                    /\ svc.stock[job.product] >= job.units \/ svc.defect = "noGuard"
           jobs == svc.jobs \ {job}
           locks == svc.locks \ {lockKey(job.user, job.product)}
           orders == IF sells THEN svc.orders \cup {key} ELSE svc.orders
           gone == IF sells THEN svc.stock[job.product] - job.units ELSE svc.stock[job.product]
           stock == [svc.stock EXCEPT ![job.product] = gone]
<1>3. svc' = [svc EXCEPT !.jobs = jobs, !.locks = locks, !.orders = orders, !.stock = stock]
  BY <1>1 DEF OrderTypeOK, OrderService
<1>4. /\ jobs \subseteq OrderJob /\ IsFiniteSet(jobs) /\ locks \subseteq Names \X Product
  BY OrderFields, FS_RemoveElement
<1>5. orders \subseteq Names \X Product
  BY <1>2, OrderFields
<1>6. gone \in Int
  BY <1>2, OrderFields
<1>7. stock \in [Product -> Int] /\ stock[job.product] = gone
      /\ \A p \in Product : p # job.product => stock[p] = svc.stock[p]
  <2> HIDE DEF gone
  <2> QED BY <1>2, <1>6, OrderFields
<1>8. svc \in OrderService
  BY DEF OrderTypeOK
<1>9. /\ rig' \in [lost : Nat, late : BOOLEAN, swift : BOOLEAN] /\ rig'.lost = rig.lost
      /\ rig'.late = rig.late
      /\ rig'.swift = (rig.swift \/ (At("order") /\ Instr.user = job.user
                                      /\ Instr.product # job.product))
  <2> DEFINE swift == rig.swift \/ (At("order") /\ Instr.user = job.user
                                      /\ Instr.product # job.product)
  <2>1. rig' = [rig EXCEPT !.swift = swift] /\ swift \in BOOLEAN
    <3>1. rig \in [lost : Nat, late : BOOLEAN, swift : BOOLEAN]
      BY DEF OrderTypeOK
    <3> QED BY <1>1, <3>1
  <2> HIDE DEF swift
  <2>2. rig' \in [lost : Nat, late : BOOLEAN, swift : BOOLEAN] /\ rig'.lost = rig.lost
        /\ rig'.late = rig.late /\ rig'.swift = swift
    BY <2>1 DEF OrderTypeOK
  <2> QED BY <2>2 DEF swift
<1>10. pc = "phases" /\ UNCHANGED <<pc, mem, fails>>
  BY <1>1 DEF Work
<1> HIDE DEF jobs, locks, orders, stock
<1>11. /\ svc' \in OrderService /\ svc'.jobs = jobs /\ svc'.locks = locks
       /\ svc'.orders = orders /\ svc'.stock = stock
       /\ svc'.defect = svc.defect /\ svc'.refuses = svc.refuses /\ svc'.strict = svc.strict
  BY <1>3, <1>4, <1>5, <1>7, <1>8 DEF OrderService
<1>12. \A p \in Product : svc'.stock[p] =
          IF sells /\ p = job.product THEN svc.stock[p] - job.units ELSE svc.stock[p]
  <2> HIDE DEF sells
  <2> QED BY <1>7, <1>11
<1>13. svc'.jobs = svc.jobs \ {job} /\ svc'.locks \subseteq svc.locks
       /\ svc'.locks = svc.locks \ {lockKey(job.user, job.product)}
       /\ svc'.orders = IF sells THEN svc.orders \cup {key} ELSE svc.orders
  <2> HIDE DEF sells, key
  <2> QED BY <1>11 DEF jobs, locks, orders
<1>14. IsFiniteSet(svc'.jobs)
  BY <1>4, <1>11
<1>15. \E j \in svc.jobs :
          LET k == <<j.user, j.product>>
              s == /\ k \notin svc.orders \/ svc.defect = "noUnique"
                   /\ svc.stock[j.product] >= j.units \/ svc.defect = "noGuard"
          IN
          /\ svc'.jobs = svc.jobs \ {j} /\ svc'.locks \subseteq svc.locks
          /\ svc'.locks = svc.locks \ {lockKey(j.user, j.product)}
          /\ rig'.swift = (rig.swift \/ (At("order") /\ Instr.user = j.user
                                          /\ Instr.product # j.product))
          /\ svc'.orders = IF s THEN svc.orders \cup {k} ELSE svc.orders
          /\ \A p \in Product : svc'.stock[p] =
                IF s /\ p = j.product THEN svc.stock[p] - j.units ELSE svc.stock[p]
  <2> WITNESS job \in svc.jobs
  <2> QED BY <1>9, <1>12, <1>13
<1> QED BY <1>9, <1>10, <1>11, <1>14, <1>15

(* At the end of a phase the script judges, and starts the next one afresh. *)
LEMMA JudgeFacts ==
    ASSUME OrderTypeOK, Judge
    PROVE  /\ pc = "phases" /\ Phase \in 1..5 /\ Step = Len(Script[Phase]) + 1
           /\ UNCHANGED <<svc, rig>>
           /\ pc' = IF Phase = 5 THEN "done" ELSE "phases"
           /\ mem' \in OrderMemory /\ Phase' = Phase + 1 /\ Step' = 1
           /\ mem'.before = [p \in Product |-> Unknown] /\ mem'.after = [p \in Product |-> Unknown]
           /\ mem'.ids = <<>> /\ mem'.status = 0
<1>0. mem' = [mem EXCEPT !.at = <<Phase + 1, 1>>,
                         !.before = [p \in Product |-> Unknown],
                         !.after = [p \in Product |-> Unknown], !.ids = <<>>, !.status = 0]
  BY DEF Judge
<1>1. pc = "phases" /\ Phase \in 1..5 /\ Step > Len(Script[Phase]) /\ UNCHANGED <<svc, rig>>
      /\ Step \in 1..(Len(Script[Phase]) + 1)
      /\ pc' = IF Phase = Len(Script) THEN "done" ELSE "phases"
  <2>1. pc = "phases" /\ Step > Len(Script[Phase]) /\ UNCHANGED <<svc, rig>>
        /\ pc' = IF Phase = Len(Script) THEN "done" ELSE "phases"
    BY DEF Judge, GoTo
  <2> QED BY <2>1 DEF OrderTypeOK
<1>2. Len(Script) = 5
  BY DEF Script
<1>3. Len(Script[Phase]) \in Nat
  <2>1. CASE Phase = 5
    BY <2>1, RushSteps
  <2>2. CASE Phase \in 1..4
    BY <2>2, Instructions
  <2> QED BY <1>1, <2>1, <2>2
<1> DEFINE at == <<Phase + 1, 1>>
           unread == [p \in Product |-> Unknown]
           none == <<>>
<1>4. at \in Nat \X Nat /\ at[1] = Phase + 1 /\ at[2] = 1
  BY <1>1
<1>5. unread \in [Product -> Int \cup {Unknown}] /\ none \in Seq(Ids \cup {Unknown})
  OBVIOUS
<1>6. mem' = Updated(mem, at, unread, unread, none, 0)
  BY <1>0 DEF Updated
<1> HIDE DEF at, unread, none
<1>7. /\ mem' \in OrderMemory /\ mem'.at = at /\ mem'.before = unread /\ mem'.after = unread
      /\ mem'.ids = none /\ mem'.status = 0
  BY <1>4, <1>5, <1>6, MemoryUpdate DEF OrderTypeOK
<1>8. Phase' = Phase + 1 /\ Step' = 1
  BY <1>4, <1>7 DEF Phase, Step
<1>9. Step = Len(Script[Phase]) + 1
  BY <1>1, <1>3
<1> QED BY <1>1, <1>2, <1>7, <1>8, <1>9 DEF unread, none

(* What went wrong is not undone.                                           *)
LEMMA LossFacts ==
    ASSUME OrderTypeOK
    PROVE  /\ LoseOne => /\ rig' \in [lost : Nat, late : BOOLEAN, swift : BOOLEAN]
                         /\ rig'.lost = rig.lost + 1 /\ ~rig.late /\ ~rig'.late
           /\ rig' = [rig EXCEPT !.late = TRUE] =>
                 /\ rig' \in [lost : Nat, late : BOOLEAN, swift : BOOLEAN]
                 /\ rig'.lost = rig.lost /\ rig'.late
<1>1. rig \in [lost : Nat, late : BOOLEAN, swift : BOOLEAN]
  BY DEF OrderTypeOK
<1>2. ASSUME LoseOne
      PROVE  /\ rig' \in [lost : Nat, late : BOOLEAN, swift : BOOLEAN]
             /\ rig'.lost = rig.lost + 1 /\ ~rig.late /\ ~rig'.late
  <2>1. ~rig.late /\ rig' = [rig EXCEPT !.lost = rig.lost + 1] /\ rig.lost + 1 \in Nat
    BY <1>1, <1>2 DEF LoseOne
  <2> QED BY <1>1, <2>1
<1>3. ASSUME rig' = [rig EXCEPT !.late = TRUE]
      PROVE  /\ rig' \in [lost : Nat, late : BOOLEAN, swift : BOOLEAN]
             /\ rig'.lost = rig.lost /\ rig'.late
  BY <1>1, <1>3
<1> QED BY <1>2, <1>3

\* --------------------------------------------------- types, and what is ahead

(* Types are kept, the service stays what it is, and what went wrong stays. *)
LEMMA OrderTypeStep ==
    ASSUME OrderTypeOK, NextOrders
    PROVE  /\ OrderTypeOK' /\ svc'.defect = svc.defect /\ svc'.refuses = svc.refuses
           /\ rig'.lost >= rig.lost /\ (rig.late => rig'.late)
<1>0. /\ svc \in OrderService /\ IsFiniteSet(svc.jobs) /\ mem \in OrderMemory
      /\ rig \in [lost : Nat, late : BOOLEAN, swift : BOOLEAN] /\ rig.lost \in Nat
      /\ pc \in {"phases", "done"}
  BY OrderFields DEF OrderTypeOK
<1>1. ASSUME NEW do, At(do), Phase' = Phase, Step' = Step + 1, UNCHANGED pc
      PROVE  pc' = "phases" /\ Phase' \in 1..5 /\ Step' \in 1..(Len(Script[Phase']) + 1)
  <2>1. /\ pc = "phases" /\ Phase \in 1..5 /\ Step \in 1..Len(Script[Phase])
        /\ Len(Script[Phase]) \in Nat
    BY <1>1, AtFacts
  <2>2. Script[Phase'] = Script[Phase]
    BY <1>1
  <2> QED BY <1>1, <2>1, <2>2
<1>2. CASE ReadStock
  <2>1. /\ At("read") /\ UNCHANGED <<pc, svc>> /\ mem' \in OrderMemory
        /\ Phase' = Phase /\ Step' = Step + 1 /\ (UNCHANGED rig \/ LoseOne)
    BY <1>2, ReadFacts
  <2> QED BY <1>0, <1>1, <2>1, LossFacts DEF OrderTypeOK
<1>3. CASE SendOrder
  <2>1. /\ At("order") /\ UNCHANGED pc /\ mem' \in OrderMemory
        /\ Phase' = Phase /\ Step' = Step + 1
    BY <1>3, SendFacts
  <2>2. \/ UNCHANGED rig /\ svc' \in OrderService /\ IsFiniteSet(svc'.jobs)
           /\ svc'.defect = svc.defect /\ svc'.refuses = svc.refuses
        \/ LoseOne /\ UNCHANGED svc
    BY <1>3, SendFacts, OrderMade
  <2> QED BY <1>0, <1>1, <2>1, <2>2, LossFacts DEF OrderTypeOK
<1>4. CASE SettleStock
  <2>1. /\ At("settle") /\ UNCHANGED <<pc, svc>> /\ mem' \in OrderMemory
        /\ Phase' = Phase /\ Step' = Step + 1
        /\ UNCHANGED rig \/ LoseOne \/ rig' = [rig EXCEPT !.late = TRUE]
    BY <1>4, SettleFacts
  <2> QED BY <1>0, <1>1, <2>1, LossFacts DEF OrderTypeOK
<1>5. CASE SleepDelay
  <2>1. /\ At("sleep") /\ UNCHANGED <<pc, rig>> /\ mem' \in OrderMemory
        /\ Phase' = Phase /\ Step' = Step + 1 /\ svc' = [svc EXCEPT !.locks = {}]
    BY <1>5, SleepFacts
  <2>2. /\ svc' \in OrderService /\ svc'.jobs = svc.jobs /\ svc'.defect = svc.defect
        /\ svc'.refuses = svc.refuses
    BY <1>0, <2>1 DEF OrderService
  <2> QED BY <1>0, <1>1, <2>1, <2>2 DEF OrderTypeOK
<1>6. CASE Judge
  <2>1. /\ UNCHANGED <<svc, rig>> /\ mem' \in OrderMemory /\ Phase \in 1..5
        /\ pc' = (IF Phase = 5 THEN "done" ELSE "phases") /\ Phase' = Phase + 1 /\ Step' = 1
    BY <1>6, JudgeFacts
  <2>2. pc' = "phases" => Phase' \in 1..5 /\ Step' \in 1..(Len(Script[Phase']) + 1)
    <3>1. SUFFICES ASSUME pc' = "phases", NEW next, next = Phase'
                   PROVE  next \in 1..5 /\ 1 \in 1..(Len(Script[next]) + 1)
      BY <2>1
    <3>2. next \in 1..5 /\ next # 1
      BY <2>1, <3>1
    <3>3. Len(Script[next]) \in Nat
      <4>1. CASE next = 5
        BY <4>1, RushSteps
      <4>2. CASE next \in 1..4
        BY <4>2, Instructions
      <4> QED BY <3>2, <4>1, <4>2
    <3> QED BY <3>2, <3>3
  <2> QED BY <1>0, <2>1, <2>2 DEF OrderTypeOK
<1>7. CASE Work
  <2>1. /\ UNCHANGED <<pc, mem>> /\ rig' \in [lost : Nat, late : BOOLEAN, swift : BOOLEAN]
        /\ rig'.lost = rig.lost /\ rig'.late = rig.late
        /\ svc' \in OrderService /\ IsFiniteSet(svc'.jobs)
        /\ svc'.defect = svc.defect /\ svc'.refuses = svc.refuses
    BY <1>7, WorkFacts
  <2> QED BY <1>0, <2>1 DEF OrderTypeOK, Phase, Step
<1> QED BY <1>2, <1>3, <1>4, <1>5, <1>6, <1>7 DEF NextOrders, ScriptStep

(* What a step of the script changes in what was sent and what is ahead.    *)
LEMMA Onward ==
    ASSUME OrderTypeOK, NEW do, At(do), Phase' = Phase, Step' = Step + 1, NEW p
    PROVE  /\ Sent(p)' <=> Sent(p) \/ (do = "order" /\ Instr.product = p)
           /\ Ahead(p)' => Ahead(p)
           /\ Ahead(p) => Ahead(p)' \/ Instr = Settle(p)
<1>1. /\ Phase \in 1..5 /\ Step \in 1..Len(Script[Phase]) /\ Len(Script[Phase]) \in Nat
      /\ Instr = Script[Phase][Step] /\ Instr.do = do
  BY AtFacts
<1>2. 1..(Step' - 1) = (1..(Step - 1)) \cup {Step}
  BY <1>1
<1>3. Step..Len(Script[Phase]) = (Step'..Len(Script[Phase])) \cup {Step}
  BY <1>1
<1>4. /\ Sent(p) <=> \E n \in 1..(Step - 1) :
                        Script[Phase][n].do = "order" /\ Script[Phase][n].product = p
      /\ Sent(p)' <=> \E n \in 1..(Step' - 1) :
                        Script[Phase][n].do = "order" /\ Script[Phase][n].product = p
  BY DEF Sent
<1>5. /\ Ahead(p) <=> \E n \in Step..Len(Script[Phase]) : Script[Phase][n] = Settle(p)
      /\ Ahead(p)' <=> \E n \in Step'..Len(Script[Phase]) : Script[Phase][n] = Settle(p)
  BY DEF Ahead
<1>6. Sent(p)' <=> Sent(p) \/ (do = "order" /\ Instr.product = p)
  BY <1>1, <1>2, <1>4
<1>7. (Ahead(p)' => Ahead(p)) /\ (Ahead(p) => Ahead(p)' \/ Instr = Settle(p))
  BY <1>1, <1>3, <1>5
<1> QED BY <1>6, <1>7

(* A service with the guard never goes below zero, and is never read so.    *)
LEMMA GuardedStep ==
    ASSUME OrderTypeOK, Guarded, NextOrders
    PROVE  Guarded'
<1>0. SUFFICES ASSUME svc.defect # "noGuard", NEW p \in Product
               PROVE  svc'.stock[p] >= 0 /\ (mem'.after[p] = Unknown \/ mem'.after[p] >= 0)
  BY OrderTypeStep DEF Guarded
<1>1. svc.stock[p] >= 0 /\ (mem.after[p] = Unknown \/ mem.after[p] >= 0)
  BY <1>0 DEF Guarded
<1>2. CASE svc'.stock = svc.stock /\ mem'.after = mem.after
  BY <1>1, <1>2
<1>3. CASE ReadStock
  BY <1>2, <1>3, ReadFacts
<1>4. CASE SendOrder
  <2>1. mem'.after = mem.after /\ svc'.stock = svc.stock
    BY <1>4, SendFacts, OrderMade
  <2> QED BY <1>2, <2>1
<1>5. CASE SettleStock
  <2>1. PICK q \in Product : /\ svc' = svc
                             /\ \/ mem'.after = [mem.after EXCEPT ![q] = svc.stock[q]]
                                \/ mem'.after = [mem.after EXCEPT ![q] = Unknown]
    BY <1>5, SettleFacts
  <2>2. mem.after \in [Product -> Int \cup {Unknown}] /\ svc.stock[q] >= 0
    BY <1>0, OrderFields DEF Guarded
  <2> QED BY <1>1, <2>1, <2>2
<1>6. CASE SleepDelay
  <2>1. svc' = [svc EXCEPT !.locks = {}] /\ mem'.after = mem.after
    BY <1>6, SleepFacts
  <2>2. svc'.stock = svc.stock
    BY <2>1 DEF OrderTypeOK, OrderService
  <2> QED BY <1>2, <2>1, <2>2
<1>7. CASE Judge
  <2>1. svc' = svc /\ mem'.after = [q \in Product |-> Unknown]
    BY <1>7, JudgeFacts
  <2>2. mem'.after[p] = Unknown
    BY <2>1
  <2> QED BY <1>1, <2>1, <2>2
<1>8. CASE Work
  <2>1. PICK job \in svc.jobs :
           LET key == <<job.user, job.product>>
               sells == /\ key \notin svc.orders \/ svc.defect = "noUnique"
                        /\ svc.stock[job.product] >= job.units \/ svc.defect = "noGuard"
           IN
           \A r \in Product : svc'.stock[r] =
              IF sells /\ r = job.product THEN svc.stock[r] - job.units ELSE svc.stock[r]
    BY <1>8, WorkFacts
  <2>2. job.units \in Nat /\ svc.stock[p] \in Int
    BY OrderFields DEF OrderJob
  <2>3. mem' = mem
    BY <1>8, WorkFacts
  <2> QED BY <1>0, <1>1, <2>1, <2>2, <2>3
<1> QED BY <1>3, <1>4, <1>5, <1>6, <1>7, <1>8 DEF NextOrders, ScriptStep

(* The lock of an order carries its user.                                   *)
LEMMA LockKeys ==
    ASSUME NEW u, NEW p
    PROVE  /\ \E q : lockKey(u, p) = <<u, q>>
           /\ p = A \/ svc.defect # "userLock" => lockKey(u, p) = <<u, p>>
           /\ Locked(u, p) => lockKey(u, p) \in svc.locks
<1>1. lockKey(u, p) = <<u, IF svc.defect = "userLock" THEN A ELSE p>>
  BY DEF lockKey
<1>2. \E q : lockKey(u, p) = <<u, q>>
  BY <1>1
<1> QED BY <1>1, <1>2 DEF Locked

(* The user of an order is that of the phase.                               *)
LEMMA OrderOfPhase ==
    ASSUME OrderTypeOK, Counting, NEW do \in {"read", "order", "settle"}, At(do)
    PROVE  /\ Instr.product \in {A, B}
           /\ do = "read" => ~Sent(Instr.product)
           /\ do = "order" =>
                 /\ Instr.user = Client /\ (Instr.units = 1 \/ Phase = 3)
                 /\ \E k \in (Step + 1)..Len(Script[Phase]) :
                       Script[Phase][k] = Settle(Instr.product)
                 /\ Phase \in {2, 3} => ~Sent(Instr.product)
<1>1. /\ Step \in 1..Len(Script[Phase]) /\ Instr = Script[Phase][Step] /\ Instr.do = do
      /\ Phase \in 1..4
  BY AtFacts DEF Counting
<1>2. /\ Instr.product \in {A, B}
      /\ do = "read" => \A k \in 1..(Step - 1) : Script[Phase][k].do = "read"
      /\ do = "order" =>
            /\ Instr.user = Clients[Phase] /\ (Instr.units = 1 \/ Phase = 3)
            /\ \E k \in (Step + 1)..Len(Script[Phase]) :
                  Script[Phase][k] = Settle(Instr.product)
            /\ Phase \in {2, 3} => \A k \in 1..(Step - 1) :
                  ~(Script[Phase][k].do = "order" /\ Script[Phase][k].product = Instr.product)
  <2>1. /\ Instr.do # "sleep" => Instr.product \in {A, B}
        /\ Instr.do = "read" => \A k \in 1..(Step - 1) : Script[Phase][k].do = "read"
        /\ Instr.do = "order" =>
              /\ Instr.user = Clients[Phase] /\ (Instr.units = 1 \/ Phase = 3)
              /\ \E k \in (Step + 1)..Len(Script[Phase]) :
                    Script[Phase][k] = Settle(Instr.product)
              /\ Phase \in {2, 3} => \A k \in 1..(Step - 1) :
                    ~(Script[Phase][k].do = "order" /\ Script[Phase][k].product = Instr.product)
    <3>1. PICK P \in 1..4 : P = Phase
      BY <1>1
    <3>2. PICK n \in 1..Len(Script[P]) : n = Step
      BY <1>1, <3>1
    <3> DEFINE i == Script[P][n]
    <3>3. /\ i.do # "sleep" => i.product \in {A, B}
          /\ i.do = "read" => \A k \in 1..(n - 1) : Script[P][k].do = "read"
      BY ScriptShape
    <3>4. i.do = "order" => i.user = Clients[P] /\ (i.units = 1 \/ P = 3)
      BY ScriptShape
    <3>5. i.do = "order" => \E k \in (n + 1)..Len(Script[P]) : Script[P][k] = Settle(i.product)
      BY ScriptShape
    <3>6. i.do = "order" /\ P \in {2, 3} => \A k \in 1..(n - 1) :
             ~(Script[P][k].do = "order" /\ Script[P][k].product = i.product)
      BY ScriptShape
    <3>7. Script[P] = Script[Phase] /\ i = Instr
      BY <1>1, <3>1, <3>2
    <3> HIDE DEF i
    <3> QED BY <3>1, <3>2, <3>3, <3>4, <3>5, <3>6, <3>7
  <2> QED BY <1>1, <2>1
<1> QED BY <1>2 DEF Sent, Client

(* A step that only moves the script on, and adds no trace of anyone.       *)
LEMMA NewcomersStay ==
    ASSUME OrderTypeOK, Newcomers, UNCHANGED pc, Phase' = Phase,
           \A p \in Product : Sent(p) => Sent(p)', svc'.defect = svc.defect,
           svc'.orders = svc.orders, svc'.locks \subseteq svc.locks, svc'.jobs \subseteq svc.jobs
    PROVE  Newcomers'
<1>1. pc = "phases" => \A n \in DOMAIN Clients, p \in Product :
         n > Phase \/ (n = Phase /\ \A q \in Product : ~Sent(q)') =>
            /\ <<Clients[n], p>> \notin svc'.orders \cup svc'.locks
            /\ \A job \in svc'.jobs : job.user # Clients[n]
  BY DEF Newcomers
<1>2. Counting => \A p \in Product : ~Sent(p)' =>
         /\ <<Client, p>> \notin svc'.orders
         /\ svc.defect # "userLock" => <<Client, p>> \notin svc'.locks
         /\ \A job \in svc'.jobs : ~(job.user = Client /\ job.product = p)
  BY DEF Newcomers
<1>3. Counting' = Counting /\ Client' = Client
  BY DEF Counting, Client
<1> QED BY <1>1, <1>2, <1>3 DEF Newcomers

\* ---------------------------------------------------- the steps, part by part

(* Who has sent nothing has left no trace.                                  *)
LEMMA NewcomersStep ==
    ASSUME OrderTypeOK, Newcomers, NextOrders
    PROVE  Newcomers'
<1>1. ASSUME NEW do, At(do), Phase' = Phase, Step' = Step + 1, NEW p, Sent(p) PROVE Sent(p)'
  BY <1>1, Onward
<1>2. CASE ReadStock \/ SettleStock
  <2>1. PICK do : At(do) /\ UNCHANGED <<pc, svc>> /\ Phase' = Phase /\ Step' = Step + 1
    BY <1>2, ReadFacts, SettleFacts
  <2>2. \A p \in Product : Sent(p) => Sent(p)'
    BY <1>1, <2>1
  <2> QED BY <2>1, <2>2, NewcomersStay
<1>3. CASE SleepDelay
  <2>1. /\ At("sleep") /\ UNCHANGED pc /\ Phase' = Phase /\ Step' = Step + 1
        /\ svc' = [svc EXCEPT !.locks = {}]
    BY <1>3, SleepFacts
  <2>2. /\ svc'.orders = svc.orders /\ svc'.locks = {} /\ svc'.jobs = svc.jobs
        /\ svc'.defect = svc.defect
    BY <2>1 DEF OrderTypeOK, OrderService
  <2>3. \A p \in Product : Sent(p) => Sent(p)'
    BY <1>1, <2>1
  <2> QED BY <2>1, <2>2, <2>3, NewcomersStay
<1>4. CASE SendOrder
  <2> DEFINE u == Instr.user
             r == Instr.product
             q == Instr.units
  <2>1. /\ At("order") /\ UNCHANGED pc /\ Phase' = Phase /\ Step' = Step + 1
        /\ r \in Product /\ u \in Names /\ q \in Nat \ {0}
        /\ svc' = AfterOrder(u, r, q) \/ UNCHANGED svc
    BY <1>4, SendFacts
  <2>2. /\ \A p : Sent(p)' <=> Sent(p) \/ p = r
        /\ pc = "phases" /\ Phase \in 1..5
    BY <2>1, Onward, AtFacts
  <2>3. CASE UNCHANGED svc
    BY <2>1, <2>2, <2>3, NewcomersStay
  <2>4. CASE svc' = AfterOrder(u, r, q)
    <3>1. /\ svc'.orders = svc.orders /\ svc'.locks \subseteq svc.locks \cup {lockKey(u, r)}
          /\ \A job \in svc'.jobs : job \in svc.jobs \/ (job.user = u /\ job.product = r)
          /\ svc'.defect = svc.defect
      BY <2>1, <2>4, OrderMade
    <3>2. Counting => u = Client
      BY <2>1, OrderOfPhase
    <3> HIDE DEF u, r, q
    <3>3. ASSUME NEW n \in 1..4, NEW p \in Product, n > Phase
          PROVE  /\ <<Clients[n], p>> \notin svc'.orders \cup svc'.locks
                 /\ \A job \in svc'.jobs : job.user # Clients[n]
      <4>1. Counting /\ Phase \in 1..4 /\ Clients[n] # u
        BY <2>2, <3>2, <3>3, ClientNames DEF Counting, Client
      <4>2. /\ <<Clients[n], p>> \notin svc.orders \cup svc.locks
            /\ \A job \in svc.jobs : job.user # Clients[n]
        BY <2>2, <3>3, ClientNames DEF Newcomers
      <4>3. <<Clients[n], p>> # lockKey(u, r)
        BY <4>1, LockKeys
      <4> QED BY <3>1, <4>1, <4>2, <4>3
    <3>4. ASSUME Counting, NEW p \in Product, ~Sent(p)'
          PROVE  /\ <<Client, p>> \notin svc'.orders
                 /\ svc.defect # "userLock" => <<Client, p>> \notin svc'.locks
                 /\ \A job \in svc'.jobs : ~(job.user = Client /\ job.product = p)
      <4>1. p # r /\ ~Sent(p)
        BY <2>2, <3>4
      <4>2. /\ <<Client, p>> \notin svc.orders
            /\ svc.defect # "userLock" => <<Client, p>> \notin svc.locks
            /\ \A job \in svc.jobs : ~(job.user = Client /\ job.product = p)
        BY <3>4, <4>1 DEF Newcomers
      <4>3. svc.defect # "userLock" => <<Client, p>> # lockKey(u, r)
        BY <4>1, LockKeys
      <4> QED BY <3>1, <4>1, <4>2, <4>3
    <3>5. \E p \in Product : Sent(p)'
      BY <2>1, <2>2
    <3>6. Counting' = Counting /\ Client' = Client
      BY <2>1 DEF Counting, Client
    <3> QED BY <2>1, <3>1, <3>3, <3>4, <3>5, <3>6, ClientNames DEF Newcomers
  <2> QED BY <2>1, <2>3, <2>4
<1>5. CASE Judge
  <2>1. pc = "phases" /\ UNCHANGED svc /\ Phase \in 1..5 /\ Phase' = Phase + 1 /\ Step' = 1
    BY <1>5, JudgeFacts
  <2>2. ASSUME NEW n \in DOMAIN Clients, NEW p \in Product, n > Phase
        PROVE  /\ <<Clients[n], p>> \notin svc.orders \cup svc.locks
               /\ \A job \in svc.jobs : job.user # Clients[n]
    BY <2>1, <2>2 DEF Newcomers
  <2>3. Counting' => Phase' \in DOMAIN Clients /\ Phase' > Phase
    BY <2>1, ClientNames DEF Counting
  <2>4. \A n \in DOMAIN Clients : n > Phase' \/ n = Phase' => n > Phase
    BY <2>1, ClientNames
  <2>5. Client' = Clients[Phase']
    BY DEF Client
  <2>6. ASSUME Counting', NEW p \in Product
        PROVE  /\ <<Client', p>> \notin svc.orders /\ <<Client', p>> \notin svc.locks
               /\ \A job \in svc.jobs : ~(job.user = Client' /\ job.product = p)
    BY <2>2, <2>3, <2>5, <2>6
  <2> QED BY <2>1, <2>2, <2>4, <2>6 DEF Newcomers
<1>6. CASE Work
  <2>1. PICK job \in svc.jobs :
           /\ svc'.jobs \subseteq svc.jobs /\ svc'.locks \subseteq svc.locks
           /\ svc'.orders \subseteq svc.orders \cup {<<job.user, job.product>>}
           /\ svc'.defect = svc.defect /\ pc = "phases" /\ UNCHANGED <<pc, mem>>
    BY <1>6, WorkFacts
  <2>2. Phase' = Phase /\ Counting' = Counting /\ Client' = Client
        /\ \A p : Sent(p)' = Sent(p)
    BY <2>1 DEF Phase, Counting, Client, Sent, Step
  <2>3. ASSUME NEW n \in DOMAIN Clients, NEW p \in Product,
               n > Phase \/ (n = Phase /\ \A q \in Product : ~Sent(q))
        PROVE  /\ <<Clients[n], p>> \notin svc'.orders \cup svc'.locks
               /\ \A j \in svc'.jobs : j.user # Clients[n]
    <3>1. /\ <<Clients[n], p>> \notin svc.orders \cup svc.locks
          /\ \A j \in svc.jobs : j.user # Clients[n]
      BY <2>1, <2>3 DEF Newcomers
    <3> QED BY <2>1, <3>1
  <2>4. ASSUME Counting, NEW p \in Product, ~Sent(p)
        PROVE  /\ <<Client, p>> \notin svc'.orders
               /\ svc.defect # "userLock" => <<Client, p>> \notin svc'.locks
               /\ \A j \in svc'.jobs : ~(j.user = Client /\ j.product = p)
    <3>1. /\ <<Client, p>> \notin svc.orders
          /\ svc.defect # "userLock" => <<Client, p>> \notin svc.locks
          /\ \A j \in svc.jobs : ~(j.user = Client /\ j.product = p)
      BY <2>4 DEF Newcomers
    <3> QED BY <2>1, <3>1
  <2> QED BY <2>1, <2>2, <2>3, <2>4 DEF Newcomers
<1> QED BY <1>2, <1>3, <1>4, <1>5, <1>6 DEF NextOrders, ScriptStep

(* Phase A, step by step.                                                   *)
LEMMA BurstSteps ==
    ASSUME OrderTypeOK, Phase = 1, NEW do, At(do)
    PROVE  /\ do = "read" => Step = 1
           /\ do = "order" => Step \in {2, 3} /\ Instr = Order("burst", A, 1)
           /\ do = "settle" => Step = 4
           /\ do # "sleep"
<1>1. Step \in 1..4 /\ Instr = Script[1][Step] /\ Instr.do = do
  BY AtFacts, Instructions
<1>2. CASE Step = 1
  BY <1>1, <1>2, Instructions, InstrFields
<1>3. CASE Step \in {2, 3}
  BY <1>1, <1>3, Instructions, InstrFields
<1>4. CASE Step = 4
  BY <1>1, <1>4, Instructions, InstrFields
<1> QED BY <1>1, <1>2, <1>3, <1>4

(* A burst gets the id of one job, if the lock is kept.                     *)
LEMMA BurstStep ==
    ASSUME OrderTypeOK, Newcomers, BurstIds, NextOrders
    PROVE  BurstIds'
<1> DEFINE LenAt(step) == IF step <= 2 THEN 0 ELSE IF step = 3 THEN 1 ELSE 2
           IdOK(id) == \/ id = <<<<"burst", A>>, 0>>
                       \/ id = Unknown /\ (rig.lost > 0 \/ svc.refuses)
<1>0. /\ svc'.defect = svc.defect /\ svc'.refuses = svc.refuses
      /\ rig'.lost >= rig.lost /\ rig.lost \in Nat /\ rig'.lost \in Nat
      /\ mem.ids \in Seq(Ids \cup {Unknown}) /\ Len(mem.ids) \in Nat /\ Step \in Nat
  <2>1. /\ svc'.defect = svc.defect /\ svc'.refuses = svc.refuses /\ rig'.lost >= rig.lost
        /\ OrderTypeOK'
    BY OrderTypeStep
  <2>2. rig'.lost \in Nat
    BY <2>1 DEF OrderTypeOK
  <2> QED BY <2>1, <2>2, OrderFields
<1>1. SUFFICES ASSUME pc' = "phases", Phase' = 1
               PROVE  /\ Len(mem'.ids) = LenAt(Step')
                      /\ ~Answered' => /\ rig'.lost >= Len(mem'.ids)
                                       /\ <<"burst", A>> \notin svc'.locks
                      /\ svc.defect # "noLock" =>
                            \A n \in DOMAIN mem'.ids :
                               \/ mem'.ids[n] = <<<<"burst", A>>, 0>>
                               \/ mem'.ids[n] = Unknown /\ (rig'.lost > 0 \/ svc.refuses)
  BY <1>0 DEF BurstIds, Counting
<1>2. ASSUME pc = "phases", Phase = 1
      PROVE  /\ Len(mem.ids) = LenAt(Step)
             /\ ~Answered => rig.lost >= Len(mem.ids) /\ <<"burst", A>> \notin svc.locks
             /\ svc.defect # "noLock" => \A n \in DOMAIN mem.ids : IdOK(mem.ids[n])
  BY <1>2 DEF BurstIds, Counting
<1>3. ASSUME pc = "phases", Phase = 1, mem'.ids = mem.ids, svc'.locks \subseteq svc.locks,
             LenAt(Step') = LenAt(Step)
      PROVE  /\ Len(mem'.ids) = LenAt(Step')
             /\ ~Answered' => /\ rig'.lost >= Len(mem'.ids)
                              /\ <<"burst", A>> \notin svc'.locks
             /\ svc.defect # "noLock" =>
                   \A n \in DOMAIN mem'.ids :
                      \/ mem'.ids[n] = <<<<"burst", A>>, 0>>
                      \/ mem'.ids[n] = Unknown /\ (rig'.lost > 0 \/ svc.refuses)
  <2>1. Answered' = Answered
    BY <1>3 DEF Answered
  <2>2. rig.lost > 0 => rig'.lost > 0
    BY <1>0
  <2> HIDE DEF LenAt
  <2> QED BY <1>0, <1>2, <1>3, <2>1, <2>2
<1>4. CASE ReadStock
  <2>1. At("read") /\ Phase = 1 /\ Step' = Step + 1 /\ UNCHANGED svc /\ mem'.ids = <<>>
    BY <1>1, <1>4, ReadFacts
  <2>2. Step = 1 /\ pc = "phases" /\ Step \in 1..Len(Script[Phase])
    BY <2>1, BurstSteps, AtFacts
  <2>3. \A q \in Product : ~Sent(q)
    BY <2>2 DEF Sent
  <2>4. <<"burst", A>> \notin svc.locks
    BY <2>1, <2>2, <2>3, ClientNames, Products DEF Newcomers
  <2> QED BY <1>0, <2>1, <2>2, <2>4
<1>5. CASE SendOrder
  <2>1. /\ At("order") /\ Phase = 1 /\ Step' = Step + 1 /\ pc = "phases"
        /\ Step \in {2, 3} /\ Instr = Order("burst", A, 1)
    BY <1>1, <1>5, SendFacts, BurstSteps, AtFacts
  <2>2. Instr.user = "burst" /\ Instr.product = A /\ Instr.units = 1
    BY <2>1, InstrFields
  <2>3. PICK id : mem'.ids = Append(mem.ids, id)
    BY <1>5, SendFacts
  <2>4. /\ Len(mem'.ids) = Len(mem.ids) + 1 /\ mem'.ids[Len(mem.ids) + 1] = id
        /\ DOMAIN mem'.ids = DOMAIN mem.ids \cup {Len(mem.ids) + 1}
        /\ \A n \in DOMAIN mem.ids : mem'.ids[n] = mem.ids[n]
    BY <1>0, <2>3
  <2>5. Answered' <=> Answered \/ id # Unknown
    BY <2>4 DEF Answered
  <2>6. Len(mem'.ids) = LenAt(Step')
    BY <1>2, <2>1, <2>4
  <2>7. /\ ~Answered' => rig'.lost >= Len(mem'.ids) /\ <<"burst", A>> \notin svc'.locks
        /\ svc.defect # "noLock" => \/ id = <<<<"burst", A>>, 0>>
                                    \/ id = Unknown /\ (rig'.lost > 0 \/ svc.refuses)
    <3> DEFINE status == StatusOf("burst", A, 1)
    <3>1. CASE LoseOne /\ UNCHANGED svc /\ mem'.ids = Append(mem.ids, Unknown)
      <4>1. rig'.lost = rig.lost + 1
        BY <3>1, LossFacts
      <4>2. id = Unknown
        <5>1. Append(mem.ids, Unknown)[Len(mem.ids) + 1] = Unknown
          BY <1>0
        <5> QED BY <2>4, <3>1, <5>1
      <4> QED BY <1>0, <1>2, <2>1, <2>4, <2>5, <3>1, <4>1, <4>2
    <3>2. CASE /\ svc' = AfterOrder("burst", A, 1)
               /\ mem'.ids = Append(mem.ids, IF status = 202 THEN JobId("burst", A) ELSE Unknown)
      <4>1. id = IF status = 202 THEN JobId("burst", A) ELSE Unknown
        <5> DEFINE new == IF status = 202 THEN JobId("burst", A) ELSE Unknown
        <5> HIDE DEF new
        <5>1. mem'.ids = Append(mem.ids, new)
          BY <3>2 DEF new
        <5>2. Append(mem.ids, new)[Len(mem.ids) + 1] = new
          BY <1>0
        <5> QED BY <2>4, <5>1, <5>2 DEF new
      <4>2. lockKey("burst", A) = <<"burst", A>>
        BY LockKeys
      <4>3. /\ JobId("burst", A) \in Ids
            /\ svc.defect # "noLock" => JobId("burst", A) = <<<<"burst", A>>, 0>>
        <5>1. svc.made \in Nat /\ <<"burst", A>> \in Names \X Product
          BY OrderFields, ClientNames, Products
        <5> QED BY <4>2, <5>1 DEF JobId, Ids
      <4>4. JobId("burst", A) # Unknown
        BY <4>3, OrderFields
      <4>5. status = 202 \/ (status = 409 /\ Locked("burst", A) /\ svc.refuses)
        BY DEF StatusOf
      <4>6. Locked("burst", A) => Answered
        BY <1>2, <2>1, <4>2, LockKeys
      <4> HIDE DEF status
      <4> QED BY <2>5, <4>1, <4>3, <4>4, <4>5, <4>6
    <3>3. \/ /\ svc' = AfterOrder("burst", A, 1)
             /\ mem'.ids = Append(mem.ids, IF status = 202 THEN JobId("burst", A) ELSE Unknown)
          \/ LoseOne /\ UNCHANGED svc /\ mem'.ids = Append(mem.ids, Unknown)
      BY <1>5, <2>2, SendFacts
    <3> QED BY <3>1, <3>2, <3>3
  <2>8. svc.defect # "noLock" =>
           \A n \in DOMAIN mem'.ids :
              \/ mem'.ids[n] = <<<<"burst", A>>, 0>>
              \/ mem'.ids[n] = Unknown /\ (rig'.lost > 0 \/ svc.refuses)
    <3>1. rig.lost > 0 => rig'.lost > 0
      BY <1>0
    <3> HIDE DEF LenAt
    <3> QED BY <1>2, <2>1, <2>4, <2>7, <3>1
  <2> QED BY <2>6, <2>7, <2>8
<1>6. CASE SettleStock
  <2>1. At("settle") /\ Phase = 1 /\ Step' = Step + 1 /\ UNCHANGED svc /\ mem'.ids = mem.ids
    BY <1>1, <1>6, SettleFacts
  <2>2. Step = 4 /\ pc = "phases"
    BY <2>1, BurstSteps, AtFacts
  <2> QED BY <1>3, <2>1, <2>2
<1>7. CASE SleepDelay
  BY <1>1, <1>7, SleepFacts, BurstSteps
<1>8. CASE Judge
  BY <1>1, <1>8, JudgeFacts
<1>9. CASE Work
  <2>1. UNCHANGED mem /\ svc'.locks \subseteq svc.locks /\ pc = "phases"
    BY <1>9, WorkFacts
  <2>2. Phase' = Phase /\ Step' = Step
    BY <2>1 DEF Phase, Step
  <2> QED BY <1>1, <1>3, <2>1, <2>2
<1> QED BY <1>4, <1>5, <1>6, <1>7, <1>8, <1>9 DEF NextOrders, ScriptStep

(* A step that moves the script on within a phase that counts units leaves  *)
(* the phase, its user and what is ahead as they were, up to its own wait.  *)
LEMMA OnwardInPhase ==
    ASSUME OrderTypeOK, Counting', NEW do, At(do), UNCHANGED pc, Phase' = Phase, Step' = Step + 1,
           ~rig'.late, rig.late => rig'.late
    PROVE  /\ Counting /\ ~rig.late /\ Client' = Client /\ Phase \in 1..4
           /\ do # "settle" => \A p \in Product : Ahead(p)' <=> Ahead(p)
<1>1. Counting /\ ~rig.late /\ Client' = Client
  BY OrderFields DEF Counting, Client
<1>2. Phase \in 1..4
  BY <1>1, AtFacts DEF Counting
<1>3. ASSUME do # "settle", NEW p \in Product PROVE Ahead(p)' <=> Ahead(p)
  <2>1. Instr.do = do
    BY AtFacts
  <2>2. Instr # Settle(p)
    BY <1>3, <2>1, InstrFields
  <2> QED BY <2>2, Onward
<1> QED BY <1>1, <1>2, <1>3

(* The worker leaves the script where it is.                                *)
LEMMA WorkInPhase ==
    ASSUME OrderTypeOK, Work
    PROVE  /\ Counting' = Counting /\ Client' = Client /\ Phase' = Phase /\ Step' = Step
           /\ \A p : Ahead(p)' = Ahead(p) /\ Sent(p)' = Sent(p)
<1>1. UNCHANGED <<pc, mem>>
  BY WorkFacts
<1> QED BY <1>1 DEF Counting, Client, Phase, Step, Ahead, Sent

(* After the last step of a phase nothing is ahead.                         *)
LEMMA NothingAhead ==
    ASSUME OrderTypeOK, Judge
    PROVE  \A p : ~Ahead(p)
<1>1. Step = Len(Script[Phase]) + 1 /\ Step \in Nat
  BY JudgeFacts, OrderFields
<1>2. Len(Script[Phase]) \in Nat
  <2>1. Phase \in 1..5
    BY JudgeFacts
  <2>2. CASE Phase = 5
    BY <2>2, RushSteps
  <2>3. CASE Phase \in 1..4
    BY <2>3, Instructions
  <2> QED BY <2>1, <2>2, <2>3
<1>3. Step..Len(Script[Phase]) = {}
  BY <1>1, <1>2
<1> QED BY <1>3 DEF Ahead

(* While the script is never too early, it waits for every job, and a stock *)
(* it waited for stands.                                                    *)
LEMMA WaitedStep ==
    ASSUME OrderTypeOK, Newcomers, Waited, NextOrders
    PROVE  Waited'
<1>1. SUFFICES ASSUME Counting', ~rig'.late
               PROVE  /\ \A job \in svc'.jobs :
                            /\ job.user = Client' /\ Ahead(job.product)'
                            /\ job.units = 1 \/ (Phase' = 3 /\ svc'.defect = "quantity")
                            /\ Phase' \in {2, 3} =>
                                  /\ <<Client', job.product>> \notin svc'.orders
                                  /\ \A other \in svc'.jobs :
                                        other.product = job.product => other = job
                      /\ \A p \in Product : \/ Ahead(p)'
                                            \/ mem'.after[p] \in {Unknown, svc'.stock[p]}
  BY DEF Waited
<1>2. svc'.defect = svc.defect /\ ~rig.late /\ OrderTypeOK'
  BY <1>1, OrderTypeStep
<1>3. ASSUME Counting
      PROVE  /\ \A job \in svc.jobs :
                   /\ job.user = Client /\ Ahead(job.product)
                   /\ job.units = 1 \/ (Phase = 3 /\ svc.defect = "quantity")
                   /\ Phase \in {2, 3} =>
                         /\ <<Client, job.product>> \notin svc.orders
                         /\ \A other \in svc.jobs : other.product = job.product => other = job
             /\ \A p \in Product : Ahead(p) \/ mem.after[p] \in {Unknown, svc.stock[p]}
  BY <1>2, <1>3 DEF Waited
<1>4. \A job \in svc.jobs : job.product \in Product
  BY OrderFields DEF OrderJob
<1>5. CASE ReadStock \/ SleepDelay
  <2>1. PICK do : /\ At(do) /\ do # "settle" /\ UNCHANGED pc /\ Phase' = Phase /\ Step' = Step + 1
                  /\ mem'.after = mem.after
                  /\ svc' = svc \/ svc' = [svc EXCEPT !.locks = {}]
    BY <1>5, ReadFacts, SleepFacts
  <2>2. svc'.jobs = svc.jobs /\ svc'.orders = svc.orders /\ svc'.stock = svc.stock
    BY <2>1 DEF OrderTypeOK, OrderService
  <2>3. /\ Counting /\ Client' = Client
        /\ \A p \in Product : Ahead(p)' <=> Ahead(p)
    BY <1>1, <1>2, <2>1, OnwardInPhase
  <2> QED BY <1>2, <1>3, <1>4, <2>1, <2>2, <2>3
<1>6. CASE SendOrder
  <2>0. PICK u, r, q : u = Instr.user /\ r = Instr.product /\ q = Instr.units
    OBVIOUS
  <2>1. /\ At("order") /\ UNCHANGED pc /\ Phase' = Phase /\ Step' = Step + 1
        /\ r \in Product /\ u \in Names /\ q \in Nat \ {0} /\ mem'.after = mem.after
        /\ svc' = AfterOrder(u, r, q) \/ UNCHANGED svc
    BY <1>6, <2>0, SendFacts
  <2>2. /\ Counting /\ Client' = Client /\ Phase \in 1..4
        /\ \A p \in Product : Ahead(p)' <=> Ahead(p)
    BY <1>1, <1>2, <2>1, OnwardInPhase
  <2>3. CASE svc' = svc
    BY <1>2, <1>3, <1>4, <2>1, <2>2, <2>3
  <2>4. CASE svc' = AfterOrder(u, r, q)
    <3>1. svc'.stock = svc.stock /\ svc'.orders = svc.orders
      BY <2>1, <2>4, OrderMade
    <3>2. /\ u = Client /\ (q = 1 \/ Phase = 3)
          /\ Phase \in {2, 3} => ~Sent(r)
          /\ \E k \in (Step + 1)..Len(Script[Phase]) : Script[Phase][k] = Settle(r)
      BY <2>0, <2>1, <2>2, OrderOfPhase
    <3>3. Ahead(r)'
      <4>1. \E k \in Step'..Len(Script[Phase']) : Script[Phase'][k] = Settle(r)
        BY <2>1, <3>2
      <4> QED BY <4>1 DEF Ahead
    <3>4. Phase \in {2, 3} => /\ <<Client, r>> \notin svc.orders
                              /\ \A job \in svc.jobs : ~(job.user = Client /\ job.product = r)
      BY <2>1, <2>2, <3>2 DEF Newcomers
    <3>5. CASE svc'.jobs = svc.jobs
      BY <1>2, <1>3, <1>4, <2>1, <2>2, <3>1, <3>5
    <3>6. CASE \E job \in OrderJob :
                  /\ svc'.jobs = svc.jobs \cup {job} /\ job.user = u /\ job.product = r
                  /\ job.units = IF svc.defect = "quantity" THEN q ELSE 1
      <4>1. PICK new \in OrderJob :
                  /\ svc'.jobs = svc.jobs \cup {new} /\ new.user = u /\ new.product = r
                  /\ new.units = IF svc.defect = "quantity" THEN q ELSE 1
        BY <3>6
      <4>2. new.units = 1 \/ (Phase = 3 /\ svc.defect = "quantity")
        BY <3>2, <4>1
      <4>3. ASSUME Phase \in {2, 3}, NEW job \in svc.jobs PROVE job.product # r
        BY <1>3, <2>2, <3>4, <4>3
      <4>4. ASSUME NEW job \in svc'.jobs, Phase \in {2, 3}
            PROVE  /\ <<Client, job.product>> \notin svc.orders
                   /\ \A other \in svc'.jobs : other.product = job.product => other = job
        <5>1. CASE job = new
          BY <3>4, <4>1, <4>3, <4>4, <5>1
        <5>2. CASE job \in svc.jobs
          BY <1>3, <2>2, <4>1, <4>3, <4>4, <5>2
        <5> QED BY <4>1, <4>4, <5>1, <5>2
      <4>5. ASSUME NEW job \in svc'.jobs
            PROVE  /\ job.user = Client /\ Ahead(job.product)'
                   /\ job.units = 1 \/ (Phase = 3 /\ svc.defect = "quantity")
        <5>1. CASE job = new
          BY <3>2, <3>3, <4>1, <4>2, <5>1
        <5>2. CASE job \in svc.jobs
          BY <1>3, <1>4, <2>2, <5>2
        <5> QED BY <4>1, <4>5, <5>1, <5>2
      <4> QED BY <1>2, <1>3, <2>1, <2>2, <3>1, <4>4, <4>5
    <3> QED BY <2>1, <2>4, <3>5, <3>6, OrderMade
  <2> QED BY <2>1, <2>3, <2>4
<1>7. CASE SettleStock
  <2> DEFINE r == Instr.product
  <2>1. /\ At("settle") /\ r \in Product /\ Instr = Settle(r) /\ UNCHANGED <<pc, svc>>
        /\ Phase' = Phase /\ Step' = Step + 1 /\ ~Pending(r)
        /\ \/ mem'.after = [mem.after EXCEPT ![r] = svc.stock[r]]
           \/ mem'.after = [mem.after EXCEPT ![r] = Unknown]
    BY <1>1, <1>7, SettleFacts, LossFacts
  <2>2. Counting /\ Client' = Client
    BY <1>1, <1>2, <2>1, OnwardInPhase
  <2>3. ASSUME NEW p \in Product, Ahead(p), p # r PROVE Ahead(p)'
    <3>1. Settle(p) # Settle(r)
      BY <2>3, InstrFields
    <3> QED BY <2>1, <2>3, <3>1, Onward
  <2>4. ASSUME NEW job \in svc.jobs PROVE job.product # r
    BY <2>1 DEF Pending
  <2>5. ASSUME NEW p \in Product PROVE Ahead(p)' \/ mem'.after[p] \in {Unknown, svc.stock[p]}
    <3>1. mem.after \in [Product -> Int \cup {Unknown}]
      BY OrderFields
    <3>2. CASE p = r
      BY <2>1, <3>1, <3>2
    <3>3. CASE p # r
      <4>1. mem'.after[p] = mem.after[p]
        BY <2>1, <3>1, <3>3
      <4> QED BY <1>3, <2>2, <2>3, <3>3, <4>1
    <3> QED BY <3>2, <3>3
  <2> HIDE DEF r
  <2> QED BY <1>2, <1>3, <1>4, <2>1, <2>2, <2>3, <2>4, <2>5
<1>8. CASE Judge
  <2>1. /\ pc = "phases" /\ Phase \in 1..5 /\ UNCHANGED svc /\ Phase' = Phase + 1
        /\ mem'.after = [p \in Product |-> Unknown]
    BY <1>8, JudgeFacts
  <2>2. Counting
    BY <1>1, <2>1 DEF Counting
  <2>3. svc'.jobs = {}
    BY <1>3, <1>8, <2>1, <2>2, NothingAhead
  <2> QED BY <2>1, <2>3
<1>9. CASE Work
  <2>1. /\ Counting /\ Client' = Client /\ Phase' = Phase
        /\ \A p : Ahead(p)' = Ahead(p)
    BY <1>1, <1>9, WorkInPhase
  <2>2. PICK job \in svc.jobs :
           /\ svc'.jobs = svc.jobs \ {job}
           /\ svc'.orders \subseteq svc.orders \cup {<<job.user, job.product>>}
           /\ \A p \in Product : p # job.product => svc'.stock[p] = svc.stock[p]
    BY <1>9, WorkFacts
  <2>3. mem' = mem
    BY <1>9, WorkFacts
  <2>4. ASSUME NEW j \in svc'.jobs, Phase \in {2, 3} PROVE <<Client, j.product>> \notin svc'.orders
    <3>1. j \in svc.jobs /\ j # job
      BY <2>2
    <3>2. j.product # job.product
      BY <1>3, <2>1, <2>4, <3>1
    <3> QED BY <1>3, <2>1, <2>2, <2>4, <3>1, <3>2
  <2>5. ASSUME NEW p \in Product PROVE Ahead(p)' \/ mem'.after[p] \in {Unknown, svc'.stock[p]}
    BY <1>3, <2>1, <2>2, <2>3
  <2> QED BY <1>2, <1>3, <2>1, <2>2, <2>4, <2>5
<1> QED BY <1>5, <1>6, <1>7, <1>8, <1>9 DEF NextOrders, ScriptStep

(* The units gone since a stock was read are the orders of the phase.       *)
LEMMA CountedStep ==
    ASSUME OrderTypeOK, Newcomers, Waited, Counted, NextOrders
    PROVE  Counted'
<1>1. SUFFICES ASSUME Counting', ~rig'.late, NEW p \in Product, mem'.before[p] # Unknown
               PROVE  /\ mem'.before[p] - svc'.stock[p] >= Taken(p)'
                      /\ \/ mem'.before[p] - svc'.stock[p] = Taken(p)'
                         \/ Phase' \in {1, 4} /\ svc'.defect = "noUnique"
                         \/ Phase' = 3 /\ svc'.defect = "quantity"
  BY DEF Counted
<1>2. svc'.defect = svc.defect /\ ~rig.late
  BY <1>1, OrderTypeStep
<1>3. ASSUME Counting, mem.before[p] # Unknown
      PROVE  /\ mem.before[p] - svc.stock[p] >= Taken(p)
             /\ \/ mem.before[p] - svc.stock[p] = Taken(p)
                \/ Phase \in {1, 4} /\ svc.defect = "noUnique"
                \/ Phase = 3 /\ svc.defect = "quantity"
  BY <1>2, <1>3 DEF Counted
<1>4. /\ svc.stock[p] \in Int /\ mem.before \in [Product -> Int \cup {Unknown}]
      /\ Taken(p) \in {0, 1}
  BY OrderFields DEF Taken
<1>5. CASE /\ Counting /\ Client' = Client /\ Phase' = Phase
           /\ svc'.stock = svc.stock /\ svc'.orders = svc.orders /\ mem'.before[p] = mem.before[p]
  <2>1. Taken(p)' = Taken(p)
    BY <1>5 DEF Taken
  <2> QED BY <1>1, <1>2, <1>3, <1>5, <2>1
<1>6. CASE ReadStock
  <2>1. PICK r \in Product : r = Instr.product
    BY <1>6, ReadFacts
  <2>2. /\ At("read") /\ UNCHANGED <<pc, svc>> /\ Phase' = Phase /\ Step' = Step + 1
        /\ \/ mem'.before = [mem.before EXCEPT ![r] = svc.stock[r]]
           \/ mem'.before = [mem.before EXCEPT ![r] = Unknown]
    BY <1>6, <2>1, ReadFacts
  <2>3. Counting /\ Client' = Client
    BY <1>1, <1>2, <2>2, OnwardInPhase
  <2>4. CASE p = r
    <3>1. mem'.before[p] = svc.stock[p]
      BY <1>1, <1>4, <2>2, <2>4
    <3>2. ~Sent(r)
      BY <2>1, <2>2, <2>3, OrderOfPhase
    <3>3. <<Client, r>> \notin svc.orders
      BY <2>3, <3>2 DEF Newcomers
    <3>4. Taken(p)' = 0
      BY <2>2, <2>3, <2>4, <3>3 DEF Taken
    <3> QED BY <1>4, <2>2, <3>1, <3>4
  <2>5. CASE p # r
    <3>1. mem'.before[p] = mem.before[p]
      BY <1>4, <2>2, <2>5
    <3> QED BY <1>5, <2>2, <2>3, <3>1
  <2> QED BY <2>4, <2>5
<1>7. CASE SendOrder
  <2>1. /\ At("order") /\ UNCHANGED pc /\ Phase' = Phase /\ Step' = Step + 1
        /\ mem'.before = mem.before /\ svc'.stock = svc.stock /\ svc'.orders = svc.orders
    BY <1>7, SendFacts, OrderMade
  <2> QED BY <1>1, <1>2, <1>5, <2>1, OnwardInPhase
<1>8. CASE SettleStock
  <2>1. /\ At("settle") /\ UNCHANGED <<pc, svc>> /\ Phase' = Phase /\ Step' = Step + 1
        /\ mem'.before = mem.before
    BY <1>8, SettleFacts
  <2> QED BY <1>1, <1>2, <1>5, <2>1, OnwardInPhase
<1>9. CASE SleepDelay
  <2>1. /\ At("sleep") /\ UNCHANGED pc /\ Phase' = Phase /\ Step' = Step + 1
        /\ mem'.before = mem.before /\ svc' = [svc EXCEPT !.locks = {}]
    BY <1>9, SleepFacts
  <2>2. svc'.stock = svc.stock /\ svc'.orders = svc.orders
    BY <2>1 DEF OrderTypeOK, OrderService
  <2> QED BY <1>1, <1>2, <1>5, <2>1, <2>2, OnwardInPhase
<1>10. CASE Judge
  BY <1>1, <1>10, JudgeFacts
<1>11. CASE Work
  <2>1. Counting /\ Client' = Client /\ Phase' = Phase
    BY <1>1, <1>11, WorkInPhase
  <2>2. mem' = mem
    BY <1>11, WorkFacts
  <2>3. PICK job \in svc.jobs :
           LET key == <<job.user, job.product>>
               sells == /\ key \notin svc.orders \/ svc.defect = "noUnique"
                        /\ svc.stock[job.product] >= job.units \/ svc.defect = "noGuard"
           IN
           /\ svc'.orders = IF sells THEN svc.orders \cup {key} ELSE svc.orders
           /\ \A q \in Product : svc'.stock[q] =
                 IF sells /\ q = job.product THEN svc.stock[q] - job.units ELSE svc.stock[q]
    BY <1>11, WorkFacts
  <2>4. /\ job.user = Client /\ job.units \in Nat \ {0}
        /\ job.units = 1 \/ (Phase = 3 /\ svc.defect = "quantity")
        /\ Phase \in {2, 3} => <<Client, job.product>> \notin svc.orders
    BY <1>2, <2>1, OrderFields DEF Waited, OrderJob
  <2>5. Phase \in 1..4
    BY <2>1 DEF Counting, OrderTypeOK
  <2>6. CASE svc'.orders = svc.orders /\ svc'.stock[p] = svc.stock[p]
    <3>1. Taken(p)' = Taken(p)
      BY <2>1, <2>6 DEF Taken
    <3> QED BY <1>1, <1>2, <1>3, <2>1, <2>2, <2>6, <3>1
  <2>7. CASE /\ svc'.orders = svc.orders \cup {<<Client, job.product>>} /\ p # job.product
             /\ svc'.stock[p] = svc.stock[p]
    <3>1. Taken(p)' = Taken(p)
      BY <2>1, <2>7 DEF Taken
    <3> QED BY <1>1, <1>2, <1>3, <2>1, <2>2, <2>7, <3>1
  <2>8. CASE /\ svc'.orders = svc.orders \cup {<<Client, job.product>>} /\ p = job.product
             /\ <<Client, p>> \notin svc.orders \/ svc.defect = "noUnique"
             /\ svc'.stock[p] = svc.stock[p] - job.units
    <3>1. Taken(p)' = 1
      BY <2>1, <2>8 DEF Taken
    <3>2. Taken(p) = 0 \/ (Phase \in {1, 4} /\ svc.defect = "noUnique")
      BY <2>4, <2>5, <2>8 DEF Taken
    <3>3. mem.before[p] \in Int
      BY <1>1, <1>4, <2>2
    <3>4. mem'.before[p] - svc'.stock[p] = mem.before[p] - svc.stock[p] + job.units
      BY <1>4, <2>2, <2>4, <2>8, <3>3
    <3> QED BY <1>1, <1>2, <1>3, <1>4, <2>1, <2>2, <2>4, <3>1, <3>2, <3>3, <3>4
  <2> QED BY <2>3, <2>4, <2>6, <2>7, <2>8
<1> QED BY <1>6, <1>7, <1>8, <1>9, <1>10, <1>11 DEF NextOrders, ScriptStep

(* What the phases wait for, and where the steps of the second stand.       *)
LEMMA PhaseFacts ==
    ASSUME OrderTypeOK, pc = "phases"
    PROVE  /\ Phase = 1 => \A p : Ahead(p) => p = A
           /\ Phase = 2 => \A p : Ahead(p) => p \in {A, B}
           /\ Phase = 3 => \A p : Ahead(p) => p = B
           /\ Phase = 1 => ~At("sleep")
           /\ Phase = 2 => /\ ~At("sleep")
                           /\ At("order") \/ At("settle") => Step > 2
                           /\ At("read") => \/ Step = 1 /\ Instr.product = A
                                            \/ Step = 2 /\ Instr.product = B
           /\ Phase = 3 => ~At("sleep") /\ (At("order") => Step = 2 /\ \A p : ~Sent(p))
<1>1. Step \in Nat \ {0}
  BY DEF OrderTypeOK
<1>2. ASSUME Phase = 1, NEW p, Ahead(p) PROVE p = A
  <2>1. PICK n \in 1..4 : Script[1][n] = Settle(p)
    BY <1>1, <1>2, Instructions DEF Ahead
  <2>2. n = 4
    BY <2>1, Instructions, InstrFields
  <2> QED BY <2>1, <2>2, Instructions, InstrFields
<1>3. ASSUME Phase = 2, NEW p, Ahead(p) PROVE p \in {A, B}
  <2>1. PICK n \in 1..6 : Script[2][n] = Settle(p)
    BY <1>1, <1>3, Instructions DEF Ahead
  <2>2. n \in {5, 6}
    BY <2>1, Instructions, InstrFields
  <2> QED BY <2>1, <2>2, Instructions, InstrFields
<1>4. ASSUME Phase = 3, NEW p, Ahead(p) PROVE p = B
  <2>1. PICK n \in 1..3 : Script[3][n] = Settle(p)
    BY <1>1, <1>4, Instructions DEF Ahead
  <2>2. n = 3
    BY <2>1, Instructions, InstrFields
  <2> QED BY <2>1, <2>2, Instructions, InstrFields
<1>5. ASSUME Phase = 1 PROVE ~At("sleep")
  BY <1>5, BurstSteps
<1>6. ASSUME Phase = 2
      PROVE  /\ ~At("sleep") /\ (At("order") \/ At("settle") => Step > 2)
             /\ At("read") => \/ Step = 1 /\ Instr.product = A
                              \/ Step = 2 /\ Instr.product = B
  <2>1. ASSUME NEW do, At(do)
        PROVE  /\ do # "sleep" /\ (do # "read" => Step > 2)
               /\ do = "read" => \/ Step = 1 /\ Instr.product = A
                                 \/ Step = 2 /\ Instr.product = B
    <3>1. Step \in 1..6 /\ Instr = Script[2][Step] /\ Instr.do = do
      BY <1>6, <2>1, AtFacts, Instructions
    <3>2. CASE Step = 1
      BY <3>1, <3>2, Instructions, InstrFields
    <3>3. CASE Step = 2
      BY <3>1, <3>3, Instructions, InstrFields
    <3>4. CASE Step \in {3, 4}
      BY <3>1, <3>4, Instructions, InstrFields
    <3>5. CASE Step \in {5, 6}
      BY <3>1, <3>5, Instructions, InstrFields
    <3> QED BY <3>1, <3>2, <3>3, <3>4, <3>5
  <2> QED BY <2>1
<1>7. ASSUME Phase = 3, NEW do, At(do)
      PROVE  do # "sleep" /\ (do = "order" => Step = 2 /\ \A p : ~Sent(p))
  <2>1. Step \in 1..3 /\ Instr = Script[3][Step] /\ Instr.do = do
    BY <1>7, AtFacts, Instructions
  <2>2. CASE Step = 1
    BY <2>1, <2>2, Instructions, InstrFields
  <2>3. CASE Step = 2
    <3>1. \A n \in 1..(Step - 1) : Script[Phase][n].do = "read"
      <4>1. Script[3][1].do = "read"
        BY Instructions, InstrFields
      <4> QED BY <1>7, <2>3, <4>1
    <3>2. do = "order"
      BY <2>1, <2>3, Instructions, InstrFields
    <3> QED BY <2>3, <3>1, <3>2 DEF Sent
  <2>4. CASE Step = 3
    BY <2>1, <2>4, Instructions, InstrFields
  <2> QED BY <2>1, <2>2, <2>3, <2>4
<1> QED BY <1>2, <1>3, <1>4, <1>5, <1>6, <1>7

(* The jobs and units a phase that counts units has at most at each step.   *)
LEMMA StockedStep ==
    ASSUME OrderTypeOK, BurstIds, Waited, Stocked, NextOrders
    PROVE  Stocked'
<1>1. SUFFICES ASSUME Counting', ~rig'.late
               PROVE  /\ Phase' = 1 =>
                            /\ svc'.stock[A] >= 3 - Len(mem'.ids) + Cardinality(svc'.jobs)
                            /\ svc'.stock[A] >= 3 \/ Taken(A)' = 1
                            /\ svc'.stock[B] >= 3
                      /\ Phase' = 2 => /\ svc'.stock[A] >= 1 - Taken(A)'
                                       /\ svc'.stock[B] >= 3 - Taken(B)'
                      /\ Phase' = 3 => svc'.stock[B] >= 1 \/ Taken(B)' = 1
  BY DEF Stocked
<1>2. svc'.defect = svc.defect /\ ~rig.late /\ OrderTypeOK'
  BY <1>1, OrderTypeStep
<1>3. ASSUME Counting
      PROVE  /\ Phase = 1 => /\ svc.stock[A] >= 3 - Len(mem.ids) + Cardinality(svc.jobs)
                             /\ svc.stock[A] >= 3 \/ Taken(A) = 1
                             /\ svc.stock[B] >= 3
             /\ Phase = 2 => svc.stock[A] >= 1 - Taken(A) /\ svc.stock[B] >= 3 - Taken(B)
             /\ Phase = 3 => svc.stock[B] >= 1 \/ Taken(B) = 1
  BY <1>2, <1>3 DEF Stocked
<1>4. /\ svc.stock[A] \in Int /\ svc.stock[B] \in Int
      /\ Len(mem.ids) \in Nat /\ IsFiniteSet(svc.jobs) /\ Cardinality(svc.jobs) \in Nat
      /\ \A p : Taken(p) \in {0, 1} /\ Taken(p)' \in {0, 1}
  <2>1. \A p : Taken(p) \in {0, 1} /\ Taken(p)' \in {0, 1}
    BY DEF Taken
  <2> QED BY <2>1, OrderFields, Products, FS_CardinalityType
<1>5. CASE /\ Counting /\ Client' = Client /\ Phase' = Phase
           /\ svc'.stock = svc.stock /\ svc'.orders = svc.orders
           /\ Phase = 1 => Len(mem'.ids) - Cardinality(svc'.jobs)
                             >= Len(mem.ids) - Cardinality(svc.jobs)
           /\ Len(mem'.ids) \in Nat /\ Cardinality(svc'.jobs) \in Nat
  <2>1. \A p : Taken(p)' = Taken(p)
    BY <1>5 DEF Taken
  <2>2. svc'.stock[A] = svc.stock[A] /\ svc'.stock[B] = svc.stock[B]
    BY <1>5
  <2>3. Phase = 1 => svc.stock[A] >= 3 - Len(mem'.ids) + Cardinality(svc'.jobs)
    <3>1. PICK s \in Int, l \in Nat, c \in Nat, m \in Nat, d \in Nat :
             /\ s = svc.stock[A] /\ l = Len(mem.ids) /\ c = Cardinality(svc.jobs)
             /\ m = Len(mem'.ids) /\ d = Cardinality(svc'.jobs)
      BY <1>4, <1>5
    <3>2. Phase = 1 => m - d >= l - c
      BY <1>5, <3>1
    <3>3. Phase = 1 => s >= 3 - l + c
      BY <1>3, <1>5, <3>1
    <3> QED BY <3>1, <3>2, <3>3
  <2> QED BY <1>3, <1>5, <2>1, <2>2, <2>3
<1>6. Len(mem'.ids) \in Nat /\ Cardinality(svc'.jobs) \in Nat
  <2>1. mem'.ids \in Seq(Ids \cup {Unknown}) /\ IsFiniteSet(svc'.jobs)
    <3>1. (OrderTypeOK => mem.ids \in Seq(Ids \cup {Unknown}) /\ IsFiniteSet(svc.jobs))'
      <4>1. OrderTypeOK => mem.ids \in Seq(Ids \cup {Unknown}) /\ IsFiniteSet(svc.jobs)
        BY DEF OrderTypeOK, OrderMemory
      <4> QED BY DEF OrderTypeOK, OrderMemory
    <3> QED BY <1>2, <3>1
  <2> QED BY <2>1, FS_CardinalityType
<1>7. CASE ReadStock
  <2>1. /\ At("read") /\ UNCHANGED <<pc, svc>> /\ Phase' = Phase /\ Step' = Step + 1
        /\ mem'.ids = <<>>
    BY <1>7, ReadFacts
  <2>2. Counting /\ Client' = Client
    BY <1>1, <1>2, <2>1, OnwardInPhase
  <2>3. Phase = 1 => Len(mem.ids) = 0
    BY <2>1, <2>2, BurstSteps DEF BurstIds
  <2> QED BY <1>4, <1>5, <1>6, <2>1, <2>2, <2>3
<1>8. CASE SendOrder
  <2>1. /\ At("order") /\ UNCHANGED pc /\ Phase' = Phase /\ Step' = Step + 1
        /\ svc'.stock = svc.stock /\ svc'.orders = svc.orders
    BY <1>8, SendFacts, OrderMade
  <2>2. svc'.jobs = svc.jobs \/ \E job : svc'.jobs = svc.jobs \cup {job}
    <3>1. PICK u \in Names, r \in Product, q \in Nat \ {0} : svc' = AfterOrder(u, r, q) \/ svc' = svc
      BY <1>8, SendFacts
    <3>2. CASE svc' = AfterOrder(u, r, q)
      BY <3>2, OrderMade
    <3> QED BY <3>1, <3>2
  <2>3. Cardinality(svc'.jobs) <= Cardinality(svc.jobs) + 1
    <3>1. ASSUME NEW job PROVE Cardinality(svc.jobs \cup {job}) <= Cardinality(svc.jobs) + 1
      <4>1. Cardinality(svc.jobs \cup {job}) \in {Cardinality(svc.jobs), Cardinality(svc.jobs) + 1}
        BY <1>4, FS_AddElement
      <4> QED BY <1>4, <4>1
    <3>2. CASE svc'.jobs = svc.jobs
      <4>1. Cardinality(svc'.jobs) = Cardinality(svc.jobs)
        BY <3>2
      <4> QED BY <1>4, <4>1
    <3>3. CASE \E job : svc'.jobs = svc.jobs \cup {job}
      <4>1. PICK job : svc'.jobs = svc.jobs \cup {job}
        BY <3>3
      <4> QED BY <3>1, <4>1
    <3> QED BY <2>2, <3>2, <3>3
  <2>4. PICK id : mem'.ids = Append(mem.ids, id)
    BY <1>8, SendFacts
  <2>5. Len(mem'.ids) = Len(mem.ids) + 1
    BY <2>4, OrderFields
  <2> QED BY <1>1, <1>2, <1>4, <1>5, <1>6, <2>1, <2>3, <2>5, OnwardInPhase
<1>9. CASE SettleStock
  <2>1. /\ At("settle") /\ UNCHANGED <<pc, svc>> /\ Phase' = Phase /\ Step' = Step + 1
        /\ mem'.ids = mem.ids
    BY <1>9, SettleFacts
  <2> QED BY <1>1, <1>2, <1>4, <1>5, <2>1, OnwardInPhase
<1>10. CASE SleepDelay
  <2>1. /\ At("sleep") /\ UNCHANGED pc /\ Phase' = Phase /\ Step' = Step + 1
        /\ mem'.ids = mem.ids /\ svc' = [svc EXCEPT !.locks = {}]
    BY <1>10, SleepFacts
  <2>2. svc'.stock = svc.stock /\ svc'.orders = svc.orders /\ svc'.jobs = svc.jobs
    BY <2>1 DEF OrderTypeOK, OrderService
  <2> QED BY <1>1, <1>2, <1>4, <1>5, <2>1, <2>2, OnwardInPhase
<1>11. CASE Judge
  <2>1. /\ pc = "phases" /\ Phase \in 1..5 /\ UNCHANGED svc /\ Phase' = Phase + 1
        /\ Step = Len(Script[Phase]) + 1
    BY <1>11, JudgeFacts
  <2>2. Counting
    BY <1>1, <2>1 DEF Counting
  <2>3. CASE Phase = 1
    <3>1. Len(mem.ids) = 2
      BY <2>1, <2>2, <2>3, Instructions DEF BurstIds
    <3> QED BY <1>3, <1>4, <2>1, <2>2, <2>3, <3>1
  <2>4. CASE Phase = 2
    BY <1>3, <1>4, <2>1, <2>2, <2>4
  <2>5. CASE Phase \in {3, 4, 5}
    BY <2>1, <2>5
  <2> QED BY <2>1, <2>3, <2>4, <2>5
<1>12. CASE Work
  <2>1. Counting /\ Client' = Client /\ Phase' = Phase
    BY <1>1, <1>12, WorkInPhase
  <2>2. mem' = mem /\ pc = "phases"
    BY <1>12, WorkFacts
  <2>3. PICK job \in svc.jobs :
           LET key == <<job.user, job.product>>
               sells == /\ key \notin svc.orders \/ svc.defect = "noUnique"
                        /\ svc.stock[job.product] >= job.units \/ svc.defect = "noGuard"
           IN
           /\ svc'.jobs = svc.jobs \ {job}
           /\ svc'.orders = IF sells THEN svc.orders \cup {key} ELSE svc.orders
           /\ \A q \in Product : svc'.stock[q] =
                 IF sells /\ q = job.product THEN svc.stock[q] - job.units ELSE svc.stock[q]
    BY <1>12, WorkFacts
  <2>4. /\ job.user = Client /\ Ahead(job.product)
        /\ job.units = 1 \/ (Phase = 3 /\ svc.defect = "quantity")
        /\ Phase \in {2, 3} => <<Client, job.product>> \notin svc.orders
    BY <1>2, <2>1 DEF Waited
  <2>5. Cardinality(svc'.jobs) = Cardinality(svc.jobs) - 1
    BY <1>4, <2>3, FS_RemoveElement
  <2>6. CASE svc'.orders = svc.orders /\ \A q \in Product : svc'.stock[q] = svc.stock[q]
    <3>1. \A p : Taken(p)' = Taken(p)
      BY <2>1, <2>6 DEF Taken
    <3>2. svc'.stock[A] = svc.stock[A] /\ svc'.stock[B] = svc.stock[B]
      BY <2>6, Products
    <3> QED BY <1>3, <1>4, <2>1, <2>2, <2>5, <3>1, <3>2
  <2>7. CASE /\ svc'.orders = svc.orders \cup {<<Client, job.product>>}
             /\ \A q \in Product : svc'.stock[q] =
                   IF q = job.product THEN svc.stock[q] - job.units ELSE svc.stock[q]
    <3>1. /\ Taken(job.product)' = 1
          /\ \A p : p # job.product => Taken(p)' = Taken(p)
      BY <2>1, <2>7 DEF Taken
    <3>2. Phase \in {2, 3} => Taken(job.product) = 0
      BY <2>4 DEF Taken
    <3>3. CASE Phase = 1
      <4>1. job.product = A /\ job.units = 1
        BY <2>2, <2>4, <3>3, PhaseFacts
      <4>2. svc'.stock[A] = svc.stock[A] - 1 /\ svc'.stock[B] = svc.stock[B]
        BY <2>7, <4>1, Products
      <4> QED BY <1>3, <1>4, <2>1, <2>2, <2>5, <3>1, <3>3, <4>1, <4>2
    <3>4. CASE Phase = 2
      <4>1. job.product \in {A, B} /\ job.units = 1
        BY <2>2, <2>4, <3>4, PhaseFacts
      <4>2. CASE job.product = A
        <5>1. svc'.stock[A] = svc.stock[A] - 1 /\ svc'.stock[B] = svc.stock[B]
          BY <2>7, <4>1, <4>2, Products
        <5>2. Taken(A) = 0 /\ Taken(A)' = 1 /\ Taken(B)' = Taken(B)
          BY <3>1, <3>2, <3>4, <4>2, Products
        <5> QED BY <1>3, <1>4, <2>1, <3>4, <5>1, <5>2
      <4>3. CASE job.product = B
        <5>1. svc'.stock[B] = svc.stock[B] - 1 /\ svc'.stock[A] = svc.stock[A]
          BY <2>7, <4>1, <4>3, Products
        <5>2. Taken(B) = 0 /\ Taken(B)' = 1 /\ Taken(A)' = Taken(A)
          BY <3>1, <3>2, <3>4, <4>3, Products
        <5> QED BY <1>3, <1>4, <2>1, <3>4, <5>1, <5>2
      <4> QED BY <4>1, <4>2, <4>3
    <3>5. CASE Phase = 3
      <4>1. job.product = B
        BY <2>2, <2>4, <3>5, PhaseFacts
      <4> QED BY <2>1, <3>1, <3>5, <4>1
    <3>6. CASE Phase = 4
      BY <2>1, <3>6
    <3>7. Phase \in 1..4
      BY <2>1 DEF Counting, OrderTypeOK
    <3> QED BY <3>3, <3>4, <3>5, <3>6, <3>7
  <2> QED BY <2>3, <2>4, <2>6, <2>7
<1> QED BY <1>7, <1>8, <1>9, <1>10, <1>11, <1>12 DEF NextOrders, ScriptStep

(* An order that was taken is in the queue or recorded.                     *)
LEMMA NoneForgottenStep ==
    ASSUME OrderTypeOK, Newcomers, BurstIds, Waited, Stocked, NoneForgotten, NextOrders
    PROVE  NoneForgotten'
<1>1. SUFFICES ASSUME Counting', ~rig'.late, svc'.defect # "loses"
               PROVE  /\ Phase' = 1 /\ Answered' => svc'.jobs # {} \/ Taken(A)' = 1
                      /\ Phase' = 2 /\ rig'.lost = 0 /\ svc'.defect # "userLock" =>
                            \A p \in {A, B} :
                               Sent(p)' => \/ Taken(p)' = 1
                                           \/ \E job \in svc'.jobs : job.product = p
                      /\ Phase' = 3 /\ mem'.status = 202 /\ svc'.defect # "quantity" =>
                            svc'.jobs # {} \/ Taken(B)' = 1
  BY DEF NoneForgotten
<1>2. /\ svc'.defect = svc.defect /\ svc.defect # "loses" /\ ~rig.late
      /\ rig'.lost = 0 => rig.lost = 0
  <2>1. svc'.defect = svc.defect /\ ~rig.late /\ rig'.lost >= rig.lost
    BY <1>1, OrderTypeStep
  <2> QED BY <1>1, <2>1, OrderFields
<1>3. ASSUME Counting
      PROVE  /\ Phase = 1 /\ Answered => svc.jobs # {} \/ Taken(A) = 1
             /\ Phase = 2 /\ rig.lost = 0 /\ svc.defect # "userLock" =>
                   \A p \in {A, B} :
                      Sent(p) => Taken(p) = 1 \/ \E job \in svc.jobs : job.product = p
             /\ Phase = 3 /\ mem.status = 202 /\ svc.defect # "quantity" =>
                   svc.jobs # {} \/ Taken(B) = 1
  BY <1>2, <1>3 DEF NoneForgotten
<1>4. CASE /\ Counting /\ Client' = Client /\ Phase' = Phase
           /\ svc'.jobs = svc.jobs /\ svc'.orders = svc.orders
           /\ Answered' => Answered
           /\ \A p \in {A, B} : Sent(p)' => Sent(p)
           /\ mem'.status = 202 => mem.status = 202
  <2>1. \A p : Taken(p)' = Taken(p)
    BY <1>4 DEF Taken
  <2> QED BY <1>2, <1>3, <1>4, <2>1
<1>5. ASSUME NEW do, At(do), do # "order", Phase' = Phase, Step' = Step + 1
      PROVE  \A p \in {A, B} : Sent(p)' => Sent(p)
  BY <1>5, Onward
<1>6. CASE ReadStock
  <2>1. /\ At("read") /\ UNCHANGED <<pc, svc>> /\ Phase' = Phase /\ Step' = Step + 1
        /\ mem'.ids = <<>> /\ mem'.status = mem.status
    BY <1>6, ReadFacts
  <2>2. ~Answered'
    BY <2>1 DEF Answered
  <2> QED BY <1>1, <1>2, <1>4, <1>5, <2>1, <2>2, OnwardInPhase
<1>7. CASE SettleStock \/ SleepDelay
  <2>1. PICK do : /\ At(do) /\ do # "order" /\ UNCHANGED pc /\ Phase' = Phase /\ Step' = Step + 1
                  /\ mem'.ids = mem.ids /\ mem'.status = mem.status
                  /\ svc' = svc \/ svc' = [svc EXCEPT !.locks = {}]
    BY <1>7, SettleFacts, SleepFacts
  <2>2. svc'.jobs = svc.jobs /\ svc'.orders = svc.orders
    BY <2>1 DEF OrderTypeOK, OrderService
  <2>3. Answered' = Answered
    BY <2>1 DEF Answered
  <2> QED BY <1>1, <1>2, <1>4, <1>5, <2>1, <2>2, <2>3, OnwardInPhase
<1>8. CASE SendOrder
  <2>0. PICK u \in Names, r \in Product, q \in Nat \ {0} :
           u = Instr.user /\ r = Instr.product /\ q = Instr.units
    BY <1>8, SendFacts
  <2>1. /\ At("order") /\ UNCHANGED pc /\ Phase' = Phase /\ Step' = Step + 1
        /\ svc'.orders = svc.orders
        /\ svc' = AfterOrder(u, r, q) \/ UNCHANGED svc
    BY <1>8, <2>0, SendFacts, OrderMade
  <2>2. Counting /\ Client' = Client /\ Phase \in 1..4 /\ pc = "phases"
    BY <1>1, <1>2, <2>1, OnwardInPhase, AtFacts
  <2>3. /\ u = Client /\ r \in {A, B} /\ (q = 1 \/ Phase = 3)
        /\ Phase \in {2, 3} => ~Sent(r)
    BY <2>0, <2>1, <2>2, OrderOfPhase
  <2>4. \A p : Taken(p)' = Taken(p)
    BY <2>1, <2>2 DEF Taken
  <2>5. svc.jobs \subseteq svc'.jobs
    BY <2>1, OrderMade
  <2>6. ASSUME svc' = AfterOrder(u, r, q), StatusOf(u, r, q) = 202, ~Locked(u, r)
        PROVE  \E job \in svc'.jobs : job.product = r
    <3>1. \E job \in OrderJob : svc'.jobs = svc.jobs \cup {job} /\ job.product = r
      BY <1>2, <2>6, OrderMade
    <3> QED BY <3>1
  <2>7. \/ /\ svc' = AfterOrder(u, r, q) /\ mem'.status = StatusOf(u, r, q)
           /\ mem'.ids = Append(mem.ids, IF StatusOf(u, r, q) = 202 THEN JobId(u, r) ELSE Unknown)
        \/ LoseOne /\ mem'.status = 0 /\ mem'.ids = Append(mem.ids, Unknown)
    BY <1>8, <2>0, SendFacts
  <2>8. mem.ids \in Seq(Ids \cup {Unknown})
    BY OrderFields
  <2>9. ASSUME Phase = 1, Answered' PROVE svc'.jobs # {} \/ Taken(A)' = 1
    <3>1. CASE Answered
      BY <1>3, <2>2, <2>4, <2>5, <2>9, <3>1
    <3>2. CASE ~Answered
      <4>1. u = "burst" /\ r = A
        BY <2>0, <2>1, <2>9, BurstSteps, InstrFields
      <4>2. <<"burst", A>> \notin svc.locks
        BY <2>2, <2>9, <3>2 DEF BurstIds
      <4>3. ~Locked(u, r)
        BY <4>1, <4>2, LockKeys
      <4>4. svc' = AfterOrder(u, r, q) /\ StatusOf(u, r, q) = 202
        <5>1. mem'.ids # Append(mem.ids, Unknown)
          <6>1. ASSUME mem'.ids = Append(mem.ids, Unknown) PROVE ~Answered'
            <7>1. /\ DOMAIN mem'.ids = 1..(Len(mem.ids) + 1) /\ Len(mem.ids) \in Nat
                  /\ DOMAIN mem.ids = 1..Len(mem.ids)
                  /\ mem'.ids[Len(mem.ids) + 1] = Unknown
                  /\ \A n \in 1..Len(mem.ids) : mem'.ids[n] = mem.ids[n]
              BY <2>8, <6>1
            <7>2. \A n \in 1..Len(mem.ids) : mem.ids[n] = Unknown
              BY <3>2, <7>1 DEF Answered
            <7>3. \A n \in DOMAIN mem'.ids : mem'.ids[n] = Unknown
              BY <7>1, <7>2
            <7> QED BY <7>3 DEF Answered
          <6> QED BY <2>9, <6>1
        <5> QED BY <2>7, <5>1
      <4> QED BY <2>6, <4>3, <4>4
    <3> QED BY <3>1, <3>2
  <2>10. ASSUME Phase = 2, rig'.lost = 0, svc.defect # "userLock", NEW p \in {A, B}, Sent(p)'
         PROVE  Taken(p)' = 1 \/ \E job \in svc'.jobs : job.product = p
    <3>1. CASE Sent(p)
      BY <1>2, <1>3, <2>2, <2>4, <2>5, <2>10, <3>1
    <3>2. CASE p = r
      <4>1. svc' = AfterOrder(u, r, q)
        BY <2>7, <2>10, LossFacts, OrderFields
      <4>2. <<Client, r>> \notin svc.locks
        BY <2>2, <2>3, <2>10 DEF Newcomers
      <4>3. ~Locked(u, r)
        BY <2>3, <2>10, <4>2, LockKeys
      <4>4. StatusOf(u, r, q) = 202
        BY <2>3, <2>10, <4>3 DEF StatusOf
      <4> QED BY <2>6, <3>2, <4>1, <4>3, <4>4
    <3> QED BY <2>0, <2>1, <2>10, <3>1, <3>2, Onward
  <2>11. ASSUME Phase = 3, mem'.status = 202 PROVE svc'.jobs # {}
    <3>1. svc' = AfterOrder(u, r, q) /\ StatusOf(u, r, q) = 202
      BY <2>7, <2>11
    <3>2. \A p \in Product : <<Client, p>> \notin svc.locks
      BY <2>1, <2>2, <2>11, PhaseFacts, ClientNames DEF Newcomers, Client
    <3>3. lockKey(u, r) \notin svc.locks
      BY <2>3, <3>2, Products DEF lockKey
    <3> QED BY <2>6, <3>1, <3>3 DEF Locked
  <2> QED BY <1>2, <2>1, <2>9, <2>10, <2>11
<1>9. CASE Judge
  <2>1. Phase \in 1..5 /\ Phase' = Phase + 1 /\ Step' = 1 /\ mem'.status = 0
    BY <1>9, JudgeFacts
  <2>2. \A p : ~Sent(p)'
    BY <2>1 DEF Sent
  <2> QED BY <2>1, <2>2
<1>10. CASE Work
  <2>1. /\ Counting /\ Client' = Client /\ Phase' = Phase
        /\ \A p : Sent(p)' = Sent(p)
    BY <1>1, <1>10, WorkInPhase
  <2>2. mem' = mem /\ pc = "phases" /\ rig'.lost = rig.lost
    BY <1>10, WorkFacts
  <2>3. PICK job \in svc.jobs :
           LET key == <<job.user, job.product>>
               sells == /\ key \notin svc.orders \/ svc.defect = "noUnique"
                        /\ svc.stock[job.product] >= job.units \/ svc.defect = "noGuard"
           IN
           /\ svc'.jobs = svc.jobs \ {job}
           /\ svc'.orders = IF sells THEN svc.orders \cup {key} ELSE svc.orders
    BY <1>10, WorkFacts
  <2>4. /\ job.user = Client /\ Ahead(job.product)
        /\ job.units = 1 \/ (Phase = 3 /\ svc.defect = "quantity")
        /\ Phase \in {2, 3} => <<Client, job.product>> \notin svc.orders
    BY <1>2, <2>1 DEF Waited
  <2>5. \A p : Taken(p) = 1 => Taken(p)' = 1
    BY <2>1, <2>3 DEF Taken
  <2>6. svc.stock[job.product] >= job.units => Taken(job.product)' = 1
    BY <2>1, <2>3, <2>4 DEF Taken
  <2>7. svc.stock[A] \in Int /\ svc.stock[B] \in Int /\ \A p : Taken(p) \in {0, 1}
    BY OrderFields, Products DEF Taken
  <2>8. ASSUME Phase = 1 PROVE Taken(A)' = 1
    <3>1. job.product = A /\ job.units = 1
      BY <2>2, <2>4, <2>8, PhaseFacts
    <3>2. PICK l \in Nat, c \in Nat : l = Len(mem.ids) /\ c = Cardinality(svc.jobs) /\ c >= 1
      <4>1. Len(mem.ids) \in Nat /\ Cardinality(svc.jobs) \in Nat
        BY OrderFields, FS_CardinalityType
      <4>2. Cardinality(svc.jobs) # 0
        BY OrderFields, FS_EmptySet
      <4> QED BY <4>1, <4>2
    <3>3. l <= 2
      BY <2>1, <2>8, <3>2 DEF BurstIds
    <3>4. svc.stock[A] >= 3 - l + c
      BY <1>2, <2>1, <2>8, <3>2 DEF Stocked
    <3> QED BY <2>6, <2>7, <3>1, <3>2, <3>3, <3>4
  <2>9. ASSUME Phase = 2, rig'.lost = 0, svc.defect # "userLock", NEW p \in {A, B}, Sent(p)
        PROVE  Taken(p)' = 1 \/ \E j \in svc'.jobs : j.product = p
    <3>1. CASE p = job.product
      <4>1. job.units = 1 /\ Taken(p) = 0
        BY <2>4, <2>9, <3>1 DEF Taken
      <4>2. svc.stock[A] >= 1 - Taken(A) /\ svc.stock[B] >= 3 - Taken(B)
        BY <1>2, <2>1, <2>9 DEF Stocked
      <4>3. svc.stock[p] >= 1
        BY <2>7, <2>9, <4>1, <4>2
      <4> QED BY <2>6, <3>1, <4>1, <4>3
    <3>2. CASE p # job.product
      BY <1>2, <1>3, <2>1, <2>3, <2>5, <2>9, <3>2
    <3> QED BY <3>1, <3>2
  <2>10. ASSUME Phase = 3, svc.defect # "quantity" PROVE Taken(B)' = 1
    <3>1. job.product = B /\ job.units = 1
      BY <2>2, <2>4, <2>10, PhaseFacts
    <3>2. Taken(B) = 0
      BY <2>4, <2>10, <3>1 DEF Taken
    <3>3. svc.stock[B] >= 1
      BY <1>2, <2>1, <2>10, <3>2 DEF Stocked
    <3> QED BY <2>6, <3>1, <3>3
  <2> QED BY <1>2, <2>1, <2>8, <2>9, <2>10
<1> QED BY <1>6, <1>7, <1>8, <1>9, <1>10 DEF NextOrders, ScriptStep

(* Without a loss the script has read what it compares in phase B.          *)
LEMMA BothReadStep ==
    ASSUME OrderTypeOK, BothRead, NextOrders
    PROVE  BothRead'
<1>1. SUFFICES ASSUME Counting', Phase' = 2, rig'.lost = 0
               PROVE  /\ Step' > 1 => mem'.before[A] # Unknown
                      /\ Step' > 2 => mem'.before[B] # Unknown
                      /\ \A p \in {A, B} : Ahead(p)' \/ mem'.after[p] # Unknown
  BY DEF BothRead
<1>2. rig.lost = 0 /\ Step \in Nat /\ svc.stock \in [Product -> Int] /\ Unknown \notin Int
      /\ mem.before \in [Product -> Int \cup {Unknown}]
      /\ mem.after \in [Product -> Int \cup {Unknown}]
  <2>1. rig'.lost >= rig.lost
    BY OrderTypeStep
  <2> QED BY <1>1, <2>1, OrderFields
<1>3. ASSUME pc = "phases", Phase = 2
      PROVE  /\ Step > 1 => mem.before[A] # Unknown
             /\ Step > 2 => mem.before[B] # Unknown
             /\ \A p \in {A, B} : Ahead(p) \/ mem.after[p] # Unknown
  BY <1>2, <1>3 DEF BothRead, Counting
<1>4. ASSUME NEW do, At(do), do # "settle", Phase' = Phase, Step' = Step + 1
      PROVE  \A p : Ahead(p) => Ahead(p)'
  <2>1. \A p : Instr # Settle(p)
    BY <1>4, AtFacts, InstrFields
  <2> QED BY <1>4, <2>1, Onward
<1>5. CASE ReadStock
  <2>1. PICK r \in Product : r = Instr.product
    BY <1>5, ReadFacts
  <2>2. /\ At("read") /\ Phase = 2 /\ Phase' = Phase /\ Step' = Step + 1 /\ pc = "phases"
        /\ mem'.after = mem.after
    BY <1>1, <1>5, ReadFacts, AtFacts
  <2>3. mem'.before = [mem.before EXCEPT ![r] = svc.stock[r]]
    BY <1>1, <1>2, <1>5, <2>1, ReadFacts, LossFacts
  <2>4. (Step = 1 /\ r = A) \/ (Step = 2 /\ r = B)
    BY <2>1, <2>2, PhaseFacts
  <2>5. mem'.before[r] # Unknown /\ \A p \in Product : p # r => mem'.before[p] = mem.before[p]
    BY <1>2, <2>3
  <2>6. /\ Step' > 1 => mem'.before[A] # Unknown
        /\ Step' > 2 => mem'.before[B] # Unknown
    BY <1>2, <1>3, <2>2, <2>4, <2>5, Products
  <2> QED BY <1>3, <1>4, <2>2, <2>6
<1>6. CASE SendOrder
  <2>1. /\ At("order") /\ Phase = 2 /\ Phase' = Phase /\ Step' = Step + 1 /\ pc = "phases"
        /\ mem'.after = mem.after /\ mem'.before = mem.before
    BY <1>1, <1>6, SendFacts, AtFacts
  <2>2. Step > 2
    BY <2>1, PhaseFacts
  <2> QED BY <1>2, <1>3, <1>4, <2>1, <2>2
<1>7. CASE SettleStock
  <2>1. PICK r \in Product : r = Instr.product
    BY <1>7, SettleFacts
  <2>2. /\ At("settle") /\ Phase = 2 /\ Phase' = Phase /\ Step' = Step + 1 /\ pc = "phases"
        /\ mem'.before = mem.before /\ Instr = Settle(r)
    BY <1>1, <1>7, <2>1, SettleFacts, AtFacts
  <2>3. mem'.after = [mem.after EXCEPT ![r] = svc.stock[r]]
    BY <1>1, <1>2, <1>7, <2>1, SettleFacts, LossFacts
  <2>4. Step > 2
    BY <2>2, PhaseFacts
  <2>5. ASSUME NEW p \in {A, B} PROVE Ahead(p)' \/ mem'.after[p] # Unknown
    <3>1. CASE p = r
      BY <1>2, <2>3, <3>1
    <3>2. CASE p # r
      <4>1. Settle(p) # Settle(r)
        BY <3>2, InstrFields
      <4>2. mem'.after[p] = mem.after[p]
        BY <1>2, <2>3, <3>2, Products
      <4> QED BY <1>3, <2>2, <2>5, <4>1, <4>2, Onward
    <3> QED BY <3>1, <3>2
  <2> QED BY <1>2, <1>3, <2>2, <2>4, <2>5
<1>8. CASE SleepDelay
  BY <1>1, <1>8, SleepFacts, PhaseFacts, AtFacts
<1>9. CASE Judge
  <2>1. Phase' = 2 /\ Step' = 1
    BY <1>1, <1>9, JudgeFacts
  <2>2. \A p \in {A, B} : Ahead(p)'
    <3>1. /\ 5 \in 1..Len(Script[2]) /\ 6 \in 1..Len(Script[2])
          /\ Script[2][5] = Settle(A) /\ Script[2][6] = Settle(B)
      BY Instructions
    <3>2. \A p \in {A, B} : \E n \in Step'..Len(Script[Phase']) : Script[Phase'][n] = Settle(p)
      BY <2>1, <3>1
    <3> QED BY <3>2 DEF Ahead
  <2> QED BY <2>1, <2>2
<1>10. CASE Work
  <2>1. Phase' = Phase /\ Step' = Step /\ \A p : Ahead(p)' = Ahead(p)
    BY <1>10, WorkInPhase
  <2>2. mem' = mem /\ pc = "phases"
    BY <1>10, WorkFacts
  <2> QED BY <1>1, <1>3, <2>1, <2>2
<1> QED BY <1>5, <1>6, <1>7, <1>8, <1>9, <1>10 DEF NextOrders, ScriptStep

\* --------------------------------------------------------------- the verdicts

(* What each flag accuses the service of.                                   *)
LEMMA Rules ==
    /\ Breaks("two_accepted_job_ids") = {"noLock"} /\ Breaks("duplicate_lock_violations") = {"noLock"}
    /\ Breaks("burst_took_more_than_one") = {"noUnique"}
    /\ Breaks("delayed_duplicate_accepted") = {"noUnique"}
    /\ Breaks("write_lost") = {"loses", "quantity"}
    /\ Breaks("lock_blocks_other_product") = {"userLock", "loses"}
    /\ Breaks("quantity_field_honoured") = {"quantity"}
    /\ Breaks("oversold") = {"noGuard"} /\ Breaks("stock_negative") = {"noGuard"}
BY DEF Breaks

(* At the verdict of a phase that was never judged too early no job is left *)
(* and the stock read last is the stock, less by the orders of the phase    *)
(* unless a rule is broken.                                                 *)
LEMMA AtVerdict ==
    ASSUME OrderTypeOK, Waited, Counted, Judge, Phase \in 1..4, ~rig.late
    PROVE  /\ Counting /\ svc.jobs = {}
           /\ \A p \in Product : Known(p) =>
                 /\ mem.before[p] \in Int /\ mem.after[p] \in Int
                 /\ mem.before[p] - mem.after[p] >= Taken(p)
                 /\ \/ mem.before[p] - mem.after[p] = Taken(p)
                    \/ Phase \in {1, 4} /\ svc.defect = "noUnique"
                    \/ Phase = 3 /\ svc.defect = "quantity"
<1>1. Counting
  BY JudgeFacts DEF Counting
<1>2. svc.jobs = {}
  BY <1>1, NothingAhead DEF Waited
<1>3. ASSUME NEW p \in Product, Known(p)
      PROVE  /\ mem.before[p] \in Int /\ mem.after[p] \in Int
             /\ mem.before[p] - mem.after[p] >= Taken(p)
             /\ \/ mem.before[p] - mem.after[p] = Taken(p)
                \/ Phase \in {1, 4} /\ svc.defect = "noUnique"
                \/ Phase = 3 /\ svc.defect = "quantity"
  <2>1. mem.before[p] # Unknown /\ mem.after[p] # Unknown
    BY <1>3 DEF Known
  <2>2. mem.before[p] \in Int /\ mem.after[p] \in Int
    BY <2>1, OrderFields
  <2>3. mem.after[p] = svc.stock[p]
    BY <1>1, <2>1, NothingAhead DEF Waited
  <2>4. /\ mem.before[p] - svc.stock[p] >= Taken(p)
        /\ \/ mem.before[p] - svc.stock[p] = Taken(p)
           \/ Phase \in {1, 4} /\ svc.defect = "noUnique"
           \/ Phase = 3 /\ svc.defect = "quantity"
    BY <1>1, <2>1 DEF Counted
  <2> QED BY <2>2, <2>3, <2>4
<1> QED BY <1>1, <1>2, <1>3

(* Phase A accuses no one falsely.                                          *)
LEMMA JudgeAFair ==
    ASSUME OrderTypeOK, BurstIds, Waited, Counted, NoneForgotten, Judge, Phase = 1,
           NEW flag \in JudgeA
    PROVE  svc.defect \in Breaks(flag) \/ MisledBy(flag)
<1>1. /\ Counting /\ Step = 5 /\ Len(mem.ids) = 2 /\ DOMAIN mem.ids = {1, 2}
      /\ mem.ids \in Seq(Ids \cup {Unknown}) /\ Unknown \notin Ids /\ rig.lost \in Nat
  <2>1. Step = 5 /\ Counting
    BY JudgeFacts, Instructions DEF Counting
  <2>2. Len(mem.ids) = 2
    BY <2>1 DEF BurstIds
  <2> QED BY <2>1, <2>2, OrderFields
<1> DEFINE K == <<<<"burst", A>>, 0>>
           got == {mem.ids[n] : n \in DOMAIN mem.ids}
<1>2. got = {mem.ids[1], mem.ids[2]}
  BY <1>1
<1>3. svc.defect # "noLock" =>
         \A n \in {1, 2} : mem.ids[n] = K \/ (mem.ids[n] = Unknown /\ (rig.lost > 0 \/ svc.refuses))
  BY <1>1 DEF BurstIds
<1>4. K \in Ids /\ K # Unknown
  <2>1. <<"burst", A>> \in Names \X Product
    BY ClientNames, Products
  <2> QED BY <1>1, <2>1 DEF Ids
<1> HIDE DEF K
<1>5. CASE flag = "two_accepted_job_ids"
  <2>1. Cardinality(got \ {Unknown}) > 1
    BY <1>5 DEF JudgeA
  <2>2. ASSUME svc.defect # "noLock" PROVE FALSE
    <3>1. got \ {Unknown} = {} \/ got \ {Unknown} = {K}
      BY <1>2, <1>3, <1>4, <2>2
    <3>2. Cardinality({}) = 0 /\ Cardinality({K}) = 1
      BY FS_EmptySet, FS_Singleton
    <3> HIDE DEF got
    <3>3. Cardinality(got \ {Unknown}) = 0 \/ Cardinality(got \ {Unknown}) = 1
      BY <3>1, <3>2
    <3> QED BY <2>1, <3>3
  <2> QED BY <1>5, <2>2, Rules
<1>6. CASE flag = "duplicate_lock_violations"
  <2>1. ~(Cardinality(got) = 1 /\ mem.ids[1] # Unknown)
    BY <1>6 DEF JudgeA, allCollapsedToOne
  <2>2. ASSUME svc.defect # "noLock", rig.lost = 0, ~svc.refuses PROVE FALSE
    <3>1. mem.ids[1] = K /\ mem.ids[2] = K
      BY <1>3, <2>2
    <3>2. got = {K}
      BY <1>2, <3>1
    <3> HIDE DEF got
    <3>3. Cardinality(got) = 1
      BY <3>2, FS_Singleton
    <3> QED BY <1>4, <2>1, <3>1, <3>3
  <2> QED BY <1>1, <1>6, <2>2, Rules DEF MisledBy
<1>7. CASE flag = "burst_took_more_than_one"
  <2>1. Known(A) /\ mem.before[A] - mem.after[A] > 1
    BY <1>7 DEF JudgeA, MoreThanOne
  <2>2. ASSUME ~rig.late PROVE svc.defect = "noUnique"
    <3>1. Taken(A) \in {0, 1}
      BY DEF Taken
    <3> QED BY <2>1, <2>2, <3>1, AtVerdict, Products
  <2> QED BY <1>7, <2>2, Rules DEF MisledBy
<1>8. CASE flag = "write_lost"
  <2>1. Known(A) /\ mem.before[A] - mem.after[A] = 0
    BY <1>8 DEF JudgeA, Consumed
  <2>2. ASSUME ~rig.late, svc.defect # "loses" PROVE rig.lost > 1
    <3>1. Taken(A) = 0 /\ svc.jobs = {}
      <4>1. Taken(A) \in {0, 1}
        BY DEF Taken
      <4> QED BY <2>1, <2>2, <4>1, AtVerdict, Products
    <3>2. ~Answered
      BY <1>1, <2>2, <3>1 DEF NoneForgotten
    <3>3. rig.lost >= Len(mem.ids)
      BY <1>1, <3>2 DEF BurstIds
    <3> QED BY <1>1, <3>3
  <2> QED BY <1>8, <2>2, Rules DEF MisledBy
<1>9. flag \in {"two_accepted_job_ids", "burst_took_more_than_one", "write_lost",
                "duplicate_lock_violations"}
  BY DEF JudgeA
<1> QED BY <1>5, <1>6, <1>7, <1>8, <1>9

(* Phase B accuses no one falsely.                                          *)
LEMMA JudgeBFair ==
    ASSUME OrderTypeOK, Waited, Counted, NoneForgotten, BothRead, Judge, Phase = 2,
           NEW flag \in JudgeB
    PROVE  svc.defect \in Breaks(flag) \/ MisledBy(flag)
<1>1. flag = "lock_blocks_other_product" /\ ~(Consumed(A, 1) /\ Consumed(B, 1))
  BY DEF JudgeB
<1>2. ASSUME ~rig.late, rig.lost = 0, svc.defect # "userLock", svc.defect # "loses" PROVE FALSE
  <2>1. Step = 7 /\ Counting
    BY JudgeFacts, Instructions DEF Counting
  <2>2. Sent(A) /\ Sent(B)
    <3>1. /\ 3 \in 1..(Step - 1) /\ Script[Phase][3].do = "order" /\ Script[Phase][3].product = A
          /\ 4 \in 1..(Step - 1) /\ Script[Phase][4].do = "order" /\ Script[Phase][4].product = B
      BY <2>1, Instructions, InstrFields
    <3> QED BY <3>1 DEF Sent
  <2>3. Known(A) /\ Known(B)
    BY <1>2, <2>1, NothingAhead DEF BothRead, Known
  <2>4. svc.jobs = {}
    BY <1>2, AtVerdict
  <2>5. Taken(A) = 1 /\ Taken(B) = 1
    BY <1>2, <2>1, <2>2, <2>4 DEF NoneForgotten
  <2>6. mem.before[A] - mem.after[A] = 1 /\ mem.before[B] - mem.after[B] = 1
    BY <1>2, <2>3, <2>5, AtVerdict, Products
  <2> QED BY <1>1, <2>3, <2>6 DEF Consumed
<1> QED BY <1>1, <1>2, Rules, OrderFields DEF MisledBy

(* Phase C accuses no one falsely.                                          *)
LEMMA JudgeCFair ==
    ASSUME OrderTypeOK, Waited, Counted, NoneForgotten, Judge, Phase = 3, NEW flag \in JudgeC
    PROVE  svc.defect \in Breaks(flag) \/ MisledBy(flag)
<1>0. Taken(B) \in {0, 1}
  BY DEF Taken
<1>1. CASE flag = "quantity_field_honoured"
  <2>1. Known(B) /\ mem.before[B] - mem.after[B] > 1
    BY <1>1 DEF JudgeC, MoreThanOne
  <2>2. ASSUME ~rig.late PROVE svc.defect = "quantity"
    BY <1>0, <2>1, <2>2, AtVerdict, Products
  <2> QED BY <1>1, <2>2, Rules DEF MisledBy
<1>2. CASE flag = "write_lost"
  <2>1. Known(B) /\ mem.before[B] - mem.after[B] = 0 /\ mem.status = 202
    BY <1>2 DEF JudgeC, Consumed
  <2>2. ASSUME ~rig.late, svc.defect # "loses", svc.defect # "quantity" PROVE FALSE
    <3>1. Taken(B) = 0 /\ svc.jobs = {} /\ Counting
      BY <1>0, <2>1, <2>2, AtVerdict, Products
    <3> QED BY <2>1, <2>2, <3>1 DEF NoneForgotten
  <2> QED BY <1>2, <2>2, Rules DEF MisledBy
<1>3. flag \in {"quantity_field_honoured", "write_lost"}
  BY DEF JudgeC
<1> QED BY <1>1, <1>2, <1>3

(* Phase D accuses no one falsely.                                          *)
LEMMA JudgeDFair ==
    ASSUME OrderTypeOK, Waited, Counted, Judge, Phase = 4, NEW flag \in JudgeD
    PROVE  svc.defect \in Breaks(flag) \/ MisledBy(flag)
<1>1. flag = "delayed_duplicate_accepted" /\ Known(A) /\ mem.before[A] - mem.after[A] > 1
  BY DEF JudgeD, MoreThanOne
<1>2. ASSUME ~rig.late PROVE svc.defect = "noUnique"
  <2>1. Taken(A) \in {0, 1}
    BY DEF Taken
  <2> QED BY <1>1, <1>2, <2>1, AtVerdict, Products
<1> QED BY <1>1, <1>2, Rules DEF MisledBy

(* The rush accuses no one falsely.                                         *)
LEMMA TeardownFair ==
    ASSUME OrderTypeOK, Guarded, NEW flag \in teardown
    PROVE  svc.defect \in Breaks(flag)
<1>1. /\ flag = "oversold" /\ mem.before[R] # Unknown /\ mem.after[R] # Unknown
      /\ mem.before[R] - mem.after[R] > mem.before[R]
  BY DEF teardown, Known
<1>2. mem.before[R] \in Int /\ mem.after[R] \in Int
  BY <1>1, OrderFields, Products
<1>3. mem.after[R] < 0
  BY <1>1, <1>2
<1>4. svc.defect = "noGuard"
  BY <1>1, <1>2, <1>3, Products DEF Guarded
<1> QED BY <1>1, <1>4, Rules

(* Whatever the script reports, the service broke a rule or the rig misled. *)
LEMMA AccusedStep ==
    ASSUME OrderTypeOK, Guarded, BurstIds, Waited, Counted, NoneForgotten, BothRead,
           AccusedOnlyIfGuilty, NextOrders
    PROVE  AccusedOnlyIfGuilty'
<1> DEFINE Fair(flag) == svc.defect \in Breaks(flag) \/ MisledBy(flag)
<1>1. /\ svc'.defect = svc.defect /\ svc'.refuses = svc.refuses
      /\ rig'.lost >= rig.lost /\ rig.lost \in Nat /\ (rig.late => rig'.late)
      /\ mem.script = "orders" /\ mem'.script = "orders" /\ rig'.lost \in Nat
  <2>1. OrderTypeOK'
    BY OrderTypeStep
  <2>2. mem'.script = "orders" /\ rig'.lost \in Nat
    BY <2>1 DEF OrderTypeOK, OrderMemory
  <2> QED BY <2>2, OrderTypeStep, OrderFields
<1>2. ASSUME NEW flag, Fair(flag) PROVE svc'.defect \in Breaks(flag) \/ MisledBy(flag)'
  BY <1>1, <1>2 DEF MisledBy
<1>3. \A flag \in fails : Fair(flag)
  BY <1>1 DEF AccusedOnlyIfGuilty
<1>4. ASSUME NEW p \in Product, NegativeStock(p), NEW flag \in fails' PROVE Fair(flag)
  <2>1. flag \in fails \/ (flag = "stock_negative" /\ svc.stock[p] < 0)
    BY <1>4 DEF NegativeStock, Report
  <2>2. CASE flag = "stock_negative" /\ svc.stock[p] < 0
    <3>1. svc.defect = "noGuard"
      <4>1. ~(svc.stock[p] >= 0)
        BY <2>2, OrderFields
      <4> QED BY <4>1 DEF Guarded
    <3> QED BY <2>2, <3>1, Rules
  <2> QED BY <1>3, <2>1, <2>2
<1>5. \A flag \in fails' : Fair(flag)
  <2>1. CASE ReadStock
    BY <1>3, <1>4, <2>1, ReadFacts
  <2>2. CASE SettleStock
    BY <1>3, <1>4, <2>2, SettleFacts
  <2>3. CASE SendOrder
    BY <1>3, <2>3, SendFacts
  <2>4. CASE SleepDelay
    BY <1>3, <2>4, SleepFacts
  <2>5. CASE Work
    BY <1>3, <2>5, WorkFacts
  <2>6. CASE Judge
    <3> DEFINE verdicts == <<JudgeA, JudgeB, JudgeC, JudgeD, teardown>>
    <3>1. fails' = fails \cup verdicts[Phase] /\ Phase \in 1..5
      BY <2>6, JudgeFacts DEF Judge, Report
    <3>2. ASSUME NEW flag \in verdicts[Phase] PROVE Fair(flag)
      <4>1. CASE Phase = 1
        BY <2>6, <3>2, <4>1, JudgeAFair
      <4>2. CASE Phase = 2
        BY <2>6, <3>2, <4>2, JudgeBFair
      <4>3. CASE Phase = 3
        BY <2>6, <3>2, <4>3, JudgeCFair
      <4>4. CASE Phase = 4
        BY <2>6, <3>2, <4>4, JudgeDFair
      <4>5. CASE Phase = 5
        BY <2>6, <3>2, <4>5, TeardownFair
      <4> QED BY <3>1, <4>1, <4>2, <4>3, <4>4, <4>5
    <3> QED BY <1>3, <3>1, <3>2
  <2> QED BY <2>1, <2>2, <2>3, <2>4, <2>5, <2>6 DEF NextOrders, ScriptStep
<1> QED BY <1>1, <1>2, <1>5 DEF AccusedOnlyIfGuilty

\* --------------------------------------------------- what a smooth run does

(* What a step keeps: the service, what went wrong, what was reported.      *)
LEMMA KeptFacts ==
    ASSUME OrderTypeOK, NextOrders
    PROVE  /\ pc = "phases" /\ Phase \in 1..5 /\ svc'.defect = svc.defect
           /\ svc'.strict = svc.strict /\ fails \subseteq fails' /\ (rig.swift => rig'.swift)
           /\ Smooth' => Smooth
<1>1. /\ Smooth' => Smooth
      /\ svc'.defect = svc.defect
  <2>1. OrderTypeOK' /\ rig'.lost >= rig.lost /\ (rig.late => rig'.late)
        /\ svc'.defect = svc.defect
    BY OrderTypeStep
  <2>2. rig'.lost \in Nat /\ rig.lost \in Nat
    BY <2>1, OrderFields DEF OrderTypeOK
  <2> QED BY <2>1, <2>2 DEF Smooth
<1>2. pc = "phases"
  BY DEF NextOrders, ScriptStep, ReadStock, SendOrder, SettleStock, SleepDelay, Judge, Work, At
<1>3. Phase \in 1..5
  BY <1>2 DEF OrderTypeOK
<1>4. fails \subseteq fails'
  BY DEF NextOrders, ScriptStep, ReadStock, SendOrder, SettleStock, SleepDelay, Judge, Work,
         NegativeStock, Report
<1>5. ASSUME rig.swift PROVE rig'.swift
  <2>1. rig \in [lost : Nat, late : BOOLEAN, swift : BOOLEAN]
    BY DEF OrderTypeOK
  <2>2. CASE ScriptStep
    <3>1. \/ rig' = rig \/ rig' = [rig EXCEPT !.lost = @ + 1] \/ rig' = [rig EXCEPT !.late = TRUE]
      BY <2>2 DEF ScriptStep, ReadStock, SendOrder, SettleStock, SleepDelay, Judge, LoseOne
    <3> QED BY <1>5, <2>1, <3>1
  <2>3. CASE Work
    BY <1>5, <2>3, WorkFacts
  <2> QED BY <2>2, <2>3 DEF NextOrders
<1>6. svc'.strict = svc.strict
  <2>1. CASE ReadStock
    BY <2>1, ReadFacts
  <2>2. CASE SendOrder
    BY <2>2, SendFacts, OrderMade
  <2>3. CASE SettleStock
    BY <2>3, SettleFacts
  <2>4. CASE SleepDelay
    <3>1. svc' = [svc EXCEPT !.locks = {}]
      BY <2>4, SleepFacts
    <3> QED BY <3>1 DEF OrderTypeOK, OrderService
  <2>5. CASE Judge
    BY <2>5, JudgeFacts
  <2>6. CASE Work
    BY <2>6, WorkFacts
  <2> QED BY <2>1, <2>2, <2>3, <2>4, <2>5, <2>6 DEF NextOrders, ScriptStep
<1> QED BY <1>1, <1>2, <1>3, <1>4, <1>5, <1>6

(* A phase is judged by its verdict.                                        *)
LEMMA JudgedStep ==
    ASSUME OrderTypeOK, NextOrders, NEW phase \in 1..5, Judged(phase)'
    PROVE  Judged(phase) \/ (Judge /\ Phase = phase)
<1>1. pc = "phases" /\ Phase \in 1..5
  BY KeptFacts
<1>2. CASE Judge
  <2>1. pc' = (IF Phase = 5 THEN "done" ELSE "phases") /\ Phase' = Phase + 1
    BY <1>2, JudgeFacts
  <2>2. pc' = "done" \/ Phase' > phase
    BY DEF Judged
  <2>3. Phase >= phase
    BY <1>1, <2>1, <2>2
  <2> QED BY <1>1, <1>2, <2>3 DEF Judged
<1>3. CASE ~Judge
  <2>1. pc' = pc /\ Phase' = Phase
    BY <1>3, ReadFacts, SendFacts, SettleFacts, SleepFacts, WorkInPhase, WorkFacts
      DEF NextOrders, ScriptStep
  <2> QED BY <1>1, <2>1 DEF Judged
<1> QED BY <1>2, <1>3

(* In a smooth run a reading succeeds.                                      *)
LEMMA SmoothRead ==
    ASSUME OrderTypeOK, ReadStock, Smooth'
    PROVE  \E p \in Product :
              /\ p = Instr.product /\ At("read") /\ UNCHANGED <<pc, svc, rig>>
              /\ Phase' = Phase /\ Step' = Step + 1 /\ mem'.ids = <<>>
              /\ mem'.after = mem.after /\ mem'.before = [mem.before EXCEPT ![p] = svc.stock[p]]
              /\ mem'.status = mem.status
<1>1. rig.lost \in Nat /\ ~LoseOne
  BY LossFacts, OrderFields DEF Smooth
<1>2. PICK p \in Product : p = Instr.product
  BY ReadFacts
<1>3. mem'.before = [mem.before EXCEPT ![p] = svc.stock[p]] /\ UNCHANGED rig
  BY <1>1, <1>2, ReadFacts
<1> QED BY <1>2, <1>3, ReadFacts

(* So does an order.                                                        *)
LEMMA SmoothSend ==
    ASSUME OrderTypeOK, SendOrder, Smooth'
    PROVE  \E u \in Names, p \in Product, q \in Nat \ {0} :
              /\ u = Instr.user /\ p = Instr.product /\ q = Instr.units
              /\ At("order") /\ UNCHANGED <<pc, fails, rig>>
              /\ Phase' = Phase /\ Step' = Step + 1
              /\ mem'.before = mem.before /\ mem'.after = mem.after
              /\ svc' = AfterOrder(u, p, q) /\ mem'.status = StatusOf(u, p, q)
              /\ mem'.ids = Append(mem.ids, IF StatusOf(u, p, q) = 202 THEN JobId(u, p)
                                            ELSE Unknown)
<1>1. rig.lost \in Nat /\ ~LoseOne
  BY LossFacts, OrderFields DEF Smooth
<1>2. PICK u \in Names, p \in Product, q \in Nat \ {0} :
         u = Instr.user /\ p = Instr.product /\ q = Instr.units
  BY SendFacts
<1>3. /\ At("order") /\ UNCHANGED <<pc, fails>> /\ Phase' = Phase /\ Step' = Step + 1
      /\ mem'.before = mem.before /\ mem'.after = mem.after
  BY SendFacts
<1>4. /\ svc' = AfterOrder(u, p, q) /\ mem'.status = StatusOf(u, p, q) /\ UNCHANGED rig
      /\ mem'.ids = Append(mem.ids, IF StatusOf(u, p, q) = 202 THEN JobId(u, p) ELSE Unknown)
  BY <1>1, <1>2, SendFacts
<1> QED BY <1>2, <1>3, <1>4

(* And a wait, which ends with nothing of the product pending.              *)
LEMMA SmoothSettle ==
    ASSUME OrderTypeOK, SettleStock, Smooth'
    PROVE  \E p \in Product :
              /\ p = Instr.product /\ Instr = Settle(p) /\ At("settle")
              /\ UNCHANGED <<pc, svc, rig>>
              /\ ~Pending(p) /\ NegativeStock(p) /\ Phase' = Phase /\ Step' = Step + 1
              /\ mem'.ids = mem.ids /\ mem'.before = mem.before /\ mem'.status = mem.status
              /\ mem'.after = [mem.after EXCEPT ![p] = svc.stock[p]]
<1>1. rig.lost \in Nat /\ ~LoseOne /\ rig' # [rig EXCEPT !.late = TRUE]
  BY LossFacts, OrderFields DEF Smooth
<1>2. PICK p \in Product : p = Instr.product
  BY SettleFacts
<1>3. /\ mem'.after = [mem.after EXCEPT ![p] = svc.stock[p]] /\ UNCHANGED rig
      /\ ~Pending(p) /\ NegativeStock(p)
  BY <1>1, <1>2, SettleFacts
<1>4. /\ Instr = Settle(p) /\ At("settle") /\ UNCHANGED <<pc, svc>> /\ Phase' = Phase
      /\ Step' = Step + 1
      /\ mem'.ids = mem.ids /\ mem'.before = mem.before /\ mem'.status = mem.status
  BY <1>2, SettleFacts
<1> QED BY <1>2, <1>3, <1>4

(* The verdict of a phase is reported.                                      *)
LEMMA VerdictReported ==
    ASSUME Judge
    PROVE  /\ Phase = 1 => JudgeA \subseteq fails'
           /\ Phase = 2 => JudgeB \subseteq fails'
           /\ Phase = 3 => JudgeC \subseteq fails'
           /\ Phase = 4 => JudgeD \subseteq fails'
<1>1. fails' = fails \cup <<JudgeA, JudgeB, JudgeC, JudgeD, teardown>>[Phase]
  BY DEF Judge, Report
<1> QED BY <1>1

\* ---------------------------------------------- a broken rule is found: the steps

(* Without a loss the script has read all it was to read.                   *)
LEMMA AllReadStep ==
    ASSUME OrderTypeOK, AllRead, NextOrders
    PROVE  AllRead'
<1>1. SUFFICES ASSUME Counting', Smooth', NEW n \in 1..(Step' - 1), NEW p \in Product
               PROVE  /\ Script[Phase'][n] = Read(p) => mem'.before[p] # Unknown
                      /\ Script[Phase'][n] = Settle(p) => mem'.after[p] # Unknown
  BY DEF AllRead
<1>2. Smooth /\ pc = "phases" /\ Step \in Nat /\ svc.stock \in [Product -> Int]
      /\ Unknown \notin Int
      /\ mem.before \in [Product -> Int \cup {Unknown}]
      /\ mem.after \in [Product -> Int \cup {Unknown}]
  BY <1>1, KeptFacts, OrderFields
<1>3. ASSUME Phase' = Phase, n \in 1..(Step - 1)
      PROVE  /\ Script[Phase][n] = Read(p) => mem.before[p] # Unknown
             /\ Script[Phase][n] = Settle(p) => mem.after[p] # Unknown
  <2>1. Counting
    BY <1>1, <1>2, <1>3 DEF Counting
  <2> QED BY <1>2, <1>3, <2>1 DEF AllRead
<1>4. ASSUME NEW do, At(do), Phase' = Phase, Step' = Step + 1
      PROVE  n \in 1..(Step - 1) \/ (Script[Phase'][n] = Instr /\ Instr.do = do)
  <2>1. Instr = Script[Phase][Step] /\ Instr.do = do
    BY <1>4, AtFacts
  <2>2. n \in 1..(Step - 1) \/ n = Step
    BY <1>2, <1>4
  <2> QED BY <1>4, <2>1, <2>2
<1>5. CASE ReadStock
  <2>1. PICK r \in Product :
              /\ r = Instr.product /\ At("read") /\ Phase' = Phase /\ Step' = Step + 1
              /\ mem'.after = mem.after /\ mem'.before = [mem.before EXCEPT ![r] = svc.stock[r]]
    BY <1>1, <1>5, SmoothRead
  <2>2. mem'.before[r] # Unknown /\ \A q \in Product : q # r => mem'.before[q] = mem.before[q]
    BY <1>2, <2>1
  <2>3. CASE n \in 1..(Step - 1)
    BY <1>3, <2>1, <2>2, <2>3
  <2>4. CASE Script[Phase'][n] = Instr /\ Instr.do = "read"
    BY <2>1, <2>2, <2>4, InstrFields
  <2> QED BY <1>4, <2>1, <2>3, <2>4
<1>6. CASE SettleStock
  <2>1. PICK r \in Product :
              /\ Instr = Settle(r) /\ At("settle") /\ Phase' = Phase /\ Step' = Step + 1
              /\ mem'.before = mem.before /\ mem'.after = [mem.after EXCEPT ![r] = svc.stock[r]]
    BY <1>1, <1>6, SmoothSettle
  <2>2. mem'.after[r] # Unknown /\ \A q \in Product : q # r => mem'.after[q] = mem.after[q]
    BY <1>2, <2>1
  <2>3. CASE n \in 1..(Step - 1)
    BY <1>3, <2>1, <2>2, <2>3
  <2>4. CASE Script[Phase'][n] = Instr /\ Instr.do = "settle"
    <3>1. Instr # Read(p) /\ (Instr = Settle(p) => p = r)
      BY <2>1, <2>4, InstrFields
    <3> QED BY <2>2, <2>4, <3>1
  <2> QED BY <1>4, <2>1, <2>3, <2>4
<1>7. CASE SendOrder \/ SleepDelay
  <2>1. PICK do : /\ At(do) /\ do \in {"order", "sleep"} /\ Phase' = Phase /\ Step' = Step + 1
                  /\ mem'.before = mem.before /\ mem'.after = mem.after
    BY <1>7, SendFacts, SleepFacts
  <2>2. CASE n \in 1..(Step - 1)
    BY <1>3, <2>1, <2>2
  <2>3. CASE Script[Phase'][n] = Instr /\ Instr.do = do
    BY <2>1, <2>3, InstrFields
  <2> QED BY <1>4, <2>1, <2>2, <2>3
<1>8. CASE Judge
  <2>1. Step' = 1
    BY <1>8, JudgeFacts
  <2> QED BY <2>1
<1>9. CASE Work
  <2>1. Phase' = Phase /\ Step' = Step /\ mem' = mem
    BY <1>9, WorkInPhase, WorkFacts
  <2> QED BY <1>3, <2>1
<1> QED BY <1>5, <1>6, <1>7, <1>8, <1>9 DEF NextOrders, ScriptStep

(* The steps of the rush, one by one: everyone orders between the first and *)
(* the last.                                                                *)
LEMMA RushScript ==
    /\ Len(RushUsers) \in Nat /\ Len(Script[5]) = Len(RushUsers) + 2
    /\ Script[5][1] = Read(R) /\ Script[5][Len(RushUsers) + 2] = Settle(R)
    /\ \A n \in 1..Len(RushUsers) : Script[5][n + 1] = Order(RushUsers[n], R, 1)
<1> DEFINE orders == [n \in DOMAIN RushUsers |-> Order(RushUsers[n], R, 1)]
           first == <<Read(R)>>
           last == <<Settle(R)>>
           Steps == {Read(R), Settle(R)} \cup {Order(RushUsers[n], R, 1) : n \in DOMAIN RushUsers}
<1>1. Len(RushUsers) \in Nat /\ DOMAIN RushUsers = 1..Len(RushUsers)
  BY OrdersAssumption
<1>2. orders \in [1..Len(RushUsers) -> Steps]
      /\ \A n \in 1..Len(RushUsers) : orders[n] = Order(RushUsers[n], R, 1)
  BY <1>1
<1>3. Script[5] = first \o orders \o last
  BY DEF Script, Rush
<1>4. /\ first \in Seq(Steps) /\ Len(first) = 1 /\ first[1] = Read(R)
      /\ last \in Seq(Steps) /\ Len(last) = 1 /\ last[1] = Settle(R)
  OBVIOUS
<1> HIDE DEF orders, first, last, Steps
<1>5. orders \in Seq(Steps) /\ Len(orders) = Len(RushUsers)
  BY <1>1, <1>2
<1>11. ASSUME NEW s \in Seq(Steps), NEW t \in Seq(Steps)
       PROVE  /\ s \o t \in Seq(Steps) /\ Len(s \o t) = Len(s) + Len(t)
              /\ \A n \in 1..Len(s) : (s \o t)[n] = s[n]
              /\ \A n \in 1..Len(t) : (s \o t)[Len(s) + n] = t[n]
  OBVIOUS
<1> DEFINE upto == first \o orders
<1>6. /\ upto \in Seq(Steps) /\ Len(upto) = Len(RushUsers) + 1 /\ upto[1] = Read(R)
      /\ \A n \in 1..Len(RushUsers) : upto[n + 1] = orders[n]
  <2>1. /\ upto \in Seq(Steps) /\ Len(upto) = Len(first) + Len(orders)
        /\ \A n \in 1..Len(first) : upto[n] = first[n]
        /\ \A n \in 1..Len(orders) : upto[Len(first) + n] = orders[n]
    BY <1>4, <1>5, <1>11
  <2>2. \A n \in 1..Len(RushUsers) : 1 + n = n + 1
    BY <1>1
  <2> HIDE DEF upto
  <2> QED BY <1>1, <1>4, <1>5, <2>1, <2>2
<1>7. Script[5] = upto \o last
  BY <1>3
<1> HIDE DEF upto
<1>8. /\ Len(Script[5]) = Len(RushUsers) + 2 /\ Script[5][Len(RushUsers) + 2] = Settle(R)
      /\ \A n \in 1..(Len(RushUsers) + 1) : Script[5][n] = upto[n]
  <2> DEFINE all == upto \o last
  <2>1. /\ Len(all) = Len(upto) + Len(last)
        /\ \A n \in 1..Len(upto) : all[n] = upto[n]
        /\ \A n \in 1..Len(last) : all[Len(upto) + n] = last[n]
    BY <1>4, <1>6, <1>11
  <2>2. Script[5] = all
    BY <1>7
  <2> HIDE DEF all
  <2>3. Len(all) = Len(RushUsers) + 2 /\ all[Len(RushUsers) + 2] = Settle(R)
    <3>1. Len(RushUsers) + 2 = Len(upto) + 1 /\ 1 \in 1..Len(last)
      BY <1>1, <1>4, <1>6
    <3> QED BY <1>4, <2>1, <3>1
  <2> QED BY <1>6, <2>1, <2>2, <2>3
<1>9. ASSUME NEW n \in 1..Len(RushUsers) PROVE Script[5][n + 1] = Order(RushUsers[n], R, 1)
  <2>1. n + 1 \in 1..(Len(RushUsers) + 1)
    BY <1>1
  <2> QED BY <1>2, <1>6, <1>8, <2>1
<1>10. Script[5][1] = Read(R)
  BY <1>1, <1>6, <1>8
<1> QED BY <1>1, <1>8, <1>9, <1>10

(* What a step of the rush is about.                                        *)
LEMMA RushStep ==
    ASSUME OrderTypeOK, Phase = 5, NEW do, At(do)
    PROVE  /\ do \in {"read", "order", "settle"} /\ Instr.product = R
           /\ do = "order" => Instr.units = 1
<1>1. Step \in 1..Len(Script[5]) /\ Instr = Script[5][Step] /\ Instr.do = do
  BY AtFacts
<1>2. \/ Instr = Read(R) \/ Instr = Settle(R) \/ \E u \in Names : Instr = Order(u, R, 1)
  BY <1>1, RushSteps
<1> QED BY <1>1, <1>2, InstrFields

(* A lock lasts until its job is done, or until the pause.                  *)
LEMMA LocksHeldStep ==
    ASSUME OrderTypeOK, Waited, LocksHeld, NextOrders
    PROVE  LocksHeld'
<1>0. svc'.defect = svc.defect /\ (Smooth' => Smooth) /\ pc = "phases" /\ Phase \in 1..5
  BY KeptFacts
<1> DEFINE Key(u, p) == <<u, IF svc.defect = "userLock" THEN A ELSE p>>
<1>1. \A u, p : lockKey(u, p) = Key(u, p) /\ lockKey(u, p)' = Key(u, p)
  BY <1>0 DEF lockKey
<1>2. svc.defect # "loses" =>
         \A key \in svc.locks : \E job \in svc.jobs : Key(job.user, job.product) = key
  BY <1>1 DEF LocksHeld
<1>3. /\ LocksHeld' <=>
             /\ svc.defect # "loses" =>
                   \A key \in svc'.locks : \E job \in svc'.jobs : Key(job.user, job.product) = key
             /\ Smooth' /\ In(5)' => \A job \in svc'.jobs : job.product = R
  BY <1>0, <1>1 DEF LocksHeld
<1> HIDE DEF Key
<1>4. ASSUME Smooth', In(5)', Phase' = Phase PROVE \A job \in svc.jobs : job.product = R
  BY <1>0, <1>4 DEF LocksHeld, In
<1>5. CASE ReadStock \/ SettleStock \/ SleepDelay
  <2>1. Phase' = Phase /\ (svc' = svc \/ svc' = [svc EXCEPT !.locks = {}])
    BY <1>5, ReadFacts, SettleFacts, SleepFacts
  <2>2. svc'.jobs = svc.jobs /\ (svc'.locks = svc.locks \/ svc'.locks = {})
    BY <2>1 DEF OrderTypeOK, OrderService
  <2> QED BY <1>2, <1>3, <1>4, <2>1, <2>2
<1>6. CASE SendOrder
  <2>1. PICK u \in Names, p \in Product, q \in Nat \ {0} :
              /\ p = Instr.product /\ At("order") /\ Phase' = Phase
              /\ svc' = svc \/ svc' = AfterOrder(u, p, q)
    BY <1>6, SendFacts
  <2>2. Phase = 5 => p = R
    BY <2>1, RushStep
  <2>3. \/ svc'.locks = svc.locks /\ svc'.jobs = svc.jobs
        \/ /\ svc'.locks = svc.locks \cup {lockKey(u, p)}
           /\ svc.defect = "loses" => svc'.jobs = svc.jobs
           /\ svc.defect # "loses" => \E job \in OrderJob :
                 svc'.jobs = svc.jobs \cup {job} /\ job.user = u /\ job.product = p
    BY <2>1, OrderMade
  <2>4. ASSUME svc.defect # "loses", NEW key \in svc'.locks
        PROVE  \E job \in svc'.jobs : Key(job.user, job.product) = key
    BY <1>1, <1>2, <2>3, <2>4
  <2>5. ASSUME Smooth', In(5)' PROVE \A job \in svc'.jobs : job.product = R
    <3>1. \A job \in svc.jobs : job.product = R
      BY <1>4, <2>1, <2>5
    <3>2. Phase = 5
      BY <2>1, <2>5 DEF In
    <3> QED BY <2>2, <2>3, <3>1, <3>2
  <2> QED BY <1>3, <2>4, <2>5
<1>7. CASE Judge
  <2>1. UNCHANGED svc /\ Phase' = Phase + 1
    BY <1>7, JudgeFacts
  <2>2. ASSUME Smooth', In(5)' PROVE svc'.jobs = {}
    <3>1. Phase = 4 /\ Smooth /\ Counting
      BY <1>0, <2>1, <2>2 DEF In, Counting
    <3>2. svc.jobs = {}
      BY <1>7, <3>1, NothingAhead DEF Waited, Smooth
    <3> QED BY <2>1, <3>2
  <2> QED BY <1>2, <1>3, <2>1, <2>2
<1>8. CASE Work
  <2>1. PICK job \in svc.jobs :
           /\ svc'.jobs = svc.jobs \ {job}
           /\ svc'.locks = svc.locks \ {lockKey(job.user, job.product)}
    BY <1>8, WorkFacts
  <2>2. Phase' = Phase
    BY <1>8, WorkInPhase
  <2>3. ASSUME svc.defect # "loses", NEW key \in svc'.locks
        PROVE  \E j \in svc'.jobs : Key(j.user, j.product) = key
    <3>1. key \in svc.locks /\ key # Key(job.user, job.product)
      BY <1>1, <2>1
    <3> QED BY <1>2, <2>1, <2>3, <3>1
  <2> QED BY <1>3, <1>4, <2>1, <2>2, <2>3
<1> QED BY <1>5, <1>6, <1>7, <1>8 DEF NextOrders, ScriptStep

(* Phase B, step by step.                                                   *)
LEMMA TwoSteps ==
    ASSUME OrderTypeOK, Phase = 2, NEW do, At(do)
    PROVE  /\ do = "read" => Step \in {1, 2}
           /\ do = "order" => \/ Step = 3 /\ Instr = Order("two", A, 1)
                              \/ Step = 4 /\ Instr = Order("two", B, 1)
           /\ do = "settle" => Step \in {5, 6}
           /\ do # "sleep"
<1>1. Step \in 1..6 /\ Instr = Script[2][Step] /\ Instr.do = do
  BY AtFacts, Instructions
<1>2. CASE Step \in {1, 2}
  BY <1>1, <1>2, Instructions, InstrFields
<1>3. CASE Step \in {3, 4}
  BY <1>1, <1>3, Instructions, InstrFields
<1>4. CASE Step \in {5, 6}
  BY <1>1, <1>4, Instructions, InstrFields
<1> QED BY <1>1, <1>2, <1>3, <1>4

(* Phase C, step by step.                                                   *)
LEMMA QuantitySteps ==
    ASSUME OrderTypeOK, Phase = 3, NEW do, At(do)
    PROVE  /\ do = "read" => Step = 1 /\ Instr = Read(B)
           /\ do = "order" => Step = 2 /\ Instr = Order("quantity", B, 5)
           /\ do = "settle" => Step = 3
           /\ do # "sleep"
<1>1. Step \in 1..3 /\ Instr = Script[3][Step] /\ Instr.do = do
  BY AtFacts, Instructions
<1>2. Step = 1 \/ Step = 2 \/ Step = 3
  BY <1>1
<1> QED BY <1>1, <1>2, Instructions, InstrFields

(* Phase D, step by step.                                                   *)
LEMMA DelayedSteps ==
    ASSUME OrderTypeOK, Phase = 4, NEW do, At(do)
    PROVE  /\ do = "read" => Step = 1 /\ Instr = Read(A)
           /\ do = "order" => Step \in {2, 5} /\ Instr = Order("delayed", A, 1)
           /\ do = "settle" => Step \in {3, 6} /\ Instr = Settle(A)
           /\ do = "sleep" => Step = 4
<1>1. Step \in 1..6 /\ Instr = Script[4][Step] /\ Instr.do = do
  BY AtFacts, Instructions
<1>2. CASE Step \in {1, 4}
  BY <1>1, <1>2, Instructions, InstrFields
<1>3. CASE Step \in {2, 5}
  BY <1>1, <1>3, Instructions, InstrFields
<1>4. CASE Step \in {3, 6}
  BY <1>1, <1>4, Instructions, InstrFields
<1> QED BY <1>1, <1>2, <1>3, <1>4

(* An order for one unit is refused only by a lock.                         *)
LEMMA OneUnit ==
    ASSUME NEW u, NEW p
    PROVE  /\ ~Locked(u, p) => StatusOf(u, p, 1) = 202
           /\ StatusOf(u, p, 1) # 202 => Locked(u, p)
BY DEF StatusOf

(* Two different members make a set of more than one.                       *)
LEMMA TwoOrMore ==
    ASSUME NEW a, NEW b, a # b
    PROVE  Cardinality({a, b}) > 1
<1>1. IsFiniteSet({a}) /\ Cardinality({a}) = 1
  BY FS_Singleton
<1>2. Cardinality({a} \cup {b}) = 2
  BY <1>1, FS_AddElement
<1>3. {a} \cup {b} = {a, b}
  OBVIOUS
<1> QED BY <1>2, <1>3

(* Without the lock phase A sees two job ids.                               *)
LEMMA NoLockStep ==
    ASSUME OrderTypeOK, BurstIds, NoLockFound, NextOrders
    PROVE  NoLockFound'
<1>1. SUFFICES ASSUME Smooth', svc.defect = "noLock"
               PROVE  /\ In(1)' =>
                            /\ \A n \in DOMAIN mem'.ids : \E made \in Nat :
                                  made < svc'.made /\ mem'.ids[n] = <<<<"burst", A>>, made>>
                            /\ \A n, k \in DOMAIN mem'.ids : mem'.ids[n] = mem'.ids[k] => n = k
                      /\ Judged(1)' => fails' # {}
  BY KeptFacts DEF NoLockFound
<1>2. /\ In(1) =>
            /\ \A n \in DOMAIN mem.ids : \E made \in Nat :
                  made < svc.made /\ mem.ids[n] = <<<<"burst", A>>, made>>
            /\ \A n, k \in DOMAIN mem.ids : mem.ids[n] = mem.ids[k] => n = k
      /\ Judged(1) => fails # {}
  BY <1>1, KeptFacts DEF NoLockFound
<1>3. /\ pc = "phases" /\ fails \subseteq fails' /\ svc.made \in Nat
      /\ mem.ids \in Seq(Ids \cup {Unknown}) /\ Unknown \notin Ids
  BY KeptFacts, OrderFields
<1>4. ASSUME In(1)'
      PROVE  /\ \A n \in DOMAIN mem'.ids : \E made \in Nat :
                   made < svc'.made /\ mem'.ids[n] = <<<<"burst", A>>, made>>
             /\ \A n, k \in DOMAIN mem'.ids : mem'.ids[n] = mem'.ids[k] => n = k
  <2>1. CASE Phase' = Phase /\ mem'.ids = mem.ids /\ svc'.made = svc.made
    BY <1>2, <1>3, <1>4, <2>1 DEF In
  <2>2. CASE ReadStock
    <3>1. mem'.ids = <<>>
      BY <2>2, ReadFacts
    <3> QED BY <3>1
  <2>3. CASE SendOrder
    <3>1. PICK u \in Names, p \in Product, q \in Nat \ {0} :
              /\ u = Instr.user /\ p = Instr.product /\ q = Instr.units
              /\ At("order") /\ Phase' = Phase /\ svc' = AfterOrder(u, p, q)
              /\ mem'.ids = Append(mem.ids, IF StatusOf(u, p, q) = 202 THEN JobId(u, p)
                                            ELSE Unknown)
      BY <1>1, <2>3, SmoothSend
    <3>2. Phase = 1 /\ In(1)
      BY <1>3, <1>4, <3>1 DEF In
    <3>3. u = "burst" /\ p = A /\ q = 1
      BY <3>1, <3>2, BurstSteps, InstrFields
    <3>4. ~Locked("burst", A) /\ StatusOf("burst", A, 1) = 202
      BY <1>1, OneUnit DEF Locked
    <3>5. lockKey("burst", A) = <<"burst", A>>
      BY LockKeys
    <3> DEFINE id == <<<<"burst", A>>, svc.made>>
    <3>6. JobId(u, p) = id
      BY <1>1, <3>3, <3>5 DEF JobId
    <3>7. svc'.made = svc.made + 1
      BY <1>1, <3>1, <3>3, <3>4 DEF AfterOrder, OrderTypeOK, OrderService
    <3>8. mem'.ids = Append(mem.ids, id)
      BY <3>1, <3>3, <3>4, <3>6
    <3>9. /\ DOMAIN mem'.ids = DOMAIN mem.ids \cup {Len(mem.ids) + 1}
          /\ mem'.ids[Len(mem.ids) + 1] = id
          /\ \A n \in DOMAIN mem.ids : mem'.ids[n] = mem.ids[n]
      <4> HIDE DEF id
      <4> QED BY <1>3, <3>8
    <3>10. \A n \in DOMAIN mem.ids : mem.ids[n] # id
      BY <1>2, <1>3, <3>2
    <3>11. ASSUME NEW n \in DOMAIN mem'.ids
           PROVE  \E made \in Nat :
                     made < svc'.made /\ mem'.ids[n] = <<<<"burst", A>>, made>>
      <4>1. CASE n \in DOMAIN mem.ids
        <5>1. PICK made \in Nat : made < svc.made /\ mem.ids[n] = <<<<"burst", A>>, made>>
          BY <1>2, <3>2, <4>1
        <5>2. made < svc'.made /\ mem'.ids[n] = <<<<"burst", A>>, made>>
          BY <1>3, <3>7, <3>9, <4>1, <5>1
        <5> QED BY <5>2
      <4>2. CASE n = Len(mem.ids) + 1
        <5>1. svc.made < svc'.made /\ mem'.ids[n] = id
          BY <1>3, <3>7, <3>9, <4>2
        <5> QED BY <1>3, <5>1
      <4> QED BY <3>9, <4>1, <4>2
    <3> HIDE DEF id
    <3>12. \A n, k \in DOMAIN mem'.ids : mem'.ids[n] = mem'.ids[k] => n = k
      BY <1>2, <3>2, <3>9, <3>10
    <3> QED BY <3>11, <3>12
  <2>4. CASE SettleStock
    BY <2>1, <2>4, SettleFacts
  <2>5. CASE SleepDelay
    <3>1. At("sleep") /\ Phase' = Phase
      BY <2>5, SleepFacts
    <3>2. Phase = 1
      BY <1>4, <3>1 DEF In
    <3> QED BY <3>1, <3>2, BurstSteps
  <2>6. CASE Judge
    BY <1>3, <1>4, <2>6, JudgeFacts DEF In
  <2>7. CASE Work
    <3>1. svc'.made = svc.made
      BY <2>7 DEF Work, OrderTypeOK, OrderService
    <3> QED BY <2>1, <2>7, <3>1, WorkFacts, WorkInPhase
  <2> QED BY <2>2, <2>3, <2>4, <2>5, <2>6, <2>7 DEF NextOrders, ScriptStep
<1>5. ASSUME Judged(1)' PROVE fails' # {}
  <2>1. CASE Judged(1)
    BY <1>2, <1>3, <2>1
  <2>2. CASE Judge /\ Phase = 1
    <3>1. Step = 5 /\ In(1) /\ Counting
      BY <1>3, <2>2, JudgeFacts, Instructions DEF In, Counting
    <3>2. Len(mem.ids) = 2 /\ DOMAIN mem.ids = {1, 2}
      <4>1. Len(mem.ids) = 2
        BY <2>2, <3>1 DEF BurstIds
      <4> QED BY <1>3, <4>1
    <3>3. mem.ids[1] # mem.ids[2]
      BY <1>2, <3>1, <3>2
    <3>4. ASSUME NEW n \in {1, 2} PROVE mem.ids[n] # Unknown
      <4>1. PICK made \in Nat : mem.ids[n] = <<<<"burst", A>>, made>>
        BY <1>2, <3>1, <3>2
      <4>2. <<"burst", A>> \in Names \X Product
        BY ClientNames, Products
      <4>3. <<<<"burst", A>>, made>> \in Ids
        BY <4>2 DEF Ids
      <4> QED BY <1>3, <4>1, <4>3
    <3> DEFINE got == {mem.ids[n] : n \in DOMAIN mem.ids} \ {Unknown}
    <3>5. got = {mem.ids[1], mem.ids[2]}
      BY <3>2, <3>4
    <3>6. Cardinality(got) > 1
      <4> HIDE DEF got
      <4> QED BY <3>3, <3>5, TwoOrMore
    <3>7. "two_accepted_job_ids" \in JudgeA
      BY <3>6 DEF JudgeA
    <3> QED BY <2>2, <3>7, VerdictReported
  <2> QED BY <1>5, <2>1, <2>2, JudgedStep
<1> QED BY <1>4, <1>5

(* A service that loses its orders is found in phase A.                     *)
LEMMA LosesStep ==
    ASSUME OrderTypeOK, Waited, Counted, AllRead, LosesFound, NextOrders
    PROVE  LosesFound'
<1>1. SUFFICES ASSUME Smooth', svc.defect = "loses"
               PROVE  svc'.jobs = {} /\ svc'.orders = {} /\ (Judged(1)' => fails' # {})
  BY KeptFacts DEF LosesFound
<1>2. svc.jobs = {} /\ svc.orders = {} /\ (Judged(1) => fails # {}) /\ Smooth
  BY <1>1, KeptFacts DEF LosesFound
<1>3. pc = "phases" /\ fails \subseteq fails'
  BY KeptFacts
<1>4. svc'.jobs = {} /\ svc'.orders = {}
  <2>1. CASE svc' = svc \/ svc' = [svc EXCEPT !.locks = {}]
    BY <1>2, <2>1 DEF OrderTypeOK, OrderService
  <2>2. CASE SendOrder
    BY <1>1, <1>2, <2>2, SendFacts, OrderMade
  <2>3. CASE Work
    BY <1>2, <2>3, WorkFacts
  <2> QED BY <2>1, <2>2, <2>3, ReadFacts, SettleFacts, SleepFacts, JudgeFacts
        DEF NextOrders, ScriptStep
<1>5. ASSUME Judged(1)' PROVE fails' # {}
  <2>1. CASE Judged(1)
    BY <1>2, <1>3, <2>1
  <2>2. CASE Judge /\ Phase = 1
    <3>1. Counting /\ Step = 5
      BY <1>3, <2>2, JudgeFacts, Instructions DEF Counting
    <3>2. Known(A)
      <4>1. 1 \in 1..(Step - 1) /\ 4 \in 1..(Step - 1)
        BY <3>1
      <4>2. Script[Phase][1] = Read(A) /\ Script[Phase][4] = Settle(A)
        BY <2>2, Instructions
      <4> QED BY <1>2, <3>1, <4>1, <4>2, Products DEF AllRead, Known
    <3>3. mem.before[A] - mem.after[A] = Taken(A)
      BY <1>1, <1>2, <2>2, <3>2, AtVerdict, Products DEF Smooth
    <3>4. Taken(A) = 0
      BY <1>2 DEF Taken
    <3>5. "write_lost" \in JudgeA
      BY <3>2, <3>3, <3>4 DEF JudgeA, Consumed
    <3> QED BY <2>2, <3>5, VerdictReported
  <2> QED BY <1>5, <2>1, <2>2, JudgedStep
<1> QED BY <1>4, <1>5

(* Before a phase has sent anything there is no job and no lock of its.     *)
LEMMA BeforeOrders ==
    ASSUME OrderTypeOK, Newcomers, Waited, Counting, ~rig.late, \A q \in Product : ~Sent(q)
    PROVE  /\ svc.jobs = {}
           /\ \A p \in Product : <<Client, p>> \notin svc.orders \cup svc.locks
<1>1. Phase \in DOMAIN Clients /\ Client = Clients[Phase] /\ pc = "phases"
  BY ClientNames DEF Counting, Client, OrderTypeOK
<1>2. \A p \in Product : /\ <<Client, p>> \notin svc.orders \cup svc.locks
                         /\ \A job \in svc.jobs : job.user # Client
  BY <1>1 DEF Newcomers
<1>3. \A job \in svc.jobs : job.user = Client
  BY DEF Waited
<1> QED BY <1>2, <1>3, Products

(* A lock on the user that outlasts the first order is found in phase B.    *)
LEMMA UserLockStep ==
    ASSUME OrderTypeOK, Newcomers, Waited, Counted, UserLockFound, NextOrders
    PROVE  UserLockFound'
<1>1. SUFFICES ASSUME Smooth', svc.defect = "userLock", ~rig'.swift
               PROVE  /\ In(2)' /\ Step' = 4 => <<"two", A>> \in svc'.locks
                      /\ In(2)' /\ Step' > 4 => /\ <<"two", B>> \notin svc'.orders
                                               /\ \A job \in svc'.jobs : job.product # B
                      /\ Judged(2)' => fails' # {}
  BY KeptFacts DEF UserLockFound
<1>2. /\ Smooth /\ ~rig.late
      /\ In(2) /\ Step = 4 => <<"two", A>> \in svc.locks
      /\ In(2) /\ Step > 4 => /\ <<"two", B>> \notin svc.orders
                              /\ \A job \in svc.jobs : job.product # B
      /\ Judged(2) => fails # {}
  BY <1>1, KeptFacts DEF UserLockFound, Smooth
<1>3. pc = "phases" /\ fails \subseteq fails' /\ Step \in Nat
  BY KeptFacts, OrderFields
<1>4. ASSUME In(2), Step = 4
      PROVE  /\ <<"two", B>> \notin svc.orders /\ \A job \in svc.jobs : job.product # B
             /\ \A job \in svc.jobs : job.user = "two"
  <2>1. Counting /\ Client = "two"
    BY <1>4, ClientNames DEF In, Counting, Client
  <2>2. ~Sent(B)
    <3>1. \A k \in 1..3 : ~(Script[2][k].do = "order" /\ Script[2][k].product = B)
      <4>1. Script[2][1].do = "read" /\ Script[2][2].do = "read" /\ Script[2][3].product = A
        BY Instructions, InstrFields
      <4> QED BY <4>1, Products
    <3> QED BY <1>4, <3>1 DEF Sent, In
  <2>3. /\ <<"two", B>> \notin svc.orders
        /\ \A job \in svc.jobs : ~(job.user = "two" /\ job.product = B)
    BY <2>1, <2>2, Products DEF Newcomers
  <2> QED BY <1>2, <2>1, <2>3 DEF Waited
<1>5. ASSUME In(2)', ~Judge
      PROVE  /\ Step' = 4 => <<"two", A>> \in svc'.locks
             /\ Step' > 4 => /\ <<"two", B>> \notin svc'.orders
                            /\ \A job \in svc'.jobs : job.product # B
  <2>1. In(2) /\ Phase = 2
    <3>1. Phase' = Phase
      BY <1>5, ReadFacts, SendFacts, SettleFacts, SleepFacts, WorkInPhase
        DEF NextOrders, ScriptStep
    <3> QED BY <1>3, <1>5, <3>1 DEF In
  <2>2. CASE ReadStock
    <3>1. At("read") /\ Step' = Step + 1
      BY <2>2, ReadFacts
    <3> QED BY <2>1, <3>1, TwoSteps
  <2>3. CASE SettleStock
    <3>1. At("settle") /\ Step' = Step + 1 /\ svc' = svc
      BY <2>3, SettleFacts
    <3>2. Step \in {5, 6}
      BY <2>1, <3>1, TwoSteps
    <3> QED BY <1>2, <2>1, <3>1, <3>2
  <2>4. CASE SleepDelay
    BY <2>1, <2>4, SleepFacts, TwoSteps
  <2>5. CASE SendOrder
    <3>1. PICK u \in Names, p \in Product, q \in Nat \ {0} :
              /\ u = Instr.user /\ p = Instr.product /\ q = Instr.units
              /\ At("order") /\ Step' = Step + 1 /\ svc' = AfterOrder(u, p, q)
      BY <1>1, <2>5, SmoothSend
    <3>2. /\ u = "two" /\ q = 1
          /\ (Step = 3 /\ p = A) \/ (Step = 4 /\ p = B)
      BY <2>1, <3>1, TwoSteps, InstrFields
    <3>3. lockKey(u, p) = <<"two", A>>
      BY <1>1, <3>2 DEF lockKey
    <3>4. CASE Step = 3
      BY <3>1, <3>2, <3>3, <3>4, OrderMade, OneUnit, LockKeys
    <3>5. CASE Step = 4
      <4>1. Locked(u, p)
        BY <1>1, <1>2, <2>1, <3>3, <3>5 DEF Locked
      <4>2. svc' = svc
        BY <3>1, <4>1 DEF AfterOrder
      <4> QED BY <1>4, <2>1, <3>1, <3>5, <4>2
    <3> QED BY <3>2, <3>4, <3>5
  <2>6. CASE Work
    <3>1. Step' = Step
      BY <2>6, WorkInPhase
    <3>2. PICK job \in svc.jobs :
             /\ svc'.jobs = svc.jobs \ {job}
             /\ rig'.swift = (rig.swift \/ (At("order") /\ Instr.user = job.user
                                             /\ Instr.product # job.product))
             /\ svc'.orders \subseteq svc.orders \cup {<<job.user, job.product>>}
      BY <2>6, WorkFacts
    <3>3. CASE Step = 4
      <4>1. At("order") /\ Instr.user = "two" /\ Instr.product = B
        <5>1. Instr = Order("two", B, 1) /\ Step <= Len(Script[Phase])
          BY <2>1, <3>3, Instructions DEF Instr
        <5> QED BY <1>3, <5>1, InstrFields DEF At
      <4>2. job.user = "two" /\ job.product # B
        BY <1>4, <2>1, <3>3
      <4> QED BY <1>1, <3>2, <4>1, <4>2
    <3>4. CASE Step > 4
      BY <1>2, <2>1, <3>1, <3>2, <3>4
    <3> QED BY <3>1, <3>3, <3>4
  <2> QED BY <1>5, <2>2, <2>3, <2>4, <2>5, <2>6 DEF NextOrders, ScriptStep
<1>6. ASSUME In(2)', Judge PROVE Step' = 1
  BY <1>6, JudgeFacts
<1>7. ASSUME Judged(2)' PROVE fails' # {}
  <2>1. CASE Judged(2)
    BY <1>2, <1>3, <2>1
  <2>2. CASE Judge /\ Phase = 2
    <3>1. Counting /\ In(2) /\ Step = 7
      BY <1>3, <2>2, JudgeFacts, Instructions DEF Counting, In
    <3>2. Taken(B) = 0
      BY <1>2, <2>2, <3>1, ClientNames DEF Taken, Client
    <3>3. Known(B) => mem.before[B] - mem.after[B] = 0
      BY <1>1, <1>2, <2>2, <3>2, AtVerdict, Products
    <3>4. ~Consumed(B, 1)
      BY <3>3 DEF Consumed
    <3>5. "lock_blocks_other_product" \in JudgeB
      BY <3>4 DEF JudgeB
    <3> QED BY <2>2, <3>5, VerdictReported
  <2> QED BY <1>7, <2>1, <2>2, JudgedStep
<1> QED BY <1>5, <1>6, <1>7

(* A service that sells what the body asks for is found in phase C.         *)
LEMMA QuantityStep ==
    ASSUME OrderTypeOK, Newcomers, Waited, AllRead, QuantityFound, NextOrders
    PROVE  QuantityFound'
<1> DEFINE Gone == mem.before[B] - svc.stock[B]
<1>1. SUFFICES ASSUME Smooth', svc.defect = "quantity", ~svc.strict
               PROVE  /\ In(3)' /\ Step' > 1 =>
                            /\ mem'.before[B] - svc'.stock[B] \in {0, 5}
                            /\ \A job \in svc'.jobs :
                                  job.units = 5 /\ mem'.before[B] - svc'.stock[B] = 0
                            /\ Step' = 2 => /\ svc'.jobs = {}
                                            /\ mem'.before[B] - svc'.stock[B] = 0
                      /\ In(3)' /\ Step' > 2 => mem'.status = 202
                      /\ Judged(3)' => fails' # {}
  BY KeptFacts DEF QuantityFound
<1>2. /\ Smooth /\ ~rig.late
      /\ In(3) /\ Step > 1 =>
            /\ Gone \in {0, 5}
            /\ \A job \in svc.jobs : job.units = 5 /\ Gone = 0
            /\ Step = 2 => svc.jobs = {} /\ Gone = 0
      /\ In(3) /\ Step > 2 => mem.status = 202
      /\ Judged(3) => fails # {}
  BY <1>1, KeptFacts DEF QuantityFound, Smooth
<1>3. /\ pc = "phases" /\ fails \subseteq fails' /\ Step \in Nat
      /\ svc.stock \in [Product -> Int] /\ mem.before \in [Product -> Int \cup {Unknown}]
      /\ Unknown \notin Int
  BY KeptFacts, OrderFields
<1>4. ASSUME In(3), Step > 1 PROVE mem.before[B] \in Int
  <2>1. Counting /\ 1 \in 1..(Step - 1) /\ Script[Phase][1] = Read(B)
    BY <1>3, <1>4, Instructions DEF In, Counting
  <2>2. mem.before[B] # Unknown
    BY <1>2, <2>1, Products DEF AllRead
  <2> QED BY <1>3, <2>2, Products
<1>5. ASSUME In(3), Step \in {1, 2}
      PROVE  svc.jobs = {} /\ <<"quantity", B>> \notin svc.locks
  <2>1. Counting /\ Client = "quantity"
    BY <1>5, ClientNames DEF In, Counting, Client
  <2>2. \A q \in Product : ~Sent(q)
    <3>1. Script[3][1].do = "read"
      BY Instructions, InstrFields
    <3>2. \A n \in 1..(Step - 1) : n = 1
      BY <1>5
    <3> QED BY <1>5, <3>1, <3>2 DEF Sent, In
  <2> QED BY <1>2, <2>1, <2>2, BeforeOrders, Products
<1>6. ASSUME In(3)', Step' > 1
      PROVE  /\ mem'.before[B] - svc'.stock[B] \in {0, 5}
             /\ \A job \in svc'.jobs : job.units = 5 /\ mem'.before[B] - svc'.stock[B] = 0
             /\ Step' = 2 => svc'.jobs = {} /\ mem'.before[B] - svc'.stock[B] = 0
             /\ Step' > 2 => mem'.status = 202
  <2>1. ~Judge
    <3>1. CASE Judge
      BY <1>6, <3>1, JudgeFacts
    <3> QED BY <3>1
  <2>2. In(3) /\ Phase = 3
    <3>1. Phase' = Phase
      BY <2>1, ReadFacts, SendFacts, SettleFacts, SleepFacts, WorkInPhase
        DEF NextOrders, ScriptStep
    <3> QED BY <1>3, <1>6, <3>1 DEF In
  <2>3. CASE ReadStock
    <3>1. PICK p \in Product :
              /\ p = Instr.product /\ At("read") /\ UNCHANGED svc /\ Step' = Step + 1
              /\ mem'.before = [mem.before EXCEPT ![p] = svc.stock[p]]
      BY <1>1, <2>3, SmoothRead
    <3>2. Step = 1 /\ p = B
      BY <2>2, <3>1, QuantitySteps, InstrFields
    <3>3. svc.jobs = {}
      BY <1>5, <2>2, <3>2
    <3>4. mem'.before[B] = svc.stock[B]
      BY <1>3, <3>1, <3>2
    <3> QED BY <1>3, <3>1, <3>2, <3>3, <3>4
  <2>4. CASE SendOrder
    <3>1. PICK u \in Names, p \in Product, q \in Nat \ {0} :
              /\ u = Instr.user /\ p = Instr.product /\ q = Instr.units
              /\ At("order") /\ Step' = Step + 1 /\ svc' = AfterOrder(u, p, q)
              /\ mem'.before = mem.before /\ mem'.status = StatusOf(u, p, q)
      BY <1>1, <2>4, SmoothSend
    <3>2. Step = 2 /\ u = "quantity" /\ p = B /\ q = 5
      BY <2>2, <3>1, QuantitySteps, InstrFields
    <3>3. svc.jobs = {} /\ ~Locked(u, p)
      BY <1>1, <1>5, <2>2, <3>2, LockKeys
    <3>4. StatusOf(u, p, q) = 202
      BY <1>1, <3>3 DEF StatusOf
    <3>5. PICK job \in OrderJob : svc'.jobs = svc.jobs \cup {job} /\ job.units = q
      BY <1>1, <3>1, <3>3, <3>4, OrderMade
    <3>6. svc'.stock = svc.stock /\ Gone = 0
      BY <1>2, <2>2, <3>1, <3>2, OrderMade
    <3> QED BY <1>3, <3>1, <3>2, <3>3, <3>4, <3>5, <3>6
  <2>5. CASE SettleStock
    <3>1. At("settle") /\ Step' = Step + 1 /\ svc' = svc /\ mem'.before = mem.before
          /\ mem'.status = mem.status
      BY <2>5, SettleFacts
    <3>2. Step = 3
      BY <2>2, <3>1, QuantitySteps
    <3> QED BY <1>2, <2>2, <3>1, <3>2
  <2>6. CASE SleepDelay
    BY <2>2, <2>6, SleepFacts, QuantitySteps
  <2>7. CASE Work
    <3>1. Step' = Step /\ mem' = mem
      BY <2>7, WorkInPhase, WorkFacts
    <3>2. PICK job \in svc.jobs :
             /\ svc'.jobs = svc.jobs \ {job}
             /\ \/ svc'.stock[B] = svc.stock[B]
                \/ job.product = B /\ svc'.stock[B] = svc.stock[B] - job.units
      BY <2>7, WorkFacts, Products
    <3>3. Step > 2 /\ job.units = 5 /\ Gone = 0
      BY <1>2, <1>3, <1>6, <2>2, <3>1, <3>2
    <3>4. \A other \in svc.jobs : other = job
      <4>1. Counting
        BY <2>2 DEF In, Counting
      <4>2. ASSUME NEW other \in svc.jobs
            PROVE  /\ Ahead(other.product)
                   /\ \A one \in svc.jobs : one.product = other.product => one = other
        BY <1>2, <2>2, <4>1 DEF Waited
      <4>3. \A p : Ahead(p) => p = B
        BY <1>3, <2>2, PhaseFacts
      <4> QED BY <3>2, <4>2, <4>3
    <3>5. svc'.jobs = {}
      BY <3>2, <3>4
    <3>6. mem.before[B] \in Int /\ svc.stock[B] \in Int
      BY <1>3, <1>4, <2>2, <3>3, Products
    <3>7. mem'.before[B] - svc'.stock[B] \in {0, 5}
      BY <3>1, <3>2, <3>3, <3>6
    <3> QED BY <1>2, <2>2, <3>1, <3>3, <3>5, <3>7
  <2> QED BY <2>1, <2>3, <2>4, <2>5, <2>6, <2>7 DEF NextOrders, ScriptStep
<1>7. ASSUME Judged(3)' PROVE fails' # {}
  <2>1. CASE Judged(3)
    BY <1>2, <1>3, <2>1
  <2>2. CASE Judge /\ Phase = 3
    <3>1. Counting /\ In(3) /\ Step = 4
      BY <1>3, <2>2, JudgeFacts, Instructions DEF Counting, In
    <3>2. Known(B)
      <4>1. 1 \in 1..(Step - 1) /\ 3 \in 1..(Step - 1)
        BY <3>1
      <4>2. Script[Phase][1] = Read(B) /\ Script[Phase][3] = Settle(B)
        BY <2>2, Instructions
      <4> QED BY <1>2, <3>1, <4>1, <4>2, Products DEF AllRead, Known
    <3>3. mem.after[B] = svc.stock[B]
      BY <1>2, <2>2, <3>1, <3>2, NothingAhead, Products DEF Waited, Known
    <3>4. mem.before[B] \in Int /\ mem.after[B] \in Int
      BY <1>3, <1>4, <3>1, <3>3, Products
    <3>5. mem.status = 202 /\ mem.before[B] - mem.after[B] \in {0, 5}
      BY <1>2, <3>1, <3>3
    <3>6. "write_lost" \in JudgeC \/ "quantity_field_honoured" \in JudgeC
      BY <3>2, <3>4, <3>5 DEF JudgeC, Consumed, MoreThanOne
    <3> QED BY <2>2, <3>6, VerdictReported
  <2> QED BY <1>7, <2>1, <2>2, JudgedStep
<1>8. In(3)' /\ Step' > 2 => Step' > 1
  <2>1. Step' \in Nat
    BY OrderTypeStep, OrderFields DEF OrderTypeOK, OrderMemory, Step
  <2> QED BY <2>1
<1> QED BY <1>6, <1>7, <1>8

(* A service that sells a user a second unit is found in phase D, unless    *)
(* there is none left to sell.                                              *)
LEMMA NoUniqueStep ==
    ASSUME OrderTypeOK, Guarded, Newcomers, Waited, Counted, AllRead, LocksHeld, NoUniqueFound,
           NextOrders
    PROVE  NoUniqueFound'
<1> DEFINE Gone == mem.before[A] - svc.stock[A]
           Idle == svc.jobs = {}
<1>1. SUFFICES ASSUME Smooth', svc.defect = "noUnique"
               PROVE  /\ In(4)' /\ Step' > 1 =>
                            /\ \/ svc'.stock[A] = 0
                               \/ svc'.jobs = {} /\ mem'.before[A] - svc'.stock[A] = Due'
                               \/ svc'.jobs # {} /\ mem'.before[A] - svc'.stock[A] = Due' - 1
                            /\ \A job, other \in svc'.jobs : job = other
                            /\ Step' \in {2, 4, 5} => svc'.jobs = {}
                            /\ Step' = 5 => svc'.locks = {}
                      /\ Judged(4)' => fails' # {} \/ svc'.stock[A] = 0
  BY KeptFacts DEF NoUniqueFound
<1>2. /\ Smooth /\ ~rig.late
      /\ In(4) /\ Step > 1 =>
            /\ svc.stock[A] = 0 \/ (Idle /\ Gone = Due) \/ (~Idle /\ Gone = Due - 1)
            /\ \A job, other \in svc.jobs : job = other
            /\ Step \in {2, 4, 5} => Idle
            /\ Step = 5 => svc.locks = {}
      /\ Judged(4) => fails # {} \/ svc.stock[A] = 0
  BY <1>1, KeptFacts DEF NoUniqueFound, Smooth
<1>3. /\ pc = "phases" /\ fails \subseteq fails' /\ Step \in Nat /\ Phase \in 1..5
      /\ svc.stock \in [Product -> Int] /\ mem.before \in [Product -> Int \cup {Unknown}]
      /\ Unknown \notin Int /\ svc.stock[A] \in Int
  BY KeptFacts, OrderFields, Products
<1>4. ASSUME In(4), Step > 1 PROVE mem.before[A] \in Int
  <2>1. Counting /\ 1 \in 1..(Step - 1) /\ Script[Phase][1] = Read(A)
    BY <1>3, <1>4, Instructions DEF In, Counting
  <2>2. mem.before[A] # Unknown
    BY <1>2, <2>1, Products DEF AllRead
  <2> QED BY <1>3, <2>2, Products
<1>5. ASSUME In(4), Step \in {1, 2}
      PROVE  Idle /\ <<"delayed", A>> \notin svc.locks
  <2>1. Counting /\ Client = "delayed"
    BY <1>5, ClientNames DEF In, Counting, Client
  <2>2. \A q \in Product : ~Sent(q)
    <3>1. Script[4][1].do = "read"
      BY Instructions, InstrFields
    <3>2. \A n \in 1..(Step - 1) : n = 1
      BY <1>5
    <3> QED BY <1>5, <3>1, <3>2 DEF Sent, In
  <2> QED BY <1>2, <2>1, <2>2, BeforeOrders, Products
<1>6. ASSUME In(4), NEW job \in svc.jobs PROVE job.product = A /\ job.units = 1
  <2>1. Counting /\ Phase = 4
    BY <1>6 DEF In, Counting
  <2>2. Ahead(job.product) /\ job.units = 1
    BY <1>2, <2>1 DEF Waited
  <2>3. PICK n \in 1..6 : Script[4][n] = Settle(job.product)
    <3>1. Step \in 1..(Len(Script[4]) + 1)
      BY <1>3, <2>1 DEF OrderTypeOK
    <3> QED BY <2>1, <2>2, <3>1, Instructions DEF Ahead
  <2>4. n \in {3, 6}
    BY <2>3, Instructions, InstrFields
  <2>5. Settle(A).product = Settle(job.product).product
    BY <2>3, <2>4, Instructions
  <2> QED BY <2>2, <2>5, InstrFields
<1>7. ASSUME In(4)', Step' > 1
      PROVE  /\ \/ svc'.stock[A] = 0
                \/ svc'.jobs = {} /\ mem'.before[A] - svc'.stock[A] = Due'
                \/ svc'.jobs # {} /\ mem'.before[A] - svc'.stock[A] = Due' - 1
             /\ \A job, other \in svc'.jobs : job = other
             /\ Step' \in {2, 4, 5} => svc'.jobs = {}
             /\ Step' = 5 => svc'.locks = {}
  <2>1. ~Judge
    <3>1. CASE Judge
      BY <1>7, <3>1, JudgeFacts
    <3> QED BY <3>1
  <2>2. In(4) /\ Phase = 4
    <3>1. Phase' = Phase
      BY <2>1, ReadFacts, SendFacts, SettleFacts, SleepFacts, WorkInPhase
        DEF NextOrders, ScriptStep
    <3> QED BY <1>3, <1>7, <3>1 DEF In
  <2>3. /\ Due = IF Step < 3 THEN 0 ELSE IF Step < 6 THEN 1 ELSE 2
        /\ Due' = IF Step' < 3 THEN 0 ELSE IF Step' < 6 THEN 1 ELSE 2
    BY DEF Due
  <2>4. CASE ReadStock
    <3>1. PICK p \in Product :
              /\ p = Instr.product /\ At("read") /\ UNCHANGED svc /\ Step' = Step + 1
              /\ mem'.before = [mem.before EXCEPT ![p] = svc.stock[p]]
      BY <1>1, <2>4, SmoothRead
    <3>2. Step = 1 /\ p = A
      BY <2>2, <3>1, DelayedSteps, InstrFields
    <3>3. svc.jobs = {}
      BY <1>5, <2>2, <3>2
    <3>4. mem'.before[A] = svc.stock[A]
      BY <1>3, <3>1, <3>2
    <3> QED BY <1>3, <2>3, <3>1, <3>2, <3>3, <3>4
  <2>5. CASE SendOrder
    <3>1. PICK u \in Names, p \in Product, q \in Nat \ {0} :
              /\ u = Instr.user /\ p = Instr.product /\ q = Instr.units
              /\ At("order") /\ Step' = Step + 1 /\ svc' = AfterOrder(u, p, q)
              /\ mem'.before = mem.before
      BY <1>1, <2>5, SmoothSend
    <3>2. Step \in {2, 5} /\ u = "delayed" /\ p = A /\ q = 1
      BY <2>2, <3>1, DelayedSteps, InstrFields
    <3>3. Idle /\ ~Locked(u, p)
      <4>1. <<"delayed", A>> \notin svc.locks
        BY <1>2, <1>5, <2>2, <3>2
      <4> QED BY <1>2, <2>2, <3>2, <4>1, LockKeys
    <3>4. StatusOf(u, p, q) = 202
      BY <3>2, <3>3, OneUnit
    <3>5. PICK job \in OrderJob : svc'.jobs = svc.jobs \cup {job}
      BY <1>1, <3>1, <3>3, <3>4, OrderMade
    <3>6. svc'.stock = svc.stock /\ (svc.stock[A] = 0 \/ Gone = Due)
      BY <1>2, <2>2, <3>1, <3>2, <3>3, OrderMade
    <3>7. Due' - 1 = Due
      BY <2>3, <3>1, <3>2
    <3> HIDE DEF Idle
    <3>8. svc'.jobs = {job}
      BY <3>3, <3>5 DEF Idle
    <3> QED BY <3>1, <3>2, <3>6, <3>7, <3>8
  <2>6. CASE SettleStock
    <3>1. PICK p \in Product :
              /\ Instr = Settle(p) /\ At("settle") /\ Step' = Step + 1 /\ UNCHANGED svc
              /\ ~Pending(p) /\ mem'.before = mem.before
      BY <1>1, <2>6, SmoothSettle
    <3>2. Step \in {3, 6} /\ p = A
      <4>1. Step \in {3, 6} /\ Instr = Settle(A)
        BY <2>2, <3>1, DelayedSteps
      <4>2. Settle(p).product = p /\ Settle(A).product = A
        BY InstrFields
      <4> QED BY <3>1, <4>1, <4>2
    <3>3. Idle
      BY <1>6, <2>2, <3>1, <3>2 DEF Pending
    <3>4. Due' = Due
      BY <2>3, <3>1, <3>2
    <3> QED BY <1>2, <2>2, <3>1, <3>2, <3>3, <3>4
  <2>7. CASE SleepDelay
    <3>1. At("sleep") /\ Step' = Step + 1 /\ mem'.before = mem.before
          /\ svc' = [svc EXCEPT !.locks = {}]
      BY <2>7, SleepFacts
    <3>2. svc'.jobs = svc.jobs /\ svc'.stock = svc.stock /\ svc'.locks = {}
      BY <3>1 DEF OrderTypeOK, OrderService
    <3>3. Step = 4
      BY <2>2, <3>1, DelayedSteps
    <3>4. Due' = Due
      BY <2>3, <3>1, <3>3
    <3> QED BY <1>2, <2>2, <3>1, <3>2, <3>3, <3>4
  <2>8. CASE Work
    <3>1. Step' = Step /\ mem' = mem /\ Due' = Due
      BY <2>8, WorkInPhase, WorkFacts DEF Due
    <3>2. PICK job \in svc.jobs :
             LET sells == svc.stock[job.product] >= job.units IN
             /\ svc'.jobs = svc.jobs \ {job}
             /\ \A p \in Product : svc'.stock[p] =
                   IF sells /\ p = job.product THEN svc.stock[p] - job.units ELSE svc.stock[p]
      BY <1>1, <2>8, WorkFacts
    <3>3. job.product = A /\ job.units = 1
      BY <1>6, <2>2
    <3>4. svc'.stock[A] = IF svc.stock[A] >= 1 THEN svc.stock[A] - 1 ELSE svc.stock[A]
      BY <3>2, <3>3, Products
    <3>5. svc'.jobs = {}
      BY <1>2, <1>7, <2>2, <3>1, <3>2
    <3>6. svc.stock[A] >= 0
      BY <1>1, Products DEF Guarded
    <3>7. svc.stock[A] = 0 \/ Gone = Due - 1
      BY <1>2, <1>7, <2>2, <3>1, <3>2
    <3>8. Step \notin {2, 4, 5}
      BY <1>2, <1>7, <2>2, <3>1, <3>2
    <3>9. mem.before[A] \in Int /\ Due \in Int
      BY <1>4, <1>7, <2>2, <2>3, <3>1
    <3> HIDE DEF Idle
    <3> QED BY <1>3, <3>1, <3>4, <3>5, <3>6, <3>7, <3>8, <3>9
  <2> QED BY <2>1, <2>4, <2>5, <2>6, <2>7, <2>8 DEF NextOrders, ScriptStep
<1>8. ASSUME Judged(4)' PROVE fails' # {} \/ svc'.stock[A] = 0
  <2>1. CASE Judged(4)
    <3>1. CASE fails # {}
      BY <1>3, <3>1
    <3>2. CASE svc.stock[A] = 0
      <4>1. In(5)
        BY <1>3, <2>1 DEF Judged, In
      <4>2. CASE svc' = svc \/ svc' = [svc EXCEPT !.locks = {}]
        BY <3>2, <4>2 DEF OrderTypeOK, OrderService
      <4>3. CASE SendOrder
        BY <3>2, <4>3, SendFacts, OrderMade
      <4>4. CASE Work
        <5>1. PICK job \in svc.jobs : \A p \in Product :
                 p # job.product => svc'.stock[p] = svc.stock[p]
          BY <4>4, WorkFacts
        <5>2. job.product = R
          BY <1>2, <4>1 DEF LocksHeld
        <5> QED BY <3>2, <5>1, <5>2, Products
      <4> QED BY <4>2, <4>3, <4>4, ReadFacts, SettleFacts, SleepFacts, JudgeFacts
            DEF NextOrders, ScriptStep
    <3> QED BY <1>2, <2>1, <3>1, <3>2
  <2>2. CASE Judge /\ Phase = 4
    <3>1. Counting /\ In(4) /\ Step = 7 /\ svc' = svc
      BY <1>3, <2>2, JudgeFacts, Instructions DEF Counting, In
    <3>2. Known(A)
      <4>1. 1 \in 1..(Step - 1) /\ 6 \in 1..(Step - 1)
        BY <3>1
      <4>2. Script[Phase][1] = Read(A) /\ Script[Phase][6] = Settle(A)
        BY <2>2, Instructions
      <4> QED BY <1>2, <3>1, <4>1, <4>2, Products DEF AllRead, Known
    <3>3. mem.after[A] = svc.stock[A]
      BY <1>2, <2>2, <3>1, <3>2, NothingAhead, Products DEF Waited, Known
    <3>4. Idle
      BY <1>2, <2>2, AtVerdict
    <3>5. svc.stock[A] = 0 \/ mem.before[A] - mem.after[A] = 2
      BY <1>2, <3>1, <3>3, <3>4 DEF Due
    <3>6. svc.stock[A] = 0 \/ "delayed_duplicate_accepted" \in JudgeD
      BY <3>2, <3>5 DEF JudgeD, MoreThanOne
    <3> QED BY <2>2, <3>1, <3>6, VerdictReported
  <2> QED BY <1>8, <2>1, <2>2, JudgedStep
<1> HIDE DEF Idle
<1> QED BY <1>7, <1>8

(* Everyone of a crowd with an order of the rush has one of their own.      *)
LEMMA CrowdOrders ==
    ASSUME NEW Users, NEW Orders, IsFiniteSet(Orders), \A u \in Users : <<u, R>> \in Orders
    PROVE  IsFiniteSet(Users) /\ Cardinality(Users) <= Cardinality(Orders)
<1> DEFINE order == [u \in Users |-> <<u, R>>]
<1>1. order \in Injection(Users, Orders)
  <2>1. order \in [Users -> Orders]
    OBVIOUS
  <2>2. \A u, v \in Users : order[u] = order[v] => u = v
    OBVIOUS
  <2> HIDE DEF order
  <2> QED BY <2>1, <2>2 DEF Injection, IsInjective
<1> HIDE DEF order
<1> QED BY <1>1, FS_Injection

(* A service without the guard is found in the rush, when the rush has more *)
(* users than units.                                                        *)
LEMMA NoGuardStep ==
    ASSUME OrderTypeOK, LocksHeld, NoGuardFound, NextOrders
    PROVE  NoGuardFound'
<1>1. SUFFICES ASSUME svc.defect = "noGuard"
               PROVE  /\ IsFiniteSet(RushOrders')
                      /\ svc'.stock[R] + Cardinality(RushOrders') = RushUnits
                      /\ \A job \in svc'.jobs : job.units = 1
                      /\ Smooth' /\ In(5)' => \A n \in 1..(Step' - 1), user \in Names :
                            Script[5][n] = Order(user, R, 1) =>
                               \/ <<user, R>> \in svc'.orders
                               \/ \E job \in svc'.jobs : job.user = user /\ job.product = R
                      /\ Smooth' /\ (pc' = "done" \/ (In(5)' /\ Step' > Len(Script[5]))) =>
                            fails' # {} \/ Cardinality(Crowd) <= RushUnits
  BY KeptFacts DEF NoGuardFound
<1>2. /\ IsFiniteSet(RushOrders) /\ svc.stock[R] + Cardinality(RushOrders) = RushUnits
      /\ \A job \in svc.jobs : job.units = 1
      /\ Smooth /\ In(5) => \A n \in 1..(Step - 1), user \in Names :
            Script[5][n] = Order(user, R, 1) =>
               \/ <<user, R>> \in svc.orders
               \/ \E job \in svc.jobs : job.user = user /\ job.product = R
      /\ Smooth /\ (pc = "done" \/ (In(5) /\ Step > Len(Script[5]))) =>
            fails # {} \/ Cardinality(Crowd) <= RushUnits
  BY <1>1 DEF NoGuardFound
<1>3. /\ pc = "phases" /\ fails \subseteq fails' /\ Step \in Nat /\ Phase \in 1..5
      /\ (Smooth' => Smooth) /\ svc.stock \in [Product -> Int] /\ svc.stock[R] \in Int
      /\ RushUnits \in Nat /\ Cardinality(RushOrders) \in Nat
      /\ svc.orders \subseteq Names \X Product
  BY <1>2, KeptFacts, OrderFields, Products, OrdersAssumption, FS_CardinalityType
<1>4. Len(Script[5]) \in Nat /\ Len(Script[5]) >= 2
  BY RushScript
<1>5. CASE Work
  <2>1. PICK job \in svc.jobs :
           LET key == <<job.user, job.product>>
               sells == key \notin svc.orders
           IN
           /\ svc'.jobs = svc.jobs \ {job}
           /\ svc'.orders = IF sells THEN svc.orders \cup {key} ELSE svc.orders
           /\ \A p \in Product : svc'.stock[p] =
                 IF sells /\ p = job.product THEN svc.stock[p] - job.units ELSE svc.stock[p]
    BY <1>1, <1>5, WorkFacts
  <2>2. job.units = 1 /\ job.user \in Names /\ job.product \in Product
    BY <1>2, OrderFields DEF OrderJob
  <2>3. UNCHANGED <<pc, mem, fails>> /\ Phase' = Phase /\ Step' = Step /\ In(5)' = In(5)
    BY <1>5, WorkFacts, WorkInPhase DEF In
  <2> DEFINE key == <<job.user, job.product>>
  <2>4. IsFiniteSet(RushOrders') /\ svc'.stock[R] + Cardinality(RushOrders') = RushUnits
    <3>1. CASE key \in svc.orders \/ job.product # R
      <4>1. RushOrders' = RushOrders /\ svc'.stock[R] = svc.stock[R]
        BY <2>1, <3>1, Products DEF RushOrders
      <4> QED BY <1>2, <4>1
    <3>2. CASE key \notin svc.orders /\ job.product = R
      <4>1. RushOrders' = RushOrders \cup {key} /\ key \notin RushOrders
        BY <2>1, <3>2 DEF RushOrders
      <4>2. svc'.stock[R] = svc.stock[R] - 1
        BY <2>1, <2>2, <3>2, Products
      <4> HIDE DEF key
      <4>3. /\ IsFiniteSet(RushOrders \cup {key})
            /\ Cardinality(RushOrders \cup {key}) = Cardinality(RushOrders) + 1
        BY <1>2, <4>1, FS_AddElement
      <4> QED BY <1>2, <1>3, <4>1, <4>2, <4>3
    <3> QED BY <3>1, <3>2
  <2>5. key \in svc'.orders /\ svc.orders \subseteq svc'.orders
    BY <2>1
  <2>6. ASSUME Smooth', In(5)', NEW n \in 1..(Step' - 1), NEW user \in Names,
               Script[5][n] = Order(user, R, 1)
        PROVE  \/ <<user, R>> \in svc'.orders
               \/ \E j \in svc'.jobs : j.user = user /\ j.product = R
    <3>1. \/ <<user, R>> \in svc.orders
          \/ \E j \in svc.jobs : j.user = user /\ j.product = R
      BY <1>2, <1>3, <2>3, <2>6
    <3> QED BY <2>1, <2>5, <3>1
  <2>7. \A j \in svc'.jobs : j.units = 1
    BY <1>2, <2>1
  <2>8. ASSUME Smooth', pc' = "done" \/ (In(5)' /\ Step' > Len(Script[5]))
        PROVE  fails' # {} \/ Cardinality(Crowd) <= RushUnits
    BY <1>2, <1>3, <2>3, <2>8
  <2> QED BY <2>4, <2>6, <2>7, <2>8
<1>6. CASE Judge
  <2>1. /\ UNCHANGED svc /\ Phase' = Phase + 1 /\ Step' = 1 /\ Step = Len(Script[Phase]) + 1
        /\ pc' = IF Phase = 5 THEN "done" ELSE "phases"
    BY <1>6, JudgeFacts
  <2>2. RushOrders' = RushOrders
    BY <2>1 DEF RushOrders
  <2>3. ASSUME Smooth', pc' = "done" \/ (In(5)' /\ Step' > Len(Script[5]))
        PROVE  fails' # {} \/ Cardinality(Crowd) <= RushUnits
    <3>1. Phase = 5
      BY <1>3, <1>4, <2>1, <2>3
    <3>2. In(5) /\ Step > Len(Script[5]) /\ Smooth
      BY <1>3, <1>4, <2>1, <2>3, <3>1 DEF In
    <3> QED BY <1>2, <1>3, <3>2
  <2> QED BY <1>2, <2>1, <2>2, <2>3
<1>7. ASSUME ~Judge, ~Work
      PROVE  /\ pc' = pc /\ Phase' = Phase /\ Step' = Step + 1
             /\ svc'.orders = svc.orders /\ svc'.stock = svc.stock /\ svc.jobs \subseteq svc'.jobs
             /\ \A job \in svc'.jobs : job.units = 1
  <2>1. CASE SendOrder
    <3>1. PICK u \in Names, p \in Product, q \in Nat \ {0} :
             /\ UNCHANGED pc /\ Phase' = Phase /\ Step' = Step + 1
             /\ svc' = AfterOrder(u, p, q) \/ UNCHANGED svc
      BY <2>1, SendFacts
    <3> QED BY <1>1, <1>2, <3>1, OrderMade
  <2>2. CASE ReadStock \/ SettleStock \/ SleepDelay
    <3>1. /\ UNCHANGED pc /\ Phase' = Phase /\ Step' = Step + 1
          /\ svc' = svc \/ svc' = [svc EXCEPT !.locks = {}]
      BY <2>2, ReadFacts, SettleFacts, SleepFacts
    <3>2. svc'.orders = svc.orders /\ svc'.stock = svc.stock /\ svc'.jobs = svc.jobs
      BY <3>1 DEF OrderTypeOK, OrderService
    <3> QED BY <1>2, <3>1, <3>2
  <2> QED BY <1>7, <2>1, <2>2 DEF NextOrders, ScriptStep
<1>8. ASSUME ~Judge, ~Work, Smooth', In(5)', NEW n \in 1..(Step' - 1), NEW user \in Names,
             Script[5][n] = Order(user, R, 1)
      PROVE  \/ <<user, R>> \in svc'.orders
             \/ \E job \in svc'.jobs : job.user = user /\ job.product = R
  <2>1. In(5) /\ Phase = 5 /\ Step' = Step + 1
    BY <1>3, <1>7, <1>8 DEF In
  <2>2. CASE n \in 1..(Step - 1)
    <3>1. \/ <<user, R>> \in svc.orders
          \/ \E job \in svc.jobs : job.user = user /\ job.product = R
      BY <1>2, <1>3, <1>8, <2>1, <2>2
    <3> QED BY <1>7, <1>8, <3>1
  <2>3. CASE n = Step
    <3>1. Instr = Order(user, R, 1)
      BY <1>8, <2>1, <2>3 DEF Instr
    <3>2. Instr.do = "order" /\ Instr.user = user /\ Instr.product = R /\ Instr.units = 1
      BY <3>1, InstrFields
    <3>3. ~At("read") /\ ~At("settle") /\ ~At("sleep")
      BY <3>2 DEF At
    <3>4. SendOrder
      BY <1>8, <3>3 DEF NextOrders, ScriptStep, ReadStock, SettleStock, SleepDelay
    <3>5. svc' = AfterOrder(user, R, 1)
      BY <1>8, <3>2, <3>4, SmoothSend
    <3>6. CASE Locked(user, R)
      <4>1. \A u, p : lockKey(u, p) = <<u, p>>
        BY <1>1, LockKeys
      <4>2. <<user, R>> \in svc.locks
        BY <3>6, <4>1, LockKeys
      <4>3. PICK job \in svc.jobs : lockKey(job.user, job.product) = <<user, R>>
        BY <1>1, <4>2 DEF LocksHeld
      <4>4. job.user = user /\ job.product = R
        BY <4>1, <4>3
      <4> QED BY <1>7, <1>8, <4>4
    <3>7. CASE ~Locked(user, R)
      <4>1. StatusOf(user, R, 1) = 202
        BY <3>7, OneUnit
      <4>2. \E job \in OrderJob :
               svc'.jobs = svc.jobs \cup {job} /\ job.user = user /\ job.product = R
        BY <1>1, <3>5, <3>7, <4>1, OrderMade, Products
      <4> QED BY <4>2
    <3> QED BY <3>6, <3>7
  <2> QED BY <1>3, <2>1, <2>2, <2>3
<1>9. ASSUME ~Judge, ~Work, Smooth', pc' = "done" \/ (In(5)' /\ Step' > Len(Script[5]))
      PROVE  fails' # {} \/ Cardinality(Crowd) <= RushUnits
  <2>1. /\ In(5) /\ Phase = 5 /\ Step' = Step + 1 /\ pc = "phases"
    BY <1>3, <1>7, <1>9 DEF In
  <2>2. Step = Len(Script[5])
    <3>1. Step <= Len(Script[5])
      <4>1. PICK do : At(do)
        BY <1>9 DEF NextOrders, ScriptStep, ReadStock, SendOrder, SettleStock, SleepDelay
      <4> QED BY <2>1, <4>1 DEF At
    <3>2. pc' # "done"
      BY <1>3, <1>7, <1>9
    <3> QED BY <1>3, <1>4, <1>9, <2>1, <3>1, <3>2
  <2>3. Instr = Settle(R) /\ Instr.do = "settle"
    BY <2>1, <2>2, RushScript, InstrFields DEF Instr
  <2>4. ~At("read") /\ ~At("order") /\ ~At("sleep")
    BY <2>3 DEF At
  <2>5. SettleStock
    BY <1>9, <2>4 DEF NextOrders, ScriptStep, ReadStock, SendOrder, SleepDelay
  <2>6. ~Pending(R) /\ NegativeStock(R)
    <3>1. PICK p \in Product : p = Instr.product /\ ~Pending(p) /\ NegativeStock(p)
      BY <1>9, <2>5, SmoothSettle
    <3>2. p = R
      BY <2>3, <3>1, InstrFields
    <3> QED BY <3>1, <3>2
  <2>7. \A u \in Crowd : <<u, R>> \in RushOrders
    <3>1. SUFFICES ASSUME NEW n \in DOMAIN RushUsers PROVE <<RushUsers[n], R>> \in RushOrders
      BY DEF Crowd
    <3>2. n \in 1..Len(RushUsers) /\ RushUsers[n] \in Names
      BY OrdersAssumption DEF Names
    <3>3. n + 1 \in 1..(Step - 1) /\ Script[5][n + 1] = Order(RushUsers[n], R, 1)
      BY <2>2, <3>2, RushScript
    <3>4. <<RushUsers[n], R>> \in svc.orders
      BY <1>2, <1>3, <1>9, <2>1, <2>6, <3>2, <3>3 DEF Pending
    <3> QED BY <3>4 DEF RushOrders
  <2>8. Cardinality(Crowd) \in Nat /\ Cardinality(Crowd) <= Cardinality(RushOrders)
    BY <1>2, <2>7, CrowdOrders, FS_CardinalityType
  <2>9. CASE svc.stock[R] >= 0
    BY <1>2, <1>3, <2>8, <2>9
  <2>10. CASE svc.stock[R] < 0
    <3>1. "stock_negative" \in fails'
      BY <2>6, <2>10 DEF NegativeStock, Report
    <3> QED BY <3>1
  <2> QED BY <1>3, <2>9, <2>10
<1>10. ASSUME ~Judge, ~Work
       PROVE  IsFiniteSet(RushOrders') /\ svc'.stock[R] + Cardinality(RushOrders') = RushUnits
  <2>1. RushOrders' = RushOrders
    BY <1>7, <1>10 DEF RushOrders
  <2> QED BY <1>2, <1>7, <1>10, <2>1
<1> QED BY <1>5, <1>6, <1>7, <1>8, <1>9, <1>10

(* One step of the order probes keeps what is found found.                  *)
LEMMA FoundStep ==
    ASSUME OrderTypeOK, Guarded, Newcomers, BurstIds, Waited, Counted, Found, NextOrders
    PROVE  Found'
<1>1. /\ AllRead /\ LocksHeld /\ NoLockFound /\ LosesFound /\ UserLockFound /\ QuantityFound
      /\ NoUniqueFound /\ NoGuardFound
  BY DEF Found
<1>2. AllRead' /\ LocksHeld'
  BY <1>1, AllReadStep, LocksHeldStep
<1>3. NoLockFound' /\ LosesFound' /\ UserLockFound'
  BY <1>1, NoLockStep, LosesStep, UserLockStep
<1>4. QuantityFound' /\ NoUniqueFound' /\ NoGuardFound'
  BY <1>1, QuantityStep, NoUniqueStep, NoGuardStep
<1> QED BY <1>2, <1>3, <1>4 DEF Found

(* A run that ended without a flag had an excuse.                           *)
LEMMA FoundMeansAccused ==
    ASSUME OrderTypeOK, Found
    PROVE  GuiltyIsAccused
<1>1. SUFFICES ASSUME pc = "done", svc.defect # "none", fails = {}, rig.lost = 0, ~rig.late
               PROVE  \/ svc.defect = "noGuard" /\ Cardinality(Crowd) <= RushUnits
                      \/ svc.defect = "quantity" /\ svc.strict
                      \/ svc.defect = "userLock" /\ rig.swift
                      \/ svc.defect = "noUnique" /\ svc.stock[A] = 0
  <2>1. rig.lost > 0 \/ rig.lost = 0
    BY OrderFields
  <2> QED BY <2>1 DEF GuiltyIsAccused
<1>2. Smooth /\ \A phase : Judged(phase)
  BY <1>1 DEF Smooth, Judged
<1>3. svc.defect \in {"userLock", "noLock", "quantity", "noUnique", "loses", "noGuard"}
  BY <1>1, OrderFields DEF BrokenRules
<1>4. svc.defect \notin {"noLock", "loses"}
  BY <1>1, <1>2 DEF Found, NoLockFound, LosesFound
<1>5. svc.defect = "userLock" => rig.swift
  BY <1>1, <1>2 DEF Found, UserLockFound
<1>6. svc.defect = "quantity" => svc.strict
  BY <1>1, <1>2 DEF Found, QuantityFound
<1>7. svc.defect = "noUnique" => svc.stock[A] = 0
  BY <1>1, <1>2 DEF Found, NoUniqueFound
<1>8. svc.defect = "noGuard" => Cardinality(Crowd) <= RushUnits
  BY <1>1, <1>2 DEF Found, NoGuardFound
<1> QED BY <1>3, <1>4, <1>5, <1>6, <1>7, <1>8

(* A stutter changes nothing of it.                                         *)
LEMMA FoundStutter ==
    ASSUME Found, UNCHANGED vars
    PROVE  Found'
<1>1. /\ Counting' = Counting /\ Phase' = Phase /\ Step' = Step /\ Smooth' = Smooth
      /\ \A phase : In(phase)' = In(phase) /\ Judged(phase)' = Judged(phase)
      /\ Due' = Due /\ RushOrders' = RushOrders /\ \A u, p : lockKey(u, p)' = lockKey(u, p)
  BY DEF vars, Counting, Phase, Step, Smooth, In, Judged, Due, RushOrders, lockKey
<1>2. AllRead' = AllRead /\ LocksHeld' = LocksHeld
  BY <1>1 DEF vars, AllRead, LocksHeld
<1>3. NoLockFound' = NoLockFound /\ LosesFound' = LosesFound
  BY <1>1 DEF vars, NoLockFound, LosesFound
<1>4. UserLockFound' = UserLockFound /\ QuantityFound' = QuantityFound
  BY <1>1 DEF vars, UserLockFound, QuantityFound
<1>5. NoUniqueFound' = NoUniqueFound
  BY <1>1 DEF vars, NoUniqueFound
<1>6. NoGuardFound' = NoGuardFound
  BY <1>1 DEF vars, NoGuardFound
<1> QED BY <1>2, <1>3, <1>4, <1>5, <1>6 DEF Found

\* -------------------------------------------------------------- the invariant

(* The probes start with nothing ordered and nothing read.                  *)
LEMMA OrderInit ==
    ASSUME InitOrders
    PROVE  OrderInv
<1> DEFINE unread == [p \in Product |-> Unknown]
           none == <<>>
           at == <<1, 1>>
<1>1. PICK defect \in BrokenRules, refuses \in BOOLEAN, strict \in BOOLEAN, a \in Spares, b \in Spares :
          /\ a >= b /\ b >= MinSpare
          /\ svc = [defect |-> defect, refuses |-> refuses, strict |-> strict,
                    stock |-> [p \in Product |-> CASE p = A -> a [] p = B -> b [] p = R -> RushUnits],
                    orders |-> {}, locks |-> {}, jobs |-> {}, made |-> 0]
  BY DEF InitOrders
<1>2. /\ pc = "phases" /\ fails = {} /\ rig = [lost |-> 0, late |-> FALSE, swift |-> FALSE]
      /\ mem = [script |-> "orders", at |-> at, before |-> unread, after |-> unread,
                ids |-> none, status |-> 0]
  BY DEF InitOrders
<1> DEFINE stock == [p \in Product |-> CASE p = A -> a [] p = B -> b [] p = R -> RushUnits]
<1>3. /\ a \in Int /\ b \in Int /\ RushUnits \in Nat /\ a >= 3 /\ b >= 3
      /\ Unknown \notin Int
  BY <1>1, OrdersAssumption DEF MinSpare
<1>4. stock \in [Product -> Int] /\ stock[A] = a /\ stock[B] = b /\ stock[R] = RushUnits
  BY <1>3, Products DEF Product
<1>5. /\ unread \in [Product -> Int \cup {Unknown}] /\ none \in Seq(Ids \cup {Unknown})
      /\ at \in Nat \X Nat /\ at[1] = 1 /\ at[2] = 1
      /\ \A p \in Product : unread[p] = Unknown
  OBVIOUS
<1>6. none = <<>>
  OBVIOUS
<1> HIDE DEF unread, none, at, stock
<1>7. /\ svc.defect = defect /\ svc.stock = stock /\ svc.orders = {} /\ svc.locks = {}
      /\ svc.jobs = {} /\ svc \in OrderService
  <2>1. svc = [defect |-> defect, refuses |-> refuses, strict |-> strict, stock |-> stock,
               orders |-> {}, locks |-> {}, jobs |-> {}, made |-> 0]
    BY <1>1 DEF stock
  <2> QED BY <1>4, <2>1 DEF OrderService
<1>8. /\ mem.script = "orders" /\ mem.before = unread /\ mem.after = unread /\ mem.ids = none
      /\ Phase = 1 /\ Step = 1 /\ mem \in OrderMemory
  BY <1>2, <1>5 DEF OrderMemory, Phase, Step
<1>9. Len(Script[1]) = 4 /\ Script[1][4] = Settle(A)
  BY Instructions
<1>10. OrderTypeOK
  <2>1. IsFiniteSet(svc.jobs)
    BY <1>7, FS_EmptySet
  <2>2. rig \in [lost : Nat, late : BOOLEAN, swift : BOOLEAN]
    BY <1>2
  <2> QED BY <1>2, <1>7, <1>8, <1>9, <2>1, <2>2 DEF OrderTypeOK
<1>11. Guarded
  <2>1. \A p \in Product : p = A \/ p = B \/ p = R
    BY DEF Product
  <2>2. stock[A] >= 0 /\ stock[B] >= 0 /\ stock[R] >= 0
    BY <1>3, <1>4
  <2>3. \A p \in Product : svc.stock[p] >= 0 /\ mem.after[p] = Unknown
    BY <1>5, <1>7, <1>8, <2>1, <2>2
  <2> QED BY <2>3 DEF Guarded
<1>12. Newcomers
  BY <1>7 DEF Newcomers
<1>13. Len(mem.ids) = 0 /\ DOMAIN mem.ids = {} /\ ~Answered
  <2>1. Len(mem.ids) = 0 /\ DOMAIN mem.ids = {}
    BY <1>6, <1>8
  <2> QED BY <2>1 DEF Answered
<1>14. BurstIds
  BY <1>2, <1>7, <1>8, <1>13 DEF BurstIds
<1>15. Waited
  BY <1>5, <1>7, <1>8 DEF Waited
<1>16. Counted
  BY <1>5, <1>8 DEF Counted
<1>17. Stocked
  <2>1. Cardinality(svc.jobs) = 0
    BY <1>7, FS_EmptySet
  <2> QED BY <1>3, <1>4, <1>7, <1>8, <1>13, <2>1 DEF Stocked
<1>18. NoneForgotten /\ BothRead
  BY <1>8, <1>13 DEF NoneForgotten, BothRead
<1>19. AccusedOnlyIfGuilty
  BY <1>2 DEF AccusedOnlyIfGuilty
<1>20. Found
  <2>1. ~\E phase \in 2..5 : In(phase)
    BY <1>8 DEF In
  <2>2. \A phase \in 1..5 : ~Judged(phase)
    BY <1>2, <1>8 DEF Judged
  <2>3. ~In(2) /\ ~In(3) /\ ~In(4) /\ ~In(5)
    BY <2>1
  <2>4. ~Judged(1) /\ ~Judged(2) /\ ~Judged(3) /\ ~Judged(4)
    BY <2>2
  <2>5. AllRead /\ LocksHeld
    BY <1>7, <1>8, <2>3 DEF AllRead, LocksHeld
  <2>6. NoLockFound /\ LosesFound
    BY <1>7, <1>13, <2>4 DEF NoLockFound, LosesFound
  <2>7. UserLockFound /\ QuantityFound /\ NoUniqueFound
    BY <2>3, <2>4 DEF UserLockFound, QuantityFound, NoUniqueFound
  <2>8. NoGuardFound
    <3>1. RushOrders = {}
      BY <1>7 DEF RushOrders
    <3>2. IsFiniteSet(RushOrders) /\ Cardinality(RushOrders) = 0
      BY <3>1, FS_EmptySet
    <3>3. svc.stock[R] + Cardinality(RushOrders) = RushUnits
      BY <1>3, <1>4, <1>7, <3>2
    <3>4. pc # "done"
      BY <1>2
    <3> QED BY <1>7, <2>3, <3>2, <3>3, <3>4 DEF NoGuardFound
  <2> QED BY <2>5, <2>6, <2>7, <2>8 DEF Found
<1> QED BY <1>10, <1>11, <1>12, <1>14, <1>15, <1>16, <1>17, <1>18, <1>19, <1>20 DEF OrderInv

(* One step of the order probes.                                            *)
LEMMA OrderStep ==
    ASSUME OrderInv, mem.script = "orders", NextOrders
    PROVE  OrderInv'
<1>1. /\ OrderTypeOK /\ Guarded /\ Newcomers /\ BurstIds /\ Waited /\ Counted /\ Stocked
      /\ NoneForgotten /\ BothRead /\ AccusedOnlyIfGuilty /\ Found
  BY DEF OrderInv
<1>2. OrderTypeOK' /\ Guarded' /\ Newcomers'
  BY <1>1, OrderTypeStep, GuardedStep, NewcomersStep
<1>3. BurstIds' /\ Waited' /\ Counted' /\ Stocked'
  BY <1>1, BurstStep, WaitedStep, CountedStep, StockedStep
<1>4. NoneForgotten' /\ BothRead' /\ AccusedOnlyIfGuilty'
  BY <1>1, NoneForgottenStep, BothReadStep, AccusedStep
<1>5. Found'
  BY <1>1, FoundStep
<1> QED BY <1>2, <1>3, <1>4, <1>5 DEF OrderInv

(* A stutter keeps the invariant of the order probes.                       *)
LEMMA OrderStutter ==
    ASSUME OrderInv, UNCHANGED vars
    PROVE  OrderInv'
<1>1. OrderTypeOK' = OrderTypeOK /\ Guarded' = Guarded
  BY DEF vars, OrderTypeOK, Guarded, Phase, Step
<1>2. /\ Counting' = Counting /\ Client' = Client /\ Phase' = Phase /\ Step' = Step
      /\ Answered' = Answered
      /\ \A p : Taken(p)' = Taken(p) /\ Sent(p)' = Sent(p) /\ Ahead(p)' = Ahead(p)
  BY DEF vars, Counting, Client, Phase, Step, Answered, Taken, Sent, Ahead
<1>3. Newcomers' = Newcomers
  BY <1>2 DEF vars, Newcomers
<1>4. BurstIds' = BurstIds
  BY <1>2 DEF vars, BurstIds
<1>5. Waited' = Waited
  BY <1>2 DEF vars, Waited
<1>6. Counted' = Counted
  BY <1>2 DEF vars, Counted
<1>7. Stocked' = Stocked
  BY <1>2 DEF vars, Stocked
<1>8. NoneForgotten' = NoneForgotten /\ BothRead' = BothRead
  BY <1>2 DEF vars, NoneForgotten, BothRead
<1>9. AccusedOnlyIfGuilty' = AccusedOnlyIfGuilty
  BY DEF vars, AccusedOnlyIfGuilty, MisledBy
<1>10. mem' = mem
  BY DEF vars
<1>11. Found => Found'
  BY FoundStutter
<1> QED BY <1>1, <1>3, <1>4, <1>5, <1>6, <1>7, <1>8, <1>9, <1>10, <1>11 DEF OrderInv

===============================================================================
