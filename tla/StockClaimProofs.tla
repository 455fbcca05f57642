-------------------------- MODULE StockClaimProofs ---------------------------
(***************************************************************************)
(* Proofs about StockClaim, for every set of users, products, jobs, runs   *)
(* and claims, any mix of strategies and any bound on the optimistic loop. *)
(***************************************************************************)
EXTENDS StockClaim, FiniteSetTheorems, TLAPS

\* ------------------------------------- the inductive invariant of UnitsNumbered

(* Every run shares the version column, or none does.                       *)
Unmixed(deployed) ==
    \A r, s \in Run : deployed[r] = "optimistic" <=> deployed[s] = "optimistic"

(* What UnitsNumbered rests on in such a deployment: a row whose version    *)
(* has not moved has not been sold from, so a claim that is about to commit *)
(* has read the unit it takes, and a confirmed one has read a unit that is  *)
(* gone.                                                                    *)
ReadsItsUnit(r) ==
    /\ pc[r] = "cas" =>
          /\ strategy[r] = "optimistic"
          /\ seenVersion[r] <= version[product(r)]
          /\ version[product(r)] = seenVersion[r] => stock[product(r)] = seen[r]
    /\ pc[r] \in {"insert", "commit"} => seen[r] = stock[product(r)]
    /\ pc[r] = "confirmed" => seen[r] > stock[product(r)]

(* The inductive invariant of a deployment that numbers its units.          *)
NumberedInv == /\ IInv
               /\ Unmixed(strategy)
               /\ \A r \in Run : ReadsItsUnit(r)
               /\ UnitsNumbered

\* ----------------------------------------------------------------- the lemmas

USE ClaimAssumption, NullAssumption

(* A step of a run either leaves the database's rows alone or is a commit.  *)
Commits(r) == CommitAnswered(r, "confirmed") \/ CommitAnswered(r, "aborted")

(* Claims name users, products and jobs.                                    *)
LEMMA ClaimTyped ==
    ASSUME TypeOK, NEW r \in Run
    PROVE  /\ product(r) \in Product
           /\ key(r) \in User \X Product
           /\ job(r) \in Job
BY DEF TypeOK, product, key, job

(* ReleaseRow frees what r holds and nothing else.                          *)
LEMMA ReleaseRowFrees ==
    ASSUME TypeOK, NEW r \in Run, ReleaseRow(r)
    PROVE  /\ rowLock' \in [Product -> Run \cup {Free}]
           /\ \A s \in Run, p \in Product : s # r /\ rowLock[p] = s => rowLock'[p] = s
BY DEF TypeOK, ReleaseRow

(* Every step keeps every variable in its type.                             *)
LEMMA TypeStep ==
    ASSUME TypeOK, [Next]_vars
    PROVE  TypeOK'
<1> USE MaxAttemptsAssumption DEF Working, InTransaction, Verdict
<1>0. CASE UNCHANGED vars
  BY <1>0 DEF TypeOK, vars, dbVars, runVars
<1>1. ASSUME NEW r \in Run, Statement(r) \/ Failure(r)
      PROVE  TypeOK'
  <2> USE <1>1 DEF GoTo
  <2>0. product(r) \in Product /\ key(r) \in User \X Product /\ job(r) \in Job
    BY ClaimTyped
  <2>1. CASE SelectForUpdate(r)
    BY <2>0, <2>1 DEF TypeOK, SelectForUpdate, LockRow, ReadProduct, dbVars
  <2>2. CASE UpdateLocked(r)
    BY <2>2 DEF TypeOK, UpdateLocked, dbVars
  <2>3. CASE RefuseLocked(r)
    BY <2>3, ReleaseRowFrees DEF TypeOK, RefuseLocked, dbVars, runVars
  <2>4. CASE ProductMissing(r)
    BY <2>4 DEF TypeOK, ProductMissing, dbVars, runVars
  <2>5. CASE PlainRead(r)
    BY <2>0, <2>5 DEF TypeOK, PlainRead, ReadProduct, dbVars
  <2>6. CASE CasWon(r)
    BY <2>0, <2>6 DEF TypeOK, CasWon, LockRow, dbVars
  <2>7. CASE CasLost(r)
    <3>1. attempt[r] \in 1..MaxAttempts
      BY DEF TypeOK
    <3>2. attempt' \in [Run -> 1..MaxAttempts]
      <4>1. CASE attempt[r] < MaxAttempts /\ attempt' = [attempt EXCEPT ![r] = @ + 1]
        <5>1. attempt[r] + 1 \in 1..MaxAttempts
          BY <3>1, <4>1
        <5> QED
          BY <4>1, <5>1 DEF TypeOK
      <4>2. CASE UNCHANGED attempt
        BY <4>2 DEF TypeOK
      <4> QED
        BY <2>7, <4>1, <4>2 DEF CasLost
    <3>3. pc' \in [Run -> Working \cup Verdict]
      BY <2>7 DEF TypeOK, CasLost
    <3> QED
      BY <2>7, <3>2, <3>3 DEF TypeOK, CasLost, dbVars
  <2>8. CASE UpdateReturning(r)
    BY <2>0, <2>8 DEF TypeOK, UpdateReturning, LockRow, ReadProduct, dbVars
  <2>9. CASE NothingClaimed(r)
    BY <2>9 DEF TypeOK, NothingClaimed, dbVars, runVars
  <2>10. CASE ProbeProduct(r)
    BY <2>10 DEF TypeOK, ProbeProduct, dbVars, runVars
  <2>11. CASE InsertOrder(r)
    BY <2>11 DEF TypeOK, InsertOrder, dbVars, runVars
  <2>12. CASE UniqueViolation(r)
    BY <2>12, ReleaseRowFrees DEF TypeOK, UniqueViolation, dbVars, runVars
  <2>13. CASE ClassifyUniqueViolation(r)
    BY <2>13 DEF TypeOK, ClassifyUniqueViolation, dbVars, runVars
  <2>14. CASE Commits(r)
    <3>1. PICK answer \in {"confirmed", "aborted"} : CommitAnswered(r, answer)
      BY <2>14 DEF Commits
    <3>2. /\ rowLock' \in [Product -> Run \cup {Free}]
          /\ pc' \in [Run -> Working \cup Verdict]
      BY <3>1, ReleaseRowFrees DEF TypeOK, CommitAnswered
    <3>3. draft[r] \in Int
      BY DEF TypeOK
    <3>4. stock' \in [Product -> Int] /\ version' \in [Product -> Nat]
      BY <2>0, <3>1, <3>3 DEF TypeOK, CommitAnswered
    <3>5. orders' \in [User \X Product -> Job \cup {NullJob, NoOrder}]
      BY <2>0, <3>1 DEF TypeOK, CommitAnswered
    <3> QED
      BY <3>1, <3>2, <3>4, <3>5 DEF TypeOK, CommitAnswered, runVars
  <2>15. CASE ConnectionLost(r)
    BY <2>15, ReleaseRowFrees DEF TypeOK, ConnectionLost, dbVars, runVars
  <2>16. CASE LockTimeout(r)
    BY <2>16 DEF TypeOK, LockTimeout, dbVars, runVars
  <2> QED
    BY <2>1, <2>2, <2>3, <2>4, <2>5, <2>6, <2>7, <2>8, <2>9, <2>10, <2>11, <2>12,
       <2>13, <2>14, <2>15, <2>16
    DEF Statement, Failure, Pessimistic, Optimistic, Atomic, Tail, Commits, Commit,
        CommitUnacknowledged
<1> QED
  BY <1>0, <1>1 DEF Next, Quiescent

(* The inductive invariant, as it concerns one run.                         *)
RunInv(r) ==
    /\ pc[r] \in InTransaction =>
          /\ product(r) \in Catalog
          /\ rowLock[product(r)] = r
          /\ pc[r] = "locked" => seen[r] = stock[product(r)]
          /\ pc[r] \in {"insert", "commit"} => /\ draft[r] = stock[product(r)] - 1
                                               /\ stock[product(r)] > 0
          /\ pc[r] = "commit" => orders[key(r)] = NoOrder
    /\ pc[r] \in {"confirmed", "replayed"} => orders[key(r)] = job(r)
    /\ pc[r] = "duplicate" => orders[key(r)] \notin {NoOrder, job(r)}
    /\ pc[r] = "outOfStock" => product(r) \in Catalog /\ stock[product(r)] <= 0
    /\ pc[r] = "notFound" => product(r) \notin Catalog
    /\ attempt[r] - 1 <= Sold(product(r))
    /\ pc[r] = "exhausted" => MaxAttempts <= Sold(product(r))
    /\ StepFacts(r)

(* The per-run parts of the inductive invariant, gathered run by run.       *)
LEMMA RunInvSplit ==
    (\A r \in Run : RunInv(r))
        <=> RowLockDiscipline /\ VerdictsHold /\ RetriesPaidBySales
            /\ \A r \in Run : StepFacts(r)
BY DEF RunInv, RowLockDiscipline, VerdictsHold, RetriesPaidBySales, StepFacts, InTransaction

(* A step of r touches no other run and takes no lock another run holds,    *)
(* and it changes committed rows only by committing.                        *)
LEMMA Footprint ==
    ASSUME TypeOK, NEW r \in Run, Statement(r) \/ Failure(r)
    PROVE  /\ claim' = claim /\ strategy' = strategy
           /\ UNCHANGED dbVars \/ Commits(r)
           /\ \A s \in Run : s # r =>
                 /\ pc'[s] = pc[s] /\ attempt'[s] = attempt[s]
                 /\ seen'[s] = seen[s] /\ seenVersion'[s] = seenVersion[s]
                 /\ draft'[s] = draft[s]
                 /\ \A p \in Product : rowLock[p] = s => rowLock'[p] = s
<1> DEFINE Same(s) == /\ pc'[s] = pc[s] /\ attempt'[s] = attempt[s]
                     /\ seen'[s] = seen[s] /\ seenVersion'[s] = seenVersion[s]
                     /\ draft'[s] = draft[s]
           Goal == /\ claim' = claim /\ strategy' = strategy
                   /\ UNCHANGED dbVars \/ Commits(r)
                   /\ \A s \in Run : s # r =>
                        Same(s) /\ \A p \in Product : rowLock[p] = s => rowLock'[p] = s
<1> SUFFICES Goal
  OBVIOUS
<1> USE DEF TypeOK, GoTo
<1>0. product(r) \in Product
  BY ClaimTyped
<1>1. CASE SelectForUpdate(r)
  BY <1>0, <1>1 DEF SelectForUpdate, LockRow, ReadProduct
<1>2. CASE UpdateLocked(r)
  BY <1>2 DEF UpdateLocked
<1>3. CASE RefuseLocked(r)
  BY <1>3, ReleaseRowFrees DEF RefuseLocked, runVars
<1>4. CASE ProductMissing(r)
  BY <1>4 DEF ProductMissing, runVars
<1>5. CASE PlainRead(r)
  BY <1>5 DEF PlainRead, ReadProduct
<1>6. CASE CasWon(r)
  BY <1>0, <1>6 DEF CasWon, LockRow
<1>7. CASE CasLost(r)
  BY <1>7 DEF CasLost
<1>8. CASE UpdateReturning(r)
  BY <1>0, <1>8 DEF UpdateReturning, LockRow, ReadProduct
<1>9. CASE NothingClaimed(r)
  BY <1>9 DEF NothingClaimed, runVars
<1>10. CASE ProbeProduct(r)
  BY <1>10 DEF ProbeProduct, runVars
<1>11. CASE InsertOrder(r)
  BY <1>11 DEF InsertOrder, runVars
<1>12. CASE UniqueViolation(r)
  BY <1>12, ReleaseRowFrees DEF UniqueViolation, runVars
<1>13. CASE ClassifyUniqueViolation(r)
  BY <1>13 DEF ClassifyUniqueViolation, runVars
<1>14. CASE Commits(r)
  BY <1>14, ReleaseRowFrees DEF Commits, CommitAnswered, runVars
<1>15. CASE ConnectionLost(r)
  BY <1>15, ReleaseRowFrees DEF ConnectionLost, runVars
<1>16. CASE LockTimeout(r)
  BY <1>16 DEF LockTimeout, runVars
<1> QED
  BY <1>1, <1>2, <1>3, <1>4, <1>5, <1>6, <1>7, <1>8, <1>9, <1>10, <1>11, <1>12,
     <1>13, <1>14, <1>15, <1>16
  DEF Statement, Failure, Pessimistic, Optimistic, Atomic, Tail, Commits, Commit,
      CommitUnacknowledged

(* What a commit writes, from the facts its run has established.            *)
LEMMA CommitWrites ==
    ASSUME TypeOK, NEW r \in Run, RunInv(r), Commits(r)
    PROVE  /\ pc[r] = "commit"
           /\ rowLock[product(r)] = r
           /\ orders[key(r)] = NoOrder
           /\ orders' = [orders EXCEPT ![key(r)] = job(r)]
           /\ stock[product(r)] > 0
           /\ stock' = [stock EXCEPT ![product(r)] = @ - 1]
           /\ \A p \in Product : version'[p] \in {version[p], version[p] + 1}
           /\ \A p \in Product : p # product(r) => version'[p] = version[p]
BY ClaimTyped DEF TypeOK, Commits, CommitAnswered, RunInv, InTransaction

(* The opening stock is a number: the legacy buyers of a product are        *)
(* finitely many.                                                           *)
LEMMA InitialStockTyped == InitialStock \in [Product -> Int]
<1>1. \A p \in Product : LegacyBuyers(p) \in SUBSET User
  BY DEF LegacyBuyers
<1>2. \A p \in Product : Cardinality(LegacyBuyers(p)) \in Nat
  BY <1>1, UserAssumption, FS_Subset, FS_CardinalityType
<1> QED
  BY <1>2, TotalStockAssumption DEF InitialStock

(* A run's facts survive the steps of the others: they cannot commit a row  *)
(* it has locked, and what they do commit only lowers the stock.            *)
LEMMA OtherRunKeepsFacts ==
    ASSUME TypeOK, NEW r \in Run, NEW s \in Run, s # r,
           Statement(r) \/ Failure(r), RunInv(r), RunInv(s)
    PROVE  RunInv(s)'
<1>1. /\ product(s) \in Product /\ key(s) \in User \X Product /\ job(s) \in Job
      /\ product(r) \in Product /\ key(r) \in User \X Product /\ job(r) \in Job
  BY ClaimTyped
<1>2. /\ product(s)' = product(s) /\ key(s)' = key(s) /\ job(s)' = job(s)
      /\ pc'[s] = pc[s] /\ attempt'[s] = attempt[s]
      /\ seen'[s] = seen[s] /\ seenVersion'[s] = seenVersion[s] /\ draft'[s] = draft[s]
      /\ rowLock[product(s)] = s => rowLock'[product(s)] = s
  BY <1>1, Footprint DEF product, key, job
<1>3. CASE UNCHANGED dbVars
  BY <1>2, <1>3 DEF RunInv, StepFacts, Sold, dbVars
<1>4. CASE Commits(r)
  <2>1. CASE product(s) # product(r)
    <3>1. key(s) # key(r)
      BY <2>1 DEF key, product
    <3>2. /\ stock'[product(s)] = stock[product(s)]
          /\ version'[product(s)] = version[product(s)]
          /\ orders'[key(s)] = orders[key(s)]
      BY <1>1, <1>4, <2>1, <3>1, CommitWrites DEF TypeOK
    <3> QED
      BY <1>2, <3>2 DEF RunInv, StepFacts, Sold
  <2>2. CASE product(s) = product(r)
    <3>1. pc[s] \notin InTransaction
      BY <1>4, <2>2, CommitWrites DEF RunInv
    <3>2. /\ stock[product(s)] \in Int /\ seen[s] \in Int
          /\ version[product(s)] \in Nat /\ seenVersion[s] \in Nat
          /\ attempt[s] \in Int /\ InitialStock[product(s)] \in Int
      BY <1>1, InitialStockTyped, MaxAttemptsAssumption DEF TypeOK
    <3>3. /\ stock'[product(s)] = stock[product(s)] - 1
          /\ orders[key(s)] = NoOrder \/ orders'[key(s)] = orders[key(s)]
      BY <1>1, <1>4, <2>2, CommitWrites DEF TypeOK
    <3>4. orders[key(s)] # NoOrder => orders'[key(s)] = orders[key(s)]
      BY <3>3
    <3>5. orders[key(s)] # NoOrder => orders'[key(s)] # NoOrder
      BY <3>4
    <3>6. /\ attempt'[s] - 1 <= Sold(product(s))'
          /\ pc'[s] = "exhausted" => MaxAttempts <= Sold(product(s))'
      BY <1>2, <3>2, <3>3, MaxAttemptsAssumption DEF RunInv, Sold
    <3>7. StepFacts(s)'
      BY <1>1, <1>2, <3>1, <3>2, <3>3, <3>5 DEF RunInv, StepFacts, InTransaction
    <3> QED
      BY <1>1, <1>2, <3>1, <3>2, <3>3, <3>4, <3>6, <3>7, NullAssumption
      DEF RunInv, InTransaction
  <2> QED
    BY <2>1, <2>2
<1> QED
  BY <1>3, <1>4, Footprint

(* The step a run takes itself re-establishes its facts.                    *)
LEMMA OwnStepKeepsFacts ==
    ASSUME TypeOK, NoOversell, NEW r \in Run, Statement(r) \/ Failure(r), RunInv(r)
    PROVE  RunInv(r)'
<1> USE DEF GoTo, InTransaction
<1>1. /\ product(r) \in Product /\ key(r) \in User \X Product /\ job(r) \in Job
      /\ stock[product(r)] \in Int /\ stock[product(r)] >= 0
      /\ seen[r] \in Int /\ draft[r] \in Int /\ attempt[r] \in Int
      /\ version[product(r)] \in Nat /\ seenVersion[r] \in Nat
      /\ InitialStock[product(r)] \in Int
      /\ MaxAttempts \in Int
  BY ClaimTyped, InitialStockTyped, MaxAttemptsAssumption DEF TypeOK, NoOversell
<1>2. /\ product(r)' = product(r) /\ key(r)' = key(r) /\ job(r)' = job(r)
  BY Footprint DEF product, key, job
<1>3. \A to : GoTo(r, to) => pc'[r] = to
  BY DEF TypeOK
<1>4. \A x : /\ rowLock' = [rowLock EXCEPT ![product(r)] = x] => rowLock'[product(r)] = x
             /\ seen' = [seen EXCEPT ![r] = x] => seen'[r] = x
             /\ seenVersion' = [seenVersion EXCEPT ![r] = x] => seenVersion'[r] = x
             /\ draft' = [draft EXCEPT ![r] = x] => draft'[r] = x
             /\ attempt' = [attempt EXCEPT ![r] = x] => attempt'[r] = x
  BY <1>1 DEF TypeOK
<1> USE <1>1, <1>2, <1>3, <1>4 DEF RunInv, StepFacts, Sold
<1>11. CASE SelectForUpdate(r)
  BY <1>11 DEF SelectForUpdate, LockRow, ReadProduct, dbVars
<1>12. CASE UpdateLocked(r)
  <2>1. /\ pc[r] = "locked" /\ seen[r] > 0 /\ UNCHANGED <<dbVars, rowLock, attempt>>
        /\ draft'[r] = seen[r] - 1 /\ pc'[r] = "insert"
    BY <1>12 DEF UpdateLocked
  <2> QED
    BY <2>1 DEF dbVars
<1>13. CASE RefuseLocked(r)
  BY <1>13 DEF RefuseLocked, dbVars, runVars
<1>14. CASE ProductMissing(r)
  BY <1>14 DEF ProductMissing, dbVars, runVars
<1>15. CASE PlainRead(r)
  <2>1. /\ pc[r] = "begin" /\ product(r) \in Catalog /\ UNCHANGED <<dbVars, rowLock, attempt>>
        /\ seen'[r] = stock[product(r)] /\ seenVersion'[r] = version[product(r)]
        /\ GoTo(r, IF stock[product(r)] <= 0 THEN "outOfStock" ELSE "cas")
    BY <1>15 DEF PlainRead, ReadProduct
  <2>2. CASE stock[product(r)] <= 0
    <3>1. pc'[r] = "outOfStock"
      BY <2>1, <2>2
    <3> QED
      BY <2>1, <2>2, <3>1 DEF dbVars
  <2>3. CASE ~(stock[product(r)] <= 0)
    <3>1. pc'[r] = "cas"
      BY <2>1, <2>3
    <3> QED
      BY <2>1, <2>3, <3>1 DEF dbVars
  <2> QED
    BY <2>2, <2>3
<1>16. CASE CasWon(r)
  BY <1>16 DEF CasWon, LockRow, VersionMatches, dbVars
<1>17. CASE CasLost(r)
  <2>1. stock[product(r)] < seen[r] /\ attempt[r] <= Sold(product(r))
    BY <1>17 DEF CasLost, VersionMatches
  <2>2. CASE attempt' = [attempt EXCEPT ![r] = @ + 1] /\ GoTo(r, "begin")
    <3>1. attempt'[r] = attempt[r] + 1 /\ pc'[r] = "begin" /\ UNCHANGED <<dbVars, rowLock>>
      BY <1>17, <2>2 DEF CasLost
    <3> QED
      BY <2>1, <3>1 DEF dbVars
  <2>3. CASE attempt[r] = MaxAttempts /\ GoTo(r, "exhausted") /\ UNCHANGED attempt
    BY <1>17, <2>1, <2>3 DEF CasLost, dbVars
  <2> QED
    BY <1>17, <2>2, <2>3 DEF CasLost
<1>18. CASE UpdateReturning(r)
  BY <1>18 DEF UpdateReturning, LockRow, ReadProduct, dbVars
<1>19. CASE NothingClaimed(r)
  BY <1>19 DEF NothingClaimed, dbVars, runVars
<1>20. CASE ProbeProduct(r)
  BY <1>20 DEF ProbeProduct, dbVars, runVars
<1>21. CASE InsertOrder(r)
  BY <1>21 DEF InsertOrder, dbVars, runVars
<1>22. CASE UniqueViolation(r)
  BY <1>22 DEF UniqueViolation, dbVars, runVars
<1>23. CASE ClassifyUniqueViolation(r)
  BY <1>23 DEF ClassifyUniqueViolation, dbVars, runVars
<1>24. CASE Commits(r)
  <2>1. pc'[r] \in {"confirmed", "aborted"} /\ attempt' = attempt
    BY <1>24 DEF Commits, CommitAnswered, runVars
  <2>2. orders'[key(r)] = job(r) /\ stock'[product(r)] = stock[product(r)] - 1
    BY <1>24, CommitWrites DEF TypeOK
  <2>3. attempt'[r] - 1 <= Sold(product(r))'
    BY <2>1, <2>2
  <2> QED
    BY <2>1, <2>2, <2>3
<1>25. CASE ConnectionLost(r)
  BY <1>25 DEF ConnectionLost, dbVars, runVars
<1>26. CASE LockTimeout(r)
  BY <1>26 DEF LockTimeout, dbVars, runVars
<1> QED
  BY <1>11, <1>12, <1>13, <1>14, <1>15, <1>16, <1>17, <1>18, <1>19, <1>20, <1>21,
     <1>22, <1>23, <1>24, <1>25, <1>26
  DEF Statement, Failure, Pessimistic, Optimistic, Atomic, Tail, Commits, Commit,
      CommitUnacknowledged

(* A commit sells one unit to one new buyer; nothing else moves either.     *)
LEMMA ConservationStep ==
    ASSUME TypeOK, StockConserved, NoOversell, NEW r \in Run, RunInv(r),
           UNCHANGED dbVars \/ Commits(r)
    PROVE  StockConserved' /\ NoOversell'
<1>1. CASE UNCHANGED dbVars
  BY <1>1 DEF dbVars, StockConserved, NoOversell, Buyers
<1>2. CASE Commits(r)
  <2>1. /\ product(r) \in Product /\ key(r) \in User \X Product /\ job(r) \in Job
        /\ key(r) = <<claim[r].user, product(r)>> /\ claim[r].user \in User
    BY ClaimTyped DEF key, product, TypeOK
  <2>2. NoOversell'
    BY <1>2, <2>1, CommitWrites DEF NoOversell, TypeOK
  <2>3. ASSUME NEW p \in Product
        PROVE  stock'[p] + Cardinality(Buyers(p)') = TotalStock[p]
    <3>1. Buyers(p) \in SUBSET User
      BY DEF Buyers
    <3>2. IsFiniteSet(Buyers(p)) /\ Cardinality(Buyers(p)) \in Nat
      BY <3>1, UserAssumption, FS_Subset, FS_CardinalityType
    <3>3. stock[p] + Cardinality(Buyers(p)) = TotalStock[p] /\ stock[p] \in Int
      BY DEF StockConserved, TypeOK
    <3>4. CASE p # product(r)
      <4>1. stock'[p] = stock[p]
        BY <1>2, <2>1, <3>4, CommitWrites DEF TypeOK
      <4>2. \A u \in User : orders'[<<u, p>>] = orders[<<u, p>>]
        BY <1>2, <2>1, <3>4, CommitWrites DEF TypeOK
      <4>3. Buyers(p)' = Buyers(p)
        BY <4>2 DEF Buyers
      <4> QED
        BY <3>3, <4>1, <4>3
    <3>5. CASE p = product(r)
      <4>1. stock'[p] = stock[p] - 1
        BY <1>2, <2>1, <3>5, CommitWrites DEF TypeOK
      <4>2. \A u \in User : orders'[<<u, p>>] =
                               IF u = claim[r].user THEN job(r) ELSE orders[<<u, p>>]
        BY <1>2, <2>1, <3>5, CommitWrites DEF TypeOK
      <4>3. orders[<<claim[r].user, p>>] = NoOrder /\ job(r) # NoOrder
        BY <1>2, <2>1, <3>5, CommitWrites, NullAssumption
      <4>4. Buyers(p)' = Buyers(p) \cup {claim[r].user} /\ claim[r].user \notin Buyers(p)
        BY <2>1, <4>2, <4>3 DEF Buyers
      <4>5. Cardinality(Buyers(p)') = Cardinality(Buyers(p)) + 1
        BY <3>2, <4>4, FS_AddElement
      <4> QED
        BY <3>2, <3>3, <4>1, <4>5
    <3> QED
      BY <3>4, <3>5
  <2> QED
    BY <2>2, <2>3 DEF StockConserved
<1> QED
  BY <1>1, <1>2

(* Two confirmed runs for one purchase: the second would have had to insert *)
(* an order where the first already has its own.                            *)
LEMMA SoldOnceStep ==
    ASSUME TypeOK, SoldOnce, \A s \in Run : RunInv(s),
           NEW r \in Run, Statement(r) \/ Failure(r)
    PROVE  SoldOnce'
<1>1. \A s \in Run : key(s)' = key(s)
  BY Footprint DEF key
<1>2. \A s \in Run : s # r => pc'[s] = pc[s]
  BY Footprint
<1>3. pc[r] # "confirmed" /\ pc'[r] = "confirmed" => Commits(r)
  BY DEF TypeOK, Statement, Failure, Pessimistic, Optimistic, Atomic, Tail, Commits,
         Commit, CommitUnacknowledged, GoTo, SelectForUpdate, UpdateLocked, RefuseLocked,
         ProductMissing, PlainRead, CasWon, CasLost, UpdateReturning, NothingClaimed,
         ProbeProduct, InsertOrder, UniqueViolation, ClassifyUniqueViolation,
         ConnectionLost, LockTimeout
<1>4. Commits(r) => \A s \in Run : pc[s] = "confirmed" => key(s) # key(r)
  BY ClaimTyped, CommitWrites, NullAssumption DEF RunInv
<1> QED
  BY <1>1, <1>2, <1>3, <1>4 DEF SoldOnce

(* The database as seeded, with no claim begun, satisfies the invariant.    *)
LEMMA InitEstablishes == Init => IInv
<1> SUFFICES ASSUME Init PROVE IInv
  OBVIOUS
<1>1. TypeOK
  <2>1. \A p \in Product : LegacyBuyers(p) \in SUBSET User
    BY DEF LegacyBuyers
  <2>2. orders \in [User \X Product -> Job \cup {NullJob, NoOrder}]
    BY DEF Init, InitialOrders
  <2> QED
    BY <2>2, InitialStockTyped, MaxAttemptsAssumption, DeploymentAssumption
    DEF Init, TypeOK, Working, Strategy
<1>2. \A p \in Product : Cardinality(LegacyBuyers(p)) \in Nat
  <2>1. \A p \in Product : LegacyBuyers(p) \in SUBSET User
    BY DEF LegacyBuyers
  <2> QED
    BY <2>1, UserAssumption, FS_Subset, FS_CardinalityType
<1>3. \A p \in Product : Buyers(p) = LegacyBuyers(p)
  BY NullAssumption DEF Init, InitialOrders, Buyers, LegacyBuyers
<1>4. StockConserved /\ NoOversell
  BY <1>2, <1>3, TotalStockAssumption DEF Init, InitialStock, StockConserved, NoOversell
<1>5. \A r \in Run : RunInv(r)
  <2> SUFFICES ASSUME NEW r \in Run PROVE RunInv(r)
    OBVIOUS
  <2>1. pc[r] = "begin" /\ attempt[r] = 1 /\ stock = InitialStock
    BY DEF Init
  <2>2. Sold(product(r)) = 0
    BY <1>1, <2>1, ClaimTyped, InitialStockTyped DEF Sold
  <2> QED
    BY <2>1, <2>2 DEF RunInv, StepFacts, InTransaction
<1>6. SoldOnce
  BY DEF Init, SoldOnce
<1> QED
  BY <1>1, <1>4, <1>5, <1>6, RunInvSplit DEF IInv

(* The specification's variables keep their types.                          *)
THEOREM TypeCorrect == Spec => []TypeOK
<1>1. Init => TypeOK
  BY InitEstablishes DEF IInv
<1>2. TypeOK /\ [Next]_vars => TypeOK'
  BY TypeStep
<1> QED
  BY <1>1, <1>2, PTL DEF Spec

(* The invariant is inductive: one case per action of a run, through the    *)
(* two lemmas on the run that moves and the runs that do not.               *)
LEMMA StepPreserves == IInv /\ [Next]_vars => IInv'
<1> SUFFICES ASSUME IInv, [Next]_vars PROVE IInv'
  OBVIOUS
<1>1. TypeOK /\ StockConserved /\ NoOversell /\ SoldOnce /\ \A s \in Run : RunInv(s)
  BY RunInvSplit DEF IInv
<1>2. TypeOK'
  BY <1>1, TypeStep
<1>3. CASE UNCHANGED vars
  BY <1>3 DEF vars, dbVars, runVars, IInv, TypeOK, StockConserved, NoOversell, Buyers,
      RowLockDiscipline, VerdictsHold, SoldOnce, RetriesPaidBySales, Sold, StepFacts,
      product, key, job
<1>4. ASSUME NEW r \in Run, Statement(r) \/ Failure(r)
      PROVE  IInv'
  <2>1. \A s \in Run : RunInv(s)'
    BY <1>1, <1>4, OtherRunKeepsFacts, OwnStepKeepsFacts
  <2>2. StockConserved' /\ NoOversell'
    BY <1>1, <1>4, Footprint, ConservationStep
  <2>3. SoldOnce'
    BY <1>1, <1>4, SoldOnceStep
  <2>4. (RowLockDiscipline /\ VerdictsHold /\ RetriesPaidBySales
          /\ \A s \in Run : StepFacts(s))'
    BY <2>1 DEF RunInv, RowLockDiscipline, VerdictsHold, RetriesPaidBySales, StepFacts,
        InTransaction
  <2> QED
    BY <1>2, <2>2, <2>3, <2>4 DEF IInv
<1> QED
  BY <1>3, <1>4 DEF Next, Quiescent

(* No interleaving of the statements of any mix of strategies, with any     *)
(* crashes, lock timeouts and lost answers, leaves the inductive invariant. *)
THEOREM Invariance == Spec => []IInv
<1>1. Init => IInv
  BY InitEstablishes
<1>2. IInv /\ [Next]_vars => IInv'
  BY StepPreserves
<1> QED
  BY <1>1, <1>2, PTL DEF Spec

(* Units gone from stock are always exactly the orders recorded.            *)
THEOREM ConservationTheorem == Spec => []StockConserved
<1>1. IInv => StockConserved
  BY DEF IInv
<1> QED
  BY <1>1, Invariance, PTL

(* No strategy, and no mix of them, sells a unit that is not there.         *)
THEOREM NoOversellTheorem == Spec => []NoOversell
<1>1. IInv => NoOversell
  BY DEF IInv
<1> QED
  BY <1>1, Invariance, PTL

(* The row a transaction holds is nobody else's, and has not moved.         *)
THEOREM RowLockTheorem == Spec => []RowLockDiscipline
<1>1. IInv => RowLockDiscipline
  BY DEF IInv
<1> QED
  BY <1>1, Invariance, PTL

(* What claim() answered stays true of the database.                        *)
THEOREM VerdictsTheorem == Spec => []VerdictsHold
<1>1. IInv => VerdictsHold
  BY DEF IInv
<1> QED
  BY <1>1, Invariance, PTL

(* A unit is reported as sold by one run at most, however often a job runs. *)
THEOREM SoldOnceTheorem == Spec => []SoldOnce
<1>1. IInv => SoldOnce
  BY DEF IInv
<1> QED
  BY <1>1, Invariance, PTL

(* An optimistic pass is lost only to a sale.                               *)
THEOREM RetriesTheorem == Spec => []RetriesPaidBySales
<1>1. IInv => RetriesPaidBySales
  BY DEF IInv
<1> QED
  BY <1>1, Invariance, PTL

(* Where nobody or everybody uses the version column, a step re-establishes *)
(* what the run that takes it has read.                                     *)
LEMMA OwnStepReads ==
    ASSUME TypeOK, Unmixed(strategy), NEW r \in Run, Statement(r) \/ Failure(r),
           RunInv(r), ReadsItsUnit(r)
    PROVE  ReadsItsUnit(r)'
<1>1. /\ product(r) \in Product /\ stock[product(r)] \in Int /\ seen[r] \in Int
      /\ draft[r] \in Int /\ version[product(r)] \in Nat /\ seenVersion[r] \in Nat
  BY ClaimTyped DEF TypeOK
<1>2. product(r)' = product(r) /\ strategy'[r] = strategy[r]
  BY Footprint DEF product
<1>3. \A to : GoTo(r, to) => pc'[r] = to
  BY DEF TypeOK, GoTo
<1>4. \A x : /\ seen' = [seen EXCEPT ![r] = x] => seen'[r] = x
             /\ seenVersion' = [seenVersion EXCEPT ![r] = x] => seenVersion'[r] = x
  BY DEF TypeOK
<1> USE <1>1, <1>2, <1>3, <1>4 DEF ReadsItsUnit, dbVars, runVars
<1>5. CASE Commits(r)
  <2>1. pc'[r] \in {"confirmed", "aborted"} /\ seen' = seen
    BY <1>5 DEF Commits, CommitAnswered
  <2>2. stock'[product(r)] = stock[product(r)] - 1 /\ pc[r] = "commit"
    BY <1>5, CommitWrites DEF TypeOK
  <2> QED
    BY <2>1, <2>2
<1>6. CASE SelectForUpdate(r)
  BY <1>6 DEF SelectForUpdate
<1>7. CASE UpdateLocked(r)
  <2>1. seen[r] = stock[product(r)]
    BY <1>7 DEF UpdateLocked, RunInv, InTransaction
  <2> QED
    BY <1>7, <2>1 DEF UpdateLocked
<1>8. CASE PlainRead(r)
  <2>1. /\ strategy[r] = "optimistic" /\ UNCHANGED dbVars
        /\ seen'[r] = stock[product(r)] /\ seenVersion'[r] = version[product(r)]
        /\ pc'[r] \in {"outOfStock", "cas"}
    BY <1>8 DEF PlainRead, ReadProduct
  <2> QED
    BY <2>1
<1>9. CASE CasWon(r)
  BY <1>9 DEF CasWon, VersionMatches
<1>10. CASE UpdateReturning(r)
  BY <1>10 DEF UpdateReturning, ReadProduct
<1>11. CASE InsertOrder(r)
  BY <1>11 DEF InsertOrder
<1>12. CASE \/ RefuseLocked(r) \/ ProductMissing(r) \/ CasLost(r) \/ NothingClaimed(r)
            \/ ProbeProduct(r) \/ UniqueViolation(r) \/ ClassifyUniqueViolation(r)
            \/ ConnectionLost(r) \/ LockTimeout(r)
  <2>1. pc'[r] \notin {"cas", "insert", "commit", "confirmed"}
    BY <1>12 DEF RefuseLocked, ProductMissing, CasLost, NothingClaimed, ProbeProduct,
                 UniqueViolation, ClassifyUniqueViolation, ConnectionLost, LockTimeout
  <2> QED
    BY <2>1
<1> QED
  BY <1>5, <1>6, <1>7, <1>8, <1>9, <1>10, <1>11, <1>12
  DEF Statement, Failure, Pessimistic, Optimistic, Atomic, Tail, Commits, Commit,
      CommitUnacknowledged

(* A commit of another run moves the version of an optimistic reader's row, *)
(* and takes a unit no confirmed run has been given.                        *)
LEMMA OtherRunReads ==
    ASSUME TypeOK, Unmixed(strategy), NEW r \in Run, NEW s \in Run, s # r,
           Statement(r) \/ Failure(r), RunInv(r), RunInv(s), ReadsItsUnit(s)
    PROVE  ReadsItsUnit(s)'
<1>1. /\ product(s) \in Product /\ product(r) \in Product
      /\ stock[product(s)] \in Int /\ seen[s] \in Int
      /\ version[product(s)] \in Nat /\ seenVersion[s] \in Nat
  BY ClaimTyped DEF TypeOK
<1>2. /\ product(s)' = product(s) /\ strategy' = strategy
      /\ pc'[s] = pc[s] /\ seen'[s] = seen[s] /\ seenVersion'[s] = seenVersion[s]
  BY Footprint DEF product
<1>3. CASE UNCHANGED dbVars
  BY <1>2, <1>3 DEF dbVars, ReadsItsUnit
<1>4. CASE Commits(r)
  <2>1. CASE product(s) # product(r)
    BY <1>1, <1>2, <1>4, <2>1, CommitWrites DEF TypeOK, ReadsItsUnit
  <2>2. CASE product(s) = product(r)
    <3>1. pc[s] \notin InTransaction
      BY <1>4, <2>2, CommitWrites DEF RunInv
    <3>2. stock'[product(s)] = stock[product(s)] - 1
      BY <1>1, <1>4, <2>2, CommitWrites DEF TypeOK
    <3>3. pc[s] = "cas" => version'[product(s)] = version[product(s)] + 1
      BY <1>1, <1>4, <2>2 DEF Unmixed, ReadsItsUnit, Commits, CommitAnswered, TypeOK
    <3> QED
      BY <1>1, <1>2, <3>1, <3>2, <3>3 DEF ReadsItsUnit, InTransaction
  <2> QED
    BY <2>1, <2>2
<1> QED
  BY <1>3, <1>4, Footprint

(* The unit a commit confirms is the one on top of the stock; those that    *)
(* were confirmed before lie above it.                                      *)
LEMMA NumberedStep ==
    ASSUME TypeOK, UnitsNumbered, NEW r \in Run, RunInv(r), Statement(r) \/ Failure(r),
           \A s \in Run : ReadsItsUnit(s)
    PROVE  UnitsNumbered'
<1>1. \A s \in Run : product(s)' = product(s) /\ product(s) \in Product /\ seen[s] \in Int
                      /\ stock[product(s)] \in Int
  BY Footprint, ClaimTyped DEF product, TypeOK
<1>2. \A s \in Run : s # r => pc'[s] = pc[s] /\ seen'[s] = seen[s]
  BY Footprint
<1>3. CASE pc[r] # "confirmed" /\ pc'[r] = "confirmed"
  <2>1. Commits(r)
    BY <1>3 DEF TypeOK, Statement, Failure, Pessimistic, Optimistic, Atomic, Tail, Commits,
       Commit, CommitUnacknowledged, GoTo, SelectForUpdate, UpdateLocked, RefuseLocked,
       ProductMissing, PlainRead, CasWon, CasLost, UpdateReturning, NothingClaimed,
       ProbeProduct, InsertOrder, UniqueViolation, ClassifyUniqueViolation,
       ConnectionLost, LockTimeout
  <2>2. pc[r] = "commit" /\ seen' = seen
    BY <2>1 DEF Commits, CommitAnswered, runVars
  <2>3. seen[r] = stock[product(r)]
    BY <2>2 DEF ReadsItsUnit
  <2>4. \A s \in Run : s # r /\ pc[s] = "confirmed" /\ product(s) = product(r) => seen[s] > seen[r]
    BY <2>3 DEF ReadsItsUnit
  <2> QED
    BY <1>1, <1>2, <2>2, <2>4 DEF UnitsNumbered, remainingStock
<1>4. CASE pc[r] = "confirmed" \/ pc'[r] # "confirmed"
  <2>1. pc[r] # "confirmed"
    BY DEF TypeOK, Statement, Failure, Pessimistic, Optimistic, Atomic, Tail, Commits,
       Commit, CommitUnacknowledged, CommitAnswered, SelectForUpdate, UpdateLocked,
       RefuseLocked, ProductMissing, PlainRead, CasWon, CasLost, UpdateReturning,
       NothingClaimed, ProbeProduct, InsertOrder, UniqueViolation, ClassifyUniqueViolation,
       ConnectionLost, LockTimeout, Working, InTransaction
  <2> QED
    BY <1>1, <1>2, <1>4, <2>1 DEF UnitsNumbered, remainingStock
<1> QED
  BY <1>3, <1>4

(* The numbering is inductive on top of IInv.                               *)
LEMMA NumberedPreserved == NumberedInv /\ [Next]_vars => NumberedInv'
<1> SUFFICES ASSUME NumberedInv, [Next]_vars PROVE NumberedInv'
  OBVIOUS
<1>1. IInv' /\ TypeOK /\ \A s \in Run : RunInv(s)
  BY StepPreserves, RunInvSplit DEF NumberedInv, IInv
<1>2. CASE UNCHANGED vars
  BY <1>1, <1>2 DEF NumberedInv, vars, dbVars, runVars, Unmixed, ReadsItsUnit, UnitsNumbered,
     remainingStock, product
<1>3. ASSUME NEW r \in Run, Statement(r) \/ Failure(r)
      PROVE  NumberedInv'
  <2>1. \A s \in Run : ReadsItsUnit(s)'
    BY <1>1, <1>3, OwnStepReads, OtherRunReads DEF NumberedInv
  <2>2. UnitsNumbered'
    BY <1>1, <1>3, NumberedStep DEF NumberedInv
  <2>3. Unmixed(strategy)'
    BY <1>1, <1>3, Footprint DEF NumberedInv, Unmixed
  <2> QED
    BY <1>1, <2>1, <2>2, <2>3 DEF NumberedInv
<1> QED
  BY <1>2, <1>3 DEF Next, Quiescent

(* The remainingStock that confirmed claims report names their units, in    *)
(* every deployment that does not mix optimistic runs with others; one      *)
(* strategy for the whole service is a special case.                        *)
THEOREM UnitsNumberedTheorem ==
    ASSUME \A deployed \in Deployment : Unmixed(deployed)
    PROVE  Spec => []UnitsNumbered
<1>1. Init => NumberedInv
  <2> SUFFICES ASSUME Init PROVE NumberedInv
    OBVIOUS
  <2>1. Unmixed(strategy)
    BY DEF Init
  <2> QED
    BY <2>1, InitEstablishes DEF Init, NumberedInv, ReadsItsUnit, UnitsNumbered
<1>2. NumberedInv /\ [Next]_vars => NumberedInv'
  BY NumberedPreserved
<1>3. NumberedInv => UnitsNumbered
  BY DEF NumberedInv
<1> QED
  BY <1>1, <1>2, <1>3, PTL DEF Spec

(* Every commit is one sale of FlashSale, every other step changes nothing  *)
(* there.                                                                   *)
LEMMA SaleStep == IInv /\ [Next]_vars => [Sale!Next]_(Sale!vars)
<1> SUFFICES ASSUME IInv, [Next]_vars PROVE [Sale!Next]_(Sale!vars)
  OBVIOUS
<1>1. TypeOK /\ \A s \in Run : RunInv(s)
  BY RunInvSplit DEF IInv
<1>2. CASE UNCHANGED vars
  BY <1>2 DEF vars, dbVars, Sale!vars
<1>3. ASSUME NEW r \in Run, Statement(r) \/ Failure(r)
      PROVE  [Sale!Next]_(Sale!vars)
  <2>1. CASE UNCHANGED dbVars
    BY <2>1 DEF dbVars, Sale!vars
  <2>2. CASE Commits(r)
    <3>1. /\ product(r) \in Product /\ job(r) \in Job /\ claim[r].user \in User
          /\ key(r) = <<claim[r].user, product(r)>>
      BY <1>1, ClaimTyped DEF key, product, TypeOK
    <3>2. Sale!Sell(claim[r].user, product(r), job(r))
      BY <1>1, <2>2, <3>1, CommitWrites DEF Sale!Sell
    <3> QED
      BY <3>1, <3>2 DEF Sale!Next
  <2> QED
    BY <1>1, <1>3, <2>1, <2>2, Footprint
<1> QED
  BY <1>2, <1>3 DEF Next, Quiescent

(* The three strategies implement the abstract sale.                        *)
THEOREM ImplementsSale == Spec => SaleSpec
<1>1. Init => Sale!Init
  BY DEF Init, Sale!Init
<1>2. IInv /\ [Next]_vars => [Sale!Next]_(Sale!vars)
  BY SaleStep
<1> QED
  BY <1>1, <1>2, Invariance, PTL DEF Spec, SaleSpec, Sale!Spec
=============================================================================
