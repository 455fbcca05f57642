-------------------------- MODULE ProductCacheProofs --------------------------
(***************************************************************************)
(* Proofs about ProductCache, for every set of clients and API processes,  *)
(* any number of stock changes, requests, expiries, crashes and commands   *)
(* sent again, with and without failing Redis commands.                    *)
(***************************************************************************)
EXTENDS ProductCache, FiniteSetTheorems, TLAPS

USE BoundAssumption, NullAssumption

(* What happens to the cache apart from the requests themselves.            *)
WorkerStep == CommitStock \/ BumpVersion \/ BumpUnheard
ReaderStep(r) == ReadPage(r) \/ Request(r) \/ WriteUnheard(r)
InstanceStep(i) == Flight(i) \/ CrashInstance(i)
LapseStep(v) == ExpireLock(v) \/ ExpirePage(v)

(* Next, grouped by who acts.                                               *)
LEMMA NextSplit ==
    [Next]_vars <=> \/ UNCHANGED vars
                    \/ WorkerStep
                    \/ \E r \in Reader : ReaderStep(r)
                    \/ \E i \in Instance : InstanceStep(i)
                    \/ \E v \in Version : LapseStep(v)
BY DEF Next, WorkerStep, ReaderStep, InstanceStep, LapseStep

(* The parts of the invariant that speak of the version and the pages, and  *)
(* those that speak of requests.                                            *)
CacheInv == AnnouncedCommitted /\ PageNotOlder
RequestsInv == BodiesFresh /\ RequestsNumbered /\ CachedAnswerFresh /\ RebuilderHoldsLock

(* The commits whose INCR is owed can be counted.                           *)
LEMMA UnbumpedFinite ==
    ASSUME TypeOK
    PROVE  IsFiniteSet(unbumped) /\ Cardinality(unbumped) \in Nat
<1>1. data \in Int /\ unbumped \subseteq 1..data
  BY DEF TypeOK, Content
<1>2. IsFiniteSet(1..data)
  BY <1>1, FS_Interval
<1>3. IsFiniteSet(unbumped)
  BY <1>1, <1>2, FS_Subset
<1> QED
  BY <1>3, FS_CardinalityType

(* An executed INCR for a committed change keeps the version in its type.   *)
LEMMA AnnounceType ==
    ASSUME TypeOK, AnnouncedCommitted, NEW c \in unbumped, Announce(c)
    PROVE  /\ c \in Content /\ c <= data
           /\ version + 1 <= data + resends /\ version + 1 \in Version
           /\ version' = version + 1 /\ announced' \in [Version -> Content]
           /\ announced'[version + 1] \in {c, announced[version]}
           /\ announced'[version + 1] >= announced[version]
           /\ \A v \in Version : v # version + 1 => announced'[v] = announced[v]
<1>1. /\ data \in Nat /\ version \in Nat /\ resends \in Nat /\ data <= MaxCommits
      /\ resends <= MaxResends /\ unbumped \subseteq 1..data /\ announced[version] \in Content
  BY DEF TypeOK, Content, Version
<1>2. IsFiniteSet(unbumped) /\ Cardinality(unbumped) \in Nat
  BY UnbumpedFinite
<1>3. Cardinality(unbumped) # 0
  BY <1>2, FS_EmptySet
<1>4. version + 1 <= data + resends
  BY <1>1, <1>2, <1>3 DEF AnnouncedCommitted
<1>5. c \in Content /\ c <= data /\ version + 1 \in Version
  BY <1>1, <1>4 DEF Content, Version
<1> QED
  BY <1>1, <1>4, <1>5 DEF Announce, TypeOK, Content

(* Every step keeps every variable in its type: the version by what is      *)
(* committed or sent again, the token by the request's number.              *)
LEMMA TypeStep ==
    ASSUME TypeOK, AnnouncedCommitted, RequestsNumbered, [Next]_vars
    PROVE  TypeOK'
<1> USE DEF TypeOK, workerVars, redisVars, readerVars, flightVars, boundVars
<1>1. CASE UNCHANGED vars
  BY <1>1 DEF vars
<1>2. CASE WorkerStep
  <2>1. CASE CommitStock
    BY <2>1 DEF CommitStock, Content, Version
  <2>2. CASE BumpVersion
    <3>1. PICK c \in unbumped : /\ unbumped' = unbumped \ {c}
                                /\ Announce(c) \/ UNCHANGED <<version, announced>>
                                /\ UNCHANGED <<data, page, rebuildLock, readerVars, flightVars,
                                               boundVars>>
      BY <2>2 DEF BumpVersion
    <3>2. version' \in Version /\ announced' \in [Version -> Content]
      BY <3>1, AnnounceType
    <3> QED
      BY <3>1, <3>2
  <2>3. CASE BumpUnheard
    <3>1. PICK c \in unbumped : Announce(c)
      BY <2>3 DEF BumpUnheard
    <3>2. version' \in Version /\ announced' \in [Version -> Content]
      BY <3>1, AnnounceType
    <3>3. resends' \in 0..MaxResends
      BY <2>3 DEF BumpUnheard
    <3> QED
      BY <2>3, <3>2, <3>3 DEF BumpUnheard
  <2> QED
    BY <1>2, <2>1, <2>2, <2>3 DEF WorkerStep
<1>3. ASSUME NEW r \in Reader, ReaderStep(r)
      PROVE  TypeOK'
  <2> USE DEF GoTo, Serve
  <2>0. AtRest \subseteq ReaderState /\ Rebuilding \subseteq ReaderState
        /\ {"HIT", "MISS", "BYPASS", "failed", "lock", "poll", "bypass", "await", "query",
            "write", "release"} \subseteq ReaderState
    BY DEF ReaderState, AtRest, Answer, Rebuilding
  <2>1. CASE ReadPage(r)
    <3>1. reads' \in [Reader -> 0..MaxReads]
      <4>1. reads[r] \in 0..MaxReads /\ reads[r] < MaxReads
        BY <2>1 DEF ReadPage
      <4>2. reads[r] + 1 \in 0..MaxReads
        BY <4>1
      <4> QED
        BY <2>1, <4>2 DEF ReadPage
    <3>2. pc' \in [Reader -> ReaderState] /\ body' \in [Reader -> Content \cup {Empty}]
      BY <2>0, <2>1 DEF ReadPage
    <3>3. at' \in [Reader -> Instance] /\ seen' \in [Reader -> Version]
      BY <2>1 DEF ReadPage
    <3> QED
      BY <2>1, <3>1, <3>2, <3>3 DEF ReadPage
  <2>2. CASE TryLock(r)
    <3>1. token(r) \in Reader \X (1..MaxReads)
      <4>1. reads[r] \in 0..MaxReads /\ reads[r] > 0
        BY <2>2 DEF TryLock, RequestsNumbered
      <4>2. reads[r] \in 1..MaxReads
        BY <4>1
      <4> QED
        BY <4>2 DEF token
    <3> QED
      BY <2>0, <2>2, <3>1 DEF TryLock
  <2>3. CASE QueryPage(r)
    BY <2>0, <2>3 DEF QueryPage
  <2>4. CASE WritePage(r)
    BY <2>0, <2>4 DEF WritePage
  <2>5. CASE ReleaseLock(r)
    BY <2>0, <2>5 DEF ReleaseLock
  <2>6. CASE Poll(r)
    <3>1. polls' \in [Reader -> 0..LockRetryMax]
      <4>1. polls[r] \in 0..LockRetryMax
        OBVIOUS
      <4>2. polls[r] + 1 < LockRetryMax => polls[r] + 1 \in 0..LockRetryMax
        BY <4>1
      <4>3. 0 \in 0..LockRetryMax
        OBVIOUS
      <4> QED
        BY <2>6, <4>2, <4>3 DEF Poll
    <3>2. pc' \in [Reader -> ReaderState] /\ body' \in [Reader -> Content \cup {Empty}]
      BY <2>0, <2>6 DEF Poll
    <3> QED
      BY <2>6, <3>1, <3>2 DEF Poll
  <2>7. CASE JoinFlight(r)
    BY <2>0, <2>7 DEF JoinFlight
  <2>8. CASE WriteUnheard(r)
    <3>1. resends' \in 0..MaxResends
      BY <2>8 DEF WriteUnheard
    <3> QED
      BY <2>8, <3>1 DEF WriteUnheard
  <2> QED
    BY <1>3, <2>1, <2>2, <2>3, <2>4, <2>5, <2>6, <2>7, <2>8 DEF ReaderStep, Request
<1>4. ASSUME NEW i \in Instance, InstanceStep(i)
      PROVE  TypeOK'
  <2> USE DEF ReaderState, AtRest, Answer
  <2>1. CASE FlightReads(i)
    BY <1>4, <2>1 DEF FlightReads
  <2>2. CASE FlightSettles(i)
    BY <1>4, <2>2 DEF FlightSettles
  <2>3. CASE CrashInstance(i)
    BY <1>4, <2>3 DEF CrashInstance
  <2> QED
    BY <1>4, <2>1, <2>2, <2>3 DEF InstanceStep, Flight
<1>5. ASSUME NEW v \in Version, LapseStep(v)
      PROVE  TypeOK'
  <2>1. lapses + 1 \in 0..MaxLapses
    BY <1>5 DEF LapseStep, ExpireLock, ExpirePage
  <2>2. CASE ExpireLock(v)
    <3>1. lapsed' \in [Reader -> BOOLEAN]
      BY <2>2 DEF ExpireLock
    <3> QED
      BY <2>1, <2>2, <3>1 DEF ExpireLock
  <2>3. CASE ExpirePage(v)
    BY <2>1, <2>3 DEF ExpirePage
  <2> QED
    BY <1>5, <2>2, <2>3 DEF LapseStep
<1> QED
  BY <1>1, <1>2, <1>3, <1>4, <1>5, NextSplit

(* An executed INCR: what it announces is committed, and the new version    *)
(* has no page and no request yet.                                          *)
LEMMA AnnounceKeeps ==
    ASSUME IInv, NEW c \in unbumped, Announce(c),
           UNCHANGED <<data, page, rebuildLock, readerVars, flightVars>>
    PROVE  /\ PageNotOlder' /\ RequestsInv' /\ version' = version + 1
           /\ \A v \in Version : announced'[v] <= data'
           /\ \A v \in Version : page'[v] # Empty => v <= version'
<1> USE DEF IInv
<1>1. /\ data \in Nat /\ version \in Nat
      /\ \A r \in Reader : seen[r] \in Version /\ seen[r] <= version
      /\ \A v \in Version : v \in Nat /\ announced[v] \in Nat
  BY DEF TypeOK, Content, Version, BodiesFresh
<1>2. /\ c <= data /\ version' = version + 1 /\ version + 1 \in Version
      /\ announced'[version + 1] \in {c, announced[version]}
      /\ \A v \in Version : v # version + 1 => announced'[v] = announced[v]
  BY AnnounceType
<1>3. \A v \in Version : page[v] # Empty => v <= version
  BY DEF AnnouncedCommitted
<1>4. PageNotOlder'
  BY <1>1, <1>2, <1>3 DEF PageNotOlder
<1>5. \A r \in Reader : announced'[seen[r]] = announced[seen[r]] /\ seen[r] <= version'
  BY <1>1, <1>2
<1>6. UNCHANGED <<rebuildLock, pc, reads, seen, body, lapsed>>
  BY DEF readerVars
<1>7. BodiesFresh' /\ CachedAnswerFresh'
  BY <1>5, <1>6 DEF BodiesFresh, CachedAnswerFresh
<1>8. RequestsNumbered' /\ RebuilderHoldsLock'
  BY <1>6 DEF RequestsNumbered, RebuilderHoldsLock, token
<1>9. version \in Version
  BY DEF TypeOK
<1>10. \A v \in Version : announced'[v] <= data'
  BY <1>1, <1>2, <1>9 DEF AnnouncedCommitted
<1>11. \A v \in Version : page'[v] # Empty => v <= version'
  BY <1>1, <1>2, <1>3
<1> QED
  BY <1>2, <1>4, <1>7, <1>8, <1>10, <1>11 DEF RequestsInv

(* Committing and bumping: what is announced is committed, before and after.*)
LEMMA WorkerStepKeeps ==
    ASSUME IInv, WorkerStep
    PROVE  (CacheInv /\ RequestsInv)'
<1> USE DEF IInv
<1>1. /\ data \in Nat /\ version \in Nat /\ resends \in Nat /\ unbumped \subseteq 1..data
      /\ \A v \in Version : announced[v] \in Nat
  BY DEF TypeOK, Content, Version
<1>2. IsFiniteSet(unbumped) /\ Cardinality(unbumped) \in Nat
  BY UnbumpedFinite
<1>3. version + Cardinality(unbumped) <= data + resends
  BY DEF AnnouncedCommitted
<1>4. CASE CommitStock
  <2>1. data' = data + 1 /\ unbumped' = unbumped \cup {data + 1}
        /\ UNCHANGED <<redisVars, readerVars, flightVars, boundVars>>
    BY <1>4 DEF CommitStock
  <2>2. Cardinality(unbumped') = Cardinality(unbumped) + 1
    <3>1. data + 1 \notin unbumped
      BY <1>1
    <3> QED
      BY <1>2, <2>1, <3>1, FS_AddElement
  <2>3. AnnouncedCommitted'
    BY <1>1, <1>2, <1>3, <2>1, <2>2 DEF AnnouncedCommitted, redisVars, boundVars
  <2>4. PageNotOlder' /\ RequestsInv'
    BY <2>1 DEF PageNotOlder, RequestsInv, BodiesFresh, RequestsNumbered, CachedAnswerFresh,
       RebuilderHoldsLock, token, redisVars, readerVars
  <2> QED
    BY <2>3, <2>4 DEF CacheInv
<1>5. CASE BumpVersion
  <2>1. PICK c \in unbumped : /\ unbumped' = unbumped \ {c}
                              /\ Announce(c) \/ UNCHANGED <<version, announced>>
                              /\ UNCHANGED <<data, page, rebuildLock, readerVars, flightVars,
                                             boundVars>>
    BY <1>5 DEF BumpVersion
  <2>2. Cardinality(unbumped') = Cardinality(unbumped) - 1
    BY <1>2, <2>1, FS_RemoveElement
  <2>3. CASE Announce(c)
    <3>1. /\ PageNotOlder' /\ RequestsInv' /\ version' = version + 1
          /\ \A v \in Version : announced'[v] <= data'
          /\ \A v \in Version : page'[v] # Empty => v <= version'
      BY <2>1, <2>3, AnnounceKeeps
    <3>2. version' + Cardinality(unbumped') <= data' + resends'
      BY <1>1, <1>2, <1>3, <2>1, <2>2, <3>1 DEF boundVars
    <3>3. AnnouncedCommitted'
      BY <3>1, <3>2 DEF AnnouncedCommitted
    <3> QED
      BY <3>1, <3>3 DEF CacheInv
  <2>4. CASE UNCHANGED <<version, announced>>
    <3>1. AnnouncedCommitted'
      BY <1>1, <1>2, <1>3, <2>1, <2>2, <2>4 DEF AnnouncedCommitted, boundVars
    <3>2. PageNotOlder' /\ RequestsInv'
      BY <2>1, <2>4 DEF PageNotOlder, RequestsInv, BodiesFresh, RequestsNumbered,
         CachedAnswerFresh, RebuilderHoldsLock, token, readerVars
    <3> QED
      BY <3>1, <3>2 DEF CacheInv
  <2> QED
    BY <2>1, <2>3, <2>4
<1>6. CASE BumpUnheard
  <2>1. PICK c \in unbumped : Announce(c)
    BY <1>6 DEF BumpUnheard
  <2>2. /\ resends' = resends + 1
        /\ UNCHANGED <<data, unbumped, page, rebuildLock, readerVars, flightVars>>
    BY <1>6 DEF BumpUnheard
  <2>3. /\ PageNotOlder' /\ RequestsInv' /\ version' = version + 1
        /\ \A v \in Version : announced'[v] <= data'
        /\ \A v \in Version : page'[v] # Empty => v <= version'
    BY <2>1, <2>2, AnnounceKeeps
  <2>4. version' + Cardinality(unbumped') <= data' + resends'
    BY <1>1, <1>2, <1>3, <2>2, <2>3
  <2>5. AnnouncedCommitted'
    BY <2>3, <2>4 DEF AnnouncedCommitted
  <2> QED
    BY <2>3, <2>5 DEF CacheInv
<1> QED
  BY <1>4, <1>5, <1>6 DEF WorkerStep

(* A request's step: what it serves or files shows what was announced when  *)
(* the request came in, and it takes no lock but a free one.                *)
LEMMA ReaderStepKeeps ==
    ASSUME IInv, NEW r \in Reader, ReaderStep(r)
    PROVE  (CacheInv /\ RequestsInv)'
<1>a. Cardinality(unbumped) \in Nat /\ (resends \in Nat /\ data \in Nat /\ version \in Nat)
  <2>1. TypeOK
    BY DEF IInv
  <2>2. Cardinality(unbumped) \in Nat
    BY <2>1, UnbumpedFinite
  <2> QED
    BY <2>1, <2>2 DEF TypeOK, Content, Version
<1> USE DEF IInv, TypeOK, GoTo, Serve, workerVars, redisVars, readerVars, flightVars, boundVars
<1>0. /\ data \in Nat /\ version \in Nat /\ version \in Version
      /\ \A s \in Reader : seen[s] \in Nat /\ reads[s] \in Nat
      /\ \A s \in Reader : body[s] # Empty => body[s] \in Nat
      /\ \A v \in Version : v \in Nat /\ (page[v] # Empty => page[v] \in Nat)
      /\ \A v \in Version : announced[v] \in Nat /\ announced[v] <= data
      /\ \A s \in Reader : seen[s] \in Version
      /\ Cardinality(unbumped) \in Nat
      /\ Empty \notin Nat
  BY <1>a DEF Version, Content, AnnouncedCommitted
<1>1. CASE ReadPage(r)
  <2>1. /\ reads'[r] = reads[r] + 1 /\ seen'[r] = version /\ UNCHANGED <<workerVars, redisVars, resends>>
        /\ \/ page[version] # Empty /\ pc'[r] = "HIT" /\ body'[r] = page[version]
           \/ pc'[r] \in {"lock", "bypass"}
        /\ \A s \in Reader : s # r => /\ pc'[s] = pc[s] /\ body'[s] = body[s]
                                     /\ reads'[s] = reads[s] /\ seen'[s] = seen[s]
                                     /\ lapsed'[s] = lapsed[s]
    BY <1>1 DEF ReadPage
  <2>2. page[version] # Empty => page[version] >= announced[version]
    BY <1>0 DEF PageNotOlder
  <2>3. CacheInv'
    BY <2>1 DEF CacheInv, AnnouncedCommitted, PageNotOlder
  <2>4. BodiesFresh' /\ RequestsNumbered' /\ CachedAnswerFresh'
    BY <1>0, <2>1, <2>2 DEF BodiesFresh, RequestsNumbered, CachedAnswerFresh
  <2>5. RebuilderHoldsLock'
    BY <2>1 DEF RebuilderHoldsLock, token, Rebuilding
  <2> QED
    BY <2>3, <2>4, <2>5 DEF RequestsInv
<1>2. CASE TryLock(r)
  <2>1. /\ UNCHANGED <<workerVars, version, announced, resends, page, reads, seen, body, lapsed>>
        /\ pc[r] = "lock"
        /\ \A s \in Reader : s # r => pc'[s] = pc[s]
        /\ \/ /\ rebuildLock[seen[r]] = Free /\ pc'[r] \in {"query", "poll", "bypass"}
              /\ rebuildLock' = [rebuildLock EXCEPT ![seen[r]] = token(r)]
           \/ pc'[r] \in {"poll", "bypass"} /\ rebuildLock' = rebuildLock
    BY <1>2 DEF TryLock
  <2>2. CacheInv' /\ BodiesFresh' /\ RequestsNumbered' /\ CachedAnswerFresh'
    BY <1>0, <2>1 DEF CacheInv, AnnouncedCommitted, PageNotOlder, BodiesFresh, RequestsNumbered,
       CachedAnswerFresh
  <2>3. ASSUME NEW s \in Reader, pc'[s] \in Rebuilding
        PROVE  rebuildLock'[seen[s]] = token(s) \/ lapsed[s]
    <3>1. CASE s = r
      BY <2>1, <2>3, <3>1 DEF Rebuilding
    <3>2. CASE s # r
      <4>1. rebuildLock[seen[s]] = token(s) \/ lapsed[s]
        BY <2>1, <2>3, <3>2 DEF RebuilderHoldsLock
      <4>2. token(s) # Free
        BY <1>0 DEF token
      <4> QED
        BY <2>1, <4>1, <4>2
    <3> QED
      BY <3>1, <3>2
  <2>4. RebuilderHoldsLock'
    BY <2>1, <2>3 DEF RebuilderHoldsLock, token
  <2> QED
    BY <2>2, <2>4 DEF RequestsInv
<1>3. CASE QueryPage(r)
  <2>1. /\ UNCHANGED <<workerVars, redisVars, resends, reads, seen, lapsed>>
        /\ pc[r] = "query"
        /\ \A s \in Reader : s # r => pc'[s] = pc[s] /\ body'[s] = body[s]
        /\ \/ pc'[r] = "write" /\ body'[r] = data
           \/ pc'[r] = "release" /\ body'[r] = Empty
    BY <1>3 DEF QueryPage
  <2>2. data # Empty /\ data >= announced[seen[r]]
    BY <1>0 DEF BodiesFresh
  <2>3. CacheInv' /\ BodiesFresh' /\ RequestsNumbered' /\ CachedAnswerFresh'
    BY <1>0, <2>1, <2>2 DEF CacheInv, AnnouncedCommitted, PageNotOlder, BodiesFresh,
       RequestsNumbered, CachedAnswerFresh
  <2>4. RebuilderHoldsLock'
    BY <2>1 DEF RebuilderHoldsLock, token, Rebuilding
  <2> QED
    BY <2>3, <2>4 DEF RequestsInv
<1>4. CASE WritePage(r)
  <2>1. /\ UNCHANGED <<workerVars, version, announced, rebuildLock, reads, seen, body,
                       lapsed, resends>>
        /\ pc[r] = "write" /\ pc'[r] = "release"
        /\ \A s \in Reader : s # r => pc'[s] = pc[s]
        /\ page' = page \/ page' = [page EXCEPT ![seen[r]] = body[r]]
    BY <1>4 DEF WritePage
  <2>2. body[r] # Empty /\ body[r] >= announced[seen[r]] /\ seen[r] <= version
    BY <2>1 DEF BodiesFresh
  <2>a. \A v \in Version : page'[v] # Empty => page'[v] >= announced[v] /\ v <= version
    <3>1. \A v \in Version : page[v] # Empty => page[v] >= announced[v] /\ v <= version
      BY DEF PageNotOlder, AnnouncedCommitted
    <3> QED
      BY <1>0, <2>1, <2>2, <3>1
  <2>b. version + Cardinality(unbumped) <= data + resends
    BY DEF AnnouncedCommitted
  <2>3. CacheInv'
    BY <1>0, <2>1, <2>a, <2>b DEF CacheInv, AnnouncedCommitted, PageNotOlder
  <2>4. BodiesFresh' /\ RequestsNumbered' /\ CachedAnswerFresh'
    BY <1>0, <2>1, <2>2 DEF BodiesFresh, RequestsNumbered, CachedAnswerFresh
  <2>5. RebuilderHoldsLock'
    BY <2>1 DEF RebuilderHoldsLock, token, Rebuilding
  <2> QED
    BY <2>3, <2>4, <2>5 DEF RequestsInv
<1>5. CASE ReleaseLock(r)
  <2>1. /\ UNCHANGED <<workerVars, version, announced, resends, page, reads, seen, body>>
        /\ pc[r] = "release"
        /\ pc'[r] = (IF body[r] = Empty THEN "failed" ELSE "MISS")
        /\ \A s \in Reader : s # r => pc'[s] = pc[s] /\ lapsed'[s] = lapsed[s]
        /\ \/ /\ rebuildLock[seen[r]] = token(r)
              /\ rebuildLock' = [rebuildLock EXCEPT ![seen[r]] = Free]
           \/ rebuildLock' = rebuildLock
    BY <1>5 DEF ReleaseLock
  <2>2. body[r] # Empty => body[r] >= announced[seen[r]]
    BY <2>1 DEF BodiesFresh
  <2>3. CacheInv' /\ BodiesFresh' /\ RequestsNumbered' /\ CachedAnswerFresh'
    BY <1>0, <2>1, <2>2 DEF CacheInv, AnnouncedCommitted, PageNotOlder, BodiesFresh,
       RequestsNumbered, CachedAnswerFresh
  <2>4. ASSUME NEW s \in Reader, pc'[s] \in Rebuilding
        PROVE  rebuildLock'[seen[s]] = token(s) \/ lapsed'[s]
    <3>1. s # r
      BY <2>1, <2>4 DEF Rebuilding
    <3>2. rebuildLock[seen[s]] = token(s) \/ lapsed[s]
      BY <2>1, <2>4, <3>1 DEF RebuilderHoldsLock
    <3>3. token(s) # token(r)
      BY <3>1 DEF token
    <3> QED
      BY <2>1, <3>1, <3>2, <3>3
  <2>5. RebuilderHoldsLock'
    BY <2>1, <2>4 DEF RebuilderHoldsLock, token
  <2> QED
    BY <2>3, <2>5 DEF RequestsInv
<1>6. CASE Poll(r)
  <2>1. /\ UNCHANGED <<workerVars, redisVars, resends, reads, seen, lapsed>>
        /\ pc[r] = "poll"
        /\ \A s \in Reader : s # r => pc'[s] = pc[s] /\ body'[s] = body[s]
        /\ \/ /\ version = seen[r] /\ page[version] # Empty
              /\ pc'[r] = "HIT" /\ body'[r] = page[version]
           \/ pc'[r] \in {"poll", "bypass"}
    BY <1>6 DEF Poll
  <2>2. page[version] # Empty => page[version] >= announced[version]
    BY <1>0 DEF PageNotOlder
  <2>3. CacheInv' /\ BodiesFresh' /\ RequestsNumbered' /\ CachedAnswerFresh'
    BY <1>0, <2>1, <2>2 DEF CacheInv, AnnouncedCommitted, PageNotOlder, BodiesFresh,
       RequestsNumbered, CachedAnswerFresh
  <2>4. RebuilderHoldsLock'
    BY <2>1 DEF RebuilderHoldsLock, token, Rebuilding
  <2> QED
    BY <2>3, <2>4 DEF RequestsInv
<1>7. CASE JoinFlight(r)
  <2>1. /\ UNCHANGED <<workerVars, redisVars, resends, reads, seen, body, lapsed>>
        /\ pc[r] = "bypass" /\ pc'[r] = "await"
        /\ \A s \in Reader : s # r => pc'[s] = pc[s]
    BY <1>7 DEF JoinFlight
  <2> QED
    BY <1>0, <2>1 DEF CacheInv, RequestsInv, AnnouncedCommitted, PageNotOlder, BodiesFresh,
       RequestsNumbered, CachedAnswerFresh, RebuilderHoldsLock, token, Rebuilding
<1>8. CASE WriteUnheard(r)
  <2>1. /\ UNCHANGED <<workerVars, version, announced, rebuildLock, pc, reads, seen, body, lapsed>>
        /\ pc[r] = "write" /\ resends' = resends + 1
        /\ page' = [page EXCEPT ![seen[r]] = body[r]]
    BY <1>8 DEF WriteUnheard
  <2>2. body[r] # Empty /\ body[r] >= announced[seen[r]] /\ seen[r] <= version
    BY <2>1 DEF BodiesFresh
  <2>3. PageNotOlder'
    BY <1>0, <2>1, <2>2 DEF PageNotOlder
  <2>4. \A v \in Version : page'[v] # Empty => v <= version
    BY <1>0, <2>1, <2>2 DEF AnnouncedCommitted
  <2>5. AnnouncedCommitted'
    <3>1. Cardinality(unbumped) \in Nat /\ resends \in Nat
      BY <1>a
    <3> QED
      BY <1>0, <2>1, <2>4, <3>1 DEF AnnouncedCommitted
  <2>6. RequestsInv'
    BY <2>1 DEF RequestsInv, BodiesFresh, RequestsNumbered, CachedAnswerFresh,
       RebuilderHoldsLock, token
  <2> QED
    BY <2>3, <2>5, <2>6 DEF CacheInv
<1> QED
  BY <1>1, <1>2, <1>3, <1>4, <1>5, <1>6, <1>7, <1>8 DEF ReaderStep, Request

(* A flight and a crash touch requests that are in no rebuild.              *)
LEMMA InstanceStepKeeps ==
    ASSUME IInv, NEW i \in Instance, InstanceStep(i)
    PROVE  (CacheInv /\ RequestsInv)'
<1> USE DEF IInv, TypeOK, Version, AtRest, Answer, Rebuilding,
            CacheInv, RequestsInv, AnnouncedCommitted, PageNotOlder, BodiesFresh, RequestsNumbered,
            CachedAnswerFresh, RebuilderHoldsLock, token,
            workerVars, redisVars, readerVars, flightVars, boundVars
<1>1. CASE FlightReads(i)
  BY <1>1 DEF FlightReads
<1>2. CASE FlightSettles(i)
  BY <1>2 DEF FlightSettles
<1>3. CASE CrashInstance(i)
  BY <1>3 DEF CrashInstance
<1> QED
  BY <1>1, <1>2, <1>3 DEF InstanceStep, Flight

(* A lock that expires is recorded as lapsed for its holder.                *)
LEMMA LapseStepKeeps ==
    ASSUME IInv, NEW v \in Version, LapseStep(v)
    PROVE  (CacheInv /\ RequestsInv)'
<1> USE DEF IInv, TypeOK, workerVars, redisVars, readerVars, flightVars
<1>1. CASE ExpireLock(v)
  <2>1. /\ rebuildLock' = [rebuildLock EXCEPT ![v] = Free]
        /\ UNCHANGED <<workerVars, version, announced, resends, page, pc, reads, seen, body>>
        /\ \A r \in Reader : lapsed'[r] = (lapsed[r] \/ (pc[r] \in Rebuilding /\ rebuildLock[v] = token(r)))
    BY <1>1 DEF ExpireLock
  <2>2. (CacheInv /\ BodiesFresh /\ RequestsNumbered /\ CachedAnswerFresh)'
    BY <2>1 DEF CacheInv, AnnouncedCommitted, PageNotOlder, BodiesFresh, RequestsNumbered,
       CachedAnswerFresh
  <2>3. ASSUME NEW r \in Reader, pc[r] \in Rebuilding
        PROVE  rebuildLock'[seen[r]] = token(r) \/ lapsed'[r]
    BY <2>1, <2>3 DEF RebuilderHoldsLock
  <2>4. RebuilderHoldsLock'
    BY <2>1, <2>3 DEF RebuilderHoldsLock, token
  <2> QED
    BY <2>2, <2>4 DEF RequestsInv, CacheInv
<1>2. CASE ExpirePage(v)
  BY <1>2 DEF ExpirePage, CacheInv, RequestsInv, AnnouncedCommitted, PageNotOlder, BodiesFresh,
     RequestsNumbered, CachedAnswerFresh, RebuilderHoldsLock, token, Version
<1> QED
  BY <1>1, <1>2 DEF LapseStep

(* The invariant is inductive.                                              *)
LEMMA StepPreserves == IInv /\ [Next]_vars => IInv'
<1> SUFFICES ASSUME IInv, [Next]_vars PROVE IInv'
  OBVIOUS
<1>1. TypeOK'
  BY TypeStep DEF IInv
<1>2. ASSUME UNCHANGED vars PROVE (CacheInv /\ RequestsInv)'
  BY <1>2 DEF vars, workerVars, redisVars, readerVars, flightVars, boundVars, IInv, CacheInv,
     RequestsInv, AnnouncedCommitted, PageNotOlder, BodiesFresh, RequestsNumbered,
     CachedAnswerFresh, RebuilderHoldsLock, token
<1>3. (CacheInv /\ RequestsInv)'
  BY <1>2, NextSplit, WorkerStepKeeps, ReaderStepKeeps, InstanceStepKeeps, LapseStepKeeps
<1> QED
  BY <1>1, <1>3 DEF IInv, CacheInv, RequestsInv

(* Empty caches, no request, and a database nobody has bought from.         *)
LEMMA InitEstablishes == Init => IInv
<1>1. Cardinality({}) = 0
  BY FS_EmptySet
<1> QED
  BY <1>1 DEF Init, IInv, TypeOK, Version, Content, ReaderState, AtRest, Answer, Rebuilding,
     AnnouncedCommitted, BodiesFresh, RequestsNumbered, PageNotOlder, CachedAnswerFresh,
     RebuilderHoldsLock

(* No interleaving of readers, commits, bumps, expiries and crashes leaves  *)
(* the inductive invariant.                                                 *)
THEOREM Invariance == Spec => []IInv
<1>1. Init => IInv
  BY InitEstablishes
<1>2. IInv /\ [Next]_vars => IInv'
  BY StepPreserves
<1> QED
  BY <1>1, <1>2, PTL DEF Spec

(* The variables keep their types; the version never exceeds the number of  *)
(* commits and resent INCRs, and a poll counter never its limit.            *)
THEOREM TypeCorrect == Spec => []TypeOK
<1>1. IInv => TypeOK
  BY DEF IInv
<1> QED
  BY <1>1, Invariance, PTL

(* A cached page shows every stock change announced by the time the version *)
(* it is filed under became that number, though INCRs are lost or doubled.  *)
THEOREM PageTheorem == Spec => []PageNotOlder
<1>1. IInv => PageNotOlder
  BY DEF IInv
<1> QED
  BY <1>1, Invariance, PTL

(* A HIT or a MISS shows every stock change announced when its request came *)
(* in, though INCRs are lost or doubled.                                    *)
THEOREM AnswerTheorem == Spec => []CachedAnswerFresh
<1>1. IInv => CachedAnswerFresh
  BY DEF IInv
<1> QED
  BY <1>1, Invariance, PTL

(* A rebuild's lock is taken from it by the TTL alone.                      *)
THEOREM RebuildLockTheorem == Spec => []RebuilderHoldsLock
<1>1. IInv => RebuilderHoldsLock
  BY DEF IInv
<1> QED
  BY <1>1, Invariance, PTL
=============================================================================
