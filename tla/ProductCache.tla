---------------------------- MODULE ProductCache -----------------------------
(***************************************************************************)
(* The read path of GET /products for one page and limit: the version      *)
(* counter, the page cached under each version, the rebuild lock of each   *)
(* version, the polling of those who did not get it, and the per-instance  *)
(* single flight to PostgreSQL.  The worker is seen through what it does   *)
(* to this path: it commits, and then bumps the version, once, not at all, *)
(* or more than once when the client sends an unanswered INCR again.       *)
(*                                                                         *)
(* The content of the database is the number of stock changes committed;   *)
(* a page is the content it was read from.                                 *)
(***************************************************************************)
EXTENDS Integers, FiniteSets

CONSTANTS
    Reader,             \* clients, each sending one request after another
    Instance,           \* API processes behind nginx
    LockRetryMax,       \* PRODUCT_CACHE_LOCK_RETRY_MAX
    MaxCommits,         \* bound: stock changes
    MaxReads,           \* bound: requests per client
    MaxLapses,          \* bound: rebuild locks and pages that reach their TTL
    MaxCrashes,         \* bound: crashes of an API process
    MaxResends,         \* bound: executed commands sent again by the client
    RedisMayFail,       \* whether a Redis command may throw
    Empty, Free

ASSUME BoundAssumption ==
    /\ LockRetryMax \in Nat \ {0} /\ MaxReads \in Nat
    /\ MaxCommits \in Nat /\ MaxLapses \in Nat /\ MaxCrashes \in Nat
    /\ MaxResends \in Nat
    /\ RedisMayFail \in BOOLEAN
ASSUME NullAssumption == Empty \notin Nat /\ Free \notin Reader \X Nat

VARIABLES
    \* --- PostgreSQL, and the worker between its commit and its INCR ---
    data, unbumped,     \* stock changes, and those whose INCR is still owed
    \* --- Redis ---
    version,            \* CACHE_VERSION_KEY
    page,               \* version |-> the body cached for it, or Empty
    rebuildLock,        \* version |-> the token in it, or Free
    announced,          \* version |-> the last stock change announced when the
                        \* version became that number (history)
    \* --- per client: its current request ---
    pc, reads, at,      \* where it is, its number, the instance serving it
    seen, polls, body,  \* the version it came in on, its polls, its body
    lapsed,             \* whether its rebuild lock reached its TTL (history)
    \* --- per instance: the inFlight map ---
    flight, flightBody,
    \* --- bounds ---
    lapses, crashes, resends

workerVars == <<data, unbumped>>
redisVars == <<version, page, rebuildLock, announced>>
readerVars == <<pc, reads, at, seen, polls, body, lapsed>>
flightVars == <<flight, flightBody>>
boundVars == <<lapses, crashes, resends>>
vars == <<workerVars, redisVars, readerVars, flightVars, boundVars>>

Content == 0..MaxCommits
Version == 0..(MaxCommits + MaxResends)

(* The X-Cache status an answer carries, or an error.                       *)
Answer == {"HIT", "MISS", "BYPASS", "failed"}
AtRest == Answer \cup {"idle"}
Rebuilding == {"query", "write", "release"}
ReaderState == AtRest \cup Rebuilding \cup {"lock", "poll", "bypass", "await"}

token(r) == <<r, reads[r]>>

Init ==
    /\ data = 0 /\ unbumped = {}
    /\ version = 0
    /\ page = [v \in Version |-> Empty]
    /\ rebuildLock = [v \in Version |-> Free]
    /\ announced = [v \in Version |-> 0]
    /\ pc = [r \in Reader |-> "idle"]
    /\ reads = [r \in Reader |-> 0]
    /\ at \in [Reader -> Instance]
    /\ seen = [r \in Reader |-> 0]
    /\ polls = [r \in Reader |-> 0]
    /\ body = [r \in Reader |-> Empty]
    /\ lapsed = [r \in Reader |-> FALSE]
    /\ flight = [i \in Instance |-> "none"]
    /\ flightBody = [i \in Instance |-> Empty]
    /\ lapses = 0 /\ crashes = 0 /\ resends = 0

GoTo(r, to) == pc' = [pc EXCEPT ![r] = to]
Serve(r, content, status) == body' = [body EXCEPT ![r] = content] /\ GoTo(r, status)

\* -------------------------------------------------------------- the worker

(* An executed INCR: the version moves, and with it what has been announced.*)
Announce(c) ==
    /\ version' = version + 1
    /\ announced' = [announced EXCEPT ![version + 1] =
                        IF c > announced[version] THEN c ELSE announced[version]]

(* Mutant: the version moves as soon as an order is in sight, before the    *)
(* transaction commits.                                                     *)
BugBumpFirst ==
    /\ version < MaxCommits /\ data < MaxCommits
    /\ Announce(data + 1)
    /\ UNCHANGED <<data, unbumped, page, rebuildLock, readerVars, flightVars, boundVars>>

CommitStock ==
    /\ data < MaxCommits
    /\ data' = data + 1
    /\ unbumped' = unbumped \cup {data'}
    /\ UNCHANGED <<redisVars, readerVars, flightVars, boundVars>>

(* The INCR after a commit; it may fail, or the worker may die before it.   *)
BumpVersion ==
    \E c \in unbumped :
        /\ unbumped' = unbumped \ {c}
        /\ Announce(c) \/ UNCHANGED <<version, announced>>
        /\ UNCHANGED <<data, page, rebuildLock, readerVars, flightVars, boundVars>>

(* The connection is lost between the INCR and its answer: Redis has moved  *)
(* the version, and the client, which resends what was not answered, is     *)
(* about to move it again.                                                  *)
BumpUnheard ==
    /\ resends < MaxResends
    /\ resends' = resends + 1
    /\ \E c \in unbumped : Announce(c)
    /\ UNCHANGED <<data, unbumped, page, rebuildLock, readerVars, flightVars, lapses, crashes>>

\* --------------------------------------------- getProductsPageWithStatus

(* A new request, on any instance; READ_PAGE_SCRIPT reads the version and   *)
(* the page under it in one step.                                           *)
ReadPage(r) ==
    /\ pc[r] \in AtRest /\ reads[r] < MaxReads
    /\ reads' = [reads EXCEPT ![r] = @ + 1]
    /\ \E i \in Instance : at' = [at EXCEPT ![r] = i]
    /\ seen' = [seen EXCEPT ![r] = version]
    /\ \/ page[version] # Empty /\ Serve(r, page[version], "HIT")
       \/ page[version] = Empty /\ GoTo(r, "lock") /\ UNCHANGED body
       \/ RedisMayFail /\ GoTo(r, "bypass") /\ UNCHANGED body
    /\ UNCHANGED <<workerVars, redisVars, polls, lapsed, flightVars, boundVars>>

\* --------------------------------------------------------- rebuildOrWait

(* SET lockKey token PX ttl NX, on the version the request came in on.  A   *)
(* SET whose answer is lost may have taken the lock: sent again it finds    *)
(* the lock held, by this very token, and the request polls; given up, it   *)
(* throws, and the request bypasses.                                        *)
TryLock(r) ==
    /\ pc[r] = "lock"
    /\ \/ /\ rebuildLock[seen[r]] = Free
          /\ rebuildLock' = [rebuildLock EXCEPT ![seen[r]] = token(r)]
          /\ GoTo(r, "query")
       \/ rebuildLock[seen[r]] # Free /\ GoTo(r, "poll") /\ UNCHANGED rebuildLock
       \/ RedisMayFail /\ GoTo(r, "bypass") /\ UNCHANGED rebuildLock
       \/ /\ RedisMayFail /\ rebuildLock[seen[r]] = Free
          /\ rebuildLock' = [rebuildLock EXCEPT ![seen[r]] = token(r)]
          /\ GoTo(r, "poll") \/ GoTo(r, "bypass")
    /\ UNCHANGED <<workerVars, version, announced, page, reads, at, seen, polls, body, lapsed,
                   flightVars, boundVars>>

(* Mutant: the rebuild joins the instance's flight, whose query may have    *)
(* been answered before this version was announced.                         *)
BugQueryCoalesced(r) ==
    /\ pc[r] = "query"
    /\ IF flightBody[at[r]] # Empty THEN Serve(r, flightBody[at[r]], "write")
                                    ELSE Serve(r, data, "write") \/ Serve(r, Empty, "release")
    /\ UNCHANGED <<workerVars, redisVars, reads, at, seen, polls, lapsed, flightVars, boundVars>>

(* buildResponse of the lock holder; a query that fails leaves no body.     *)
QueryPage(r) ==
    /\ pc[r] = "query"
    /\ Serve(r, data, "write") \/ Serve(r, Empty, "release")
    /\ UNCHANGED <<workerVars, redisVars, reads, at, seen, polls, lapsed, flightVars, boundVars>>

(* Mutant: the page key is derived again from the version of the moment.    *)
BugWriteUnderCurrentVersion(r) ==
    /\ pc[r] = "write"
    /\ page' = [page EXCEPT ![version] = body[r]]
    /\ GoTo(r, "release")
    /\ UNCHANGED <<workerVars, version, announced, rebuildLock, reads, at, seen, polls, body, lapsed,
                   flightVars, boundVars>>

(* The body goes under the key the request read, whatever the version is by *)
(* now; a failed write is swallowed.                                        *)
WritePage(r) ==
    /\ pc[r] = "write"
    /\ \/ page' = [page EXCEPT ![seen[r]] = body[r]]
       \/ RedisMayFail /\ UNCHANGED page
    /\ GoTo(r, "release")
    /\ UNCHANGED <<workerVars, version, announced, rebuildLock, reads, at, seen, polls, body, lapsed,
                   flightVars, boundVars>>

(* A write executed, unanswered and sent again.                             *)
WriteUnheard(r) ==
    /\ pc[r] = "write" /\ resends < MaxResends
    /\ resends' = resends + 1
    /\ page' = [page EXCEPT ![seen[r]] = body[r]]
    /\ UNCHANGED <<workerVars, version, announced, rebuildLock, readerVars, flightVars,
                   lapses, crashes>>

(* Mutant: a bare DEL.                                                      *)
BugBareDelete(r) ==
    /\ pc[r] = "release"
    /\ rebuildLock' = [rebuildLock EXCEPT ![seen[r]] = Free]
    /\ GoTo(r, IF body[r] = Empty THEN "failed" ELSE "MISS")
    /\ lapsed' = [lapsed EXCEPT ![r] = FALSE]
    /\ UNCHANGED <<workerVars, version, announced, page, reads, at, seen, polls, body, flightVars,
                   boundVars>>

(* RELEASE_LOCK_SCRIPT: the lock goes only if it still holds this token;    *)
(* sent again, the script finds no token of its own.                        *)
ReleaseLock(r) ==
    /\ pc[r] = "release"
    /\ \/ /\ rebuildLock[seen[r]] = token(r)
          /\ rebuildLock' = [rebuildLock EXCEPT ![seen[r]] = Free]
       \/ /\ rebuildLock[seen[r]] # token(r) \/ RedisMayFail
          /\ UNCHANGED rebuildLock
    /\ GoTo(r, IF body[r] = Empty THEN "failed" ELSE "MISS")
    /\ lapsed' = [lapsed EXCEPT ![r] = FALSE]
    /\ UNCHANGED <<workerVars, version, announced, page, reads, at, seen, polls, body, flightVars,
                   boundVars>>

(* Mutant: the waiting loop has no last pass, and retries a failed command. *)
BugPollForever(r) ==
    /\ pc[r] = "poll"
    /\ \/ /\ version = seen[r] /\ page[version] # Empty
          /\ Serve(r, page[version], "HIT")
          /\ polls' = [polls EXCEPT ![r] = 0]
       \/ /\ version = seen[r] /\ page[version] = Empty
          /\ UNCHANGED <<pc, polls, body>>
       \/ /\ version # seen[r]
          /\ GoTo(r, "bypass")
          /\ UNCHANGED <<polls, body>>
    /\ UNCHANGED <<workerVars, redisVars, reads, at, seen, lapsed, flightVars, boundVars>>

(* One pass of the waiting loop: sleep, then read version and page again.   *)
Poll(r) ==
    /\ pc[r] = "poll"
    /\ \/ /\ version = seen[r] /\ page[version] # Empty
          /\ Serve(r, page[version], "HIT")
          /\ polls' = [polls EXCEPT ![r] = 0]
       \/ /\ version = seen[r] /\ page[version] = Empty
          /\ polls[r] + 1 < LockRetryMax
          /\ polls' = [polls EXCEPT ![r] = @ + 1]
          /\ UNCHANGED <<pc, body>>
       \/ /\ \/ version # seen[r] \/ RedisMayFail
             \/ page[version] = Empty /\ polls[r] + 1 = LockRetryMax
          /\ polls' = [polls EXCEPT ![r] = 0]
          /\ GoTo(r, "bypass")
          /\ UNCHANGED body
    /\ UNCHANGED <<workerVars, redisVars, reads, at, seen, lapsed, flightVars, boundVars>>

\* ----------------------------------------------- bypass: singleFlightFetch

(* Join the instance's flight for this page, or start it.                   *)
JoinFlight(r) ==
    /\ pc[r] = "bypass"
    /\ flight' = [flight EXCEPT ![at[r]] = IF @ = "none" THEN "reading" ELSE @]
    /\ GoTo(r, "await")
    /\ UNCHANGED <<workerVars, redisVars, reads, at, seen, polls, body, lapsed, flightBody,
                   boundVars>>

(* PostgreSQL answers the flight's query, or the query fails ...            *)
FlightReads(i) ==
    /\ flight[i] = "reading"
    /\ flight' = [flight EXCEPT ![i] = "read"]
    /\ \E content \in {data, Empty} : flightBody' = [flightBody EXCEPT ![i] = content]
    /\ UNCHANGED <<workerVars, redisVars, readerVars, boundVars>>

(* ... and later the promise settles for all who joined, and leaves the map.*)
FlightSettles(i) ==
    LET joined == {r \in Reader : pc[r] = "await" /\ at[r] = i} IN
    /\ flight[i] = "read"
    /\ flight' = [flight EXCEPT ![i] = "none"]
    /\ flightBody' = [flightBody EXCEPT ![i] = Empty]
    /\ body' = [r \in Reader |-> IF r \in joined THEN flightBody[i] ELSE body[r]]
    /\ pc' = [r \in Reader |-> IF r \notin joined THEN pc[r]
                               ELSE IF flightBody[i] = Empty THEN "failed" ELSE "BYPASS"]
    /\ UNCHANGED <<workerVars, redisVars, reads, at, seen, polls, lapsed, boundVars>>

\* ------------------------------------------------------------ time and death

ExpireLock(v) ==
    /\ lapses < MaxLapses /\ rebuildLock[v] # Free
    /\ lapses' = lapses + 1
    /\ rebuildLock' = [rebuildLock EXCEPT ![v] = Free]
    /\ lapsed' = [r \in Reader |->
                    lapsed[r] \/ (pc[r] \in Rebuilding /\ rebuildLock[v] = token(r))]
    /\ UNCHANGED <<workerVars, version, announced, page, pc, reads, at, seen, polls, body, flightVars, crashes, resends>>

ExpirePage(v) ==
    /\ lapses < MaxLapses /\ page[v] # Empty
    /\ lapses' = lapses + 1
    /\ page' = [page EXCEPT ![v] = Empty]
    /\ UNCHANGED <<workerVars, version, announced, rebuildLock, readerVars, flightVars, crashes, resends>>

(* The process dies with its requests and its map; its locks stay behind.   *)
CrashInstance(i) ==
    /\ crashes < MaxCrashes
    /\ crashes' = crashes + 1
    /\ pc' = [r \in Reader |-> IF at[r] = i /\ pc[r] \notin AtRest THEN "failed" ELSE pc[r]]
    /\ polls' = [r \in Reader |-> IF at[r] = i THEN 0 ELSE polls[r]]
    /\ lapsed' = [r \in Reader |-> at[r] # i /\ lapsed[r]]
    /\ flight' = [flight EXCEPT ![i] = "none"]
    /\ flightBody' = [flightBody EXCEPT ![i] = Empty]
    /\ UNCHANGED <<workerVars, redisVars, reads, at, seen, body, lapses, resends>>

\* ---------------------------------------------------------------- specification

Request(r) == TryLock(r) \/ QueryPage(r) \/ WritePage(r) \/ ReleaseLock(r) \/ Poll(r)
                 \/ JoinFlight(r)
Flight(i) == FlightReads(i) \/ FlightSettles(i)

Next ==
    \/ CommitStock \/ BumpVersion \/ BumpUnheard
    \/ \E r \in Reader : ReadPage(r) \/ Request(r) \/ WriteUnheard(r)
    \/ \E i \in Instance : Flight(i) \/ CrashInstance(i)
    \/ \E v \in Version : ExpireLock(v) \/ ExpirePage(v)

Spec == Init /\ [][Next]_vars

(* A request in progress and a query in flight move on.  No lock is bound   *)
(* to expire and no holder to finish.                                       *)
FairSpec == Spec /\ (\A r \in Reader : WF_vars(Request(r)))
                 /\ (\A i \in Instance : WF_vars(Flight(i)))

\* -------------------------------------------------------------------- properties

TypeOK ==
    /\ data \in Content /\ unbumped \subseteq 1..data /\ version \in Version
    /\ page \in [Version -> Content \cup {Empty}]
    /\ announced \in [Version -> Content]
    /\ rebuildLock \in [Version -> (Reader \X (1..MaxReads)) \cup {Free}]
    /\ pc \in [Reader -> ReaderState]
    /\ reads \in [Reader -> 0..MaxReads]
    /\ at \in [Reader -> Instance]
    /\ seen \in [Reader -> Version]
    /\ polls \in [Reader -> 0..LockRetryMax]
    /\ body \in [Reader -> Content \cup {Empty}]
    /\ lapsed \in [Reader -> BOOLEAN]
    /\ flight \in [Instance -> {"none", "reading", "read"}]
    /\ flightBody \in [Instance -> Content \cup {Empty}]
    /\ lapses \in 0..MaxLapses /\ crashes \in 0..MaxCrashes /\ resends \in 0..MaxResends

(* "The version bump keeps the cache correct": a page filed under a version *)
(* shows every stock change announced by the time the version became that   *)
(* number, however late its writer was, however the version moved while it  *)
(* was being built, and however often an INCR was sent for one change.      *)
PageNotOlder == \A v \in Version : page[v] # Empty => page[v] >= announced[v]

(* An answer marked HIT or MISS shows every stock change announced by the   *)
(* time its request came in.                                                *)
CachedAnswerFresh ==
    \A r \in Reader : pc[r] \in {"HIT", "MISS"} => body[r] >= announced[seen[r]]

(* releaseLock's token: whoever rebuilds a version holds its lock, or lost  *)
(* it to the TTL -- never to another request that finished late.            *)
RebuilderHoldsLock ==
    \A r \in Reader : pc[r] \in Rebuilding =>
        rebuildLock[seen[r]] = token(r) \/ lapsed[r]

(* What has been announced is committed, and nothing is filed ahead of the  *)
(* version, which has moved for commits and for resent INCRs alone.         *)
AnnouncedCommitted ==
    /\ version + Cardinality(unbumped) <= data + resends
    /\ \A v \in Version : /\ announced[v] <= data
                          /\ page[v] # Empty => v <= version

(* A request's version is one the version key has held, and the body it is  *)
(* about to file or to answer with shows what was announced by then.        *)
BodiesFresh ==
    \A r \in Reader :
        /\ seen[r] <= version
        /\ pc[r] = "write" => body[r] # Empty
        /\ pc[r] \in {"write", "release"} /\ body[r] # Empty => body[r] >= announced[seen[r]]
        /\ pc[r] \in {"HIT", "MISS"} => body[r] # Empty

(* A request in progress has a number, and so has its token.                *)
RequestsNumbered == \A r \in Reader : pc[r] # "idle" => reads[r] > 0

(* The inductive invariant.                                                 *)
IInv == /\ TypeOK
        /\ AnnouncedCommitted /\ BodiesFresh /\ RequestsNumbered
        /\ PageNotOlder /\ CachedAnswerFresh /\ RebuilderHoldsLock

(* Every request is answered, though the lock holder died or never writes.  *)
ReadsAnswered == \A r \in Reader : pc[r] \notin AtRest ~> pc[r] \in AtRest

\* ----------------------------------- what the repository says, and the code does not

(* load-test/cache-invalidation.js: within one reader's own sequential      *)
(* reads remainingStock never climbs, so the changes it shows never shrink. *)
MonotonicReads ==
    [][\A r \in Reader :
            body[r] # Empty /\ body'[r] # Empty => body'[r] >= body[r]]_vars
=============================================================================
