------------------------------ MODULE CacheStats -----------------------------
(***************************************************************************)
(* The hit and miss counters of the product page cache: counted in memory  *)
(* by each API process, written to Redis once a second and before every    *)
(* GET /cache/stats, and load-test/cache-hit-miss.js, which reads them     *)
(* back after every request to say whether it was a hit.                   *)
(*                                                                         *)
(* A process sends its commands to Redis over one connection, in order.    *)
(* The errors counter is incremented directly and takes no part in this.   *)
(***************************************************************************)
EXTENDS Integers, Sequences, FiniteSets, Functions

CONSTANTS
    Instance,           \* API processes behind nginx
    Client,             \* whoever asks for the stats
    Prober,             \* the client that runs cache-hit-miss.js
    RepeatHits,         \* REPEAT_HITS
    MaxEvents,          \* bound: reads and stats requests by anyone else,
                        \* failed commands and killed processes, together
    Timer               \* the setInterval, as the caller of a flush

ASSUME BoundAssumption ==
    /\ IsFiniteSet(Instance)
    /\ Prober \in Client /\ Timer \notin Client
    /\ RepeatHits \in Nat /\ MaxEvents \in Nat

Key == {"hits", "misses"}
Zero == [k \in Key |-> 0]
One(k) == [Zero EXCEPT ![k] = 1]
f (+) g == [k \in Key |-> f[k] + g[k]]

VARIABLES
    stored,             \* Redis: cache:hits and cache:misses
    pending,            \* instance |-> pendingCounters
    wire,               \* instance |-> commands sent, not yet executed
    pc, at, reply,      \* per client: its stats request, who serves it, its answer
    \* --- cache-hit-miss.js ---
    reads, step, prev, unregistered,
    page,               \* the page it asks for, under the current version
    \* --- bounds ---
    others, asks, faults,
    \* --- history ---
    counted,            \* every count ever made
    owed,               \* client |-> what its answer must at least include
    lost, twice,        \* counts that never reached Redis, and that did so again
    apart,              \* a probe's read and stats went to different instances
    primed,             \* the page was there, or being built, at the first request
    cooled              \* and it went away between the requests

serviceVars == <<stored, pending, wire, counted, lost, twice>>
clientVars == <<pc, at, reply, owed>>
probeVars == <<reads, step, prev, unregistered, apart, page, primed, cooled>>
vars == <<serviceVars, clientVars, probeVars, others, asks, faults>>

(* No page, a page, or no page but the rebuild lock of another reader.      *)
PageState == {"cold", "warm", "locked"}

Command ==
    [kind : {"incrby"}, batch : [Key -> Nat], from : Client \cup {Timer}]
        \cup [kind : {"get"}, key : Key, from : Client]

Init ==
    /\ stored = Zero /\ counted = Zero /\ lost = Zero /\ twice = Zero
    /\ pending = [i \in Instance |-> Zero]
    /\ wire = [i \in Instance |-> <<>>]
    /\ pc = [c \in Client |-> "idle"]
    /\ \E i \in Instance : at = [c \in Client |-> i]
    /\ reply = [c \in Client |-> Zero]
    /\ owed = [c \in Client |-> Zero]
    /\ reads = 0 /\ step = "before" /\ prev = Zero
    /\ unregistered = FALSE /\ apart = FALSE
    /\ page \in PageState /\ primed = FALSE /\ cooled = FALSE
    /\ others = 0 /\ asks = 0 /\ faults = 0

Send(i, commands) == wire' = [wire EXCEPT ![i] = @ \o commands]
Gets(c) == <<[kind |-> "get", key |-> "hits", from |-> c],
             [kind |-> "get", key |-> "misses", from |-> c]>>

(* What the first n commands of w add to counter k, and the counts on their *)
(* way from i to Redis.                                                     *)
Amount(cmd, k) == IF cmd.kind = "incrby" THEN cmd.batch[k] ELSE 0
Carried(w, n, k) == SumFunctionOnSet([m \in 1..Len(w) |-> Amount(w[m], k)], 1..n)
InFlight(i, k) == Carried(wire[i], Len(wire[i]), k)

(* incrCounter, in memory only: once for each counter a request goes by.    *)
incrCounters(i, f) ==
    /\ pending' = [pending EXCEPT ![i] = @ (+) f]
    /\ counted' = counted (+) f

\* ------------------------------------------------------- ProductCacheService

EventLeft == others + asks + faults < MaxEvents

(* Another reader's hit or miss; a miss may lock the script's page.         *)
OtherRead(i, k) ==
    /\ EventLeft
    /\ others' = others + 1
    /\ incrCounters(i, One(k))
    /\ page' = page \/ (k = "misses" /\ page = "cold" /\ page' = "locked")
    /\ UNCHANGED <<stored, wire, lost, twice, clientVars, asks, faults,
                   reads, step, prev, unregistered, apart, primed, cooled>>

(* The page or the lock expires, or an order moves the version on; the      *)
(* holder of the lock, whose miss is counted, writes the page.              *)
PageMoves ==
    /\ \/ page # "cold" /\ page' = "cold"
       \/ page = "locked" /\ page' = "warm"
    /\ cooled' = (cooled \/ (reads > 0 /\ page' = "cold"))
    /\ UNCHANGED <<serviceVars, clientVars, reads, step, prev, unregistered, apart, primed,
                   others, asks, faults>>

(* Mutant: the map is cleared after the await, not before it.               *)
BugClearAfter(i, from) ==
    Send(i, <<[kind |-> "incrby", batch |-> pending[i], from |-> from]>>)
        /\ UNCHANGED pending

(* flushCounters up to its await: snapshot, clear, send the batch.          *)
flushCounters(i, from) ==
    /\ Send(i, <<[kind |-> "incrby", batch |-> pending[i], from |-> from]>>)
    /\ pending' = [pending EXCEPT ![i] = Zero]

FlushTimer(i) ==
    /\ pending[i] # Zero
    /\ flushCounters(i, Timer)
    /\ UNCHANGED <<stored, counted, lost, twice, clientVars, probeVars, others, asks, faults>>

(* Mutant: getStats reads the counters without flushing its own.            *)
BugNoFlush(c, i) ==
    pc' = [pc EXCEPT ![c] = "get"] /\ Send(i, Gets(c)) /\ UNCHANGED pending

(* getStats: flush, wait for it, then read; nothing buffered, no wait.      *)
getStats(c, i) ==
    \/ /\ pending[i] # Zero
       /\ flushCounters(i, c)
       /\ pc' = [pc EXCEPT ![c] = "flush"]
    \/ /\ pending[i] = Zero
       /\ Send(i, Gets(c))
       /\ pc' = [pc EXCEPT ![c] = "get"]
       /\ UNCHANGED pending

Ask(c, i) ==
    /\ at' = [at EXCEPT ![c] = i]
    /\ owed' = [owed EXCEPT ![c] = [k \in Key |-> stored[k] + pending[i][k] + InFlight(i, k)]]
    /\ reply' = [reply EXCEPT ![c] = Zero]
    /\ getStats(c, i)
    /\ UNCHANGED <<stored, counted, lost, twice>>

(* Anyone else may ask for the stats at any time (watch-cache-stats.sh).     *)
OtherAsks(c, i) ==
    /\ c # Prober /\ pc[c] = "idle" /\ EventLeft
    /\ asks' = asks + 1
    /\ Ask(c, i)
    /\ UNCHANGED <<probeVars, others, faults>>

(* Mutant: the request that flushed is not woken when its batch is written. *)
BugNoWake(i, cmd) == wire' = [wire EXCEPT ![i] = Tail(@)] /\ UNCHANGED <<pc, reply>>

(* The promise of the first command on i's connection settles: a flush lets *)
(* its caller go on to read, a read that was the last one answers.          *)
Settled(i, cmd) ==
    /\ wire' = [wire EXCEPT ![i] = Tail(@) \o IF cmd.kind = "incrby" /\ cmd.from # Timer
                                                 THEN Gets(cmd.from) ELSE <<>>]
    /\ pc' = IF cmd.from = Timer THEN pc
             ELSE [pc EXCEPT ![cmd.from] =
                     IF cmd.kind = "get" /\ cmd.key = "misses" THEN "answered" ELSE "get"]

(* Redis executes the next command of i's connection and answers it.        *)
Execute(i) ==
    LET cmd == Head(wire[i]) IN
    /\ wire[i] # <<>>
    /\ Settled(i, cmd)
    /\ IF cmd.kind = "incrby"
         THEN stored' = stored (+) cmd.batch /\ UNCHANGED reply
         ELSE /\ reply' = [reply EXCEPT ![cmd.from][cmd.key] = stored[cmd.key]]
              /\ UNCHANGED stored
    /\ UNCHANGED <<pending, counted, lost, twice, at, owed, probeVars, others, asks, faults>>

\* ------------------------------------------------------------------ failures

Fault == EventLeft /\ faults' = faults + 1
NextIsFlush(i) == wire[i] # <<>> /\ Head(wire[i]).kind = "incrby"

(* The connection drops after Redis executed the batch: the client library  *)
(* sends what was not answered again.                                       *)
Resend(i) ==
    /\ Fault /\ NextIsFlush(i)
    /\ stored' = stored (+) Head(wire[i]).batch
    /\ twice' = twice (+) Head(wire[i]).batch
    /\ UNCHANGED <<pending, wire, counted, lost, clientVars, probeVars, others, asks>>

(* The library gives up on the batch.  pipeline.exec() then resolves with   *)
(* an error for each command, which flushCounters never looks at.           *)
GiveUp(i) ==
    /\ Fault /\ NextIsFlush(i)
    /\ Settled(i, Head(wire[i]))
    /\ lost' = lost (+) Head(wire[i]).batch
    /\ UNCHANGED <<stored, pending, counted, twice, at, reply, owed, probeVars, others, asks>>

(* Mutant: the counts are put back in place of the newer ones.              *)
BugHandBackOverwrites(i) == pending' = [pending EXCEPT ![i] = Head(wire[i]).batch]

(* Mutant: a sign error in handing them back.                               *)
BugHandBackSubtracts(i) ==
    pending' = [pending EXCEPT ![i] = [k \in Key |-> @[k] - Head(wire[i]).batch[k]]]

(* exec() throws: the counts are added to those made meanwhile.             *)
HandBack(i) == pending' = [pending EXCEPT ![i] = @ (+) Head(wire[i]).batch]

ExecThrows(i) ==
    /\ Fault /\ NextIsFlush(i)
    /\ HandBack(i)
    /\ Settled(i, Head(wire[i]))
    /\ UNCHANGED <<stored, counted, lost, twice, at, reply, owed, probeVars, others, asks>>

(* A GET that fails reports 0.                                              *)
GetFails(i) ==
    /\ Fault /\ wire[i] # <<>> /\ Head(wire[i]).kind = "get"
    /\ Settled(i, Head(wire[i]))
    /\ UNCHANGED <<stored, pending, counted, lost, twice, at, reply, owed, probeVars, others,
                   asks>>

(* SIGTERM or a crash: nobody enabled Nest's shutdown hooks, so             *)
(* onModuleDestroy does not get to flush.  The requests it served fail.     *)
Kill(i) ==
    /\ Fault
    /\ lost' = [k \in Key |-> lost[k] + pending[i][k] + InFlight(i, k)]
    /\ pending' = [pending EXCEPT ![i] = Zero]
    /\ wire' = [wire EXCEPT ![i] = <<>>]
    /\ pc' = [c \in Client |-> IF at[c] = i /\ pc[c] \in {"flush", "get"} THEN "failed" ELSE pc[c]]
    /\ UNCHANGED <<stored, counted, twice, at, reply, owed, probeVars, others, asks>>

\* ---------------------------------------------------------- cache-hit-miss.js

(* What the script expects of its n-th request: one miss, then hits.        *)
Expected(n) == IF n = 1 THEN "misses" ELSE "hits"

(* getStats() of the script, before the first request and after each one.   *)
ProbeAsks(i) ==
    /\ step \in {"before", "after"} /\ pc[Prober] = "idle"
    /\ Ask(Prober, i)
    /\ apart' = (apart \/ (step = "after" /\ at[Prober] # i))
    /\ UNCHANGED <<reads, step, prev, unregistered, page, primed, cooled,
                   others, asks, faults>>

(* getProductsPageWithStatus: a hit; a miss that rebuilds the page; a miss  *)
(* behind another's lock, which polls until it finds the page or gives up.  *)
PageHit(i) == page = "warm" /\ incrCounters(i, One("hits")) /\ UNCHANGED page
PageRebuilt(i) == page = "cold" /\ incrCounters(i, One("misses")) /\ page' = "warm"
PageAwaited(i) ==
    /\ page = "locked"
    /\ \/ incrCounters(i, One("misses")) /\ UNCHANGED page
       \/ incrCounters(i, One("misses") (+) One("hits")) /\ page' = "warm"

(* Its read of Redis fails, and it goes by uncounted; or what follows the   *)
(* miss does, and no page is written, with or without the lock set.         *)
ReadFails(i) ==
    \/ incrCounters(i, Zero) /\ UNCHANGED page
    \/ page # "warm" /\ incrCounters(i, One("misses")) /\ page' \in {page, "locked"}

(* getProducts(): the request is counted where it is served.                *)
ProbeReads(i) ==
    /\ step = "read" /\ reads <= RepeatHits
    /\ \/ (PageHit(i) \/ PageRebuilt(i) \/ PageAwaited(i)) /\ UNCHANGED faults
       \/ Fault /\ ReadFails(i)
    /\ primed' = (primed \/ (reads = 0 /\ page # "cold"))
    /\ reads' = reads + 1
    /\ step' = "after"
    /\ at' = [at EXCEPT ![Prober] = i]
    /\ UNCHANGED <<stored, wire, lost, twice, pc, reply, owed, prev, unregistered, apart,
                   cooled, others, asks>>

(* The checks: the expected counter is up by one, the other is where it was.*)
Unregistered == reply[Prober] # prev (+) One(Expected(reads))

ProbeJudges ==
    /\ step \in {"before", "after"} /\ pc[Prober] \in {"answered", "failed"}
    /\ unregistered' = (unregistered \/ (step = "after" /\ Unregistered))
    /\ prev' = reply[Prober]
    /\ step' = IF reads > RepeatHits THEN "done" ELSE "read"
    /\ pc' = [pc EXCEPT ![Prober] = "idle"]
    /\ reply' = [reply EXCEPT ![Prober] = Zero]
    /\ owed' = [owed EXCEPT ![Prober] = Zero]
    /\ UNCHANGED <<serviceVars, at, reads, apart, page, primed, cooled, others, asks, faults>>

\* -------------------------------------------------------------- specification

Failure(i) == Resend(i) \/ GiveUp(i) \/ ExecThrows(i) \/ GetFails(i) \/ Kill(i)
Probe == ProbeJudges \/ \E i \in Instance : ProbeAsks(i) \/ ProbeReads(i)

Next ==
    \/ Probe \/ PageMoves
    \/ \E i \in Instance :
          \/ FlushTimer(i) \/ Execute(i) \/ Failure(i)
          \/ \E k \in Key : OtherRead(i, k)
          \/ \E c \in Client : OtherAsks(c, i)

Spec == Init /\ [][Next]_vars

(* The timer fires every COUNTER_FLUSH_MS, Redis answers a connection that  *)
(* works, and the script goes on.  No other reader and no fault need come.  *)
FairSpec == /\ Spec
            /\ WF_vars(Probe)
            /\ \A i \in Instance : WF_vars(FlushTimer(i)) /\ WF_vars(Execute(i))

\* ----------------------------------------------------------------- properties

TypeOK ==
    /\ stored \in [Key -> Nat] /\ lost \in [Key -> Nat] /\ twice \in [Key -> Nat]
    /\ pending \in [Instance -> [Key -> Nat]] /\ counted \in [Key -> Nat]
    /\ wire \in [Instance -> Seq(Command)]
    /\ pc \in [Client -> {"idle", "flush", "get", "answered", "failed"}]
    /\ at \in [Client -> Instance]
    /\ reply \in [Client -> [Key -> Nat]] /\ owed \in [Client -> [Key -> Nat]]
    /\ reads \in 0..(RepeatHits + 1) /\ prev \in [Key -> Nat]
    /\ step \in {"before", "read", "after", "done"}
    /\ unregistered \in BOOLEAN /\ apart \in BOOLEAN
    /\ page \in PageState /\ primed \in BOOLEAN /\ cooled \in BOOLEAN
    /\ others \in Nat /\ asks \in Nat /\ faults \in Nat
    /\ others + asks + faults \in 0..MaxEvents

(* "Snapshot and clear before awaiting": with flushes of the timer and of   *)
(* getStats overlapping, every count is buffered, on its way or in Redis,   *)
(* exactly once -- but for the batches a failure dropped or sent again.     *)
CountsConserved ==
    \A k \in Key :
        stored[k] + lost[k] + SumFunction([i \in Instance |-> pending[i][k] + InFlight(i, k)])
            = counted[k] + twice[k]

(* getStats: "Whatever is still buffered belongs in this answer", also when *)
(* the timer has just taken it out of the buffer and is still writing it.   *)
OwnCountsAnswered ==
    faults = 0 => \A c \in Client : pc[c] = "answered" =>
                      \A k \in Key : reply[c][k] >= owed[c][k]

(* cache-hit-miss.js blames a page cached by a previous run for a first     *)
(* request that was no miss.  Of the requests it reports there are four     *)
(* more explanations, and no sixth: someone else was reading; a command     *)
(* failed; the page expired, or an order moved the version, between two     *)
(* requests; nginx sent a request and the stats call after it to different  *)
(* processes, and the first flushes a second later while the script waits   *)
(* 0.2 s.                                                                   *)
HitMissSound == unregistered => primed \/ cooled \/ others > 0 \/ faults > 0 \/ apart

(* A command on the wire belongs to a request that waits for it there: one  *)
(* batch, or its reads, the hits before the misses.                         *)
CommandsAwaited ==
    \A i \in Instance : \A n \in 1..Len(wire[i]) :
        LET cmd == wire[i][n] IN
        cmd.from # Timer =>
            /\ at[cmd.from] = i
            /\ pc[cmd.from] = IF cmd.kind = "incrby" THEN "flush" ELSE "get"
            /\ \A m \in 1..(n - 1) :
                   wire[i][m].from = cmd.from =>
                       wire[i][m].kind = "get" /\ wire[i][m].key = "hits" /\ cmd.key = "misses"

(* While nothing failed, a request's command finds in Redis, or ahead of it *)
(* on its own connection, all that the request owes its caller; and a hits  *)
(* counter that was read already contains it.                               *)
OwedAhead ==
    /\ \A i \in Instance : \A n \in 1..Len(wire[i]) :
           wire[i][n].from # Timer =>
               \A k \in Key : stored[k] + Carried(wire[i], n, k) >= owed[wire[i][n].from][k]
    /\ \A c \in Client : pc[c] = "get" =>
           \/ reply[c]["hits"] >= owed[c]["hits"]
           \/ \E n \in 1..Len(wire[at[c]]) :
                 LET cmd == wire[at[c]][n] IN
                 cmd.from = c /\ cmd.kind = "get" /\ cmd.key = "hits"

(* Where failures are what makes counts appear twice and requests fail.     *)
FaultlessRun ==
    faults = 0 => /\ twice = Zero
                  /\ \A c \in Client : pc[c] # "failed"
                  /\ OwedAhead

(* Redis' counters only grow, so an answer never shows more than they hold. *)
RepliesReached == \A c \in Client : \A k \in Key : reply[c][k] <= stored[k]

(* The script waits for its stats request before it reads on; left alone,   *)
(* with a page that was cold and then stays and each read's count where it  *)
(* asks, it knows all that was counted.                                     *)
ScriptInformed ==
    /\ step \in {"read", "done"} => pc[Prober] = "idle"
    /\ others = 0 /\ faults = 0 /\ ~apart /\ ~primed /\ ~cooled =>
           /\ ~unregistered
           /\ reads > 0 => page = "warm"
           /\ step = "before" => counted = Zero
           /\ step = "read" => prev = counted /\ stored = counted
           /\ step = "after" =>
                  /\ prev (+) One(Expected(reads)) = counted
                  /\ \A k \in Key :
                        /\ stored[k] + pending[at[Prober]][k] + InFlight(at[Prober], k)
                              >= counted[k]
                        /\ pc[Prober] # "idle" => owed[Prober][k] >= counted[k]

(* The inductive invariant.                                                 *)
IInv == /\ TypeOK /\ CountsConserved
        /\ CommandsAwaited /\ FaultlessRun /\ OwnCountsAnswered
        /\ RepliesReached /\ ScriptInformed /\ HitMissSound

(* Every stats request is answered and every buffered count is written or   *)
(* lost: nothing stays in a process for ever.                               *)
StatsSettle ==
    <>[](/\ step = "done"
         /\ \A c \in Client : pc[c] \notin {"flush", "get"}
         /\ \A i \in Instance : pending[i] = Zero /\ wire[i] = <<>>)
=============================================================================
