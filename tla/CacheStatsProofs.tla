--------------------------- MODULE CacheStatsProofs --------------------------
(***************************************************************************)
(* Theorems about CacheStats, for any processes, clients and bounds: what  *)
(* the counters hold, what a stats request is told, and when               *)
(* cache-hit-miss.js is right to complain.                                 *)
(***************************************************************************)
EXTENDS CacheStats, SequenceTheorems, SumLemmas

USE BoundAssumption

Counts == [Key -> Nat]

(* Counts add up counter by counter.                                        *)
LEMMA Adding ==
    /\ Zero \in Counts /\ \A k \in Key : Zero[k] = 0
    /\ \A k \in Key : One(k) \in Counts
    /\ \A g, h \in Counts : /\ g (+) h \in Counts
                            /\ \A k \in Key : (g (+) h)[k] = g[k] + h[k]
BY DEF Counts, Zero, One, (+)

(* The same for two given counters.                                         *)
LEMMA AddedAt ==
    ASSUME NEW g \in Counts, NEW h \in Counts, NEW k \in Key
    PROVE  (g (+) h)[k] = g[k] + h[k] /\ g[k] \in Nat /\ h[k] \in Nat
BY Adding DEF Counts

(* The counters of the service are such functions.                          *)
LEMMA CountsTyped ==
    ASSUME TypeOK
    PROVE  /\ stored \in Counts /\ lost \in Counts /\ twice \in Counts /\ counted \in Counts
           /\ \A i \in Instance : pending[i] \in Counts
BY DEF TypeOK, Counts

\* ------------------------------------------------------------ sums on a wire

(* What a command adds is a natural number.                                 *)
LEMMA AmountTyped ==
    ASSUME NEW cmd \in Command, NEW k \in Key
    PROVE  Amount(cmd, k) \in Nat
BY DEF Amount, Command

(* The sum over a prefix of the wire: empty, and one command longer.        *)
LEMMA CarriedSums ==
    ASSUME NEW w \in Seq(Command), NEW n \in 0..Len(w), NEW k \in Key
    PROVE  /\ Carried(w, n, k) \in Nat
           /\ Carried(w, 0, k) = 0
           /\ n # 0 => Carried(w, n, k) = Carried(w, n - 1, k) + Amount(w[n], k)
<1> DEFINE f == [m \in 1..Len(w) |-> Amount(w[m], k)]
<1>1. \A m \in 1..Len(w) : f[m] \in Nat /\ f[m] = Amount(w[m], k)
  BY AmountTyped
<1>2. 1..n \subseteq 1..Len(w) /\ n \in Nat
  OBVIOUS
<1>3. \A m \in 0..Len(w) : Carried(w, m, k) = SumFunctionOnSet(f, 1..m)
  BY DEF Carried
<1> HIDE DEF f
<1>4. SumFunctionOnSet(f, 1..n) \in Nat
  BY <1>1, <1>2, IntervalFinite, SumType
<1>5. SumFunctionOnSet(f, 1..0) = 0
  <2>1. 1..0 = {}
    OBVIOUS
  <2> QED BY <2>1, SumEmpty
<1>6. n # 0 => SumFunctionOnSet(f, 1..n) = f[n] + SumFunctionOnSet(f, 1..(n - 1))
  <2>1. \A m \in 1..n : f[m] \in Int
    BY <1>1, <1>2
  <2> QED BY <1>2, <2>1, SumLast
<1>7. n # 0 => /\ n \in 1..Len(w) /\ n - 1 \in 0..Len(w)
               /\ SumFunctionOnSet(f, 1..(n - 1)) \in Int
  <2>1. \A m \in 1..n : f[m] \in Int
    BY <1>1, <1>2
  <2> QED BY <1>2, <2>1, SumLast
<1>8. 0 \in 0..Len(w)
  OBVIOUS
<1> QED BY <1>1, <1>3, <1>4, <1>5, <1>6, <1>7, <1>8

(* Executing the first command of the wire takes its amount off every       *)
(* prefix.                                                                  *)
LEMMA CarriedTail ==
    ASSUME NEW w \in Seq(Command), w # <<>>, NEW n \in 1..Len(w), NEW k \in Key
    PROVE  Carried(w, n, k) = Amount(Head(w), k) + Carried(Tail(w), n - 1, k)
<1> DEFINE f == [m \in 1..Len(w) |-> Amount(w[m], k)]
           g == [m \in 1..Len(Tail(w)) |-> Amount(Tail(w)[m], k)]
           p == n - 1
<1>1. /\ Tail(w) \in Seq(Command) /\ Len(Tail(w)) = Len(w) - 1 /\ Head(w) = w[1]
      /\ \A m \in 1..(Len(w) - 1) : Tail(w)[m] = w[m + 1]
  OBVIOUS
<1>2. p \in Nat /\ p + 1 = n /\ p <= Len(w) - 1
  OBVIOUS
<1>3. \A m \in 1..(p + 1) : f[m] = Amount(w[m], k) /\ f[m] \in Int
  BY AmountTyped
<1>4. \A m \in 1..p : g[m] = f[m + 1]
  BY <1>1, <1>2
<1>5. Carried(w, n, k) = SumFunctionOnSet(f, 1..n)
      /\ Carried(Tail(w), p, k) = SumFunctionOnSet(g, 1..p)
  BY DEF Carried
<1> HIDE DEF f, g, p
<1>6. SumFunctionOnSet(f, 1..(p + 1)) = f[1] + SumFunctionOnSet(g, 1..p)
  BY <1>2, <1>3, <1>4, SumShifted
<1>7. f[1] = Amount(Head(w), k)
  BY <1>1, <1>2, <1>3
<1> QED BY <1>2, <1>5, <1>6, <1>7 DEF p

(* Commands sent later change no prefix.                                    *)
LEMMA CarriedPrefix ==
    ASSUME NEW w \in Seq(Command), NEW v \in Seq(Command), NEW n \in 0..Len(w), NEW k \in Key
    PROVE  Carried(w \o v, n, k) = Carried(w, n, k)
<1> DEFINE f == [m \in 1..Len(w) |-> Amount(w[m], k)]
           g == [m \in 1..Len(w \o v) |-> Amount((w \o v)[m], k)]
<1>1. \A m \in 1..n : f[m] = g[m]
  OBVIOUS
<1>2. IsFiniteSet(1..n)
  BY IntervalFinite
<1>3. Carried(w, n, k) = SumFunctionOnSet(f, 1..n)
      /\ Carried(w \o v, n, k) = SumFunctionOnSet(g, 1..n)
  BY DEF Carried
<1> HIDE DEF f, g
<1> QED BY <1>1, <1>2, <1>3, SumCongruent

(* The commands sent by one step, and what they carry.                      *)
LEMMA CarriedSent ==
    ASSUME NEW w \in Seq(Command), NEW k \in Key
    PROVE  /\ \A b \in Counts, c \in Client \cup {Timer} :
                 LET v == <<[kind |-> "incrby", batch |-> b, from |-> c]>> IN
                 /\ w \o v \in Seq(Command) /\ Len(w \o v) = Len(w) + 1
                 /\ Carried(w \o v, Len(w \o v), k) = Carried(w, Len(w), k) + b[k]
           /\ \A c \in Client :
                 /\ w \o Gets(c) \in Seq(Command) /\ Len(w \o Gets(c)) = Len(w) + 2
                 /\ Carried(w \o Gets(c), Len(w \o Gets(c)), k) = Carried(w, Len(w), k)
<1>1. ASSUME NEW b \in Counts, NEW c \in Client \cup {Timer}
      PROVE  LET v == <<[kind |-> "incrby", batch |-> b, from |-> c]>> IN
                 /\ w \o v \in Seq(Command) /\ Len(w \o v) = Len(w) + 1
                 /\ Carried(w \o v, Len(w \o v), k) = Carried(w, Len(w), k) + b[k]
  <2> DEFINE cmd == [kind |-> "incrby", batch |-> b, from |-> c]
             v == <<cmd>>
  <2>1. cmd \in Command /\ Amount(cmd, k) = b[k]
    BY <1>1 DEF Command, Amount, Counts
  <2> HIDE DEF cmd
  <2>2. /\ v \in Seq(Command) /\ w \o v \in Seq(Command) /\ Len(w \o v) = Len(w) + 1
        /\ (w \o v)[Len(w) + 1] = cmd
    BY <2>1
  <2> HIDE DEF v
  <2>3. Carried(w \o v, Len(w) + 1, k) = Carried(w \o v, Len(w), k) + Amount(cmd, k)
    <3>1. Len(w) + 1 \in 0..Len(w \o v) /\ (Len(w) + 1) - 1 = Len(w) /\ Len(w) + 1 # 0
      BY <2>2
    <3> QED BY <2>2, <3>1, CarriedSums
  <2>4. Carried(w \o v, Len(w), k) = Carried(w, Len(w), k)
    BY <2>2, CarriedPrefix
  <2> QED BY <2>1, <2>2, <2>3, <2>4 DEF v, cmd
<1>2. ASSUME NEW c \in Client
      PROVE  /\ w \o Gets(c) \in Seq(Command) /\ Len(w \o Gets(c)) = Len(w) + 2
             /\ Carried(w \o Gets(c), Len(w \o Gets(c)), k) = Carried(w, Len(w), k)
  <2> DEFINE h == [kind |-> "get", key |-> "hits", from |-> c]
             m == [kind |-> "get", key |-> "misses", from |-> c]
             v == Gets(c)
  <2>1. h \in Command /\ m \in Command /\ Amount(h, k) = 0 /\ Amount(m, k) = 0
    BY DEF Command, Amount, Key
  <2>2. v = <<h, m>>
    BY DEF Gets
  <2> HIDE DEF h, m, v
  <2>3. /\ v \in Seq(Command) /\ w \o v \in Seq(Command) /\ Len(w \o v) = Len(w) + 2
        /\ (w \o v)[Len(w) + 1] = h /\ (w \o v)[Len(w) + 2] = m
    BY <2>1, <2>2
  <2>4. Carried(w \o v, Len(w) + 1, k) = Carried(w \o v, Len(w), k) + Amount(h, k)
    <3>1. Len(w) + 1 \in 0..Len(w \o v) /\ (Len(w) + 1) - 1 = Len(w) /\ Len(w) + 1 # 0
      BY <2>3
    <3> QED BY <2>3, <3>1, CarriedSums
  <2>5. Carried(w \o v, Len(w) + 2, k) = Carried(w \o v, Len(w) + 1, k) + Amount(m, k)
    <3>1. Len(w) + 2 \in 0..Len(w \o v) /\ (Len(w) + 2) - 1 = Len(w) + 1 /\ Len(w) + 2 # 0
      BY <2>3
    <3> QED BY <2>3, <3>1, CarriedSums
  <2>6. Carried(w \o v, Len(w), k) = Carried(w, Len(w), k)
    BY <2>3, CarriedPrefix
  <2>7. Carried(w, Len(w), k) \in Nat
    BY CarriedSums
  <2> QED BY <2>1, <2>3, <2>4, <2>5, <2>6, <2>7 DEF v
<1> QED BY <1>1, <1>2

\* ------------------------------------------------------------------- types

(* The counts in flight on one connection are naturals.                     *)
LEMMA InFlightTyped ==
    ASSUME TypeOK, NEW i \in Instance, NEW k \in Key
    PROVE  InFlight(i, k) \in Nat
<1>1. wire[i] \in Seq(Command) /\ Len(wire[i]) \in 0..Len(wire[i])
  BY DEF TypeOK
<1> QED BY <1>1, CarriedSums DEF InFlight

(* The command Redis executes next, what settling it leaves on the wire,    *)
(* and how the program counter of its request moves.                        *)
LEMMA SettledTyped ==
    ASSUME TypeOK, NEW i \in Instance, wire[i] # <<>>, Settled(i, Head(wire[i]))
    PROVE  LET cmd == Head(wire[i])
               sent == IF cmd.kind = "incrby" /\ cmd.from # Timer THEN Gets(cmd.from) ELSE <<>>
           IN  /\ cmd \in Command /\ cmd = wire[i][1] /\ Tail(wire[i]) \in Seq(Command)
               /\ sent \in Seq(Command)
               /\ wire' = [wire EXCEPT ![i] = Tail(wire[i]) \o sent]
               /\ wire' \in [Instance -> Seq(Command)]
               /\ pc' \in [Client -> {"idle", "flush", "get", "answered", "failed"}]
<1> DEFINE cmd == Head(wire[i])
           sent == IF cmd.kind = "incrby" /\ cmd.from # Timer THEN Gets(cmd.from) ELSE <<>>
<1>1. wire[i] \in Seq(Command) /\ Tail(wire[i]) \in Seq(Command) /\ cmd = wire[i][1]
      /\ cmd \in Command
  BY DEF TypeOK
<1>2. cmd.from \in Client \cup {Timer}
  BY <1>1 DEF Command
<1>3. sent \in Seq(Command)
  <2>1. \A c \in Client : Gets(c) \in Seq(Command)
    BY DEF Gets, Command, Key
  <2>2. <<>> \in Seq(Command)
    OBVIOUS
  <2> HIDE DEF cmd
  <2> QED BY <1>2, <2>1, <2>2
<1>4. wire' = [wire EXCEPT ![i] = Tail(wire[i]) \o sent]
  BY DEF Settled
<1>5. wire' \in [Instance -> Seq(Command)]
  <2> HIDE DEF sent
  <2> QED BY <1>1, <1>3, <1>4 DEF TypeOK
<1>6. pc' \in [Client -> {"idle", "flush", "get", "answered", "failed"}]
  <2> HIDE DEF cmd, sent
  <2> QED BY <1>2 DEF TypeOK, Settled, cmd
<1> QED BY <1>1, <1>3, <1>4, <1>5, <1>6

(* A step of the counters' service, of its callers or of the script.        *)
LEMMA AskTyped ==
    ASSUME TypeOK, NEW c \in Client, NEW i \in Instance, Ask(c, i)
    PROVE  /\ wire' \in [Instance -> Seq(Command)] /\ pending' \in [Instance -> Counts]
           /\ pc' \in [Client -> {"idle", "flush", "get", "answered", "failed"}]
           /\ at' \in [Client -> Instance] /\ owed' \in [Client -> Counts]
           /\ reply' \in [Client -> Counts]
<1>1. wire[i] \in Seq(Command) /\ pending[i] \in Counts /\ stored \in Counts
  BY DEF TypeOK, Counts
<1>2. wire' \in [Instance -> Seq(Command)] /\ pending' \in [Instance -> Counts]
  <2>1. CASE flushCounters(i, c)
    <3> DEFINE v == <<[kind |-> "incrby", batch |-> pending[i], from |-> c]>>
    <3>1. wire[i] \o v \in Seq(Command)
      BY <1>1 DEF Command, Counts
    <3>2. wire' = [wire EXCEPT ![i] = wire[i] \o v] /\ pending' = [pending EXCEPT ![i] = Zero]
      BY <2>1 DEF flushCounters, Send
    <3> HIDE DEF v
    <3> QED BY <3>1, <3>2, Adding DEF TypeOK, Counts
  <2>2. CASE Send(i, Gets(c)) /\ UNCHANGED pending
    <3>1. wire[i] \o Gets(c) \in Seq(Command)
      BY <1>1 DEF Command, Gets, Key
    <3> QED BY <2>2, <3>1 DEF TypeOK, Counts, Send
  <2> QED BY <2>1, <2>2 DEF Ask, getStats
<1>3. pc' \in [Client -> {"idle", "flush", "get", "answered", "failed"}]
  BY DEF TypeOK, Ask, getStats
<1>4. [k \in Key |-> stored[k] + pending[i][k] + InFlight(i, k)] \in Counts
  BY <1>1, InFlightTyped DEF Counts
<1>5. owed' \in [Client -> Counts]
  BY <1>4 DEF TypeOK, Ask, Counts
<1>6. at' \in [Client -> Instance] /\ reply' \in [Client -> Counts]
  BY Adding DEF TypeOK, Ask, Counts
<1> QED BY <1>2, <1>3, <1>5, <1>6

(* The counters that bound the run stay natural and within their bound.     *)
LEMMA BudgetsTyped ==
    ASSUME TypeOK,
           \/ UNCHANGED <<others, asks, faults>>
           \/ EventLeft /\ others' = others + 1 /\ UNCHANGED <<asks, faults>>
           \/ EventLeft /\ asks' = asks + 1 /\ UNCHANGED <<others, faults>>
           \/ EventLeft /\ faults' = faults + 1 /\ UNCHANGED <<others, asks>>
    PROVE  /\ others' \in Nat /\ asks' \in Nat /\ faults' \in Nat
           /\ others' + asks' + faults' \in 0..MaxEvents
BY DEF TypeOK, EventLeft

(* A probe's request is counted in one way or another where it is served,   *)
(* and leaves the page in some state.                                       *)
LEMMA ReadCounted ==
    ASSUME TypeOK, NEW i \in Instance, ProbeReads(i)
    PROVE  /\ \E f \in Counts : incrCounters(i, f)
           /\ page' \in PageState
           /\ \/ UNCHANGED <<others, asks, faults>>
              \/ EventLeft /\ faults' = faults + 1 /\ UNCHANGED <<others, asks>>
<1>1. /\ Zero \in Counts /\ One("hits") \in Counts /\ One("misses") \in Counts
      /\ One("misses") (+) One("hits") \in Counts
  <2>1. "hits" \in Key /\ "misses" \in Key
    BY DEF Key
  <2> QED BY <2>1, Adding
<1>2. UNCHANGED <<others, asks>>
  BY DEF ProbeReads
<1>3. page \in PageState /\ "warm" \in PageState /\ "locked" \in PageState
  BY DEF TypeOK, PageState
<1>4. CASE PageHit(i) /\ UNCHANGED faults
  BY <1>1, <1>2, <1>3, <1>4 DEF PageHit
<1>5. CASE PageRebuilt(i) /\ UNCHANGED faults
  BY <1>1, <1>2, <1>3, <1>5 DEF PageRebuilt
<1>6. CASE PageAwaited(i) /\ UNCHANGED faults
  BY <1>1, <1>2, <1>3, <1>6 DEF PageAwaited
<1>7. CASE Fault /\ ReadFails(i)
  BY <1>1, <1>2, <1>3, <1>7 DEF ReadFails, Fault
<1> QED BY <1>4, <1>5, <1>6, <1>7 DEF ProbeReads

(* Every step keeps the types.                                              *)
LEMMA TypeStep == TypeOK /\ [Next]_vars => TypeOK'
<1> SUFFICES ASSUME TypeOK, [Next]_vars PROVE TypeOK'
  OBVIOUS
<1> USE DEF Counts
<1>1. CASE ProbeJudges
  <2>1. /\ prev' \in Counts /\ reply' \in [Client -> Counts] /\ owed' \in [Client -> Counts]
        /\ pc' \in [Client -> {"idle", "flush", "get", "answered", "failed"}]
    BY <1>1, Adding DEF TypeOK, ProbeJudges
  <2>2. unregistered' \in BOOLEAN
    BY <1>1 DEF TypeOK, ProbeJudges, Unregistered
  <2> QED BY <1>1, <2>1, <2>2 DEF TypeOK, ProbeJudges, serviceVars
<1>2. ASSUME NEW i \in Instance, ProbeAsks(i) PROVE TypeOK'
  <2>1. Ask(Prober, i)
    BY <1>2 DEF ProbeAsks
  <2>2. UNCHANGED <<stored, counted, lost, twice>>
    BY <2>1 DEF Ask
  <2>3. apart' \in BOOLEAN
    BY <1>2 DEF TypeOK, ProbeAsks
  <2>4. UNCHANGED <<reads, step, prev, unregistered, page, primed, cooled, others, asks, faults>>
    BY <1>2 DEF ProbeAsks
  <2> QED BY <2>1, <2>2, <2>3, <2>4, AskTyped DEF TypeOK
<1>3. ASSUME NEW i \in Instance, ProbeReads(i) PROVE TypeOK'
  <2>1. PICK f \in Counts : incrCounters(i, f)
    BY <1>3, ReadCounted
  <2>2. pending' \in [Instance -> Counts] /\ counted' \in Counts
    BY <2>1, Adding DEF TypeOK, incrCounters
  <2>3. reads' \in 0..(RepeatHits + 1) /\ at' \in [Client -> Instance]
    BY <1>3 DEF TypeOK, ProbeReads
  <2>4. page' \in PageState /\ primed' \in BOOLEAN
    BY <1>3, ReadCounted DEF TypeOK, ProbeReads
  <2>5. /\ others' \in Nat /\ asks' \in Nat /\ faults' \in Nat
        /\ others' + asks' + faults' \in 0..MaxEvents
    BY <1>3, ReadCounted, BudgetsTyped
  <2> QED BY <1>3, <2>2, <2>3, <2>4, <2>5 DEF TypeOK, ProbeReads
<1>4. ASSUME NEW i \in Instance, FlushTimer(i) PROVE TypeOK'
  <2> DEFINE v == <<[kind |-> "incrby", batch |-> pending[i], from |-> Timer]>>
  <2>1. wire[i] \o v \in Seq(Command)
    BY DEF TypeOK, Command
  <2>2. wire' = [wire EXCEPT ![i] = wire[i] \o v] /\ pending' = [pending EXCEPT ![i] = Zero]
    BY <1>4 DEF FlushTimer, flushCounters, Send
  <2>3. wire' \in [Instance -> Seq(Command)] /\ pending' \in [Instance -> Counts]
    <3> HIDE DEF v
    <3> QED BY <2>1, <2>2, Adding DEF TypeOK
  <2> QED BY <1>4, <2>3 DEF TypeOK, FlushTimer, clientVars, probeVars
<1>5. ASSUME NEW i \in Instance, Execute(i) PROVE TypeOK'
  <2>1. wire[i] # <<>> /\ Settled(i, Head(wire[i]))
    BY <1>5 DEF Execute
  <2> DEFINE cmd == Head(wire[i])
  <2>2. cmd \in Command /\ wire' \in [Instance -> Seq(Command)]
        /\ pc' \in [Client -> {"idle", "flush", "get", "answered", "failed"}]
    BY <2>1, SettledTyped
  <2>3. /\ IF cmd.kind = "incrby"
              THEN stored' = stored (+) cmd.batch /\ UNCHANGED reply
              ELSE /\ reply' = [reply EXCEPT ![cmd.from][cmd.key] = stored[cmd.key]]
                   /\ UNCHANGED stored
        /\ UNCHANGED <<pending, counted, lost, twice, at, owed, probeVars, others, asks, faults>>
    BY <1>5 DEF Execute
  <2> HIDE DEF cmd
  <2>4. stored' \in Counts /\ reply' \in [Client -> Counts]
    <3>1. CASE cmd.kind = "incrby"
      <4>1. cmd.batch \in Counts
        BY <2>2, <3>1 DEF Command
      <4>2. stored' = stored (+) cmd.batch /\ reply' = reply
        BY <2>3, <3>1
      <4> QED BY <4>1, <4>2, Adding DEF TypeOK
    <3>2. CASE cmd.kind # "incrby"
      <4>1. cmd.from \in Client /\ cmd.key \in Key
        BY <2>2, <3>2 DEF Command
      <4>2. stored' = stored /\ stored[cmd.key] \in Nat
            /\ reply' = [reply EXCEPT ![cmd.from] = [reply[cmd.from] EXCEPT ![cmd.key] = stored[cmd.key]]]
        BY <2>3, <3>2, <4>1 DEF TypeOK
      <4>3. [reply[cmd.from] EXCEPT ![cmd.key] = stored[cmd.key]] \in Counts
        BY <4>1, <4>2 DEF TypeOK
      <4> QED BY <4>1, <4>2, <4>3 DEF TypeOK
    <3> QED BY <3>1, <3>2
  <2> QED BY <2>2, <2>3, <2>4 DEF TypeOK, probeVars
<1>6. ASSUME NEW i \in Instance, Failure(i) PROVE TypeOK'
  <2>1. EventLeft /\ faults' = faults + 1 /\ UNCHANGED <<others, asks>>
    BY <1>6 DEF Failure, Resend, GiveUp, ExecThrows, GetFails, Kill, Fault
  <2>2. UNCHANGED <<counted, at, reply, owed, probeVars>>
    BY <1>6 DEF Failure, Resend, GiveUp, ExecThrows, GetFails, Kill, clientVars
  <2>3. NextIsFlush(i) => wire[i] # <<>> /\ Head(wire[i]).batch \in Counts
    <3> SUFFICES ASSUME wire[i] # <<>>, Head(wire[i]).kind = "incrby"
                 PROVE  Head(wire[i]).batch \in Counts
      BY DEF NextIsFlush
    <3>1. Head(wire[i]) \in Command
      BY DEF TypeOK
    <3> QED BY <3>1 DEF Command
  <2>4. CASE Resend(i)
    <3>1. stored' \in Counts /\ twice' \in Counts
      BY <2>3, <2>4, Adding DEF TypeOK, Resend
    <3> QED BY <2>1, <2>2, <2>4, <3>1, BudgetsTyped DEF TypeOK, Resend, clientVars, probeVars
  <2>5. CASE GiveUp(i)
    <3>1. wire' \in [Instance -> Seq(Command)] /\ lost' \in Counts
          /\ pc' \in [Client -> {"idle", "flush", "get", "answered", "failed"}]
      BY <2>3, <2>5, SettledTyped, Adding DEF TypeOK, GiveUp
    <3> QED BY <2>1, <2>2, <2>5, <3>1, BudgetsTyped DEF TypeOK, GiveUp, probeVars
  <2>6. CASE ExecThrows(i)
    <3>1. pending' \in [Instance -> Counts]
      BY <2>3, <2>6, Adding DEF TypeOK, ExecThrows, HandBack
    <3>2. wire' \in [Instance -> Seq(Command)]
          /\ pc' \in [Client -> {"idle", "flush", "get", "answered", "failed"}]
      BY <2>3, <2>6, SettledTyped DEF ExecThrows
    <3> QED BY <2>1, <2>2, <2>6, <3>1, <3>2, BudgetsTyped DEF TypeOK, ExecThrows, probeVars
  <2>7. CASE GetFails(i)
    <3>1. wire' \in [Instance -> Seq(Command)]
          /\ pc' \in [Client -> {"idle", "flush", "get", "answered", "failed"}]
      BY <2>7, SettledTyped DEF GetFails
    <3> QED BY <2>1, <2>2, <2>7, <3>1, BudgetsTyped DEF TypeOK, GetFails, probeVars
  <2>8. CASE Kill(i)
    <3>1. lost' \in Counts
      <4>1. \A k \in Key : lost[k] + pending[i][k] + InFlight(i, k) \in Nat
        <5>1. \A k \in Key : InFlight(i, k) \in Nat
          BY InFlightTyped
        <5>2. \A k \in Key : lost[k] \in Nat /\ pending[i][k] \in Nat
          BY DEF TypeOK
        <5> QED BY <5>1, <5>2
      <4>2. lost' = [k \in Key |-> lost[k] + pending[i][k] + InFlight(i, k)]
        BY <2>8 DEF Kill
      <4> QED BY <4>1, <4>2
    <3>2. pending' \in [Instance -> Counts] /\ wire' \in [Instance -> Seq(Command)]
      BY <2>8, Adding DEF TypeOK, Kill
    <3>3. pc' \in [Client -> {"idle", "flush", "get", "answered", "failed"}]
      BY <2>8 DEF TypeOK, Kill
    <3> QED BY <2>1, <2>2, <2>8, <3>1, <3>2, <3>3, BudgetsTyped DEF TypeOK, Kill, probeVars
  <2> QED BY <1>6, <2>4, <2>5, <2>6, <2>7, <2>8 DEF Failure
<1>7. ASSUME NEW i \in Instance, NEW k \in Key, OtherRead(i, k) PROVE TypeOK'
  <2>1. pending' \in [Instance -> Counts] /\ counted' \in Counts
    BY <1>7, Adding DEF TypeOK, OtherRead, incrCounters
  <2>2. page' \in PageState
    BY <1>7 DEF TypeOK, OtherRead, PageState
  <2> QED BY <1>7, <2>1, <2>2, BudgetsTyped DEF TypeOK, OtherRead, clientVars
<1>8. ASSUME NEW i \in Instance, NEW c \in Client, OtherAsks(c, i) PROVE TypeOK'
  <2>1. Ask(c, i) /\ UNCHANGED <<stored, counted, lost, twice>>
    BY <1>8 DEF OtherAsks, Ask
  <2> QED BY <1>8, <2>1, AskTyped, BudgetsTyped DEF TypeOK, OtherAsks, probeVars
<1>9. CASE UNCHANGED vars
  BY <1>9 DEF TypeOK, vars, serviceVars, clientVars, probeVars
<1>10. CASE PageMoves
  <2>1. page' \in PageState /\ cooled' \in BOOLEAN
    BY <1>10 DEF TypeOK, PageMoves, PageState
  <2> QED BY <1>10, <2>1 DEF TypeOK, PageMoves, serviceVars, clientVars
<1> QED BY <1>1, <1>2, <1>3, <1>4, <1>5, <1>6, <1>7, <1>8, <1>9, <1>10 DEF Next, Probe

\* ----------------------------------------------------------- CountsConserved

(* What process i holds of counter k: buffered, or on its connection.       *)
Held(i, k) == pending[i][k] + InFlight(i, k)

(* Where one process changes what it holds, the total changes by as much.   *)
LEMMA HeldMoves ==
    ASSUME TypeOK, TypeOK', NEW i \in Instance, NEW k \in Key,
           \A j \in Instance \ {i} : pending'[j] = pending[j] /\ wire'[j] = wire[j]
    PROVE  SumFunction([j \in Instance |-> pending[j][k] + InFlight(j, k)])'
             = SumFunction([j \in Instance |-> pending[j][k] + InFlight(j, k)])
                 + Held(i, k)' - Held(i, k)
<1> DEFINE f == [j \in Instance |-> Held(j, k)]
           g == [j \in Instance |-> Held(j, k)']
<1>1. \A j \in Instance : f[j] \in Int /\ f[j] = Held(j, k)
  <2>1. \A j \in Instance : InFlight(j, k) \in Nat /\ pending[j][k] \in Nat
    <3>1. \A j \in Instance : InFlight(j, k) \in Nat
      BY InFlightTyped
    <3>2. \A j \in Instance : pending[j][k] \in Nat
      BY DEF TypeOK
    <3> QED BY <3>1, <3>2
  <2> QED BY <2>1 DEF Held
<1>2. \A j \in Instance : g[j] \in Int /\ g[j] = Held(j, k)'
  <2>1. \A j \in Instance : Len(wire'[j]) \in 0..Len(wire'[j]) /\ wire'[j] \in Seq(Command)
    BY DEF TypeOK
  <2>2. \A j \in Instance : Carried(wire'[j], Len(wire'[j]), k) \in Nat
    BY <2>1, CarriedSums
  <2>3. \A j \in Instance : pending'[j][k] \in Nat
    BY DEF TypeOK
  <2> QED BY <2>2, <2>3 DEF Held, InFlight
<1>3. \A j \in Instance \ {i} : Held(j, k)' = Held(j, k)
  BY DEF Held, InFlight
<1>4. SumFunction([j \in Instance |-> pending[j][k] + InFlight(j, k)])
        = SumFunctionOnSet(f, Instance)
  BY DEF SumFunction, Held
<1>5. SumFunction([j \in Instance |-> pending[j][k] + InFlight(j, k)])'
        = SumFunctionOnSet(g, Instance)
  BY DEF SumFunction, Held
<1> HIDE DEF f, g
<1>6. SumFunctionOnSet(g, Instance) = SumFunctionOnSet(f, Instance) + g[i] - f[i]
  BY <1>1, <1>2, <1>3, SumChangedAt
<1> QED BY <1>1, <1>2, <1>4, <1>5, <1>6

(* A flush moves what is buffered onto the connection; reads carry nothing. *)
LEMMA SendingKeepsHeld ==
    ASSUME TypeOK, NEW i \in Instance, NEW c \in Client \cup {Timer}, NEW k \in Key,
           \/ flushCounters(i, c)
           \/ c \in Client /\ Send(i, Gets(c)) /\ UNCHANGED pending
    PROVE  /\ Held(i, k)' = Held(i, k)
           /\ \A j \in Instance \ {i} : pending'[j] = pending[j] /\ wire'[j] = wire[j]
<1>1. wire[i] \in Seq(Command) /\ pending[i] \in Counts /\ pending[i][k] \in Nat
  BY DEF TypeOK, Counts
<1>2. Carried(wire[i], Len(wire[i]), k) \in Nat
  BY InFlightTyped DEF InFlight
<1>3. CASE flushCounters(i, c)
  <2> DEFINE v == <<[kind |-> "incrby", batch |-> pending[i], from |-> c]>>
  <2>1. wire'[i] = wire[i] \o v /\ pending'[i] = Zero
    BY <1>3 DEF TypeOK, flushCounters, Send
  <2>2. Carried(wire[i] \o v, Len(wire[i] \o v), k)
          = Carried(wire[i], Len(wire[i]), k) + pending[i][k]
    BY <1>1, CarriedSent
  <2>3. \A j \in Instance \ {i} : pending'[j] = pending[j] /\ wire'[j] = wire[j]
    BY <1>3 DEF TypeOK, flushCounters, Send
  <2>4. Zero[k] = 0
    BY Adding
  <2> HIDE DEF v
  <2> QED BY <1>1, <1>2, <2>1, <2>2, <2>3, <2>4 DEF Held, InFlight
<1>4. CASE c \in Client /\ Send(i, Gets(c)) /\ UNCHANGED pending
  <2>1. wire'[i] = wire[i] \o Gets(c) /\ pending' = pending
    BY <1>4 DEF TypeOK, Send
  <2>2. Carried(wire[i] \o Gets(c), Len(wire[i] \o Gets(c)), k) = Carried(wire[i], Len(wire[i]), k)
    BY <1>1, <1>4, CarriedSent
  <2>3. \A j \in Instance \ {i} : wire'[j] = wire[j]
    BY <1>4 DEF TypeOK, Send
  <2> QED BY <2>1, <2>2, <2>3 DEF Held, InFlight
<1> QED BY <1>3, <1>4

(* Settling a command takes what it carries off the connection.             *)
LEMMA SettledTakes ==
    ASSUME TypeOK, NEW i \in Instance, wire[i] # <<>>, Settled(i, Head(wire[i])), NEW k \in Key
    PROVE  /\ InFlight(i, k) = InFlight(i, k)' + Amount(Head(wire[i]), k)
           /\ \A j \in Instance \ {i} : wire'[j] = wire[j]
           /\ InFlight(i, k)' \in Nat /\ Amount(Head(wire[i]), k) \in Nat
<1> DEFINE cmd == Head(wire[i])
           sent == IF cmd.kind = "incrby" /\ cmd.from # Timer THEN Gets(cmd.from) ELSE <<>>
           w == Tail(wire[i])
<1>1. /\ wire[i] \in Seq(Command) /\ cmd \in Command /\ w \in Seq(Command)
      /\ wire' = [wire EXCEPT ![i] = w \o sent]
  BY SettledTyped DEF TypeOK
<1>2. Len(wire[i]) \in 1..Len(wire[i]) /\ Len(w) = Len(wire[i]) - 1 /\ Len(w) \in 0..Len(w)
  BY <1>1
<1>3. cmd.from \in Client \cup {Timer}
  BY <1>1 DEF Command
<1> HIDE DEF cmd, w
<1>4. Carried(w \o sent, Len(w \o sent), k) = Carried(w, Len(w), k)
  <2>1. CASE cmd.kind = "incrby" /\ cmd.from # Timer
    BY <1>1, <1>3, <2>1, CarriedSent
  <2>2. CASE ~(cmd.kind = "incrby" /\ cmd.from # Timer)
    <3>1. w \o <<>> = w
      BY <1>1
    <3> QED BY <2>2, <3>1
  <2> QED BY <2>1, <2>2
<1>5. wire'[i] = w \o sent /\ \A j \in Instance \ {i} : wire'[j] = wire[j]
  BY <1>1 DEF TypeOK
<1>6. Carried(wire[i], Len(wire[i]), k) = Amount(cmd, k) + Carried(w, Len(w), k)
  BY <1>1, <1>2, CarriedTail DEF cmd, w
<1>7. Carried(w, Len(w), k) \in Nat /\ Amount(cmd, k) \in Nat
  BY <1>1, <1>2, CarriedSums, AmountTyped
<1> HIDE DEF sent
<1> QED BY <1>4, <1>5, <1>6, <1>7 DEF InFlight, cmd

(* What all processes hold of counter k.                                    *)
Total(k) == SumFunction([j \in Instance |-> pending[j][k] + InFlight(j, k)])

(* It is a natural number.                                                  *)
LEMMA TotalTyped == ASSUME TypeOK, NEW k \in Key PROVE Total(k) \in Nat
<1> DEFINE f == [j \in Instance |-> pending[j][k] + InFlight(j, k)]
<1>1. \A j \in Instance : InFlight(j, k) \in Nat
  BY InFlightTyped
<1>2. \A j \in Instance : f[j] \in Nat
  BY <1>1 DEF TypeOK
<1>3. Total(k) = SumFunctionOnSet(f, Instance)
  BY DEF Total, SumFunction
<1> HIDE DEF f
<1> QED BY <1>2, <1>3, SumType

(* Executing a command stores what it carries.                              *)
LEMMA ExecuteStores ==
    ASSUME TypeOK, NEW i \in Instance, Execute(i), NEW k \in Key
    PROVE  stored'[k] = stored[k] + Amount(Head(wire[i]), k) /\ stored[k] \in Nat
<1>1. wire[i] \in Seq(Command) /\ wire[i] # <<>> /\ stored \in Counts
  BY DEF TypeOK, Execute, Counts
<1>2. Head(wire[i]) \in Command
  BY <1>1
<1>3. CASE Head(wire[i]).kind = "incrby"
  <2>1. stored' = stored (+) Head(wire[i]).batch /\ Head(wire[i]).batch \in Counts
    BY <1>2, <1>3 DEF Execute, Command, Counts
  <2> QED BY <1>1, <1>3, <2>1, AddedAt DEF Amount
<1>4. CASE Head(wire[i]).kind # "incrby"
  BY <1>1, <1>4 DEF Execute, Amount, Counts
<1> QED BY <1>3, <1>4

(* The counts still on their way are the only thing a step can disturb.     *)
LEMMA ConservedStep == TypeOK /\ TypeOK' /\ CountsConserved /\ [Next]_vars => CountsConserved'
<1> SUFFICES ASSUME TypeOK, TypeOK', CountsConserved, [Next]_vars, NEW k \in Key
             PROVE  stored'[k] + lost'[k] + Total(k)' = counted'[k] + twice'[k]
  BY DEF CountsConserved, Total
<1>1. stored[k] + lost[k] + Total(k) = counted[k] + twice[k]
  BY DEF CountsConserved, Total
<1>2. /\ stored[k] \in Nat /\ lost[k] \in Nat /\ counted[k] \in Nat /\ twice[k] \in Nat
      /\ Total(k) \in Nat
  BY TotalTyped DEF TypeOK
<1>3. \A i \in Instance : Held(i, k) \in Nat /\ pending[i][k] \in Nat /\ InFlight(i, k) \in Nat
  <2>1. \A i \in Instance : InFlight(i, k) \in Nat
    BY InFlightTyped
  <2>2. \A i \in Instance : pending[i][k] \in Nat
    BY DEF TypeOK
  <2> QED BY <2>1, <2>2 DEF Held
<1>4. ASSUME NEW i \in Instance,
             \A j \in Instance \ {i} : pending'[j] = pending[j] /\ wire'[j] = wire[j]
      PROVE  Total(k)' = Total(k) + Held(i, k)' - Held(i, k)
  BY <1>4, HeldMoves DEF Total
<1>5. ASSUME UNCHANGED <<stored, pending, wire, counted, lost, twice>>
      PROVE  stored'[k] + lost'[k] + Total(k)' = counted'[k] + twice'[k]
  BY <1>1, <1>5 DEF Total, InFlight
<1>6. ASSUME NEW i \in Instance, NEW c \in Client \cup {Timer},
             \/ flushCounters(i, c)
             \/ c \in Client /\ Send(i, Gets(c)) /\ UNCHANGED pending,
             UNCHANGED <<stored, counted, lost, twice>>
      PROVE  stored'[k] + lost'[k] + Total(k)' = counted'[k] + twice'[k]
  <2>1. Held(i, k)' = Held(i, k)
        /\ \A j \in Instance \ {i} : pending'[j] = pending[j] /\ wire'[j] = wire[j]
    BY <1>6, SendingKeepsHeld
  <2>2. Total(k)' = Total(k) + Held(i, k)' - Held(i, k)
    BY <1>4, <2>1
  <2> QED BY <1>1, <1>2, <1>3, <1>6, <2>1, <2>2
<1>7. ASSUME NEW i \in Instance, NEW f \in Counts, incrCounters(i, f),
             UNCHANGED <<stored, wire, lost, twice>>
      PROVE  stored'[k] + lost'[k] + Total(k)' = counted'[k] + twice'[k]
  <2>1. \A j \in Instance \ {i} : pending'[j] = pending[j] /\ wire'[j] = wire[j]
    BY <1>7 DEF TypeOK, incrCounters
  <2>2. pending'[i] = pending[i] (+) f /\ counted' = counted (+) f
    BY <1>7 DEF TypeOK, incrCounters
  <2>3. /\ pending'[i][k] = pending[i][k] + f[k] /\ f[k] \in Nat
        /\ counted'[k] = counted[k] + f[k]
    BY <1>7, <2>2, CountsTyped, AddedAt
  <2>4. Held(i, k)' = Held(i, k) + f[k]
    BY <1>3, <1>7, <2>3 DEF Held, InFlight
  <2>5. Total(k)' = Total(k) + Held(i, k)' - Held(i, k)
    BY <1>4, <2>1
  <2> QED BY <1>1, <1>2, <1>3, <1>7, <2>3, <2>4, <2>5
<1>8. ASSUME NEW i \in Instance, wire[i] # <<>>, Settled(i, Head(wire[i]))
      PROVE  /\ Amount(Head(wire[i]), k) \in Nat
             /\ pending' = pending => Total(k)' = Total(k) - Amount(Head(wire[i]), k)
             /\ HandBack(i) /\ Head(wire[i]).kind = "incrby" => Total(k)' = Total(k)
  <2>1. /\ InFlight(i, k) = InFlight(i, k)' + Amount(Head(wire[i]), k)
        /\ \A j \in Instance \ {i} : wire'[j] = wire[j]
        /\ InFlight(i, k)' \in Nat /\ Amount(Head(wire[i]), k) \in Nat
    BY <1>8, SettledTakes
  <2>2. ASSUME pending' = pending PROVE Total(k)' = Total(k) - Amount(Head(wire[i]), k)
    <3>1. Total(k)' = Total(k) + Held(i, k)' - Held(i, k)
      BY <1>4, <2>1, <2>2
    <3>2. Held(i, k) = Held(i, k)' + Amount(Head(wire[i]), k) /\ Held(i, k)' \in Nat
      BY <1>3, <2>1, <2>2 DEF Held
    <3> QED BY <1>2, <1>3, <2>1, <3>1, <3>2
  <2>3. ASSUME HandBack(i), Head(wire[i]).kind = "incrby" PROVE Total(k)' = Total(k)
    <3>1. Head(wire[i]) \in Command
      BY <1>8, SettledTyped
    <3>2. Head(wire[i]).batch \in Counts /\ Amount(Head(wire[i]), k) = Head(wire[i]).batch[k]
      BY <2>3, <3>1 DEF Command, Counts, Amount
    <3>3. /\ pending'[i] = pending[i] (+) Head(wire[i]).batch
          /\ \A j \in Instance \ {i} : pending'[j] = pending[j]
      BY <2>3 DEF TypeOK, HandBack
    <3>4. pending'[i][k] = pending[i][k] + Amount(Head(wire[i]), k)
      BY <3>2, <3>3, CountsTyped, AddedAt
    <3>5. Held(i, k)' = Held(i, k)
      BY <1>3, <2>1, <3>4 DEF Held
    <3>6. Total(k)' = Total(k) + Held(i, k)' - Held(i, k)
      BY <1>4, <2>1, <3>3
    <3> QED BY <1>2, <1>3, <3>5, <3>6
  <2> QED BY <2>1, <2>2, <2>3
<1>9. ASSUME NEW i \in Instance, NextIsFlush(i)
      PROVE  /\ wire[i] # <<>> /\ Head(wire[i]).kind = "incrby" /\ Head(wire[i]).batch \in Counts
             /\ Amount(Head(wire[i]), k) = Head(wire[i]).batch[k]
             /\ Head(wire[i]).batch[k] \in Nat
  <2>1. wire[i] # <<>> /\ Head(wire[i]).kind = "incrby" /\ Head(wire[i]) \in Command
    <3>1. wire[i] # <<>> /\ Head(wire[i]).kind = "incrby"
      BY <1>9 DEF NextIsFlush
    <3>2. wire[i] \in Seq(Command)
      BY DEF TypeOK
    <3> QED BY <3>1, <3>2
  <2> QED BY <2>1 DEF Command, Amount, Counts
<1>10. CASE ProbeJudges
  BY <1>5, <1>10 DEF ProbeJudges, serviceVars
<1>11. ASSUME NEW i \in Instance, NEW c \in Client, Ask(c, i)
       PROVE  stored'[k] + lost'[k] + Total(k)' = counted'[k] + twice'[k]
  BY <1>6, <1>11 DEF Ask, getStats
<1>12. ASSUME NEW i \in Instance, ProbeAsks(i)
       PROVE  stored'[k] + lost'[k] + Total(k)' = counted'[k] + twice'[k]
  BY <1>11, <1>12 DEF ProbeAsks
<1>13. ASSUME NEW i \in Instance, ProbeReads(i)
       PROVE  stored'[k] + lost'[k] + Total(k)' = counted'[k] + twice'[k]
  <2>1. PICK f \in Counts : incrCounters(i, f)
    BY <1>13, ReadCounted
  <2> QED BY <1>7, <1>13, <2>1 DEF ProbeReads
<1>14. ASSUME NEW i \in Instance, FlushTimer(i)
       PROVE  stored'[k] + lost'[k] + Total(k)' = counted'[k] + twice'[k]
  BY <1>6, <1>14 DEF FlushTimer
<1>15. ASSUME NEW i \in Instance, Execute(i)
       PROVE  stored'[k] + lost'[k] + Total(k)' = counted'[k] + twice'[k]
  <2>1. /\ wire[i] # <<>> /\ Settled(i, Head(wire[i]))
        /\ pending' = pending /\ counted' = counted /\ lost' = lost /\ twice' = twice
    BY <1>15 DEF Execute
  <2>2. stored'[k] = stored[k] + Amount(Head(wire[i]), k)
    BY <1>15, ExecuteStores
  <2> QED BY <1>1, <1>2, <1>8, <2>1, <2>2
<1>16. ASSUME NEW i \in Instance, Resend(i)
       PROVE  stored'[k] + lost'[k] + Total(k)' = counted'[k] + twice'[k]
  <2>1. /\ stored' = stored (+) Head(wire[i]).batch /\ twice' = twice (+) Head(wire[i]).batch
        /\ pending' = pending /\ wire' = wire /\ counted' = counted /\ lost' = lost
        /\ NextIsFlush(i)
    BY <1>16 DEF Resend
  <2>2. Total(k)' = Total(k)
    BY <2>1 DEF Total, InFlight
  <2>3. /\ stored'[k] = stored[k] + Head(wire[i]).batch[k]
        /\ twice'[k] = twice[k] + Head(wire[i]).batch[k]
    BY <1>9, <2>1, CountsTyped, AddedAt
  <2>4. Head(wire[i]).batch[k] \in Nat
    BY <1>9, <2>1
  <2>5. lost'[k] = lost[k] /\ counted'[k] = counted[k]
    BY <2>1
  <2> QED BY <1>1, <1>2, <2>2, <2>3, <2>4, <2>5
<1>17. ASSUME NEW i \in Instance, GiveUp(i)
       PROVE  stored'[k] + lost'[k] + Total(k)' = counted'[k] + twice'[k]
  <2>1. /\ lost' = lost (+) Head(wire[i]).batch /\ Settled(i, Head(wire[i]))
        /\ pending' = pending /\ stored' = stored /\ counted' = counted /\ twice' = twice
        /\ NextIsFlush(i)
    BY <1>17 DEF GiveUp
  <2>2. lost'[k] = lost[k] + Head(wire[i]).batch[k]
    BY <1>9, <2>1, CountsTyped, AddedAt
  <2> QED BY <1>1, <1>2, <1>8, <1>9, <2>1, <2>2
<1>18. ASSUME NEW i \in Instance, ExecThrows(i)
       PROVE  stored'[k] + lost'[k] + Total(k)' = counted'[k] + twice'[k]
  <2>1. /\ HandBack(i) /\ Settled(i, Head(wire[i])) /\ NextIsFlush(i)
        /\ stored' = stored /\ counted' = counted /\ twice' = twice /\ lost' = lost
    BY <1>18 DEF ExecThrows
  <2> QED BY <1>1, <1>2, <1>8, <1>9, <2>1
<1>19. ASSUME NEW i \in Instance, GetFails(i)
       PROVE  stored'[k] + lost'[k] + Total(k)' = counted'[k] + twice'[k]
  <2>1. /\ wire[i] # <<>> /\ Settled(i, Head(wire[i])) /\ Amount(Head(wire[i]), k) = 0
        /\ pending' = pending /\ stored' = stored /\ counted' = counted /\ twice' = twice
        /\ lost' = lost
    BY <1>19 DEF GetFails, Amount
  <2> QED BY <1>1, <1>2, <1>8, <2>1
<1>20. ASSUME NEW i \in Instance, Kill(i)
       PROVE  stored'[k] + lost'[k] + Total(k)' = counted'[k] + twice'[k]
  <2>1. /\ lost'[k] = lost[k] + pending[i][k] + InFlight(i, k)
        /\ pending'[i] = Zero /\ wire'[i] = <<>>
        /\ \A j \in Instance \ {i} : pending'[j] = pending[j] /\ wire'[j] = wire[j]
        /\ stored' = stored /\ counted' = counted /\ twice' = twice
    BY <1>20 DEF TypeOK, Kill
  <2>2. Held(i, k)' = 0
    <3>1. <<>> \in Seq(Command) /\ Len(<<>>) = 0 /\ 0 \in 0..Len(<<>>)
      OBVIOUS
    <3>2. Carried(<<>>, 0, k) = 0
      BY <3>1, CarriedSums
    <3> QED BY <2>1, <3>1, <3>2, Adding DEF Held, InFlight
  <2>3. Total(k)' = Total(k) + Held(i, k)' - Held(i, k)
    BY <1>4, <2>1
  <2>4. Held(i, k) = pending[i][k] + InFlight(i, k)
    BY DEF Held
  <2>5. /\ stored'[k] = stored[k] /\ counted'[k] = counted[k] /\ twice'[k] = twice[k]
        /\ lost'[k] = lost[k] + pending[i][k] + InFlight(i, k)
    BY <2>1
  <2>6. pending[i][k] \in Nat /\ InFlight(i, k) \in Nat
    BY <1>3
  <2> QED BY <1>1, <1>2, <2>2, <2>3, <2>4, <2>5, <2>6
<1>21. ASSUME NEW i \in Instance, NEW key \in Key, OtherRead(i, key)
       PROVE  stored'[k] + lost'[k] + Total(k)' = counted'[k] + twice'[k]
  <2>1. One(key) \in Counts
    BY Adding
  <2> QED BY <1>7, <1>21, <2>1 DEF OtherRead
<1>22. ASSUME NEW i \in Instance, NEW c \in Client, OtherAsks(c, i)
       PROVE  stored'[k] + lost'[k] + Total(k)' = counted'[k] + twice'[k]
  BY <1>11, <1>22 DEF OtherAsks
<1>23. CASE UNCHANGED vars
  BY <1>5, <1>23 DEF vars, serviceVars
<1>24. CASE PageMoves
  BY <1>5, <1>24 DEF PageMoves, serviceVars
<1> QED
  BY <1>10, <1>12, <1>13, <1>14, <1>15, <1>16, <1>17, <1>18, <1>19, <1>20, <1>21, <1>22, <1>23,
     <1>24
  DEF Next, Probe, Failure

\* ----------------------------------------------------------- CommandsAwaited

(* Who waits for nothing has no command on any connection.                  *)
LEMMA SilentUnlessWaiting ==
    ASSUME TypeOK, CommandsAwaited, NEW c \in Client, pc[c] \notin {"flush", "get"}
    PROVE  \A j \in Instance : \A n \in 1..Len(wire[j]) : wire[j][n].from # c
BY DEF CommandsAwaited

(* A new request sends its batch or its reads behind what is there.         *)
LEMMA AskKeepsAwaited ==
    ASSUME TypeOK, CommandsAwaited, NEW c \in Client, pc[c] \notin {"flush", "get"},
           NEW i \in Instance, Ask(c, i)
    PROVE  CommandsAwaited'
<1> SUFFICES ASSUME NEW j \in Instance, NEW n \in 1..Len(wire'[j]), wire'[j][n].from # Timer
             PROVE  /\ at'[wire'[j][n].from] = j
                    /\ pc'[wire'[j][n].from] = IF wire'[j][n].kind = "incrby" THEN "flush" ELSE "get"
                    /\ \A m \in 1..(n - 1) :
                           wire'[j][m].from = wire'[j][n].from =>
                               /\ wire'[j][m].kind = "get" /\ wire'[j][m].key = "hits"
                               /\ wire'[j][n].key = "misses"
  BY DEF CommandsAwaited
<1>1. \A l \in Instance : \A m \in 1..Len(wire[l]) : wire[l][m].from # c
  BY SilentUnlessWaiting
<1>2. at' = [at EXCEPT ![c] = i]
  BY DEF Ask
<1> DEFINE b == [kind |-> "incrby", batch |-> pending[i], from |-> c]
           h == [kind |-> "get", key |-> "hits", from |-> c]
           o == [kind |-> "get", key |-> "misses", from |-> c]
<1>3. \/ wire' = [wire EXCEPT ![i] = wire[i] \o <<b>>] /\ pc' = [pc EXCEPT ![c] = "flush"]
      \/ wire' = [wire EXCEPT ![i] = wire[i] \o <<h, o>>] /\ pc' = [pc EXCEPT ![c] = "get"]
  BY DEF Ask, getStats, flushCounters, Send, Gets
<1>4. b \in Command /\ h \in Command /\ o \in Command
  BY DEF TypeOK, Command, Key
<1>5. /\ b.from = c /\ b.kind = "incrby" /\ h.from = c /\ h.kind = "get" /\ h.key = "hits"
      /\ o.from = c /\ o.kind = "get" /\ o.key = "misses"
  OBVIOUS
<1>6. wire \in [Instance -> Seq(Command)] /\ at \in [Client -> Instance]
      /\ DOMAIN pc = Client /\ wire[i] \in Seq(Command) /\ Len(wire[i]) \in Nat
  BY DEF TypeOK
<1> HIDE DEF b, h, o
<1>7. CASE n \in 1..Len(wire[j]) /\ \A m \in 1..Len(wire[j]) : wire'[j][m] = wire[j][m]
  <2>1. wire'[j][n] = wire[j][n] /\ wire[j][n] \in Command /\ wire[j][n].from # c
    BY <1>1, <1>6, <1>7
  <2>2. wire[j][n].from \in Client
    BY <2>1 DEF Command
  <2>3. at'[wire[j][n].from] = at[wire[j][n].from] /\ pc'[wire[j][n].from] = pc[wire[j][n].from]
    BY <1>2, <1>3, <1>6, <2>1, <2>2
  <2>4. \A m \in 1..(n - 1) : m \in 1..Len(wire[j])
    BY <1>6, <1>7
  <2> QED BY <1>7, <2>1, <2>2, <2>3, <2>4 DEF CommandsAwaited
<1>8. CASE wire' = [wire EXCEPT ![i] = wire[i] \o <<b>>] /\ pc' = [pc EXCEPT ![c] = "flush"]
  <2>2. CASE j # i
    BY <1>6, <1>7, <1>8, <2>2
  <2>3. CASE j = i
    <3>1. wire'[i] = wire[i] \o <<b>>
      BY <1>6, <1>8
    <3>2. /\ \A m \in 1..Len(wire[i]) : wire'[i][m] = wire[i][m]
          /\ n \in 1..Len(wire[i]) \/ n = Len(wire[i]) + 1
          /\ wire'[i][Len(wire[i]) + 1] = b
      BY <1>4, <1>6, <2>3, <3>1
    <3>3. CASE n = Len(wire[i]) + 1
      <4>1. wire'[i][n] = b
        BY <3>2, <3>3
      <4>2. \A m \in 1..(n - 1) : wire'[i][m].from # c
        BY <1>1, <1>6, <3>2, <3>3
      <4> QED BY <1>2, <1>5, <1>6, <1>8, <2>3, <4>1, <4>2
    <3> QED BY <1>7, <2>3, <3>2, <3>3
  <2> QED BY <2>2, <2>3
<1>9. CASE wire' = [wire EXCEPT ![i] = wire[i] \o <<h, o>>] /\ pc' = [pc EXCEPT ![c] = "get"]
  <2>2. CASE j # i
    BY <1>6, <1>7, <1>9, <2>2
  <2>3. CASE j = i
    <3>1. wire'[i] = wire[i] \o <<h, o>>
      BY <1>6, <1>9
    <3>2. /\ \A m \in 1..Len(wire[i]) : wire'[i][m] = wire[i][m]
          /\ n \in 1..Len(wire[i]) \/ n \in {Len(wire[i]) + 1, Len(wire[i]) + 2}
          /\ wire'[i][Len(wire[i]) + 1] = h /\ wire'[i][Len(wire[i]) + 2] = o
      BY <1>4, <1>6, <2>3, <3>1
    <3>3. CASE n \in {Len(wire[i]) + 1, Len(wire[i]) + 2}
      <4>1. wire'[i][n].from = c /\ wire'[i][n].kind = "get"
        BY <1>5, <3>2, <3>3
      <4>2. at'[c] = i /\ pc'[c] = "get"
        BY <1>2, <1>6, <1>9
      <4>3. ASSUME NEW m \in 1..(n - 1), wire'[i][m].from = c
            PROVE  /\ wire'[i][m].kind = "get" /\ wire'[i][m].key = "hits"
                   /\ wire'[i][n].key = "misses"
        <5>1. m \notin 1..Len(wire[i])
          BY <1>1, <3>2, <4>3
        <5>2. m = Len(wire[i]) + 1 /\ n = Len(wire[i]) + 2
          BY <1>6, <3>3, <5>1
        <5> QED BY <1>5, <3>2, <5>2
      <4> QED BY <2>3, <4>1, <4>2, <4>3
    <3> QED BY <1>7, <2>3, <3>2, <3>3
  <2> QED BY <2>2, <2>3
<1> QED BY <1>3, <1>8, <1>9

(* Settling a command: the others move up one place, the reads of a request *)
(* whose batch was written come after them.                                 *)
LEMMA WireSettled ==
    ASSUME TypeOK, NEW i \in Instance, wire[i] # <<>>, Settled(i, Head(wire[i]))
    PROVE  LET cmd == wire[i][1]
               l == Len(wire[i]) - 1
               flushed == cmd.kind = "incrby" /\ cmd.from # Timer
           IN  /\ cmd \in Command /\ cmd = Head(wire[i]) /\ Len(wire[i]) \in Nat \ {0}
               /\ \A j \in Instance \ {i} : wire'[j] = wire[j]
               /\ \A n \in 1..l : wire'[i][n] = wire[i][n + 1]
               /\ Len(wire'[i]) = IF flushed THEN l + 2 ELSE l
               /\ flushed => wire'[i][l + 1] = [kind |-> "get", key |-> "hits", from |-> cmd.from]
                          /\ wire'[i][l + 2] = [kind |-> "get", key |-> "misses", from |-> cmd.from]
<1> DEFINE cmd == Head(wire[i])
           sent == IF cmd.kind = "incrby" /\ cmd.from # Timer THEN Gets(cmd.from) ELSE <<>>
           w == Tail(wire[i])
           l == Len(wire[i]) - 1
           h == [kind |-> "get", key |-> "hits", from |-> cmd.from]
           o == [kind |-> "get", key |-> "misses", from |-> cmd.from]
<1>1. /\ cmd \in Command /\ cmd = wire[i][1] /\ w \in Seq(Command)
      /\ wire' = [wire EXCEPT ![i] = w \o sent]
  BY SettledTyped
<1>2. wire[i] \in Seq(Command) /\ DOMAIN wire = Instance
  BY DEF TypeOK
<1>3. Len(w) = l /\ Len(wire[i]) \in Nat \ {0} /\ \A n \in 1..l : w[n] = wire[i][n + 1]
  BY <1>2
<1>4. wire'[i] = w \o sent /\ \A j \in Instance \ {i} : wire'[j] = wire[j]
  BY <1>1, <1>2
<1>5. CASE cmd.kind = "incrby" /\ cmd.from # Timer
  <2>1. h \in Command /\ o \in Command
    BY <1>1, <1>5 DEF Command, Key
  <2>2. sent = <<h, o>>
    BY <1>5 DEF Gets
  <2> HIDE DEF sent, w, h, o, cmd, l
  <2>3. wire'[i] = w \o <<h, o>>
    BY <1>4, <2>2
  <2>4. /\ Len(wire'[i]) = l + 2 /\ wire'[i][l + 1] = h /\ wire'[i][l + 2] = o
        /\ \A n \in 1..l : wire'[i][n] = w[n]
    <3>1. /\ Len(wire'[i]) = Len(w) + 2
          /\ wire'[i][Len(w) + 1] = h /\ wire'[i][Len(w) + 2] = o
          /\ \A n \in 1..Len(w) : wire'[i][n] = w[n]
      BY <1>1, <2>1, <2>3
    <3> QED BY <1>3, <3>1
  <2> QED BY <1>1, <1>3, <1>4, <1>5, <2>4 DEF cmd, l, h, o
<1>6. CASE ~(cmd.kind = "incrby" /\ cmd.from # Timer)
  <2>1. sent = <<>>
    BY <1>6
  <2> HIDE DEF sent, w, h, o, cmd, l
  <2>2. wire'[i] = w
    BY <1>1, <1>4, <2>1
  <2> QED BY <1>1, <1>3, <1>4, <1>6, <2>2 DEF cmd, l
<1> QED BY <1>5, <1>6

(* The request whose command was settled knows what to wait for next.       *)
LEMMA SettledKeepsAwaited ==
    ASSUME TypeOK, CommandsAwaited, NEW i \in Instance, wire[i] # <<>>,
           Settled(i, Head(wire[i])), at' = at
    PROVE  CommandsAwaited'
<1> SUFFICES ASSUME NEW j \in Instance, NEW n \in 1..Len(wire'[j]), wire'[j][n].from # Timer
             PROVE  /\ at[wire'[j][n].from] = j
                    /\ pc'[wire'[j][n].from] = IF wire'[j][n].kind = "incrby" THEN "flush" ELSE "get"
                    /\ \A m \in 1..(n - 1) :
                           wire'[j][m].from = wire'[j][n].from =>
                               /\ wire'[j][m].kind = "get" /\ wire'[j][m].key = "hits"
                               /\ wire'[j][n].key = "misses"
  BY DEF CommandsAwaited
<1> DEFINE cmd == wire[i][1]
           l == Len(wire[i]) - 1
           c == cmd.from
<1>1. /\ cmd \in Command /\ cmd = Head(wire[i]) /\ Len(wire[i]) \in Nat \ {0}
      /\ \A k \in Instance \ {i} : wire'[k] = wire[k]
      /\ \A m \in 1..l : wire'[i][m] = wire[i][m + 1]
  BY WireSettled
<1>2. cmd.kind = "incrby" /\ c # Timer =>
         /\ Len(wire'[i]) = l + 2
         /\ wire'[i][l + 1].from = c /\ wire'[i][l + 2].from = c
         /\ wire'[i][l + 1].kind = "get" /\ wire'[i][l + 2].kind = "get"
         /\ wire'[i][l + 1].key = "hits" /\ wire'[i][l + 2].key = "misses"
  <2>1. cmd.kind = "incrby" /\ c # Timer =>
          /\ Len(wire'[i]) = l + 2
          /\ wire'[i][l + 1] = [kind |-> "get", key |-> "hits", from |-> c]
          /\ wire'[i][l + 2] = [kind |-> "get", key |-> "misses", from |-> c]
    BY WireSettled
  <2> HIDE DEF cmd, c, l
  <2> QED BY <2>1
<1>3. ~(cmd.kind = "incrby" /\ c # Timer) => Len(wire'[i]) = l
  BY WireSettled
<1>4. /\ \A d \in Client : d # c => pc'[d] = pc[d]
      /\ c # Timer => pc'[c] = IF cmd.kind = "get" /\ cmd.key = "misses" THEN "answered" ELSE "get"
  <2>1. c \in Client \cup {Timer}
    BY <1>1 DEF Command
  <2>2. pc' = IF c = Timer THEN pc
              ELSE [pc EXCEPT ![c] =
                      IF cmd.kind = "get" /\ cmd.key = "misses" THEN "answered" ELSE "get"]
    BY <1>1 DEF Settled
  <2> HIDE DEF cmd
  <2> QED BY <2>1, <2>2 DEF TypeOK
<1>5. c # Timer => at[c] = i /\ pc[c] = IF cmd.kind = "incrby" THEN "flush" ELSE "get"
  <2>1. 1 \in 1..Len(wire[i])
    BY <1>1
  <2> QED BY <2>1 DEF CommandsAwaited
<1>6. \A m \in 2..Len(wire[i]) : c # Timer /\ wire[i][m].from = c =>
         /\ cmd.kind = "get" /\ cmd.key = "hits"
         /\ wire[i][m].kind # "incrby" /\ wire[i][m].key = "misses"
  <2> SUFFICES ASSUME NEW m \in 2..Len(wire[i]), c # Timer, wire[i][m].from = c
               PROVE  /\ cmd.kind = "get" /\ cmd.key = "hits"
                      /\ wire[i][m].kind # "incrby" /\ wire[i][m].key = "misses"
    OBVIOUS
  <2>1. m \in 1..Len(wire[i]) /\ 1 \in 1..(m - 1)
    BY <1>1
  <2>2. /\ pc[c] = IF wire[i][m].kind = "incrby" THEN "flush" ELSE "get"
        /\ cmd.kind = "get" /\ cmd.key = "hits" /\ wire[i][m].key = "misses"
    BY <2>1 DEF CommandsAwaited
  <2> QED BY <1>5, <2>2
<1>7. \A k \in Instance : \A m \in 1..Len(wire[k]) :
         wire[k][m] \in Command /\ wire[k][m].from \in Client \cup {Timer}
  <2>1. \A k \in Instance : \A m \in 1..Len(wire[k]) : wire[k][m] \in Command
    BY DEF TypeOK
  <2> QED BY <2>1 DEF Command
<1> HIDE DEF cmd, c, l
<1>8. CASE j # i
  <2>1. wire'[j] = wire[j]
    BY <1>1, <1>8
  <2>2. at[wire[j][n].from] = j /\ wire[j][n].from # c
    BY <1>5, <1>8, <2>1 DEF CommandsAwaited
  <2>3. pc'[wire[j][n].from] = pc[wire[j][n].from]
    BY <1>4, <1>7, <2>1, <2>2
  <2> QED BY <2>1, <2>3 DEF CommandsAwaited
<1>9. CASE j = i /\ n \in 1..l
  <2>1. /\ n + 1 \in 2..Len(wire[i]) /\ n + 1 \in 1..Len(wire[i]) /\ wire'[i][n] = wire[i][n + 1]
        /\ \A m \in 1..(n - 1) : m + 1 \in 1..((n + 1) - 1) /\ wire'[i][m] = wire[i][m + 1]
    BY <1>1, <1>9 DEF l
  <2>2. /\ at[wire[i][n + 1].from] = i
        /\ pc[wire[i][n + 1].from] = IF wire[i][n + 1].kind = "incrby" THEN "flush" ELSE "get"
        /\ \A m \in 1..((n + 1) - 1) :
               wire[i][m].from = wire[i][n + 1].from =>
                   wire[i][m].kind = "get" /\ wire[i][m].key = "hits" /\ wire[i][n + 1].key = "misses"
    <3>1. wire[i][n + 1].from # Timer
      BY <1>9, <2>1
    <3>2. n + 1 \in 1..Len(wire[i])
      BY <2>1
    <3> QED BY <3>1, <3>2 DEF CommandsAwaited
  <2>3. pc'[wire[i][n + 1].from] = pc[wire[i][n + 1].from]
    <3>1. CASE wire[i][n + 1].from = c
      BY <1>4, <1>5, <1>6, <1>9, <2>1, <3>1
    <3>2. CASE wire[i][n + 1].from # c
      BY <1>4, <1>7, <1>9, <2>1, <3>2
    <3> QED BY <3>1, <3>2
  <2> QED BY <1>9, <2>1, <2>2, <2>3
<1>10. CASE j = i /\ n \notin 1..l
  <2>1. cmd.kind = "incrby" /\ c # Timer /\ n \in {l + 1, l + 2}
    BY <1>1, <1>2, <1>3, <1>10 DEF l
  <2>2. wire'[i][n].from = c /\ wire'[i][n].kind = "get" /\ at[c] = i /\ pc'[c] = "get"
    BY <1>2, <1>4, <1>5, <2>1
  <2>3. ASSUME NEW m \in 1..(n - 1), wire'[i][m].from = c
        PROVE  wire'[i][m].kind = "get" /\ wire'[i][m].key = "hits" /\ wire'[i][n].key = "misses"
    <3>1. m \notin 1..l
      <4> SUFFICES ASSUME m \in 1..l PROVE FALSE
        OBVIOUS
      <4>1. m + 1 \in 2..Len(wire[i]) /\ wire[i][m + 1].from = c
        BY <1>1, <2>3 DEF l
      <4> QED BY <1>6, <2>1, <4>1
    <3>2. m = l + 1 /\ n = l + 2
      BY <1>1, <2>1, <3>1 DEF l
    <3> QED BY <1>2, <2>1, <3>2
  <2> QED BY <1>10, <2>2, <2>3
<1> QED BY <1>8, <1>9, <1>10

(* Every step: the environment's failures settle commands as Redis does, or *)
(* take the connection's requests down with it.                             *)
LEMMA AwaitedStep ==
    TypeOK /\ CommandsAwaited /\ ScriptInformed /\ [Next]_vars => CommandsAwaited'
<1> SUFFICES ASSUME TypeOK, CommandsAwaited, ScriptInformed, [Next]_vars PROVE CommandsAwaited'
  OBVIOUS
<1>1. ASSUME NEW c \in Client, pc[c] \notin {"flush", "get"}, wire' = wire,
             \A d \in Client \ {c} : pc'[d] = pc[d] /\ at'[d] = at[d]
      PROVE  CommandsAwaited'
  <2>1. \A j \in Instance : \A n \in 1..Len(wire[j]) : wire[j][n].from # c
    BY <1>1, SilentUnlessWaiting
  <2>2. \A j \in Instance : \A n \in 1..Len(wire[j]) : wire[j][n].from \in Client \cup {Timer}
    <3>1. \A j \in Instance : \A n \in 1..Len(wire[j]) : wire[j][n] \in Command
      BY DEF TypeOK
    <3> QED BY <3>1 DEF Command
  <2>3. \A j \in Instance : \A n \in 1..Len(wire[j]) : wire[j][n].from # Timer =>
           /\ pc'[wire[j][n].from] = pc[wire[j][n].from]
           /\ at'[wire[j][n].from] = at[wire[j][n].from]
    BY <1>1, <2>1, <2>2
  <2> QED BY <1>1, <2>3 DEF CommandsAwaited
<1>2. ASSUME UNCHANGED <<wire, pc, at>> PROVE CommandsAwaited'
  BY <1>2 DEF CommandsAwaited
<1>3. CASE ProbeJudges
  <2>1. pc[Prober] \notin {"flush", "get"} /\ wire' = wire
        /\ \A d \in Client \ {Prober} : pc'[d] = pc[d] /\ at'[d] = at[d]
    BY <1>3 DEF TypeOK, ProbeJudges, serviceVars
  <2> QED BY <1>1, <2>1
<1>4. ASSUME NEW i \in Instance, ProbeAsks(i) PROVE CommandsAwaited'
  BY <1>4, AskKeepsAwaited DEF ProbeAsks
<1>5. ASSUME NEW i \in Instance, ProbeReads(i) PROVE CommandsAwaited'
  <2>1. pc[Prober] = "idle"
    BY <1>5 DEF ProbeReads, ScriptInformed
  <2>2. wire' = wire /\ \A d \in Client \ {Prober} : pc'[d] = pc[d] /\ at'[d] = at[d]
    BY <1>5 DEF TypeOK, ProbeReads
  <2> QED BY <1>1, <2>1, <2>2
<1>6. ASSUME NEW i \in Instance, FlushTimer(i) PROVE CommandsAwaited'
  <2> SUFFICES ASSUME NEW j \in Instance, NEW n \in 1..Len(wire'[j]), wire'[j][n].from # Timer
               PROVE  /\ n \in 1..Len(wire[j])
                      /\ \A m \in 1..n : wire'[j][m] = wire[j][m]
    <3>1. pc' = pc /\ at' = at
      BY <1>6 DEF FlushTimer, clientVars
    <3>2. \A j \in Instance : \A n \in 1..Len(wire'[j]) : wire'[j][n].from # Timer =>
             n \in 1..Len(wire[j]) /\ \A m \in 1..n : wire'[j][m] = wire[j][m]
      OBVIOUS
    <3>3. \A j \in Instance : \A n \in 1..Len(wire[j]) : n \in 1..n /\ \A m \in 1..(n - 1) : m \in 1..n
      BY DEF TypeOK
    <3> QED BY <3>1, <3>2, <3>3 DEF CommandsAwaited
  <2> DEFINE b == [kind |-> "incrby", batch |-> pending[i], from |-> Timer]
  <2>1. wire' = [wire EXCEPT ![i] = wire[i] \o <<b>>]
    BY <1>6 DEF FlushTimer, flushCounters, Send
  <2>2. b \in Command /\ b.from = Timer
    BY DEF TypeOK, Command
  <2>3. wire \in [Instance -> Seq(Command)] /\ wire[i] \in Seq(Command)
    BY DEF TypeOK
  <2> HIDE DEF b
  <2>4. CASE j # i
    BY <2>1, <2>3, <2>4
  <2>5. CASE j = i
    <3>1. wire'[i] = wire[i] \o <<b>>
      BY <2>1, <2>3
    <3>2. /\ \A m \in 1..Len(wire[i]) : wire'[i][m] = wire[i][m]
          /\ n \in 1..Len(wire[i]) \/ n = Len(wire[i]) + 1
          /\ wire'[i][Len(wire[i]) + 1] = b /\ Len(wire[i]) \in Nat
      BY <2>2, <2>3, <2>5, <3>1
    <3>3. n \in 1..Len(wire[i])
      BY <2>2, <2>5, <3>2
    <3>4. \A m \in 1..n : m \in 1..Len(wire[i])
      BY <3>2, <3>3
    <3> QED BY <2>5, <3>2, <3>3, <3>4
  <2> QED BY <2>4, <2>5
<1>7. ASSUME NEW i \in Instance, Execute(i) PROVE CommandsAwaited'
  BY <1>7, SettledKeepsAwaited DEF Execute
<1>8. ASSUME NEW i \in Instance, Failure(i) PROVE CommandsAwaited'
  <2>1. CASE Resend(i)
    BY <1>2, <2>1 DEF Resend, clientVars
  <2>2. CASE GiveUp(i) \/ ExecThrows(i) \/ GetFails(i)
    BY <2>2, SettledKeepsAwaited DEF GiveUp, ExecThrows, GetFails, NextIsFlush
  <2>3. CASE Kill(i)
    <3> SUFFICES ASSUME NEW j \in Instance, NEW n \in 1..Len(wire'[j]), wire'[j][n].from # Timer
                 PROVE  /\ wire'[j] = wire[j] /\ pc'[wire[j][n].from] = pc[wire[j][n].from]
      BY <2>3 DEF CommandsAwaited, Kill
    <3>1. wire'[i] = <<>> /\ \A k \in Instance \ {i} : wire'[k] = wire[k]
      BY <2>3 DEF TypeOK, Kill
    <3>2. j # i /\ wire'[j] = wire[j]
      BY <3>1
    <3>3. wire[j][n] \in Command
      BY <3>2 DEF TypeOK
    <3>4. wire[j][n].from \in Client /\ at[wire[j][n].from] = j
      BY <3>2, <3>3 DEF Command, CommandsAwaited
    <3> QED BY <2>3, <3>2, <3>4 DEF Kill
  <2> QED BY <1>8, <2>1, <2>2, <2>3 DEF Failure
<1>9. ASSUME NEW i \in Instance, NEW k \in Key, OtherRead(i, k) PROVE CommandsAwaited'
  BY <1>2, <1>9 DEF OtherRead, clientVars
<1>10. ASSUME NEW i \in Instance, NEW c \in Client, OtherAsks(c, i) PROVE CommandsAwaited'
  BY <1>10, AskKeepsAwaited DEF OtherAsks
<1>11. CASE UNCHANGED vars
  BY <1>2, <1>11 DEF vars, serviceVars, clientVars
<1>12. CASE PageMoves
  BY <1>2, <1>12 DEF PageMoves, serviceVars, clientVars
<1> QED BY <1>3, <1>4, <1>5, <1>6, <1>7, <1>8, <1>9, <1>10, <1>11, <1>12 DEF Next, Probe

\* -------------------------------------------------- what a request is told

(* A prefix that outlives the first command carries that much less.         *)
LEMMA CarriedSettled ==
    ASSUME TypeOK, NEW i \in Instance, wire[i] # <<>>, Settled(i, Head(wire[i])),
           NEW k \in Key, NEW n \in 0..(Len(wire[i]) - 1)
    PROVE  Carried(wire[i], n + 1, k) = Amount(Head(wire[i]), k) + Carried(wire'[i], n, k)
<1> DEFINE cmd == Head(wire[i])
           sent == IF cmd.kind = "incrby" /\ cmd.from # Timer THEN Gets(cmd.from) ELSE <<>>
           w == Tail(wire[i])
<1>1. /\ wire[i] \in Seq(Command) /\ w \in Seq(Command) /\ sent \in Seq(Command)
      /\ wire' = [wire EXCEPT ![i] = w \o sent]
  BY SettledTyped DEF TypeOK
<1>2. n + 1 \in 1..Len(wire[i]) /\ n \in 0..Len(w) /\ (n + 1) - 1 = n
  BY <1>1
<1>3. wire'[i] = w \o sent
  BY <1>1 DEF TypeOK
<1>4. Carried(wire[i], n + 1, k) = Amount(cmd, k) + Carried(w, (n + 1) - 1, k)
  BY <1>1, <1>2, CarriedTail
<1> HIDE DEF sent, w
<1>5. Carried(w \o sent, n, k) = Carried(w, n, k)
  BY <1>1, <1>2, CarriedPrefix
<1> QED BY <1>2, <1>3, <1>4, <1>5

(* While Redis executes, the counts a request is owed stay ahead of its     *)
(* commands: what leaves the wire is stored.                                *)
LEMMA ExecuteKeepsOwed ==
    ASSUME TypeOK, TypeOK', CommandsAwaited, OwedAhead, NEW i \in Instance, Execute(i)
    PROVE  OwedAhead'
<1>1. /\ wire[i] # <<>> /\ Settled(i, Head(wire[i])) /\ at' = at /\ owed' = owed
  BY DEF Execute
<1> DEFINE cmd == wire[i][1]
           l == Len(wire[i]) - 1
           c == cmd.from
<1>2. /\ cmd \in Command /\ cmd = Head(wire[i]) /\ Len(wire[i]) \in Nat \ {0}
      /\ \A j \in Instance \ {i} : wire'[j] = wire[j]
      /\ \A n \in 1..l : wire'[i][n] = wire[i][n + 1]
  BY <1>1, WireSettled
<1>3. cmd.kind = "incrby" /\ c # Timer =>
         /\ Len(wire'[i]) = l + 2
         /\ wire'[i][l + 1] = [kind |-> "get", key |-> "hits", from |-> c]
         /\ wire'[i][l + 2] = [kind |-> "get", key |-> "misses", from |-> c]
  BY <1>1, WireSettled
<1>4. ~(cmd.kind = "incrby" /\ c # Timer) => Len(wire'[i]) = l
  BY <1>1, WireSettled
<1>5. \A k \in Key : /\ stored'[k] = stored[k] + Amount(cmd, k)
                     /\ stored[k] \in Nat /\ Amount(cmd, k) \in Nat
  BY <1>2, ExecuteStores, AmountTyped
<1>6. 1 \in 1..Len(wire[i]) /\ wire[i] \in Seq(Command)
  BY <1>2 DEF TypeOK
<1>7. ASSUME NEW k \in Key PROVE Carried(wire[i], 1, k) = Amount(cmd, k)
  <2>1. 1 \in 0..Len(wire[i]) /\ 1 # 0 /\ 1 - 1 = 0
    BY <1>6
  <2>2. Carried(wire[i], 1, k) = Carried(wire[i], 0, k) + Amount(cmd, k) /\ Carried(wire[i], 0, k) = 0
    BY <1>6, <2>1, CarriedSums
  <2> QED BY <1>5, <2>2
<1>8. ASSUME NEW j \in Instance, NEW n \in 1..Len(wire'[j]), wire'[j][n].from # Timer, NEW k \in Key
      PROVE  stored'[k] + Carried(wire'[j], n, k) >= owed[wire'[j][n].from][k]
  <2>1. /\ Carried(wire'[j], n, k) \in Nat /\ \A d \in Client : owed[d][k] \in Nat
    <3>1. wire'[j] \in Seq(Command) /\ n \in 0..Len(wire'[j])
      <4>1. wire'[j] \in Seq(Command)
        BY DEF TypeOK
      <4>2. Len(wire'[j]) \in Nat
        BY <4>1
      <4> QED BY <4>1, <4>2
    <3>2. Carried(wire'[j], n, k) \in Nat
      BY <3>1, CarriedSums
    <3> QED BY <3>2 DEF TypeOK
  <2>2. wire'[j][n].from \in Client
    <3>1. wire'[j] \in Seq(Command)
      BY DEF TypeOK
    <3>2. wire'[j][n] \in Command
      BY <3>1
    <3> QED BY <1>8, <3>2 DEF Command
  <2>3. CASE j # i
    <3>1. wire'[j] = wire[j]
      BY <1>2, <2>3
    <3>2. stored[k] + Carried(wire[j], n, k) >= owed[wire[j][n].from][k]
      BY <1>8, <3>1 DEF OwedAhead
    <3> QED BY <1>5, <2>1, <2>2, <3>1, <3>2
  <2>4. CASE j = i /\ n \in 1..l
    <3>1. n + 1 \in 1..Len(wire[i]) /\ wire'[i][n] = wire[i][n + 1] /\ n \in 0..(Len(wire[i]) - 1)
      BY <1>2, <2>4
    <3>2. stored[k] + Carried(wire[i], n + 1, k) >= owed[wire[i][n + 1].from][k]
      BY <1>8, <2>4, <3>1 DEF OwedAhead
    <3>3. Carried(wire[i], n + 1, k) = Amount(cmd, k) + Carried(wire'[i], n, k)
      BY <1>1, <1>2, <3>1, CarriedSettled
    <3> QED BY <1>5, <2>1, <2>2, <2>4, <3>1, <3>2, <3>3
  <2>5. CASE j = i /\ n \notin 1..l
    <3>1. cmd.kind = "incrby" /\ c # Timer /\ n \in {l + 1, l + 2}
      BY <1>2, <1>3, <1>4, <2>5
    <3>2. wire'[i][n].from = c
      BY <1>3, <3>1
    <3>3. stored[k] + Carried(wire[i], 1, k) >= owed[c][k]
      BY <1>6, <3>1 DEF OwedAhead
    <3>4. stored'[k] >= owed[c][k]
      BY <1>5, <1>7, <3>3
    <3> HIDE DEF c
    <3> QED BY <1>5, <2>1, <2>2, <2>5, <3>2, <3>4
  <2> QED BY <2>3, <2>4, <2>5
<1>9. IF cmd.kind = "incrby" THEN reply' = reply
      ELSE reply' = [reply EXCEPT ![c] = [reply[c] EXCEPT ![cmd.key] = stored[cmd.key]]]
  <2>1. c \in Client \/ cmd.kind = "incrby"
    BY <1>2 DEF Command
  <2>2. IF cmd.kind = "incrby" THEN reply' = reply
        ELSE reply' = [reply EXCEPT ![c][cmd.key] = stored[cmd.key]]
    BY <1>2 DEF Execute
  <2> HIDE DEF cmd, c
  <2> QED BY <2>1, <2>2 DEF TypeOK
<1>10. ASSUME NEW d \in Client, pc'[d] = "get"
       PROVE  \/ reply'[d]["hits"] >= owed[d]["hits"]
              \/ \E n \in 1..Len(wire'[at[d]]) :
                    /\ wire'[at[d]][n].from = d
                    /\ wire'[at[d]][n].kind = "get" /\ wire'[at[d]][n].key = "hits"
  <2>1. c # Timer => at[c] = i /\ pc[c] = IF cmd.kind = "incrby" THEN "flush" ELSE "get"
    BY <1>6 DEF CommandsAwaited
  <2>2. at[d] \in Instance /\ Timer # d
    BY DEF TypeOK
  <2>3. CASE d # c
    <3>1. pc[d] = "get"
      BY <1>2, <1>10, <2>3 DEF Execute, Settled, TypeOK
    <3>2. reply'[d] = reply[d]
      <4>1. cmd.kind # "incrby" => c \in Client
        BY <1>2 DEF Command
      <4> HIDE DEF cmd, c
      <4> QED BY <1>9, <2>3, <4>1 DEF TypeOK
    <3>3. ASSUME NEW n \in 1..Len(wire[at[d]]), wire[at[d]][n].from = d,
                 wire[at[d]][n].kind = "get", wire[at[d]][n].key = "hits"
          PROVE  \E m \in 1..Len(wire'[at[d]]) :
                   /\ wire'[at[d]][m].from = d
                   /\ wire'[at[d]][m].kind = "get" /\ wire'[at[d]][m].key = "hits"
      <4>1. CASE at[d] # i
        BY <1>2, <2>2, <3>3, <4>1
      <4>2. CASE at[d] = i
        <5>1. n # 1
          BY <2>3, <3>3, <4>2
        <5>2. n - 1 \in 1..l /\ (n - 1) + 1 = n
          BY <1>2, <3>3, <4>2, <5>1
        <5>3. n - 1 \in 1..Len(wire'[i]) /\ wire'[i][n - 1] = wire[i][n]
          BY <1>2, <1>3, <1>4, <5>2
        <5> QED BY <3>3, <4>2, <5>3
      <4> QED BY <4>1, <4>2
    <3> HIDE DEF c, cmd
    <3> QED BY <3>1, <3>2, <3>3 DEF OwedAhead
  <2>4. CASE d = c /\ cmd.kind = "incrby"
    <3>1. /\ l + 1 \in 1..Len(wire'[i])
          /\ wire'[i][l + 1] = [kind |-> "get", key |-> "hits", from |-> c]
      BY <1>2, <1>3, <2>2, <2>4
    <3>2. at[d] = i
      BY <2>1, <2>2, <2>4
    <3> DEFINE p == l + 1
    <3> HIDE DEF l
    <3>3. wire'[i][p].from = d /\ wire'[i][p].kind = "get" /\ wire'[i][p].key = "hits"
      BY <2>4, <3>1
    <3> HIDE DEF p
    <3> QED BY <3>1, <3>2, <3>3 DEF p
  <2>5. CASE d = c /\ cmd.kind # "incrby"
    <3>1. cmd.kind = "get" /\ cmd.key \in Key
      BY <1>2, <2>5 DEF Command
    <3>2. cmd.key = "hits"
      <4>1. cmd.key # "misses"
        BY <1>2, <1>10, <2>2, <2>5, <3>1 DEF Execute, Settled, TypeOK
      <4> QED BY <3>1, <4>1 DEF Key
    <3>3. reply'[d]["hits"] = stored["hits"]
      <4>1. cmd.key \in Key /\ reply \in [Client -> [Key -> Nat]]
        BY <3>1 DEF TypeOK
      <4> HIDE DEF cmd, c
      <4> QED BY <1>9, <2>5, <3>2, <4>1
    <3>4. "hits" \in Key
      BY DEF Key
    <3>5. stored["hits"] + Carried(wire[i], 1, "hits") >= owed[d]["hits"]
      BY <1>6, <2>2, <2>5, <3>4 DEF OwedAhead
    <3>6. Carried(wire[i], 1, "hits") = 0
      BY <1>7, <2>5, <3>4 DEF Amount
    <3>7. stored["hits"] \in Nat
      BY <1>5, <3>4
    <3> QED BY <3>3, <3>5, <3>6, <3>7
  <2> QED BY <2>3, <2>4, <2>5
<1> HIDE DEF cmd, c, l
<1> QED BY <1>1, <1>8, <1>10 DEF OwedAhead

(* A new request is owed what is stored, buffered and ahead of it.          *)
LEMMA AskKeepsOwed ==
    ASSUME TypeOK, TypeOK', CommandsAwaited, OwedAhead, NEW c \in Client,
           pc[c] \notin {"flush", "get"}, NEW i \in Instance, Ask(c, i)
    PROVE  OwedAhead'
<1>1. \A j \in Instance : \A m \in 1..Len(wire[j]) : wire[j][m].from # c
  BY SilentUnlessWaiting
<1>2. /\ stored' = stored /\ at' = [at EXCEPT ![c] = i]
      /\ owed' = [owed EXCEPT ![c] = [k \in Key |-> stored[k] + pending[i][k] + InFlight(i, k)]]
      /\ reply' = [reply EXCEPT ![c] = Zero]
  BY DEF Ask
<1> DEFINE b == [kind |-> "incrby", batch |-> pending[i], from |-> c]
           h == [kind |-> "get", key |-> "hits", from |-> c]
           o == [kind |-> "get", key |-> "misses", from |-> c]
<1>3. \/ wire' = [wire EXCEPT ![i] = wire[i] \o <<b>>] /\ pc' = [pc EXCEPT ![c] = "flush"]
      \/ /\ wire' = [wire EXCEPT ![i] = wire[i] \o <<h, o>>] /\ pc' = [pc EXCEPT ![c] = "get"]
         /\ pending[i] = Zero
  BY DEF Ask, getStats, flushCounters, Send, Gets
<1>4. b \in Command /\ h \in Command /\ o \in Command
  BY DEF TypeOK, Command, Key
<1>5. b.from = c /\ h.from = c /\ h.kind = "get" /\ h.key = "hits" /\ o.from = c
      /\ \A k \in Key : Amount(b, k) = pending[i][k] /\ Amount(h, k) = 0 /\ Amount(o, k) = 0
  BY DEF Amount
<1> HIDE DEF b, h, o
<1>6. wire \in [Instance -> Seq(Command)] /\ wire[i] \in Seq(Command) /\ Len(wire[i]) \in Nat
  <2>1. wire \in [Instance -> Seq(Command)]
    BY DEF TypeOK
  <2>2. wire[i] \in Seq(Command)
    BY <2>1
  <2> QED BY <2>1, <2>2
<1>7. \A j \in Instance \ {i} : wire'[j] = wire[j]
  BY <1>3, <1>6
<1>8. \A n \in 1..Len(wire[i]) : n \in 1..Len(wire'[i]) /\ wire'[i][n] = wire[i][n]
  <2>1. ASSUME NEW v \in Seq(Command), wire'[i] = wire[i] \o v
        PROVE  \A n \in 1..Len(wire[i]) : n \in 1..Len(wire'[i]) /\ wire'[i][n] = wire[i][n]
    BY <1>6, <2>1
  <2>2. <<b>> \in Seq(Command) /\ <<h, o>> \in Seq(Command)
    BY <1>4
  <2>3. wire'[i] = wire[i] \o <<b>> \/ wire'[i] = wire[i] \o <<h, o>>
    BY <1>3, <1>6
  <2> QED BY <2>1, <2>2, <2>3
<1>9. ASSUME NEW k \in Key, NEW n \in 0..Len(wire[i])
      PROVE  Carried(wire'[i], n, k) = Carried(wire[i], n, k) /\ Carried(wire[i], n, k) \in Nat
  <2>1. <<b>> \in Seq(Command) /\ <<h, o>> \in Seq(Command)
    BY <1>4
  <2>2. wire'[i] = wire[i] \o <<b>> \/ wire'[i] = wire[i] \o <<h, o>>
    BY <1>3, <1>6
  <2>3. Carried(wire[i], n, k) \in Nat
    BY <1>6, CarriedSums
  <2>4. \A v \in Seq(Command) : Carried(wire[i] \o v, n, k) = Carried(wire[i], n, k)
    BY <1>6, CarriedPrefix
  <2>5. /\ Carried(wire[i] \o <<b>>, n, k) = Carried(wire[i], n, k)
        /\ Carried(wire[i] \o <<h, o>>, n, k) = Carried(wire[i], n, k)
    BY <2>1, <2>4
  <2>6. Carried(wire'[i], n, k) = Carried(wire[i], n, k)
    BY <2>2, <2>5
  <2> QED BY <2>3, <2>6
<1>10. ASSUME NEW n \in 1..Len(wire'[i]), n \notin 1..Len(wire[i]), NEW k \in Key
       PROVE  wire'[i][n].from = c /\ stored[k] + Carried(wire'[i], n, k) >= owed'[c][k]
  <2>1. owed'[c][k] = stored[k] + pending[i][k] + Carried(wire[i], Len(wire[i]), k)
    BY <1>2 DEF TypeOK, InFlight
  <2>2. /\ stored[k] \in Nat /\ pending[i][k] \in Nat /\ Carried(wire[i], Len(wire[i]), k) \in Nat
        /\ Carried(wire'[i], Len(wire[i]), k) = Carried(wire[i], Len(wire[i]), k)
    <3>1. Len(wire[i]) \in 0..Len(wire[i])
      BY <1>6
    <3>2. stored[k] \in Nat /\ pending[i][k] \in Nat
      BY DEF TypeOK
    <3> QED BY <1>9, <3>1, <3>2
  <2>3. wire'[i] \in Seq(Command)
    BY DEF TypeOK
  <2>4. CASE wire' = [wire EXCEPT ![i] = wire[i] \o <<b>>]
    <3>1. wire'[i] = wire[i] \o <<b>>
      BY <1>6, <2>4
    <3>2. /\ n = Len(wire[i]) + 1 /\ wire'[i][n] = b
          /\ n \in 0..Len(wire'[i]) /\ n # 0 /\ n - 1 = Len(wire[i])
      BY <1>4, <1>6, <1>10, <3>1
    <3>3. Carried(wire'[i], n, k) = Carried(wire'[i], n - 1, k) + Amount(wire'[i][n], k)
      BY <2>3, <3>2, CarriedSums
    <3> QED BY <1>5, <2>1, <2>2, <3>2, <3>3
  <2>5. CASE wire' = [wire EXCEPT ![i] = wire[i] \o <<h, o>>] /\ pending[i] = Zero
    <3>1. wire'[i] = wire[i] \o <<h, o>>
      BY <1>6, <2>5
    <3>2. /\ Len(wire'[i]) = Len(wire[i]) + 2
          /\ wire'[i][Len(wire[i]) + 1] = h /\ wire'[i][Len(wire[i]) + 2] = o
      BY <1>4, <1>6, <3>1
    <3> DEFINE p == Len(wire[i]) + 1
               q == Len(wire[i]) + 2
    <3>3. /\ p \in 0..Len(wire'[i]) /\ p # 0 /\ p - 1 = Len(wire[i])
          /\ q \in 0..Len(wire'[i]) /\ q # 0 /\ q - 1 = p /\ (n = p \/ n = q)
      BY <1>6, <1>10, <3>2
    <3>4. wire'[i][p] = h /\ wire'[i][q] = o
      BY <3>2
    <3> HIDE DEF p, q
    <3>5. Carried(wire'[i], p, k) = Carried(wire'[i], p - 1, k) + Amount(wire'[i][p], k)
      BY <2>3, <3>3, CarriedSums
    <3>6. Carried(wire'[i], q, k) = Carried(wire'[i], q - 1, k) + Amount(wire'[i][q], k)
      BY <2>3, <3>3, CarriedSums
    <3>7. pending[i][k] = 0
      BY <2>5, Adding
    <3> QED BY <1>5, <2>1, <2>2, <3>3, <3>4, <3>5, <3>6, <3>7
  <2> QED BY <1>3, <2>4, <2>5
<1>11. ASSUME NEW j \in Instance, NEW n \in 1..Len(wire'[j]), wire'[j][n].from # Timer, NEW k \in Key
       PROVE  stored'[k] + Carried(wire'[j], n, k) >= owed'[wire'[j][n].from][k]
  <2>1. CASE n \in 1..Len(wire[j])
    <3>1. wire'[j][n] = wire[j][n]
      BY <1>7, <1>8, <2>1
    <3>2. Carried(wire'[j], n, k) = Carried(wire[j], n, k)
      <4>1. CASE j # i
        BY <1>7, <4>1
      <4>2. CASE j = i
        BY <1>6, <1>9, <2>1, <4>2
      <4> QED BY <4>1, <4>2
    <3>3. wire[j][n].from # c /\ wire[j][n].from \in Client
      <4>1. wire[j] \in Seq(Command)
        BY <1>6
      <4>2. wire[j][n] \in Command
        BY <2>1, <4>1
      <4> QED BY <1>1, <1>11, <2>1, <3>1, <4>2 DEF Command
    <3>4. owed'[wire[j][n].from] = owed[wire[j][n].from]
      BY <1>2, <3>3 DEF TypeOK
    <3>5. stored[k] + Carried(wire[j], n, k) >= owed[wire[j][n].from][k]
      BY <1>11, <2>1, <3>1 DEF OwedAhead
    <3> QED BY <1>2, <3>1, <3>2, <3>4, <3>5
  <2>2. CASE n \notin 1..Len(wire[j])
    <3>1. j = i
      BY <1>7, <2>2
    <3> QED BY <1>2, <1>10, <2>2, <3>1
  <2> QED BY <2>1, <2>2
<1>12. ASSUME NEW d \in Client, pc'[d] = "get"
       PROVE  \/ reply'[d]["hits"] >= owed'[d]["hits"]
              \/ \E n \in 1..Len(wire'[at'[d]]) :
                    /\ wire'[at'[d]][n].from = d
                    /\ wire'[at'[d]][n].kind = "get" /\ wire'[at'[d]][n].key = "hits"
  <2>1. CASE d # c
    <3>1. pc[d] = "get" /\ at'[d] = at[d] /\ reply'[d] = reply[d] /\ owed'[d] = owed[d]
      BY <1>2, <1>3, <1>12, <2>1 DEF TypeOK
    <3>2. at[d] \in Instance
      BY DEF TypeOK
    <3>3. \A n \in 1..Len(wire[at[d]]) :
             n \in 1..Len(wire'[at[d]]) /\ wire'[at[d]][n] = wire[at[d]][n]
      BY <1>7, <1>8, <3>2
    <3> QED BY <3>1, <3>3 DEF OwedAhead
  <2>2. CASE d = c
    <3>1. wire' = [wire EXCEPT ![i] = wire[i] \o <<h, o>>] /\ at'[d] = i
      BY <1>2, <1>3, <1>12, <2>2 DEF TypeOK
    <3>2. wire'[i] = wire[i] \o <<h, o>>
      BY <1>6, <3>1
    <3>3. Len(wire'[i]) = Len(wire[i]) + 2 /\ wire'[i][Len(wire[i]) + 1] = h
      BY <1>4, <1>6, <3>2
    <3>4. Len(wire[i]) + 1 \in 1..Len(wire'[i])
      BY <1>6, <3>3
    <3> QED BY <1>5, <2>2, <3>1, <3>3, <3>4
  <2> QED BY <2>1, <2>2
<1> QED BY <1>11, <1>12 DEF OwedAhead

(* The last read of a request answers it, and by then both counters hold    *)
(* what it is owed.                                                         *)
LEMMA ExecuteAnswers ==
    ASSUME TypeOK, CommandsAwaited, OwedAhead, NEW i \in Instance, Execute(i),
           NEW c \in Client, pc'[c] = "answered", pc[c] # "answered", NEW k \in Key
    PROVE  reply'[c][k] >= owed[c][k]
<1> DEFINE cmd == wire[i][1]
<1>1. /\ wire[i] # <<>> /\ Settled(i, Head(wire[i])) /\ at' = at
  BY DEF Execute
<1>2. /\ cmd \in Command /\ cmd = Head(wire[i]) /\ Len(wire[i]) \in Nat \ {0}
  BY <1>1, WireSettled
<1>3. 1 \in 1..Len(wire[i]) /\ wire[i] \in Seq(Command)
  BY <1>2 DEF TypeOK
<1>4. pc' = IF cmd.from = Timer THEN pc
            ELSE [pc EXCEPT ![cmd.from] =
                    IF cmd.kind = "get" /\ cmd.key = "misses" THEN "answered" ELSE "get"]
  BY <1>1, <1>2 DEF Settled
<1>5. cmd.from = c /\ cmd.kind = "get" /\ cmd.key = "misses" /\ cmd.from # Timer
  <2> HIDE DEF cmd
  <2> QED BY <1>2, <1>4 DEF TypeOK
<1>6. reply'[c] = [reply[c] EXCEPT !["misses"] = stored["misses"]]
  <2>1. reply' = [reply EXCEPT ![cmd.from][cmd.key] = stored[cmd.key]]
    BY <1>2, <1>5 DEF Execute
  <2> HIDE DEF cmd
  <2> QED BY <1>5, <2>1 DEF TypeOK
<1>7. reply[c] \in [Key -> Nat] /\ "misses" \in Key /\ "hits" \in Key
  BY DEF TypeOK, Key
<1>8. CASE k = "misses"
  <2>1. stored[k] + Carried(wire[i], 1, k) >= owed[c][k]
    BY <1>3, <1>5 DEF OwedAhead
  <2>2. Carried(wire[i], 1, k) = Carried(wire[i], 0, k) + Amount(cmd, k)
        /\ Carried(wire[i], 0, k) = 0
    <3>1. 1 \in 0..Len(wire[i]) /\ 1 # 0 /\ 1 - 1 = 0
      BY <1>3
    <3> QED BY <1>3, <3>1, CarriedSums
  <2>3. Amount(cmd, k) = 0
    BY <1>5 DEF Amount
  <2>4. stored[k] \in Nat
    BY DEF TypeOK
  <2> QED BY <1>6, <1>7, <1>8, <2>1, <2>2, <2>3, <2>4
<1>9. CASE k = "hits"
  <2>1. at[c] = i /\ pc[c] = "get"
    BY <1>3, <1>5 DEF CommandsAwaited
  <2>2. ASSUME NEW n \in 1..Len(wire[i]), wire[i][n].from = c, wire[i][n].key = "hits"
        PROVE  FALSE
    <3>1. n # 1
      BY <1>5, <2>2
    <3>2. 1 \in 1..(n - 1)
      BY <1>3, <3>1
    <3>3. cmd.key = "hits"
      BY <1>5, <2>2, <3>2 DEF CommandsAwaited
    <3> QED BY <1>5, <3>3
  <2>3. reply[c]["hits"] >= owed[c]["hits"]
    BY <2>1, <2>2 DEF OwedAhead
  <2> QED BY <1>6, <1>7, <1>9, <2>3
<1> QED BY <1>8, <1>9 DEF Key

(* A run without failures: nothing is counted twice, no request fails, and  *)
(* every answer contains what it was owed.                                  *)
LEMMA FaultlessStep ==
    /\ TypeOK /\ TypeOK' /\ CommandsAwaited /\ FaultlessRun /\ OwnCountsAnswered
    /\ ScriptInformed /\ [Next]_vars
    => FaultlessRun' /\ OwnCountsAnswered'
<1> DEFINE Good ==
       /\ twice = Zero
       /\ \A c \in Client : pc[c] # "failed"
       /\ OwedAhead
       /\ \A c \in Client : pc[c] = "answered" => \A k \in Key : reply[c][k] >= owed[c][k]
<1> SUFFICES ASSUME TypeOK, TypeOK', CommandsAwaited, Good, ScriptInformed, [Next]_vars,
                    faults' = 0, faults = 0
             PROVE  Good'
  <2>1. [Next]_vars /\ TypeOK /\ faults' = 0 => faults = 0
    <3>1. faults \in Nat /\ faults' = 0 /\ faults' \in {faults, faults + 1} => faults = 0
      OBVIOUS
    <3>2. [Next]_vars => faults' \in {faults, faults + 1}
      BY DEF Next, Probe, Failure, Fault, Resend, GiveUp, ExecThrows, GetFails, Kill, FlushTimer,
             Execute, OtherRead, OtherAsks, ProbeAsks, ProbeReads, ProbeJudges, PageMoves, vars
    <3> QED BY <3>1, <3>2 DEF TypeOK
  <2>2. FaultlessRun /\ OwnCountsAnswered /\ faults = 0 => Good
    BY DEF FaultlessRun, OwnCountsAnswered
  <2>3. (faults' = 0 => Good') => FaultlessRun' /\ OwnCountsAnswered'
    BY DEF FaultlessRun, OwnCountsAnswered
  <2> HIDE DEF Good
  <2> QED BY <2>1, <2>2, <2>3
<1>1. ASSUME UNCHANGED <<stored, wire, twice, owed, reply, pc, at>> PROVE Good'
  BY <1>1 DEF OwedAhead
<1>2. CASE ProbeJudges
  <2>1. /\ pc' = [pc EXCEPT ![Prober] = "idle"] /\ reply' = [reply EXCEPT ![Prober] = Zero]
        /\ owed' = [owed EXCEPT ![Prober] = Zero] /\ at' = at
        /\ stored' = stored /\ wire' = wire /\ twice' = twice
    BY <1>2 DEF ProbeJudges, serviceVars
  <2>2. pc[Prober] \notin {"flush", "get"}
    BY <1>2 DEF ProbeJudges
  <2>3. \A j \in Instance : \A n \in 1..Len(wire[j]) : wire[j][n].from # Prober
    BY <2>2, SilentUnlessWaiting
  <2>4. \A j \in Instance : \A n \in 1..Len(wire[j]) : wire[j][n].from \in Client \cup {Timer}
    <3>1. \A j \in Instance : wire[j] \in Seq(Command)
      BY DEF TypeOK
    <3>2. \A j \in Instance : \A n \in 1..Len(wire[j]) : wire[j][n] \in Command
      BY <3>1
    <3> QED BY <3>2 DEF Command
  <2>5. \A d \in Client \ {Prober} : owed'[d] = owed[d] /\ reply'[d] = reply[d] /\ pc'[d] = pc[d]
    BY <2>1 DEF TypeOK
  <2>6. pc'[Prober] = "idle"
    BY <2>1 DEF TypeOK
  <2>7. OwedAhead'
    <3>1. \A j \in Instance : \A n \in 1..Len(wire[j]) : wire[j][n].from # Timer =>
             \A k \in Key : stored[k] + Carried(wire[j], n, k) >= owed'[wire[j][n].from][k]
      BY <2>3, <2>4, <2>5 DEF OwedAhead
    <3>2. \A c \in Client : pc'[c] = "get" =>
           \/ reply'[c]["hits"] >= owed'[c]["hits"]
           \/ \E n \in 1..Len(wire[at[c]]) :
                 LET cmd == wire[at[c]][n] IN
                 cmd.from = c /\ cmd.kind = "get" /\ cmd.key = "hits"
      BY <2>5, <2>6 DEF OwedAhead
    <3> QED BY <2>1, <3>1, <3>2 DEF OwedAhead
  <2> QED BY <2>1, <2>5, <2>6, <2>7
<1>3. ASSUME NEW c \in Client, NEW i \in Instance, pc[c] \notin {"flush", "get"}, Ask(c, i)
      PROVE  Good'
  <2>1. OwedAhead'
    BY <1>3, AskKeepsOwed
  <2>2. /\ reply' = [reply EXCEPT ![c] = Zero] /\ twice' = twice
        /\ owed' = [owed EXCEPT ![c] = [k \in Key |-> stored[k] + pending[i][k] + InFlight(i, k)]]
        /\ pc' \in {[pc EXCEPT ![c] = "flush"], [pc EXCEPT ![c] = "get"]}
    BY <1>3 DEF Ask, getStats
  <2>3. \A d \in Client \ {c} : owed'[d] = owed[d] /\ reply'[d] = reply[d] /\ pc'[d] = pc[d]
    BY <2>2 DEF TypeOK
  <2>4. pc'[c] \in {"flush", "get"}
    BY <2>2 DEF TypeOK
  <2> QED BY <2>1, <2>2, <2>3, <2>4
<1>4. ASSUME NEW i \in Instance, ProbeAsks(i) PROVE Good'
  BY <1>3, <1>4 DEF ProbeAsks
<1>5. ASSUME NEW i \in Instance, ProbeReads(i) PROVE Good'
  <2>1. pc[Prober] = "idle"
    BY <1>5 DEF ProbeReads, ScriptInformed
  <2>2. UNCHANGED <<stored, wire, twice, owed, reply, pc>> /\ at' = [at EXCEPT ![Prober] = i]
    BY <1>5 DEF ProbeReads
  <2>3. \A d \in Client : pc[d] = "get" => at'[d] = at[d]
    BY <2>1, <2>2 DEF TypeOK
  <2> QED BY <2>2, <2>3 DEF OwedAhead
<1>6. ASSUME NEW i \in Instance, FlushTimer(i) PROVE Good'
  <2> DEFINE b == [kind |-> "incrby", batch |-> pending[i], from |-> Timer]
  <2>1. /\ wire' = [wire EXCEPT ![i] = wire[i] \o <<b>>]
        /\ UNCHANGED <<stored, twice, owed, reply, pc, at>>
    BY <1>6 DEF FlushTimer, flushCounters, Send, clientVars
  <2>2. b \in Command /\ b.from = Timer
    BY DEF TypeOK, Command
  <2>3. \A j \in Instance : wire[j] \in Seq(Command) /\ Len(wire[j]) \in Nat
    BY DEF TypeOK
  <2> HIDE DEF b
  <2>4. <<b>> \in Seq(Command) /\ wire'[i] = wire[i] \o <<b>>
        /\ \A j \in Instance \ {i} : wire'[j] = wire[j]
    BY <2>1, <2>2 DEF TypeOK
  <2>5. /\ \A n \in 1..Len(wire[i]) : n \in 1..Len(wire'[i]) /\ wire'[i][n] = wire[i][n]
        /\ \A n \in 1..Len(wire'[i]) : wire'[i][n].from # Timer => n \in 1..Len(wire[i])
    <3>1. /\ Len(wire'[i]) = Len(wire[i]) + 1 /\ wire'[i][Len(wire[i]) + 1] = b
          /\ \A n \in 1..Len(wire[i]) : wire'[i][n] = wire[i][n]
      BY <2>2, <2>3, <2>4
    <3> QED BY <2>2, <2>3, <3>1
  <2>6. \A k \in Key : \A n \in 1..Len(wire[i]) : Carried(wire'[i], n, k) = Carried(wire[i], n, k)
    <3>1. \A n \in 1..Len(wire[i]) : n \in 0..Len(wire[i])
      BY <2>3
    <3>2. \A k \in Key : \A n \in 0..Len(wire[i]) :
             Carried(wire[i] \o <<b>>, n, k) = Carried(wire[i], n, k)
      BY <2>3, <2>4, CarriedPrefix
    <3> QED BY <2>4, <3>1, <3>2
  <2>7. \A j \in Instance : \A n \in 1..Len(wire'[j]) : wire'[j][n].from # Timer =>
           \A k \in Key : stored[k] + Carried(wire'[j], n, k) >= owed[wire'[j][n].from][k]
    <3> SUFFICES ASSUME NEW j \in Instance, NEW n \in 1..Len(wire'[j]), wire'[j][n].from # Timer,
                        NEW k \in Key
                 PROVE  stored[k] + Carried(wire'[j], n, k) >= owed[wire'[j][n].from][k]
      OBVIOUS
    <3>1. CASE j # i
      BY <2>4, <3>1 DEF OwedAhead
    <3>2. CASE j = i
      BY <2>5, <2>6, <3>2 DEF OwedAhead
    <3> QED BY <3>1, <3>2
  <2>8. \A d \in Client : pc[d] = "get" =>
           \/ reply[d]["hits"] >= owed[d]["hits"]
           \/ \E n \in 1..Len(wire'[at[d]]) :
                 /\ wire'[at[d]][n].from = d
                 /\ wire'[at[d]][n].kind = "get" /\ wire'[at[d]][n].key = "hits"
    <3>1. \A d \in Client : at[d] \in Instance
      BY DEF TypeOK
    <3>3. \A d \in Client : pc[d] = "get" =>
           \/ reply[d]["hits"] >= owed[d]["hits"]
           \/ \E n \in 1..Len(wire[at[d]]) :
                 /\ wire[at[d]][n].from = d
                 /\ wire[at[d]][n].kind = "get" /\ wire[at[d]][n].key = "hits"
      BY DEF OwedAhead
    <3>2. \A j \in Instance : \A n \in 1..Len(wire[j]) :
             n \in 1..Len(wire'[j]) /\ wire'[j][n] = wire[j][n]
      BY <2>4, <2>5
    <3> SUFFICES ASSUME NEW d \in Client, pc[d] = "get",
                        NEW n \in 1..Len(wire[at[d]]), wire[at[d]][n].from = d,
                        wire[at[d]][n].kind = "get", wire[at[d]][n].key = "hits"
                 PROVE  \E m \in 1..Len(wire'[at[d]]) :
                          /\ wire'[at[d]][m].from = d
                          /\ wire'[at[d]][m].kind = "get" /\ wire'[at[d]][m].key = "hits"
      BY <3>3
    <3>4. n \in 1..Len(wire'[at[d]]) /\ wire'[at[d]][n] = wire[at[d]][n]
      BY <3>1, <3>2
    <3> QED BY <3>4
  <2>9. OwedAhead'
    <3>1. \A d \in Client : pc'[d] = "get" =>
           \/ reply'[d]["hits"] >= owed'[d]["hits"]
           \/ \E n \in 1..Len(wire'[at'[d]]) :
                 /\ wire'[at'[d]][n].from = d
                 /\ wire'[at'[d]][n].kind = "get" /\ wire'[at'[d]][n].key = "hits"
      BY <2>1, <2>8
    <3>2. \A j \in Instance : \A n \in 1..Len(wire'[j]) : wire'[j][n].from # Timer =>
             \A k \in Key : stored'[k] + Carried(wire'[j], n, k) >= owed'[wire'[j][n].from][k]
      BY <2>1, <2>7
    <3> QED BY ONLY <3>1, <3>2 DEF OwedAhead
  <2> QED BY <2>1, <2>9
<1>7. ASSUME NEW i \in Instance, Execute(i) PROVE Good'
  <2>1. OwedAhead'
    BY <1>7, ExecuteKeepsOwed
  <2>2. twice' = twice /\ owed' = owed /\ wire[i] # <<>> /\ Settled(i, Head(wire[i]))
    BY <1>7 DEF Execute
  <2>3. Head(wire[i]) \in Command
    BY <2>2, SettledTyped
  <2>4. \A c \in Client : pc'[c] # "failed"
    <3>1. pc' = IF Head(wire[i]).from = Timer THEN pc
                ELSE [pc EXCEPT ![Head(wire[i]).from] =
                        IF Head(wire[i]).kind = "get" /\ Head(wire[i]).key = "misses"
                        THEN "answered" ELSE "get"]
      BY <2>2 DEF Settled
    <3> QED BY <3>1 DEF TypeOK
  <2>5. ASSUME NEW c \in Client, pc'[c] = "answered", NEW k \in Key
        PROVE  reply'[c][k] >= owed'[c][k]
    <3>1. CASE pc[c] # "answered"
      BY <1>7, <2>2, <2>5, <3>1, ExecuteAnswers
    <3>2. CASE pc[c] = "answered"
      <4>1. 1 \in 1..Len(wire[i])
        <5>1. wire[i] \in Seq(Command)
          BY DEF TypeOK
        <5> QED BY <2>2, <5>1
      <4>2. Head(wire[i]) = wire[i][1]
        BY <2>2, WireSettled
      <4>3. Head(wire[i]).from # c
        BY <3>2, <4>1, <4>2, SilentUnlessWaiting
      <4>4. Head(wire[i]).kind # "incrby" => Head(wire[i]).from \in Client
        BY <2>3 DEF Command
      <4>5. IF Head(wire[i]).kind = "incrby" THEN reply' = reply
            ELSE reply' = [reply EXCEPT ![Head(wire[i]).from][Head(wire[i]).key]
                                           = stored[Head(wire[i]).key]]
        BY <1>7 DEF Execute
      <4>6. reply'[c] = reply[c]
        BY <4>3, <4>4, <4>5 DEF TypeOK
      <4> QED BY <2>2, <3>2, <4>6
    <3> QED BY <3>1, <3>2
  <2> QED BY <2>1, <2>2, <2>4, <2>5
<1>8. ASSUME NEW i \in Instance, Failure(i) PROVE FALSE
  BY <1>8 DEF Failure, Fault, Resend, GiveUp, ExecThrows, GetFails, Kill
<1>9. ASSUME NEW i \in Instance, NEW k \in Key, OtherRead(i, k) PROVE Good'
  BY <1>1, <1>9 DEF OtherRead, clientVars
<1>10. ASSUME NEW i \in Instance, NEW c \in Client, OtherAsks(c, i) PROVE Good'
  BY <1>3, <1>10 DEF OtherAsks
<1>11. CASE UNCHANGED vars
  BY <1>1, <1>11 DEF vars, serviceVars, clientVars
<1>12. CASE PageMoves
  BY <1>1, <1>12 DEF PageMoves, serviceVars, clientVars
<1> HIDE DEF Good
<1> QED BY <1>2, <1>4, <1>5, <1>6, <1>7, <1>8, <1>9, <1>10, <1>11, <1>12 DEF Next, Probe

(* Redis' counters never shrink, and what a request was told they held.     *)
LEMMA RepliesStep == TypeOK /\ RepliesReached /\ [Next]_vars => RepliesReached'
<1> SUFFICES ASSUME TypeOK, RepliesReached, [Next]_vars, NEW c \in Client, NEW k \in Key
             PROVE  reply'[c][k] <= stored'[k]
  BY DEF RepliesReached
<1>1. reply[c][k] <= stored[k] /\ reply[c][k] \in Nat /\ stored[k] \in Nat /\ Zero[k] = 0
  BY Adding DEF RepliesReached, TypeOK
<1>2. ASSUME UNCHANGED <<reply, stored>> PROVE reply'[c][k] <= stored'[k]
  BY <1>1, <1>2
<1>3. ASSUME NEW d \in Client, reply' = [reply EXCEPT ![d] = Zero], stored' = stored
      PROVE  reply'[c][k] <= stored'[k]
  BY <1>1, <1>3 DEF TypeOK
<1>4. CASE ProbeJudges
  BY <1>3, <1>4 DEF ProbeJudges, serviceVars
<1>5. ASSUME NEW i \in Instance, ProbeAsks(i) PROVE reply'[c][k] <= stored'[k]
  BY <1>3, <1>5 DEF ProbeAsks, Ask
<1>6. ASSUME NEW i \in Instance, Execute(i) PROVE reply'[c][k] <= stored'[k]
  <2> DEFINE cmd == Head(wire[i])
  <2>1. cmd \in Command /\ Amount(cmd, k) \in Nat
    <3>1. cmd \in Command
      BY <1>6, SettledTyped DEF Execute
    <3> QED BY <3>1, AmountTyped
  <2>2. stored'[k] = stored[k] + Amount(cmd, k)
    BY <1>6, ExecuteStores
  <2>3. reply'[c][k] = reply[c][k] \/ reply'[c][k] = stored[k]
    <3>1. CASE cmd.kind = "incrby"
      BY <1>6, <3>1 DEF Execute
    <3>2. CASE cmd.kind # "incrby"
      <4>1. cmd.from \in Client /\ cmd.key \in Key
        BY <2>1, <3>2 DEF Command
      <4>2. reply' = [reply EXCEPT ![cmd.from][cmd.key] = stored[cmd.key]]
        BY <1>6, <3>2 DEF Execute
      <4> HIDE DEF cmd
      <4> QED BY <4>1, <4>2 DEF TypeOK
    <3> QED BY <3>1, <3>2
  <2> QED BY <1>1, <2>1, <2>2, <2>3
<1>7. ASSUME NEW i \in Instance, Failure(i) PROVE reply'[c][k] <= stored'[k]
  <2>1. CASE Resend(i)
    <3>1. wire[i] # <<>> /\ Head(wire[i]).kind = "incrby" /\ wire[i] \in Seq(Command)
      BY <2>1 DEF Resend, NextIsFlush, TypeOK
    <3>2. Head(wire[i]) \in Command
      BY <3>1
    <3>3. Head(wire[i]).batch \in Counts
      BY <3>1, <3>2 DEF Command, Counts
    <3>4. stored'[k] = stored[k] + Head(wire[i]).batch[k] /\ Head(wire[i]).batch[k] \in Nat
      BY <2>1, <3>3, CountsTyped, AddedAt DEF Resend
    <3>5. reply' = reply
      BY <2>1 DEF Resend, clientVars
    <3> QED BY <1>1, <3>4, <3>5
  <2> QED BY <1>2, <1>7, <2>1 DEF Failure, GiveUp, ExecThrows, GetFails, Kill
<1>8. ASSUME NEW i \in Instance, NEW d \in Client, OtherAsks(d, i) PROVE reply'[c][k] <= stored'[k]
  BY <1>3, <1>8 DEF OtherAsks, Ask
<1>9. ASSUME NEW i \in Instance,
             FlushTimer(i) \/ ProbeReads(i) \/ \E key \in Key : OtherRead(i, key)
      PROVE  reply'[c][k] <= stored'[k]
  BY <1>2, <1>9 DEF FlushTimer, ProbeReads, OtherRead, clientVars
<1>10. CASE UNCHANGED vars
  BY <1>2, <1>10 DEF vars, serviceVars, clientVars
<1>11. CASE PageMoves
  BY <1>2, <1>11 DEF PageMoves, serviceVars, clientVars
<1> QED BY <1>4, <1>5, <1>6, <1>7, <1>8, <1>9, <1>10, <1>11 DEF Next, Probe

\* --------------------------------------------------------- cache-hit-miss.js

(* Only a request that waits is moved by the command that is settled.       *)
LEMMA SettledWakes ==
    ASSUME TypeOK, CommandsAwaited, NEW i \in Instance, wire[i] # <<>>,
           Settled(i, Head(wire[i])), NEW c \in Client, pc[c] \notin {"flush", "get"}
    PROVE  pc'[c] = pc[c]
<1>1. 1 \in 1..Len(wire[i]) /\ Head(wire[i]) = wire[i][1]
  <2>1. wire[i] \in Seq(Command)
    BY DEF TypeOK
  <2> QED BY <2>1
<1>2. Head(wire[i]).from # c
  BY <1>1, SilentUnlessWaiting
<1> QED BY <1>2 DEF Settled, TypeOK

(* Without failures nothing stored was not counted.                         *)
LEMMA StoredCounted ==
    ASSUME TypeOK, CountsConserved, twice = Zero, NEW k \in Key
    PROVE  stored[k] <= counted[k] /\ stored[k] \in Nat /\ counted[k] \in Nat
<1>1. stored[k] + lost[k] + Total(k) = counted[k] + twice[k]
  BY DEF CountsConserved, Total
<1>2. stored[k] \in Nat /\ lost[k] \in Nat /\ Total(k) \in Nat /\ counted[k] \in Nat /\ twice[k] = 0
  BY TotalTyped, Adding DEF TypeOK
<1> QED BY <1>1, <1>2

(* The script does not read while its stats request is open.                *)
LEMMA ScriptWaits ==
    ASSUME TypeOK, CommandsAwaited, ScriptInformed, [Next]_vars, step' \in {"read", "done"}
    PROVE  pc'[Prober] = "idle"
<1>1. ASSUME step' = step, pc'[Prober] = pc[Prober] PROVE pc'[Prober] = "idle"
  BY <1>1 DEF ScriptInformed
<1>2. step' = step => pc[Prober] = "idle"
  BY DEF ScriptInformed
<1>3. CASE ProbeJudges
  BY <1>3 DEF ProbeJudges, TypeOK
<1>4. ASSUME NEW i \in Instance, ProbeAsks(i) \/ ProbeReads(i) PROVE pc'[Prober] = "idle"
  BY <1>4 DEF ProbeAsks, ProbeReads
<1>5. ASSUME NEW i \in Instance, wire[i] # <<>>, Settled(i, Head(wire[i])), step' = step
      PROVE  pc'[Prober] = "idle"
  BY <1>2, <1>5, SettledWakes
<1>6. ASSUME NEW i \in Instance, Execute(i) PROVE pc'[Prober] = "idle"
  BY <1>5, <1>6 DEF Execute, probeVars
<1>7. ASSUME NEW i \in Instance, Failure(i) PROVE pc'[Prober] = "idle"
  <2>1. CASE Resend(i)
    BY <1>1, <2>1 DEF Resend, probeVars, clientVars
  <2>2. CASE GiveUp(i) \/ ExecThrows(i) \/ GetFails(i)
    BY <1>5, <2>2 DEF GiveUp, ExecThrows, GetFails, NextIsFlush, probeVars
  <2>3. CASE Kill(i)
    BY <1>2, <2>3 DEF Kill, probeVars
  <2> QED BY <1>7, <2>1, <2>2, <2>3 DEF Failure
<1>8. ASSUME NEW i \in Instance, NEW c \in Client, OtherAsks(c, i) PROVE pc'[Prober] = "idle"
  <2>1. pc'[Prober] = pc[Prober]
    BY <1>8 DEF OtherAsks, Ask, getStats, TypeOK
  <2> QED BY <1>1, <1>8, <2>1 DEF OtherAsks, probeVars
<1>9. ASSUME NEW i \in Instance, FlushTimer(i) \/ \E k \in Key : OtherRead(i, k)
      PROVE  pc'[Prober] = "idle"
  BY <1>1, <1>9 DEF FlushTimer, OtherRead, clientVars, probeVars
<1>10. CASE UNCHANGED vars
  BY <1>1, <1>10 DEF vars, clientVars, probeVars
<1>11. CASE PageMoves
  BY <1>1, <1>11 DEF PageMoves, clientVars
<1> QED BY <1>3, <1>4, <1>6, <1>7, <1>8, <1>9, <1>10, <1>11 DEF Next, Probe

(* What the script knows when nobody else reads, nothing fails and its page *)
(* was cold and then stays: every count is where it asks, and its answer is *)
(* all that was ever counted.                                               *)
Alone == others = 0 /\ faults = 0 /\ ~apart /\ ~primed /\ ~cooled
Informed ==
    /\ ~unregistered
    /\ reads > 0 => page = "warm"
    /\ step = "before" => counted = Zero
    /\ step = "read" => prev = counted /\ stored = counted
    /\ step = "after" =>
           /\ prev (+) One(Expected(reads)) = counted
           /\ \A k \in Key :
                 /\ stored[k] + Held(at[Prober], k) >= counted[k]
                 /\ pc[Prober] # "idle" => owed[Prober][k] >= counted[k]

(* ScriptInformed in terms of them.                                         *)
LEMMA ScriptInformedSplit ==
    ASSUME TypeOK
    PROVE  ScriptInformed <=> /\ step \in {"read", "done"} => pc[Prober] = "idle"
                              /\ Alone => Informed
<1>1. at[Prober] \in Instance /\ stored \in Counts /\ counted \in Counts
  BY DEF TypeOK, Counts
<1>2. \A k \in Key : /\ pending[at[Prober]][k] \in Nat /\ InFlight(at[Prober], k) \in Nat
                     /\ stored[k] \in Nat /\ counted[k] \in Nat
  <2>1. \A k \in Key : InFlight(at[Prober], k) \in Nat
    BY <1>1, InFlightTyped
  <2> QED BY <1>1, <2>1 DEF TypeOK
<1>3. \A k \in Key : stored[k] + pending[at[Prober]][k] + InFlight(at[Prober], k)
                       = stored[k] + Held(at[Prober], k)
  BY <1>2 DEF Held
<1> QED BY <1>3 DEF ScriptInformed, Alone, Informed

(* The judgement of an answered request: it saw exactly what was counted.   *)
LEMMA ProbeJudgesInformed ==
    ASSUME TypeOK, CountsConserved, FaultlessRun, OwnCountsAnswered, RepliesReached,
           Alone, Informed, ProbeJudges
    PROVE  Informed'
<1>1. twice = Zero /\ pc[Prober] = "answered" /\ step \in {"before", "after"}
  BY DEF FaultlessRun, Alone, ProbeJudges
<1>2. \A k \in Key : /\ stored[k] <= counted[k] /\ reply[Prober][k] <= stored[k]
                     /\ stored[k] \in Nat /\ counted[k] \in Nat /\ reply[Prober][k] \in Nat
  <2>1. \A k \in Key : reply[Prober][k] <= stored[k] /\ reply[Prober][k] \in Nat
    BY DEF RepliesReached, TypeOK
  <2> QED BY <1>1, <2>1, StoredCounted
<1>3. \A k \in Key : reply[Prober][k] >= counted[k]
  <2>1. CASE step = "before"
    BY <1>2, <2>1, Adding DEF Informed
  <2>2. CASE step = "after"
    <3>1. \A k \in Key : /\ reply[Prober][k] >= owed[Prober][k] /\ owed[Prober][k] >= counted[k]
                         /\ owed[Prober][k] \in Nat
      BY <1>1, <2>2 DEF OwnCountsAnswered, Alone, Informed, TypeOK
    <3> QED BY <1>2, <3>1
  <2> QED BY <1>1, <2>1, <2>2
<1>4. \A k \in Key : reply[Prober][k] = counted[k] /\ stored[k] = counted[k]
  BY <1>2, <1>3
<1>5. reply[Prober] = counted /\ stored = counted
  BY <1>4 DEF TypeOK
<1>6. ~unregistered'
  BY <1>5 DEF ProbeJudges, Informed, Unregistered
<1>7. prev' = counted /\ stored' = stored /\ counted' = counted /\ step' \in {"read", "done"}
  BY <1>5 DEF ProbeJudges, serviceVars
<1>8. reads' = reads /\ page' = page
  BY DEF ProbeJudges
<1> QED BY <1>5, <1>6, <1>7, <1>8 DEF Informed

(* The first read finds the page cold and is the miss that writes it, the   *)
(* others find it: what the script expects.                                 *)
LEMMA ReadExpected ==
    ASSUME TypeOK, Alone, Alone', Informed, NEW i \in Instance, ProbeReads(i)
    PROVE  incrCounters(i, One(Expected(reads + 1))) /\ page' = "warm"
<1>1. faults' = 0 /\ faults = 0 /\ reads \in Nat
  BY DEF Alone, TypeOK
<1>2. PageHit(i) \/ PageRebuilt(i) \/ PageAwaited(i)
  BY <1>1 DEF ProbeReads, Fault
<1>3. CASE reads = 0
  <2>1. page = "cold"
    BY <1>3 DEF ProbeReads, Alone
  <2>2. PageRebuilt(i)
    BY <1>2, <2>1 DEF PageHit, PageAwaited
  <2>3. Expected(reads + 1) = "misses"
    BY <1>3 DEF Expected
  <2> QED BY <2>2, <2>3 DEF PageRebuilt
<1>4. CASE reads # 0
  <2>1. page = "warm"
    BY <1>1, <1>4 DEF Informed
  <2>2. PageHit(i)
    BY <1>2, <2>1 DEF PageRebuilt, PageAwaited
  <2>3. Expected(reads + 1) = "hits"
    BY <1>1, <1>4 DEF Expected
  <2> QED BY <2>1, <2>2, <2>3 DEF PageHit
<1> QED BY <1>3, <1>4

(* A read is counted where it is served, on top of what was known.          *)
LEMMA ProbeReadsInformed ==
    ASSUME TypeOK, TypeOK', Alone, Alone', Informed, ScriptInformed,
           NEW i \in Instance, ProbeReads(i)
    PROVE  Informed'
<1> DEFINE e == Expected(reads + 1)
<1>1. /\ step = "read" /\ step' = "after" /\ reads' = reads + 1 /\ unregistered' = unregistered
      /\ prev' = prev /\ stored' = stored /\ wire' = wire /\ pc' = pc
      /\ at' = [at EXCEPT ![Prober] = i] /\ incrCounters(i, One(e)) /\ page' = "warm"
  BY ReadExpected DEF ProbeReads
<1>2. e \in Key /\ One(e) \in Counts
  BY Adding DEF Expected, Key
<1>3. pc[Prober] = "idle"
  BY <1>1 DEF ScriptInformed
<1> HIDE DEF e
<1>4. counted' = counted (+) One(e) /\ pending'[i] = pending[i] (+) One(e)
  BY <1>1 DEF incrCounters, TypeOK
<1>5. prev' (+) One(Expected(reads')) = counted'
  BY <1>1, <1>4 DEF Informed, e
<1>6. at'[Prober] = i /\ pc'[Prober] = "idle"
  BY <1>1, <1>3 DEF TypeOK
<1>7. ASSUME NEW k \in Key PROVE stored'[k] + Held(at[Prober], k)' >= counted'[k]
  <2>1. /\ counted'[k] = counted[k] + One(e)[k] /\ counted[k] \in Nat /\ One(e)[k] \in Nat
        /\ pending'[i][k] = pending[i][k] + One(e)[k] /\ pending[i][k] \in Nat
    BY <1>2, <1>4, CountsTyped, AddedAt
  <2>2. InFlight(i, k) \in Nat /\ InFlight(i, k)' = InFlight(i, k)
    <3>1. InFlight(i, k)' = InFlight(i, k)
      BY <1>1 DEF InFlight
    <3> QED BY <3>1, InFlightTyped
  <2>3. stored'[k] = counted[k]
    BY <1>1 DEF Informed
  <2>4. Held(i, k)' = pending'[i][k] + InFlight(i, k)'
    BY DEF Held
  <2>5. Held(at[Prober], k)' = Held(i, k)'
    BY <1>6 DEF Held, InFlight
  <2>6. stored'[k] + Held(i, k)' >= counted'[k]
    BY <2>1, <2>2, <2>3, <2>4
  <2> QED BY <2>5, <2>6
<1> QED BY <1>1, <1>5, <1>6, <1>7 DEF Informed

(* Where the counts wait is where the script asks, and stays so while they  *)
(* are sent and stored.                                                     *)
LEMMA AskInformed ==
    ASSUME TypeOK, TypeOK', Informed, NEW c \in Client, NEW i \in Instance, Ask(c, i),
           c = Prober /\ step = "after" => at[Prober] = i,
           step \in {"before", "after"} \/ c # Prober,
           UNCHANGED <<step, prev, reads, unregistered, page>>
    PROVE  Informed'
<1>1. /\ stored' = stored /\ counted' = counted /\ at' = [at EXCEPT ![c] = i]
      /\ owed' = [owed EXCEPT ![c] = [k \in Key |-> stored[k] + pending[i][k] + InFlight(i, k)]]
  BY DEF Ask
<1>2. flushCounters(i, c) \/ (Send(i, Gets(c)) /\ UNCHANGED pending)
  BY DEF Ask, getStats
<1>3. \A k \in Key, j \in Instance : Held(j, k)' = Held(j, k)
  <2> SUFFICES ASSUME NEW k \in Key, NEW j \in Instance PROVE Held(j, k)' = Held(j, k)
    OBVIOUS
  <2>1. /\ Held(i, k)' = Held(i, k)
        /\ \A l \in Instance \ {i} : pending'[l] = pending[l] /\ wire'[l] = wire[l]
    BY <1>2, SendingKeepsHeld
  <2>2. CASE j = i
    BY <2>1, <2>2
  <2>3. CASE j # i
    BY <2>1, <2>3 DEF Held, InFlight
  <2> QED BY <2>2, <2>3
<1>4. CASE step = "after"
  <2>1. at'[Prober] = at[Prober] /\ at[Prober] \in Instance
    BY <1>1, <1>4 DEF TypeOK
  <2>2. ASSUME NEW k \in Key PROVE stored'[k] + Held(at[Prober], k)' >= counted'[k]
    <3>1. Held(at[Prober], k)' = Held(at[Prober], k)
      <4>1. pending'[at'[Prober]] = pending'[at[Prober]] /\ wire'[at'[Prober]] = wire'[at[Prober]]
        BY <2>1
      <4>2. pending'[at[Prober]][k] + Carried(wire'[at[Prober]], Len(wire'[at[Prober]]), k)
              = Held(at[Prober], k)
        BY <1>3, <2>1 DEF Held, InFlight
      <4> QED BY <4>1, <4>2 DEF Held, InFlight
    <3> QED BY <1>1, <1>4, <3>1 DEF Informed
  <2>3. ASSUME NEW k \in Key, pc'[Prober] # "idle" PROVE owed'[Prober][k] >= counted'[k]
    <3>1. CASE c = Prober
      <4>1. owed'[Prober][k] = stored[k] + pending[i][k] + InFlight(i, k)
        BY <1>1, <3>1 DEF TypeOK
      <4>2. stored[k] + Held(i, k) >= counted[k]
        BY <1>4, <3>1 DEF Informed
      <4>3. /\ stored[k] \in Nat /\ pending[i][k] \in Nat /\ InFlight(i, k) \in Nat
            /\ counted[k] \in Nat
        <5>1. InFlight(i, k) \in Nat
          BY InFlightTyped
        <5>2. stored[k] \in Nat /\ pending[i][k] \in Nat /\ counted[k] \in Nat
          BY DEF TypeOK
        <5> QED BY <5>1, <5>2
      <4>4. owed'[Prober][k] >= counted[k]
        BY <4>1, <4>2, <4>3 DEF Held
      <4> QED BY <1>1, <4>4
    <3>2. CASE c # Prober
      <4>1. pc'[Prober] = pc[Prober] /\ owed'[Prober] = owed[Prober]
        BY <1>1, <3>2 DEF Ask, getStats, TypeOK
      <4> QED BY <1>1, <1>4, <2>3, <4>1 DEF Informed
    <3> QED BY <3>1, <3>2
  <2> QED BY <1>1, <1>4, <2>2, <2>3 DEF Informed
<1>5. CASE step # "after"
  BY <1>1, <1>5 DEF Informed
<1> QED BY <1>4, <1>5

(* The same after a step.                                                   *)
LEMMA TotalTypedNext == ASSUME TypeOK', NEW k \in Key PROVE Total(k)' \in Nat
<1> DEFINE g == [j \in Instance |-> pending'[j][k] + Carried(wire'[j], Len(wire'[j]), k)]
<1>1. \A j \in Instance : g[j] \in Nat
  <2>1. \A j \in Instance : wire'[j] \in Seq(Command) /\ Len(wire'[j]) \in 0..Len(wire'[j])
    BY DEF TypeOK
  <2>2. \A j \in Instance : Carried(wire'[j], Len(wire'[j]), k) \in Nat
    BY <2>1, CarriedSums
  <2>3. \A j \in Instance : pending'[j][k] \in Nat
    BY DEF TypeOK
  <2> QED BY <2>2, <2>3
<1>2. Total(k)' = SumFunctionOnSet(g, Instance)
  BY DEF Total, SumFunction, InFlight
<1> HIDE DEF g
<1> QED BY <1>1, <1>2, SumType

(* A command is executed: its counts stay with the process that sent them,  *)
(* now in Redis, and the script is not disturbed.                           *)
LEMMA ExecuteInformed ==
    ASSUME TypeOK, TypeOK', CountsConserved', CommandsAwaited, FaultlessRun',
           Alone, Alone', Informed, NEW i \in Instance, Execute(i)
    PROVE  Informed'
<1>1. /\ wire[i] # <<>> /\ Settled(i, Head(wire[i]))
      /\ UNCHANGED <<pending, counted, at, owed, reads, step, prev, unregistered, page>>
  BY DEF Execute, probeVars
<1>2. \A k \in Key : /\ stored'[k] = stored[k] + Amount(Head(wire[i]), k)
                     /\ stored[k] \in Nat /\ counted[k] \in Nat
                     /\ Amount(Head(wire[i]), k) \in Nat
  BY <1>1, ExecuteStores, SettledTakes DEF TypeOK
<1>3. ASSUME NEW j \in Instance, NEW k \in Key
      PROVE  stored'[k] + Held(j, k)' >= stored[k] + Held(j, k)
  <2>1. /\ InFlight(i, k) = InFlight(i, k)' + Amount(Head(wire[i]), k)
        /\ \A l \in Instance \ {i} : wire'[l] = wire[l]
        /\ InFlight(i, k)' \in Nat
    BY <1>1, SettledTakes
  <2>2. pending[j][k] \in Nat /\ InFlight(j, k) \in Nat
    <3>1. InFlight(j, k) \in Nat
      BY InFlightTyped
    <3> QED BY <3>1 DEF TypeOK
  <2>3. CASE j = i
    <3>1. Held(i, k)' = pending[i][k] + InFlight(i, k)'
      BY <1>1 DEF Held
    <3> QED BY <1>2, <2>1, <2>2, <2>3, <3>1 DEF Held
  <2>4. CASE j # i
    <3>1. Held(j, k)' = Held(j, k)
      BY <1>1, <2>1, <2>4 DEF Held, InFlight
    <3>2. Held(j, k) \in Nat
      BY <2>2 DEF Held
    <3> QED BY <1>2, <3>1, <3>2
  <2> QED BY <2>3, <2>4
<1>4. ASSUME step = "read" PROVE stored' = counted
  <2>1. twice' = Zero
    BY DEF FaultlessRun, Alone
  <2>2. \A k \in Key : stored'[k] <= counted'[k]
    <3>1. \A k \in Key : stored'[k] + lost'[k] + Total(k)' = counted'[k] + twice'[k]
      BY DEF CountsConserved, Total
    <3>2. \A k \in Key : /\ lost'[k] \in Nat /\ stored'[k] \in Nat /\ counted'[k] \in Nat
                         /\ twice'[k] = 0
      BY <2>1, Adding DEF TypeOK
    <3>3. \A k \in Key : Total(k)' \in Nat
      BY TotalTypedNext
    <3> QED BY <3>1, <3>2, <3>3
  <2>3. \A k \in Key : stored[k] = counted[k]
    BY <1>4 DEF Informed
  <2>4. \A k \in Key : stored'[k] = counted[k]
    BY <1>1, <1>2, <2>2, <2>3
  <2> QED BY <2>4 DEF TypeOK
<1>5. step = "after" /\ pc'[Prober] # "idle" => pc[Prober] # "idle"
  <2> SUFFICES ASSUME pc[Prober] = "idle" PROVE pc'[Prober] = "idle"
    OBVIOUS
  <2> QED BY <1>1, SettledWakes
<1>6. CASE step = "after"
  <2>1. ASSUME NEW k \in Key PROVE stored'[k] + Held(at[Prober], k)' >= counted'[k]
    <3>1. at[Prober] \in Instance /\ at'[Prober] = at[Prober] /\ counted' = counted
      BY <1>1 DEF TypeOK
    <3>2. stored[k] + Held(at[Prober], k) >= counted[k]
      BY <1>6 DEF Informed
    <3>3. \A j \in Instance : Held(j, k) \in Nat /\ Held(j, k)' \in Nat
      <4>1. \A j \in Instance : InFlight(j, k) \in Nat /\ pending[j][k] \in Nat
        <5>1. \A j \in Instance : InFlight(j, k) \in Nat
          BY InFlightTyped
        <5> QED BY <5>1 DEF TypeOK
      <4>2. \A j \in Instance : InFlight(j, k)' \in Nat /\ pending'[j][k] \in Nat
        <5>1. \A j \in Instance : wire'[j] \in Seq(Command) /\ Len(wire'[j]) \in 0..Len(wire'[j])
          BY DEF TypeOK
        <5>2. \A j \in Instance : InFlight(j, k)' \in Nat
          BY <5>1, CarriedSums DEF InFlight
        <5> QED BY <5>2 DEF TypeOK
      <4> QED BY <4>1, <4>2 DEF Held
    <3> DEFINE j == at[Prober]
    <3>4. Held(at[Prober], k)' = pending'[at[Prober]][k]
                                   + Carried(wire'[at[Prober]], Len(wire'[at[Prober]]), k)
      BY <3>1 DEF Held, InFlight
    <3>5. \A l \in Instance : Held(l, k)' = pending'[l][k] + Carried(wire'[l], Len(wire'[l]), k)
      BY DEF Held, InFlight
    <3>6. \A l \in Instance : stored'[k] + Held(l, k)' >= stored[k] + Held(l, k)
      BY <1>3
    <3>7. /\ stored'[k] + Held(at[Prober], k)' >= stored[k] + Held(at[Prober], k)
          /\ Held(at[Prober], k)' \in Nat /\ Held(at[Prober], k) \in Nat
      BY <3>1, <3>3, <3>4, <3>5, <3>6
    <3>8. stored'[k] \in Nat /\ stored[k] \in Nat /\ counted[k] \in Nat
      BY <1>2
    <3> QED BY <3>1, <3>2, <3>7, <3>8
  <2> QED BY <1>1, <1>5, <1>6, <2>1 DEF Informed
<1>7. CASE step # "after"
  BY <1>1, <1>4, <1>7 DEF Informed
<1> QED BY <1>6, <1>7

(* The timer's flush disturbs nothing the script relies on.                 *)
LEMMA FlushInformed ==
    ASSUME TypeOK, Informed, NEW i \in Instance, FlushTimer(i)
    PROVE  Informed'
<1>1. /\ flushCounters(i, Timer)
      /\ UNCHANGED <<stored, counted, pc, at, owed, reads, step, prev, unregistered, page>>
  BY DEF FlushTimer, clientVars, probeVars
<1>2. \A k \in Key, j \in Instance : Held(j, k)' = Held(j, k)
  <2> SUFFICES ASSUME NEW k \in Key, NEW j \in Instance PROVE Held(j, k)' = Held(j, k)
    OBVIOUS
  <2>1. /\ Held(i, k)' = Held(i, k)
        /\ \A l \in Instance \ {i} : pending'[l] = pending[l] /\ wire'[l] = wire[l]
    BY <1>1, SendingKeepsHeld
  <2>2. CASE j = i
    BY <2>1, <2>2
  <2>3. CASE j # i
    BY <2>1, <2>3 DEF Held, InFlight
  <2> QED BY <2>2, <2>3
<1>3. ASSUME NEW k \in Key PROVE Held(at[Prober], k)' = Held(at[Prober], k)
  <2>1. at[Prober] \in Instance /\ at' = at
    BY <1>1 DEF TypeOK
  <2>2. pending'[at[Prober]][k] + Carried(wire'[at[Prober]], Len(wire'[at[Prober]]), k)
          = Held(at[Prober], k)
    BY <1>2, <2>1 DEF Held, InFlight
  <2> QED BY <2>1, <2>2 DEF Held, InFlight
<1> QED BY <1>1, <1>3 DEF Informed

(* ScriptInformedSplit for the state after a step.                          *)
LEMMA ScriptInformedSplitNext ==
    ASSUME TypeOK'
    PROVE  ScriptInformed' <=> /\ step' \in {"read", "done"} => pc'[Prober] = "idle"
                               /\ Alone' => Informed'
<1>1. /\ at'[Prober] \in Instance /\ \A j \in Instance : wire'[j] \in Seq(Command)
      /\ \A k \in Key : stored'[k] \in Nat /\ counted'[k] \in Nat
  BY DEF TypeOK
<1>2. \A k \in Key : pending'[at'[Prober]][k] \in Nat
  BY <1>1 DEF TypeOK
<1>3. \A k \in Key : InFlight(at[Prober], k)' \in Nat
  <2>1. \A j \in Instance, k \in Key : Carried(wire'[j], Len(wire'[j]), k) \in Nat
    <3>1. \A j \in Instance : Len(wire'[j]) \in 0..Len(wire'[j])
      BY <1>1
    <3> QED BY <1>1, <3>1, CarriedSums
  <2>2. \A k \in Key : InFlight(at[Prober], k)'
                          = Carried(wire'[at'[Prober]], Len(wire'[at'[Prober]]), k)
    BY DEF InFlight
  <2> QED BY <1>1, <2>1, <2>2
<1>4. \A k \in Key : stored'[k] + pending'[at'[Prober]][k] + InFlight(at[Prober], k)'
                       = stored'[k] + Held(at[Prober], k)'
  BY <1>1, <1>2, <1>3 DEF Held
<1> QED BY <1>4 DEF ScriptInformed, Alone, Informed

(* What the script knows survives every step of anyone.                     *)
LEMMA ScriptStep ==
    ASSUME TypeOK, TypeOK', CountsConserved, CountsConserved', CommandsAwaited,
           FaultlessRun, FaultlessRun', OwnCountsAnswered, RepliesReached, ScriptInformed,
           [Next]_vars
    PROVE  ScriptInformed'
<1>1. step' \in {"read", "done"} => pc'[Prober] = "idle"
  BY ScriptWaits
<1>2. ASSUME Alone' PROVE Informed'
  <2>1. ASSUME Alone PROVE Informed'
    <3>1. Informed
      BY <2>1, ScriptInformedSplit
    <3>2. CASE ProbeJudges
      BY <2>1, <3>1, <3>2, ProbeJudgesInformed
    <3>3. ASSUME NEW i \in Instance, ProbeAsks(i) PROVE Informed'
      <4>1. step = "after" => at[Prober] = i
        BY <1>2, <3>3 DEF ProbeAsks, Alone
      <4>2. /\ Ask(Prober, i) /\ step \in {"before", "after"}
            /\ UNCHANGED <<step, prev, reads, unregistered, page>>
        BY <3>3 DEF ProbeAsks
      <4> QED BY <3>1, <4>1, <4>2, AskInformed
    <3>4. ASSUME NEW i \in Instance, ProbeReads(i) PROVE Informed'
      BY <1>2, <2>1, <3>1, <3>4, ProbeReadsInformed
    <3>5. ASSUME NEW i \in Instance, FlushTimer(i) PROVE Informed'
      BY <3>1, <3>5, FlushInformed
    <3>6. ASSUME NEW i \in Instance, Execute(i) PROVE Informed'
      BY <1>2, <2>1, <3>1, <3>6, ExecuteInformed
    <3>7. ASSUME NEW i \in Instance, Failure(i) PROVE FALSE
      <4>1. faults' = faults + 1
        BY <3>7 DEF Failure, Fault, Resend, GiveUp, ExecThrows, GetFails, Kill
      <4> QED BY <1>2, <2>1, <4>1 DEF Alone
    <3>8. ASSUME NEW i \in Instance, NEW k \in Key, OtherRead(i, k) PROVE FALSE
      <4>1. others' = others + 1
        BY <3>8 DEF OtherRead
      <4> QED BY <1>2, <2>1, <4>1 DEF Alone
    <3>9. ASSUME NEW i \in Instance, NEW c \in Client, OtherAsks(c, i) PROVE Informed'
      <4>1. /\ Ask(c, i) /\ c # Prober /\ UNCHANGED <<step, prev, reads, unregistered, page>>
        BY <3>9 DEF OtherAsks, probeVars
      <4> QED BY <3>1, <4>1, AskInformed
    <3>10. CASE UNCHANGED vars
      BY <3>1, <3>10 DEF Informed, Held, InFlight, vars, serviceVars, clientVars, probeVars
    <3>11. CASE PageMoves
      <4>1. reads > 0 => page' # "cold" /\ page = "warm"
        BY <1>2, <3>1, <3>11 DEF PageMoves, Alone, Informed
      <4>2. ~(reads > 0)
        BY <3>11, <4>1 DEF PageMoves
      <4> QED BY <3>1, <3>11, <4>2
              DEF PageMoves, Informed, Held, InFlight, serviceVars, clientVars
    <3> QED BY <3>2, <3>3, <3>4, <3>5, <3>6, <3>7, <3>8, <3>9, <3>10, <3>11 DEF Next, Probe
  <2>2. Alone
    <3>1. others' = 0 /\ faults' = 0 /\ ~apart' /\ ~primed' /\ ~cooled'
      BY <1>2 DEF Alone
    <3>2. others \in Nat /\ faults \in Nat
      BY DEF TypeOK
    <3>3. /\ others' = others \/ others' = others + 1
          /\ faults' = faults \/ faults' = faults + 1
          /\ (apart => apart') /\ (primed => primed') /\ (cooled => cooled')
      <4>1. CASE ProbeJudges
        BY <4>1 DEF ProbeJudges
      <4>2. ASSUME NEW i \in Instance, ProbeAsks(i)
            PROVE  /\ others' = others /\ faults' = faults
                   /\ (apart => apart') /\ primed' = primed /\ cooled' = cooled
        BY <4>2 DEF ProbeAsks
      <4>3. ASSUME NEW i \in Instance, ProbeReads(i)
            PROVE  /\ others' = others
                   /\ faults' = faults \/ faults' = faults + 1
                   /\ (primed => primed') /\ apart' = apart /\ cooled' = cooled
        BY <4>3 DEF ProbeReads, Fault
      <4>4. ASSUME NEW i \in Instance, FlushTimer(i) \/ Execute(i)
            PROVE  /\ others' = others /\ faults' = faults
                   /\ UNCHANGED <<apart, primed, cooled>>
        BY <4>4 DEF FlushTimer, Execute, probeVars
      <4>5. ASSUME NEW i \in Instance, Failure(i)
            PROVE  /\ others' = others /\ faults' = faults + 1
                   /\ UNCHANGED <<apart, primed, cooled>>
        BY <4>5 DEF Failure, Fault, Resend, GiveUp, ExecThrows, GetFails, Kill, probeVars
      <4>6. ASSUME NEW i \in Instance, NEW k \in Key, OtherRead(i, k)
            PROVE  /\ others' = others + 1 /\ faults' = faults
                   /\ UNCHANGED <<apart, primed, cooled>>
        BY <4>6 DEF OtherRead
      <4>7. ASSUME NEW i \in Instance, NEW c \in Client, OtherAsks(c, i)
            PROVE  /\ others' = others /\ faults' = faults
                   /\ UNCHANGED <<apart, primed, cooled>>
        BY <4>7 DEF OtherAsks, probeVars
      <4>8. CASE UNCHANGED vars
        BY <4>8 DEF vars, probeVars
      <4>9. CASE PageMoves
        BY <4>9 DEF PageMoves
      <4> QED BY <4>1, <4>2, <4>3, <4>4, <4>5, <4>6, <4>7, <4>8, <4>9 DEF Next, Probe
    <3> QED BY <3>1, <3>2, <3>3 DEF Alone
  <2> QED BY <2>1, <2>2
<1> QED BY <1>1, <1>2, ScriptInformedSplitNext

\* ------------------------------------------------------------- the invariant

(* The first state: nothing counted, nothing sent, nothing asked.           *)
LEMMA InitEstablishes == Init => IInv
<1> SUFFICES ASSUME Init PROVE IInv
  OBVIOUS
<1>1. /\ stored = Zero /\ counted = Zero /\ lost = Zero /\ twice = Zero
      /\ pending = [i \in Instance |-> Zero] /\ wire = [i \in Instance |-> <<>>]
      /\ pc = [c \in Client |-> "idle"]
      /\ reply = [c \in Client |-> Zero] /\ owed = [c \in Client |-> Zero]
      /\ reads = 0 /\ step = "before" /\ prev = Zero /\ ~unregistered /\ ~apart
      /\ page \in PageState /\ primed = FALSE /\ cooled = FALSE
      /\ others = 0 /\ asks = 0 /\ faults = 0
  BY DEF Init
<1>2. Zero \in Counts /\ \A k \in Key : Zero[k] = 0
  BY Adding
<1>3. TypeOK
  <2>1. at \in [Client -> Instance]
    BY DEF Init
  <2>2. unregistered \in BOOLEAN /\ apart \in BOOLEAN
    BY DEF Init
  <2>3. <<>> \in Seq(Command)
    OBVIOUS
  <2>4. wire \in [Instance -> Seq(Command)]
    BY <1>1, <2>3
  <2>5. others + asks + faults \in 0..MaxEvents /\ reads \in 0..(RepeatHits + 1)
    BY <1>1
  <2> QED BY <1>1, <1>2, <2>1, <2>2, <2>4, <2>5 DEF TypeOK, Counts
<1>4. \A j \in Instance : Len(wire[j]) = 0
  BY <1>1
<1>5. CountsConserved
  <2> SUFFICES ASSUME NEW k \in Key
               PROVE  stored[k] + lost[k] + Total(k) = counted[k] + twice[k]
    BY DEF CountsConserved, Total
  <2>1. Total(k) = 0
    <3> DEFINE f == [j \in Instance |-> pending[j][k] + InFlight(j, k)]
    <3>1. \A j \in Instance : InFlight(j, k) = 0
      <4>1. <<>> \in Seq(Command) /\ 0 \in 0..Len(<<>>) /\ Len(<<>>) = 0
        OBVIOUS
      <4>2. Carried(<<>>, 0, k) = 0
        BY <4>1, CarriedSums
      <4> QED BY <1>1, <4>1, <4>2 DEF InFlight
    <3>2. \A j \in Instance : f[j] = 0
      BY <1>1, <1>2, <3>1
    <3>3. Total(k) = SumFunctionOnSet(f, Instance)
      BY DEF Total, SumFunction
    <3> HIDE DEF f
    <3> QED BY <3>2, <3>3, SumOfZeros
  <2> QED BY <1>1, <1>2, <2>1
<1>6. CommandsAwaited
  BY <1>4 DEF CommandsAwaited
<1>7. FaultlessRun
  <2>1. OwedAhead
    BY <1>1, <1>4 DEF OwedAhead
  <2> QED BY <1>1, <2>1 DEF FaultlessRun
<1>8. OwnCountsAnswered
  BY <1>1 DEF OwnCountsAnswered
<1>9. RepliesReached
  BY <1>1, <1>2 DEF RepliesReached
<1>10. ScriptInformed /\ HitMissSound
  BY <1>1 DEF ScriptInformed, HitMissSound
<1> QED BY <1>3, <1>5, <1>6, <1>7, <1>8, <1>9, <1>10 DEF IInv

(* Every step keeps the invariant.                                          *)
LEMMA StepPreserves == IInv /\ [Next]_vars => IInv'
<1> SUFFICES ASSUME IInv, [Next]_vars PROVE IInv'
  OBVIOUS
<1>1. /\ TypeOK /\ CountsConserved /\ CommandsAwaited /\ FaultlessRun /\ OwnCountsAnswered
      /\ RepliesReached /\ ScriptInformed
  BY DEF IInv
<1>2. TypeOK'
  BY <1>1, TypeStep
<1>3. CountsConserved'
  BY <1>1, <1>2, ConservedStep
<1>4. CommandsAwaited'
  BY <1>1, <1>2, AwaitedStep
<1>5. FaultlessRun' /\ OwnCountsAnswered'
  BY <1>1, <1>2, <1>4, FaultlessStep
<1>6. RepliesReached'
  BY <1>1, RepliesStep
<1>7. ScriptInformed'
  BY <1>1, <1>2, <1>3, <1>5, ScriptStep
<1>8. HitMissSound'
  <2>1. Alone' => ~unregistered'
    BY <1>2, <1>7, ScriptInformedSplitNext DEF Informed
  <2>2. others' \in Nat /\ faults' \in Nat
    BY <1>2 DEF TypeOK
  <2> QED BY <2>1, <2>2 DEF HitMissSound, Alone
<1> QED BY <1>2, <1>3, <1>4, <1>5, <1>6, <1>7, <1>8 DEF IInv

(* The invariant holds in every state of every run.                         *)
THEOREM Invariance == Spec => []IInv
BY InitEstablishes, StepPreserves, PTL DEF Spec

(* Counters, connections and answers keep their types.                      *)
THEOREM TypeCorrect == Spec => []TypeOK
<1>1. IInv => TypeOK
  BY DEF IInv
<1> QED BY <1>1, Invariance, PTL

(* flushCounters snapshots and clears before it awaits: however the flushes *)
(* of the timer and of getStats overlap, every count is in Redis, on its    *)
(* way or buffered exactly once, up to what a failure dropped or repeated.  *)
THEOREM ConservedTheorem == Spec => []CountsConserved
<1>1. IInv => CountsConserved
  BY DEF IInv
<1> QED BY <1>1, Invariance, PTL

(* getStats answers with at least what its process had counted when it was  *)
(* asked, even when the timer took it out of the buffer and still writes it.*)
THEOREM OwnCountsTheorem == Spec => []OwnCountsAnswered
<1>1. IInv => OwnCountsAnswered
  BY DEF IInv
<1> QED BY <1>1, Invariance, PTL

(* cache-hit-miss.js reports an unregistered request only if the page was   *)
(* there before the first one, or went away between two, or someone else    *)
(* read, a command failed, or its two calls met different processes: were   *)
(* none of these the case, the counters of the service would be wrong.      *)
THEOREM HitMissTheorem == Spec => []HitMissSound
<1>1. IInv => HitMissSound
  BY DEF IInv
<1> QED BY <1>1, Invariance, PTL

=============================================================================
