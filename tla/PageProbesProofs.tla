---------------------------- MODULE PageProbesProofs ---------------------------
(***************************************************************************)
(* What the verdicts of the scripts that read the product pages prove: the *)
(* steps of InvalidationProbe keep ProbeInv for any page sizes, rounds and *)
(* lost answers, and those of PageContract keep PageInv for any catalogue. *)
(* LoadTestsProofs draws the theorems about the scripts together from it.  *)
(***************************************************************************)
EXTENDS InvalidationProbe, PageContract, SumLemmas, FiniteSetTheorems, TLAPS

\* ---------------------------- the inductive invariant of the invalidation probes

(* A baseline never shows more than there was.  On a correct service that   *)
(* had nothing left to do it is the stock itself, until the order of the    *)
(* round is queued, and one more than the stock will be from then on.       *)
BaselineTaken ==
    \A v \in VariantLimits : mem.before[v] # Unread =>
        /\ mem.before[v] <= InitialUnits
        /\ svc.defect = "none" /\ ~rig.overlap =>
              /\ mem.before[v] >= InitialUnits - svc.announced
              /\ pc = "baseline" => Idle /\ mem.before[v] = InitialUnits - svc.sold
              /\ pc = "poll" => mem.before[v] = InitialUnits - (svc.sold + svc.queued) + 1

(* A poll has a baseline, and the page sizes that are done with it show the *)
(* one order.                                                               *)
PollSettles ==
    pc = "poll" =>
        /\ baselineValues # {}
        /\ mem.script = "rounds" /\ svc.defect = "none" /\ ~rig.overlap =>
              \A v \in VariantLimits \ mem.left :
                 mem.final[v] = InitialUnits - (svc.sold + svc.queued)

(* A round without an accusation costs a lost answer.                       *)
RoundsCost ==
    mem.script = "rounds" /\ svc.defect = "keepsOne" /\ "never_invalidated" \notin fails =>
        /\ mem.round <= 1 + rig.lost
        /\ pc = "poll" => Kept \in mem.left
        /\ pc = "baseline" /\ (\E v \in VariantLimits \ mem.left : mem.before[v] = Unread) =>
              mem.round <= rig.lost

(* The inductive invariant of the invalidation probes.                      *)
ProbeInv ==
    mem.script \in {"rounds", "blackbox"} =>
        /\ ProbeTypeOK /\ BaselineTaken /\ PollSettles /\ RoundsCost
        /\ RoundsFair /\ StaleFound /\ BlackboxVerdict

\* ------------------------------------- the inductive invariant of the page contract

(* The services whose pages fit together, though not always those asked     *)
(* for: a cache keyed without the limit serves the pages of the first walk. *)
(* And the walks do not ask for a page that is clamped to another.          *)
Coherent == svc.defect \in {"none", "keyedWithoutLimit"} /\ ~ClampReached
Cut(n) == SweepLimits[IF svc.defect = "keyedWithoutLimit" THEN 1 ELSE n]

(* The rows of the first pages, and what a walk of the right ones yields.   *)
FirstPages(pages, limit) == {n \in 1..svc.total : n <= pages * limit}
WalkRight(n) ==
    LET walk == mem.crawls[n] IN
    \/ walk = Broken /\ rig.lost
    \/ /\ walk \in Walk
       /\ walk.total = svc.total /\ walk.pages = totalPages(svc.total, Cut(n))
       /\ ~CeilingReached => walk.unique = 1..svc.total

(* A crawl of a coherent service has seen the pages before the one it asks  *)
(* for, all of them pages of the catalogue.                                 *)
CrawlsRight ==
    Coherent =>
        /\ pc = "crawl" => /\ mem.page <= totalPages(svc.total, Cut(mem.n))
                           /\ mem.seen = FirstPages(mem.page - 1, Cut(mem.n))
        /\ pc = "distinct" => totalPages(svc.total, SweepLimits[1]) >= 2
        /\ \A n \in DOMAIN mem.crawls : WalkRight(n)

Unaccused == Coherent => fails \subseteq Excused

(* Every walk that is over is remembered, and what the current one has seen *)
(* are rows of the catalogue: page 1 over again, or all but its first row,  *)
(* when the service has that defect.                                        *)
WalksKept ==
    /\ Len(mem.crawls) = IF pc = "crawl" THEN mem.n - 1 ELSE Len(SweepLimits)
    /\ mem.seen \subseteq 1..svc.total
    /\ svc.defect \in {"ignoresPage", "keyedWithoutPage"} /\ svc.total > 0 /\ mem.page > 1 =>
          1 \in mem.seen
    /\ svc.defect = "skipsOne" => 1 \notin mem.seen

(* A walk on which a defect shows has ended with an accusation.             *)
DefectNoticed ==
    ~Coherent /\ ~ClampReached /\ ~rig.lost /\ ~CeilingReached =>
        \A n \in DOMAIN mem.crawls : Shows(n) => fails # {}

QueryTaken ==
    mem.status # 0 => mem.status = IF Accepted(mem.query[1], mem.query[2]) THEN 200 ELSE 400

(* The inductive invariant of the page contract.                            *)
PageInv ==
    mem.script = "pages" =>
        /\ PageTypeOK /\ CrawlsRight /\ QueryTaken
        /\ Unaccused /\ WalksKept /\ DefectNoticed

\* ------------------------------------------------------ the largest, the only

(* A finite set of numbers that is not empty has a largest one, and Max is  *)
(* it.                                                                      *)
LEMMA MaxIsLargest ==
    ASSUME NEW S, IsFiniteSet(S), S # {}
    PROVE  S \subseteq Int => Max(S) \in S /\ \A y \in S : Max(S) >= y
<1> DEFINE Above(x) == {y \in S : y >= x}
           T == {Above(x) : x \in S}
<1>1. T \subseteq SUBSET S /\ T # {}
  OBVIOUS
<1> HIDE DEF T, Above
<1>2. \E s \in T : \A t \in T : t \subseteq s => t = s
  BY <1>1, MinimalSubset
<1> SUFFICES ASSUME S \subseteq Int PROVE Max(S) \in S /\ \A y \in S : Max(S) >= y
  OBVIOUS
<1>3. PICK x \in S : \A t \in T : t \subseteq Above(x) => t = Above(x)
  BY <1>2 DEF T, Above
<1>4. ASSUME NEW y \in S PROVE x >= y
  <2>1. CASE y > x
    <3>1. \A z \in S : z >= y => z >= x
      <4> SUFFICES ASSUME NEW z \in S, z >= y PROVE z >= x
        OBVIOUS
      <4>1. x \in Int /\ y \in Int /\ z \in Int
        OBVIOUS
      <4> QED BY <2>1, <4>1
    <3>2. Above(y) \subseteq Above(x) /\ Above(y) \in T
      BY <3>1 DEF T, Above
    <3>3. Above(y) = Above(x)
      BY <1>3, <3>2 DEF Above
    <3>4. x >= x
      OBVIOUS
    <3> QED BY <3>3, <3>4 DEF Above
  <2>2. x \in Int /\ y \in Int
    OBVIOUS
  <2> QED BY <2>1, <2>2
<1>5. \E z \in S : \A y \in S : z >= y
  BY <1>4
<1> QED BY <1>5 DEF Max

(* The largest and the smallest of a single number are that number.         *)
LEMMA OnlyOne == ASSUME NEW x \in Int PROVE Max({x}) = x /\ Min({x}) = x
BY DEF Max, Min

(* The page sizes a script reads are some of those there are, and there is  *)
(* at least one.                                                            *)
LEMMA VariantsFacts ==
    /\ Variants \subseteq VariantLimits /\ Variants # {} /\ Max(VariantLimits) \in VariantLimits
    /\ mem.script = "rounds" => Variants = VariantLimits
<1>1. VariantLimits \in SUBSET Int /\ VariantLimits # {} /\ IsFiniteSet(VariantLimits)
  BY ProbeAssumption
<1>2. Max(VariantLimits) \in VariantLimits
  BY <1>1, MaxIsLargest
<1> QED BY <1>1, <1>2 DEF Variants

(* What the types say of each field.                                        *)
LEMMA FieldTypes ==
    ASSUME ProbeTypeOK
    PROVE  /\ svc.queued \in Nat /\ svc.sold \in Nat /\ svc.unbumped \in Nat /\ svc.announced \in Nat
           /\ svc.announced <= svc.sold /\ svc.defect \in {"none", "keepsOne"}
           /\ mem.script \in {"rounds", "blackbox"} /\ mem.round \in Nat
           /\ mem.left \subseteq VariantLimits /\ mem.before \in [VariantLimits -> Reading]
           /\ mem.final \in [VariantLimits -> Reading] /\ mem.watch \in VariantLimits
           /\ rig.lost \in Nat /\ rig.gaveUp \in BOOLEAN /\ rig.overlap \in BOOLEAN
           /\ InitialUnits \in Int /\ Unread \notin Int
<1>1. /\ svc.queued \in Nat /\ svc.sold \in Nat /\ svc.unbumped \in Nat /\ svc.announced \in Nat
      /\ svc.announced <= svc.sold /\ svc.defect \in {"none", "keepsOne"}
  BY DEF ProbeTypeOK, ProbeService
<1>2. /\ mem.script \in {"rounds", "blackbox"} /\ mem.round \in Nat
      /\ mem.left \subseteq VariantLimits /\ mem.before \in [VariantLimits -> Reading]
      /\ mem.final \in [VariantLimits -> Reading] /\ mem.watch \in VariantLimits
  BY DEF ProbeTypeOK, ProbeMemory
<1>3. rig.lost \in Nat /\ rig.gaveUp \in BOOLEAN /\ rig.overlap \in BOOLEAN
  BY DEF ProbeTypeOK, ProbeRig
<1>4. InitialUnits \in Int /\ Unread \notin Int
  BY ProbeAssumption DEF InitialUnits
<1> QED BY <1>1, <1>2, <1>3, <1>4

(* The baseline is a number that was read, and the largest of them.         *)
LEMMA BaselineFacts ==
    ASSUME ProbeTypeOK, baselineValues # {}
    PROVE  /\ baselineValues \subseteq Int /\ baseline \in Int
           /\ \E v \in Variants : mem.before[v] = baseline /\ mem.before[v] # Unread
           /\ \A v \in Variants : mem.before[v] # Unread => mem.before[v] <= baseline
<1> DEFINE Read == {mem.before[v] : v \in Variants}
           read == [v \in Variants |-> mem.before[v]]
<1>1. /\ \A v \in Variants : mem.before[v] \in Reading
      /\ Variants \subseteq VariantLimits /\ Unread \notin Int
  BY VariantsFacts, FieldTypes
<1>2. baselineValues = Read \ {Unread}
  BY DEF baselineValues
<1>3. baselineValues \subseteq Int
  BY <1>1, <1>2 DEF Reading
<1>4. IsFiniteSet(baselineValues)
  <2>1. IsFiniteSet(Variants)
    BY <1>1, FS_Subset, ProbeAssumption
  <2>2. IsFiniteSet(Read)
    <3>1. read \in Surjection(Variants, Read)
      BY DEF Surjection
    <3> HIDE DEF Read, read
    <3> QED BY <2>1, <3>1, FS_Surjection
  <2> HIDE DEF Read
  <2>3. baselineValues \subseteq Read
    BY <1>2
  <2> QED BY <2>2, <2>3, FS_Subset
<1>5. baseline \in baselineValues /\ \A y \in baselineValues : baseline >= y
  BY <1>3, <1>4, MaxIsLargest DEF baseline
<1>6. \A v \in Variants : mem.before[v] # Unread => mem.before[v] \in baselineValues
  BY <1>2
<1>7. \E v \in Variants : mem.before[v] = baseline /\ mem.before[v] # Unread
  BY <1>2, <1>5
<1>8. ASSUME NEW v \in Variants, mem.before[v] # Unread PROVE mem.before[v] <= baseline
  BY <1>3, <1>5, <1>6, <1>8
<1> QED BY <1>3, <1>5, <1>7, <1>8

\* ---------------------------------------------------------------- the steps

(* What a page size may show is a stock the product had: on a correct       *)
(* service between the last announced and the last committed one.           *)
LEMMA ReadableFacts ==
    ASSUME ProbeTypeOK, NEW v \in VariantLimits, NEW now \in Readable(v)
    PROVE  /\ now \in Int /\ now # Unread /\ now <= InitialUnits
           /\ InitialUnits - svc.sold <= now
           /\ svc.defect = "none" => now <= InitialUnits - svc.announced
           /\ svc.defect = "keepsOne" /\ v = Kept => now = InitialUnits
<1>1. /\ InitialUnits \in Int /\ svc.announced \in Nat /\ svc.sold \in Nat
      /\ svc.announced <= svc.sold /\ Unread \notin Int
  BY FieldTypes
<1>2. CASE svc.defect = "keepsOne" /\ v = Kept
  BY <1>1, <1>2 DEF Readable
<1>3. CASE ~(svc.defect = "keepsOne" /\ v = Kept)
  <2>1. PICK n \in svc.announced..svc.sold : now = InitialUnits - n
    BY <1>3 DEF Readable
  <2>2. n \in Int /\ svc.announced <= n /\ n <= svc.sold
    BY <1>1, <2>1
  <2> QED BY <1>1, <1>3, <2>1, <2>2
<1> QED BY <1>2, <1>3

(* A lost answer counts, and nothing else of the history changes.           *)
LEMMA FaultFacts ==
    ASSUME ProbeTypeOK, Fault
    PROVE  /\ rig' \in ProbeRig /\ rig'.lost = rig.lost + 1
           /\ rig'.gaveUp = rig.gaveUp /\ rig'.overlap = rig.overlap
BY DEF ProbeTypeOK, ProbeRig, Fault

(* The next round begins with nothing read.                                 *)
LEMMA NextRoundFacts ==
    ASSUME ProbeTypeOK, NextRound
    PROVE  /\ pc' \in {"baseline", "done"} /\ mem' \in ProbeMemory
           /\ mem'.round = mem.round + 1 /\ mem'.left = VariantLimits
           /\ mem'.before = Unreads /\ mem'.script = mem.script /\ mem'.verdict = mem.verdict
<1>1. Unreads \in [VariantLimits -> Reading]
  BY DEF Unreads, Reading
<1>2. /\ mem \in ProbeMemory
      /\ mem' = [mem EXCEPT !.round = mem.round + 1, !.left = VariantLimits,
                            !.before = Unreads, !.final = Unreads]
  BY DEF ProbeTypeOK, NextRound
<1>3. mem.round \in Nat /\ mem.round + 1 \in Nat
  BY FieldTypes
<1>4. pc' \in {"baseline", "done"}
  BY DEF NextRound, GoTo
<1>5. mem' \in ProbeMemory /\ mem'.round = mem.round + 1
  BY <1>1, <1>2, <1>3 DEF ProbeMemory
<1> QED BY <1>2, <1>4, <1>5 DEF ProbeMemory

(* Types are kept by every step of the probe, of the worker and of the      *)
(* readers; the script and the defect stay, and nothing lost is found.      *)
LEMMA ProbeTypeStep ==
    ASSUME ProbeTypeOK, NextInvalidation
    PROVE  /\ ProbeTypeOK' /\ mem'.script = mem.script /\ svc'.defect = svc.defect
           /\ rig'.lost \in Nat /\ rig'.lost >= rig.lost
           /\ (rig.gaveUp /\ ~PollBlackbox => rig'.gaveUp) /\ (rig.overlap => rig'.overlap)
<1> DEFINE Goal == /\ ProbeTypeOK' /\ mem'.script = mem.script /\ svc'.defect = svc.defect
                   /\ rig'.lost \in Nat /\ rig'.lost >= rig.lost
                   /\ (rig.gaveUp /\ ~PollBlackbox => rig'.gaveUp) /\ (rig.overlap => rig'.overlap)
<1>0. /\ pc \in {"baseline", "poll", "done"}
      /\ svc \in ProbeService /\ mem \in ProbeMemory /\ rig \in ProbeRig
      /\ svc.queued \in Nat /\ svc.sold \in Nat /\ svc.unbumped \in Nat /\ svc.announced \in Nat
      /\ svc.announced <= svc.sold
      /\ mem.left \subseteq VariantLimits /\ mem.before \in [VariantLimits -> Reading]
      /\ mem.final \in [VariantLimits -> Reading]
      /\ rig.lost \in Nat /\ rig.gaveUp \in BOOLEAN /\ rig.overlap \in BOOLEAN
  BY FieldTypes DEF ProbeTypeOK
<1>s. ASSUME svc' \in ProbeService, svc'.announced <= svc'.sold, svc'.defect = svc.defect,
             UNCHANGED <<pc, mem>>, \/ UNCHANGED rig
                                    \/ Fault
      PROVE  Goal
  BY <1>0, <1>s, FaultFacts DEF ProbeTypeOK
<1>r. ASSUME UNCHANGED svc, mem' \in ProbeMemory, mem'.script = mem.script,
             pc' \in {"baseline", "poll", "done"},
             \/ UNCHANGED rig
             \/ Fault
             \/ /\ rig' \in ProbeRig /\ rig'.lost = rig.lost /\ (rig.overlap => rig'.overlap)
                /\ (rig.gaveUp /\ ~PollBlackbox => rig'.gaveUp)
      PROVE  Goal
  <2>1. rig' \in ProbeRig /\ rig'.lost \in Nat /\ rig'.lost >= rig.lost
        /\ (rig.gaveUp /\ ~PollBlackbox => rig'.gaveUp) /\ (rig.overlap => rig'.overlap)
    BY <1>0, <1>r, FaultFacts
  <2> QED BY <1>0, <1>r, <2>1 DEF ProbeTypeOK
<1>1. CASE Commit
  <2>1. /\ svc.queued > 0 /\ UNCHANGED <<pc, mem, fails, rig>>
        /\ svc' = [svc EXCEPT !.queued = svc.queued - 1, !.sold = svc.sold + 1,
                              !.unbumped = svc.unbumped + 1]
    BY <1>1 DEF Commit
  <2>2. svc.queued - 1 \in Nat /\ svc.sold + 1 \in Nat /\ svc.unbumped + 1 \in Nat
        /\ svc.announced <= svc.sold + 1
    BY <1>0, <2>1
  <2>3. svc' \in ProbeService /\ svc'.announced <= svc'.sold /\ svc'.defect = svc.defect
    BY <1>0, <2>1, <2>2 DEF ProbeService
  <2> QED BY <1>s, <2>1, <2>3
<1>2. CASE Announce
  <2>1. svc.unbumped - 1 \in Nat
    BY <1>0, <1>2 DEF Announce
  <2>2. CASE svc' = [svc EXCEPT !.unbumped = svc.unbumped - 1, !.announced = svc.sold]
             /\ UNCHANGED rig
    <3>1. svc' \in ProbeService /\ svc'.defect = svc.defect
          /\ svc'.announced = svc.sold /\ svc'.sold = svc.sold
      BY <1>0, <2>1, <2>2 DEF ProbeService
    <3>2. svc'.announced <= svc'.sold
      BY <1>0, <3>1
    <3> QED BY <1>2, <1>s, <2>2, <3>1, <3>2 DEF Announce
  <2>3. CASE Fault /\ svc' = [svc EXCEPT !.unbumped = svc.unbumped - 1]
    <3>1. svc' \in ProbeService /\ svc'.announced <= svc'.sold /\ svc'.defect = svc.defect
      BY <1>0, <2>1, <2>3 DEF ProbeService
    <3> QED BY <1>2, <1>s, <2>3, <3>1 DEF Announce
  <2> QED BY <1>2, <2>2, <2>3 DEF Announce
<1>3. CASE Reader
  <2>1. PICK now \in Readable(mem.watch) : mem' = [mem EXCEPT !.lastSeen = now]
    BY <1>3 DEF Reader
  <2>2. now \in Reading
    BY ReadableFacts, FieldTypes, <2>1 DEF Reading
  <2>3. mem' \in ProbeMemory /\ mem'.script = mem.script
    BY <1>0, <2>1, <2>2 DEF ProbeMemory
  <2> QED BY <1>0, <1>3, <1>r, <2>3 DEF Reader
<1>4. CASE BaselineRead
  <2>1. PICK v \in mem.left \cap Variants :
           /\ \/ /\ \E now \in Readable(v) :
                       mem' = [mem EXCEPT !.left = @ \ {v}, !.before[v] = now]
                 /\ rig' = [rig EXCEPT !.overlap = @ \/ ~Idle]
              \/ Fault /\ mem' = [mem EXCEPT !.left = @ \ {v}]
           /\ UNCHANGED <<pc, svc, fails>>
    BY <1>4 DEF BaselineRead
  <2>2. CASE Fault /\ mem' = [mem EXCEPT !.left = mem.left \ {v}]
    <3>1. mem' \in ProbeMemory /\ mem'.script = mem.script
      BY <1>0, <2>2 DEF ProbeMemory
    <3> QED BY <1>0, <1>r, <2>1, <2>2, <3>1
  <2>3. ASSUME NEW now \in Readable(v), mem' = [mem EXCEPT !.left = @ \ {v}, !.before[v] = now],
               rig' = [rig EXCEPT !.overlap = @ \/ ~Idle]
        PROVE  Goal
    <3>1. now \in Reading
      BY <1>0, ReadableFacts DEF Reading
    <3>2. (rig.overlap \/ ~Idle) \in BOOLEAN
      BY DEF Idle
    <3>3. mem' = [mem EXCEPT !.left = mem.left \ {v}, !.before = [mem.before EXCEPT ![v] = now]]
      BY <2>3
    <3>4. mem' \in ProbeMemory /\ mem'.script = mem.script
      BY <1>0, <3>1, <3>3 DEF ProbeMemory
    <3>5. /\ rig' \in ProbeRig /\ rig'.lost = rig.lost /\ (rig.overlap => rig'.overlap)
          /\ rig'.gaveUp = rig.gaveUp
      BY <1>0, <2>3, <3>2 DEF ProbeRig
    <3> QED BY <1>0, <1>r, <2>1, <3>4, <3>5
  <2> QED BY <2>1, <2>2, <2>3
<1>5. CASE BaselineUnreadable
  BY <1>5, <1>r, NextRoundFacts DEF BaselineUnreadable
<1>6. CASE PlaceOrder
  <2>1. ASSUME NEW jobs \in {0, 1}, Fault, NextRound, svc' = [svc EXCEPT !.queued = @ + jobs]
        PROVE  Goal
    <3>1. svc' = [svc EXCEPT !.queued = svc.queued + jobs] /\ svc.queued + jobs \in Nat
      BY <1>0, <2>1
    <3>2. svc' \in ProbeService /\ svc'.announced <= svc'.sold /\ svc'.defect = svc.defect
      BY <1>0, <3>1 DEF ProbeService
    <3>3. /\ rig' \in ProbeRig /\ rig'.lost = rig.lost + 1
          /\ rig'.gaveUp = rig.gaveUp /\ rig'.overlap = rig.overlap
      BY <2>1, FaultFacts
    <3> QED BY <1>0, <2>1, <3>2, <3>3, NextRoundFacts DEF ProbeTypeOK
  <2>2. CASE /\ svc' = [svc EXCEPT !.queued = @ + 1] /\ mem' = [mem EXCEPT !.left = Variants]
             /\ GoTo("poll") /\ UNCHANGED rig
    <3>1. svc' = [svc EXCEPT !.queued = svc.queued + 1] /\ svc.queued + 1 \in Nat
      BY <1>0, <2>2
    <3>2. svc' \in ProbeService /\ svc'.announced <= svc'.sold /\ svc'.defect = svc.defect
      BY <1>0, <3>1 DEF ProbeService
    <3>3. mem' \in ProbeMemory /\ mem'.script = mem.script
      BY <1>0, <2>2, VariantsFacts DEF ProbeMemory
    <3> QED BY <1>0, <2>2, <3>2, <3>3 DEF ProbeTypeOK, GoTo
  <2> QED BY <1>6, <2>1, <2>2 DEF PlaceOrder
<1>7. CASE PollVariant
  <2>1. PICK v \in mem.left : \E now \in Readable(v) :
           mem' = [mem EXCEPT !.left = @ \ {v}, !.final[v] = now]
    BY <1>7 DEF PollVariant
  <2>2. PICK now \in Readable(v) : mem' = [mem EXCEPT !.left = @ \ {v}, !.final[v] = now]
    BY <2>1
  <2>3. now \in Reading /\ v \in VariantLimits
    BY <1>0, ReadableFacts DEF Reading
  <2>4. mem' = [mem EXCEPT !.left = mem.left \ {v}, !.final = [mem.final EXCEPT ![v] = now]]
    BY <2>2
  <2>5. mem' \in ProbeMemory /\ mem'.script = mem.script
    BY <1>0, <2>3, <2>4 DEF ProbeMemory
  <2> QED BY <1>0, <1>7, <1>r, <2>5 DEF PollVariant
<1>8. CASE ReportRound
  <2>1. /\ rig' \in ProbeRig /\ rig'.lost = rig.lost /\ rig'.overlap = rig.overlap
        /\ (rig.gaveUp => rig'.gaveUp) /\ UNCHANGED svc /\ NextRound
    BY <1>0, <1>8 DEF ReportRound, ProbeRig
  <2> QED BY <1>r, <2>1, NextRoundFacts
<1>9. CASE PollBlackbox
  <2>1. PICK after : mem' = [mem EXCEPT !.verdict = Verdict(after)]
                     /\ IF after = Unread THEN Fault
                        ELSE rig' = [rig EXCEPT !.gaveUp = after = baseline]
    BY <1>9 DEF PollBlackbox
  <2>2. Verdict(after) \in {"PASS", "FAIL"} /\ (after = baseline) \in BOOLEAN
    BY DEF Verdict
  <2>3. mem' \in ProbeMemory /\ mem'.script = mem.script
    BY <1>0, <2>1, <2>2 DEF ProbeMemory
  <2>4. after # Unread => rig' \in ProbeRig /\ rig'.lost = rig.lost /\ rig'.overlap = rig.overlap
    BY <1>0, <2>1, <2>2 DEF ProbeRig
  <2> QED BY <1>9, <1>r, <2>1, <2>3, <2>4 DEF PollBlackbox, GoTo
<1> QED BY <1>1, <1>2, <1>3, <1>4, <1>5, <1>6, <1>7, <1>8, <1>9 DEF NextInvalidation

(* A baseline is measured against what is committed and queued: no step of  *)
(* a round that began undisturbed changes their sum but its own order.      *)
LEMMA BaselineTakenStep ==
    ASSUME ProbeTypeOK, BaselineTaken, NextInvalidation
    PROVE  BaselineTaken'
<1> DEFINE Fair == svc.defect = "none" /\ ~rig.overlap
<1>0. /\ ProbeTypeOK' /\ svc'.defect = svc.defect /\ (rig.overlap => rig'.overlap)
      /\ svc.queued \in Nat /\ svc.sold \in Nat /\ svc.unbumped \in Nat /\ svc.announced \in Nat
      /\ svc.announced <= svc.sold /\ InitialUnits \in Int /\ Unread \notin Int
      /\ mem.before \in [VariantLimits -> Reading] /\ svc.defect \in {"none", "keepsOne"}
      /\ rig.overlap \in BOOLEAN
      /\ svc \in ProbeService /\ mem \in ProbeMemory /\ rig \in ProbeRig
  BY ProbeTypeStep, FieldTypes DEF ProbeTypeOK
<1>a. ASSUME NEW v \in VariantLimits, mem.before[v] # Unread
      PROVE  /\ mem.before[v] \in Int /\ mem.before[v] <= InitialUnits
             /\ Fair => /\ mem.before[v] >= InitialUnits - svc.announced
                        /\ pc = "baseline" => Idle /\ mem.before[v] = InitialUnits - svc.sold
                        /\ pc = "poll" =>
                              mem.before[v] = InitialUnits - (svc.sold + svc.queued) + 1
  BY <1>0, <1>a DEF BaselineTaken, Reading
<1>u. ASSUME mem'.before = Unreads PROVE BaselineTaken'
  BY <1>u DEF BaselineTaken, Unreads
<1>s. ASSUME UNCHANGED <<pc, svc>>, mem'.before = mem.before
      PROVE  BaselineTaken'
  BY <1>0, <1>s DEF BaselineTaken, Idle, InitialUnits
<1>1. CASE Commit
  <2>1. /\ svc.queued > 0 /\ UNCHANGED <<pc, mem, fails, rig>>
        /\ svc'.queued = svc.queued - 1 /\ svc'.sold = svc.sold + 1
        /\ svc'.announced = svc.announced
    BY <1>0, <1>1 DEF Commit, ProbeService
  <2>2. svc'.sold + svc'.queued = svc.sold + svc.queued /\ ~Idle
    BY <1>0, <2>1 DEF Idle
  <2>3. SUFFICES ASSUME NEW v \in VariantLimits, mem.before[v] # Unread
                 PROVE  /\ mem.before[v] <= InitialUnits
                        /\ Fair => /\ mem.before[v] >= InitialUnits - svc.announced
                                   /\ pc # "baseline"
                                   /\ pc = "poll" =>
                                        mem.before[v] = InitialUnits - (svc.sold + svc.queued) + 1
    BY <1>0, <2>1, <2>2 DEF BaselineTaken, InitialUnits
  <2> QED BY <1>a, <2>2, <2>3
<1>2. CASE Announce
  <2>1. /\ UNCHANGED <<pc, mem, fails>> /\ svc'.queued = svc.queued /\ svc'.sold = svc.sold
        /\ svc'.announced \in {svc.announced, svc.sold} /\ rig'.overlap = rig.overlap
    BY <1>0, <1>2, FaultFacts DEF Announce, ProbeService
  <2>2. Idle => Idle'
    BY <2>1 DEF Idle
  <2>3. SUFFICES ASSUME NEW v \in VariantLimits, mem.before[v] # Unread
                 PROVE  /\ mem.before[v] <= InitialUnits
                        /\ Fair => /\ mem.before[v] >= InitialUnits - svc'.announced
                                   /\ pc = "baseline" =>
                                         Idle /\ mem.before[v] = InitialUnits - svc.sold
                                   /\ pc = "poll" =>
                                        mem.before[v] = InitialUnits - (svc.sold + svc.queued) + 1
    BY <1>0, <2>1, <2>2 DEF BaselineTaken, InitialUnits
  <2>4. svc'.announced \in Int /\ svc'.announced >= svc.announced
    BY <1>0, <2>1
  <2>5. Fair => mem.before[v] >= InitialUnits - svc'.announced
    BY <1>0, <1>a, <2>3, <2>4
  <2> QED BY <1>a, <2>3, <2>5
<1>3. CASE Reader
  BY <1>3, <1>s, <1>0 DEF Reader, ProbeMemory
<1>4. CASE BaselineRead
  <2>1. PICK v \in mem.left \cap Variants :
           /\ \/ /\ \E now \in Readable(v) :
                       mem' = [mem EXCEPT !.left = @ \ {v}, !.before[v] = now]
                 /\ rig' = [rig EXCEPT !.overlap = @ \/ ~Idle]
              \/ Fault /\ mem' = [mem EXCEPT !.left = @ \ {v}]
           /\ pc = "baseline" /\ UNCHANGED <<pc, svc, fails>>
    BY <1>4 DEF BaselineRead
  <2>2. CASE Fault /\ mem' = [mem EXCEPT !.left = mem.left \ {v}]
    BY <1>0, <1>s, <2>1, <2>2 DEF ProbeMemory
  <2>3. ASSUME NEW now \in Readable(v), mem' = [mem EXCEPT !.left = @ \ {v}, !.before[v] = now],
               rig' = [rig EXCEPT !.overlap = @ \/ ~Idle]
        PROVE  BaselineTaken'
    <3>1. v \in VariantLimits
      BY VariantsFacts
    <3>2. /\ now \in Int /\ now # Unread /\ now <= InitialUnits
          /\ InitialUnits - svc.sold <= now
          /\ svc.defect = "none" => now <= InitialUnits - svc.announced
      BY <3>1, ReadableFacts
    <3>3. mem' = [mem EXCEPT !.left = mem.left \ {v}, !.before = [mem.before EXCEPT ![v] = now]]
      BY <2>3
    <3>4. mem'.before = [mem.before EXCEPT ![v] = now]
      BY <1>0, <3>3 DEF ProbeMemory
    <3>5. rig'.overlap <=> rig.overlap \/ ~Idle
      BY <1>0, <2>3 DEF ProbeRig, Idle
    <3>6. SUFFICES ASSUME NEW w \in VariantLimits, mem'.before[w] # Unread
                   PROVE  /\ mem'.before[w] <= InitialUnits
                          /\ Fair /\ Idle => /\ mem'.before[w] >= InitialUnits - svc.announced
                                             /\ mem'.before[w] = InitialUnits - svc.sold
      BY <1>0, <2>1, <3>5 DEF BaselineTaken, InitialUnits, Idle
    <3>7. CASE w = v
      <4>1. mem'.before[w] = now
        BY <1>0, <3>4, <3>7
      <4>2. Fair /\ Idle => now = InitialUnits - svc.sold
        BY <1>0, <3>2 DEF Idle
      <4>3. Idle => svc.announced = svc.sold
        BY DEF Idle
      <4> QED BY <1>0, <3>2, <4>1, <4>2, <4>3
    <3>8. CASE w # v
      <4>1. mem'.before[w] = mem.before[w]
        BY <1>0, <3>4, <3>8
      <4> QED BY <1>a, <2>1, <3>6, <4>1
    <3> QED BY <3>7, <3>8
  <2> QED BY <2>1, <2>2, <2>3
<1>5. CASE BaselineUnreadable
  BY <1>5, <1>u, NextRoundFacts DEF BaselineUnreadable
<1>6. CASE PlaceOrder
  <2>1. CASE NextRound
    BY <1>u, <2>1, NextRoundFacts
  <2>2. CASE /\ svc' = [svc EXCEPT !.queued = @ + 1] /\ mem' = [mem EXCEPT !.left = Variants]
             /\ GoTo("poll") /\ UNCHANGED rig
    <3>1. /\ svc'.queued = svc.queued + 1 /\ svc'.sold = svc.sold /\ svc'.announced = svc.announced
          /\ mem'.before = mem.before /\ pc' = "poll" /\ pc = "baseline"
      BY <1>0, <1>6, <2>2 DEF ProbeService, ProbeMemory, GoTo, PlaceOrder
    <3>2. SUFFICES ASSUME NEW v \in VariantLimits, mem.before[v] # Unread
                   PROVE  /\ mem.before[v] <= InitialUnits
                          /\ Fair => /\ mem.before[v] >= InitialUnits - svc.announced
                                     /\ mem.before[v] =
                                          InitialUnits - (svc.sold + (svc.queued + 1)) + 1
      BY <1>0, <2>2, <3>1 DEF BaselineTaken, InitialUnits
    <3>3. Fair => svc.queued = 0 /\ mem.before[v] = InitialUnits - svc.sold
      BY <1>a, <3>1, <3>2 DEF Idle
    <3>4. Fair => mem.before[v] = InitialUnits - (svc.sold + (svc.queued + 1)) + 1
      BY <1>0, <3>3
    <3> QED BY <1>a, <3>2, <3>4
  <2> QED BY <1>6, <2>1, <2>2 DEF PlaceOrder
<1>7. CASE PollVariant
  <2>1. UNCHANGED <<pc, svc>> /\ mem'.before = mem.before
    BY <1>0, <1>7 DEF PollVariant, ProbeMemory
  <2> QED BY <1>s, <2>1
<1>8. CASE ReportRound
  BY <1>8, <1>u, NextRoundFacts DEF ReportRound
<1>9. CASE PollBlackbox
  <2>1. UNCHANGED svc /\ mem'.before = mem.before /\ pc' = "done"
    BY <1>0, <1>9 DEF PollBlackbox, ProbeMemory, GoTo
  <2>2. SUFFICES ASSUME NEW v \in VariantLimits, mem.before[v] # Unread
                 PROVE  /\ mem.before[v] <= InitialUnits
                        /\ Fair => mem.before[v] >= InitialUnits - svc.announced
    BY <1>0, <2>1 DEF BaselineTaken, InitialUnits
  <2> QED BY <1>a, <2>2
<1> QED BY <1>1, <1>2, <1>3, <1>4, <1>5, <1>6, <1>7, <1>8, <1>9 DEF NextInvalidation

(* What is held against the service is never withdrawn.                     *)
LEMMA ReportsStay == ASSUME NextInvalidation PROVE fails \subseteq fails'
BY DEF NextInvalidation, Commit, Announce, Reader, BaselineRead, BaselineUnreadable, PlaceOrder,
       PollVariant, ReportRound, PollBlackbox, Report

(* The baseline is what it was as long as nothing new is read for it.       *)
LEMMA SameBaseline ==
    ASSUME mem'.before = mem.before, mem'.script = mem.script
    PROVE  baselineValues' = baselineValues /\ baseline' = baseline
BY DEF baselineValues, baseline, Variants

(* On a correct service that was left alone, the baseline of a poll is one  *)
(* more than the stock the product will have.                               *)
LEMMA FairBaseline ==
    ASSUME ProbeTypeOK, BaselineTaken, baselineValues # {}, svc.defect = "none", ~rig.overlap
    PROVE  /\ pc = "poll" => baseline = InitialUnits - (svc.sold + svc.queued) + 1
           /\ pc = "baseline" => baselineValues = {InitialUnits - svc.sold}
<1>1. Variants \subseteq VariantLimits
  BY VariantsFacts
<1>2. pc = "poll" => baseline = InitialUnits - (svc.sold + svc.queued) + 1
  BY <1>1, BaselineFacts DEF BaselineTaken
<1>3. pc = "baseline" => baselineValues = {InitialUnits - svc.sold}
  BY <1>1 DEF BaselineTaken, baselineValues
<1> QED BY <1>2, <1>3

(* A page size that is done with a fair poll shows the one order.           *)
LEMMA PollSettlesStep ==
    ASSUME ProbeTypeOK, BaselineTaken, PollSettles, NextInvalidation
    PROVE  PollSettles'
<1> DEFINE Fair == mem.script = "rounds" /\ svc.defect = "none" /\ ~rig.overlap
           Stock == InitialUnits - (svc.sold + svc.queued)
<1>0. /\ ProbeTypeOK' /\ svc'.defect = svc.defect /\ (rig.overlap => rig'.overlap)
      /\ mem'.script = mem.script
      /\ svc.queued \in Nat /\ svc.sold \in Nat /\ InitialUnits \in Int
      /\ mem.final \in [VariantLimits -> Reading] /\ mem.left \subseteq VariantLimits
      /\ svc \in ProbeService /\ mem \in ProbeMemory
  BY ProbeTypeStep, FieldTypes DEF ProbeTypeOK
<1>1. CASE pc' # "poll"
  BY <1>1 DEF PollSettles
<1>2. CASE pc' = "poll" /\ pc = "poll"
  <2>1. /\ baselineValues # {}
        /\ Fair => \A v \in VariantLimits \ mem.left : mem.final[v] = Stock
    BY <1>2 DEF PollSettles
  <2>2. CASE Commit \/ Announce \/ Reader
    <3>1. mem'.before = mem.before /\ mem'.left = mem.left /\ mem'.final = mem.final
      BY <1>0, <2>2 DEF Commit, Announce, Reader, ProbeMemory
    <3>2. svc'.sold + svc'.queued = svc.sold + svc.queued
      <4>1. CASE Commit
        <5>1. svc'.sold = svc.sold + 1 /\ svc'.queued = svc.queued - 1
          BY <1>0, <4>1 DEF Commit, ProbeService
        <5> QED BY <1>0, <5>1
      <4>2. CASE Announce \/ Reader
        BY <1>0, <4>2 DEF Announce, Reader, ProbeService
      <4> QED BY <2>2, <4>1, <4>2
    <3>3. baselineValues' # {}
      BY <1>0, <2>1, <3>1, SameBaseline
    <3>4. Fair' => Fair
      BY <1>0
    <3> QED BY <2>1, <3>1, <3>2, <3>3, <3>4 DEF PollSettles, InitialUnits
  <2>3. CASE PollVariant
    <3>1. PICK v \in mem.left : \E now \in Readable(v) :
             Reflects(now) /\ mem' = [mem EXCEPT !.left = @ \ {v}, !.final[v] = now]
      BY <2>3 DEF PollVariant
    <3>2. PICK now \in Readable(v) :
             Reflects(now) /\ mem' = [mem EXCEPT !.left = @ \ {v}, !.final[v] = now]
      BY <3>1
    <3>3. mem' = [mem EXCEPT !.left = mem.left \ {v}, !.final = [mem.final EXCEPT ![v] = now]]
      BY <3>2
    <3>4. /\ mem'.before = mem.before /\ mem'.left = mem.left \ {v}
          /\ mem'.final = [mem.final EXCEPT ![v] = now] /\ UNCHANGED <<svc, rig>>
      BY <1>0, <2>3, <3>3 DEF PollVariant, ProbeMemory
    <3>5. baselineValues' # {}
      BY <1>0, <2>1, <3>4, SameBaseline
    <3>6. Fair => now = Stock
      <4>1. now \in Int /\ InitialUnits - svc.sold <= now /\ now < baseline
        BY <1>0, <3>2, ReadableFacts DEF Reflects
      <4>2. Fair => baseline = Stock + 1
        BY <1>2, <2>1, FairBaseline
      <4> QED BY <1>0, <4>1, <4>2
    <3>7. Fair => \A w \in VariantLimits \ mem'.left : mem'.final[w] = Stock
      BY <1>0, <2>1, <3>4, <3>6
    <3> QED BY <1>0, <3>4, <3>5, <3>7 DEF PollSettles, InitialUnits
  <2>4. CASE BaselineRead \/ BaselineUnreadable \/ PlaceOrder
    BY <1>2, <2>4 DEF BaselineRead, BaselineUnreadable, PlaceOrder
  <2>5. CASE ReportRound \/ PollBlackbox
    BY <1>2, <2>5, NextRoundFacts DEF ReportRound, PollBlackbox, GoTo
  <2> QED BY <2>2, <2>3, <2>4, <2>5 DEF NextInvalidation
<1>3. CASE pc' = "poll" /\ pc # "poll"
  <2>1. PlaceOrder /\ mem' = [mem EXCEPT !.left = Variants]
    <3>1. PlaceOrder
      BY <1>3, NextRoundFacts DEF NextInvalidation, Commit, Announce, Reader, BaselineRead,
         BaselineUnreadable, PollVariant, ReportRound, PollBlackbox
    <3> QED BY <1>3, <3>1, NextRoundFacts DEF PlaceOrder
  <2>2. mem'.before = mem.before /\ mem'.left = Variants
    BY <1>0, <2>1 DEF ProbeMemory
  <2>3. baselineValues' # {}
    BY <1>0, <2>1, <2>2, SameBaseline DEF PlaceOrder
  <2>4. mem'.script = "rounds" => VariantLimits \ mem'.left = {}
    BY <1>0, <2>2, VariantsFacts
  <2> QED BY <2>3, <2>4 DEF PollSettles
<1> QED BY <1>1, <1>2, <1>3

(* A defective service gets through a round only at the price of an answer: *)
(* the page size it keeps never shows less than the baseline.               *)
LEMMA RoundsCostStep ==
    ASSUME ProbeTypeOK, BaselineTaken, PollSettles, RoundsCost, NextInvalidation
    PROVE  RoundsCost'
<1>0. /\ svc'.defect = svc.defect /\ mem'.script = mem.script
      /\ rig.lost \in Nat /\ rig'.lost \in Nat /\ rig'.lost >= rig.lost
      /\ mem.round \in Nat /\ mem.left \subseteq VariantLimits /\ mem \in ProbeMemory
      /\ Kept \in VariantLimits /\ mem.before \in [VariantLimits -> Reading]
  BY ProbeTypeStep, FieldTypes, ProbeAssumption DEF ProbeTypeOK
<1>1. SUFFICES ASSUME mem.script = "rounds", svc.defect = "keepsOne",
                      "never_invalidated" \notin fails, "never_invalidated" \notin fails'
               PROVE  /\ mem'.round <= 1 + rig'.lost
                      /\ pc' = "poll" => Kept \in mem'.left
                      /\ pc' = "baseline"
                           /\ (\E v \in VariantLimits \ mem'.left : mem'.before[v] = Unread) =>
                            mem'.round <= rig'.lost
  BY <1>0, ReportsStay DEF RoundsCost
<1>2. /\ mem.round <= 1 + rig.lost
      /\ pc = "poll" => Kept \in mem.left
      /\ pc = "baseline" /\ (\E v \in VariantLimits \ mem.left : mem.before[v] = Unread) =>
            mem.round <= rig.lost
  BY <1>1 DEF RoundsCost
<1>3. CASE UNCHANGED pc /\ mem'.round = mem.round /\ mem'.left = mem.left
           /\ mem'.before = mem.before
  BY <1>0, <1>2, <1>3
<1>4. CASE Commit \/ Announce \/ Reader
  <2>1. UNCHANGED pc /\ mem'.round = mem.round /\ mem'.left = mem.left /\ mem'.before = mem.before
    BY <1>0, <1>4 DEF Commit, Announce, Reader, ProbeMemory
  <2> QED BY <1>3, <2>1
<1>5. CASE BaselineRead
  <2>1. PICK v \in mem.left \cap Variants :
           /\ \/ /\ \E now \in Readable(v) :
                       mem' = [mem EXCEPT !.left = @ \ {v}, !.before[v] = now]
                 /\ rig' = [rig EXCEPT !.overlap = @ \/ ~Idle]
              \/ Fault /\ mem' = [mem EXCEPT !.left = @ \ {v}]
           /\ pc = "baseline" /\ UNCHANGED <<pc, svc, fails>>
    BY <1>5 DEF BaselineRead
  <2>2. CASE Fault /\ mem' = [mem EXCEPT !.left = mem.left \ {v}]
    <3>1. mem'.round = mem.round /\ rig'.lost = rig.lost + 1
      BY <1>0, <2>2, FaultFacts DEF ProbeMemory
    <3>2. mem'.round <= rig'.lost /\ mem'.round <= 1 + rig'.lost
      BY <1>0, <1>2, <3>1
    <3> QED BY <2>1, <3>2
  <2>3. ASSUME NEW now \in Readable(v), mem' = [mem EXCEPT !.left = @ \ {v}, !.before[v] = now]
        PROVE  /\ mem'.round <= 1 + rig'.lost
               /\ (\E w \in VariantLimits \ mem'.left : mem'.before[w] = Unread) =>
                     mem'.round <= rig'.lost
    <3>1. mem' = [mem EXCEPT !.left = mem.left \ {v}, !.before = [mem.before EXCEPT ![v] = now]]
      BY <2>3
    <3>2. /\ mem'.round = mem.round /\ mem'.left = mem.left \ {v}
          /\ mem'.before = [mem.before EXCEPT ![v] = now]
      BY <1>0, <3>1 DEF ProbeMemory
    <3>3. now # Unread
      BY <1>0, ReadableFacts
    <3>4. ASSUME NEW w \in VariantLimits \ mem'.left, mem'.before[w] = Unread
          PROVE  w \in VariantLimits \ mem.left /\ mem.before[w] = Unread
      BY <1>0, <3>2, <3>3, <3>4
    <3>5. (\E w \in VariantLimits \ mem'.left : mem'.before[w] = Unread) => mem.round <= rig.lost
      BY <1>2, <2>1, <3>4
    <3> QED BY <1>0, <1>2, <3>2, <3>5
  <2> QED BY <2>1, <2>2, <2>3
<1>6. CASE BaselineUnreadable
  <2>1. mem'.round = mem.round + 1 /\ mem'.left = VariantLimits /\ pc' # "poll"
    BY <1>6, NextRoundFacts DEF BaselineUnreadable
  <2>2. mem.before[Kept] = Unread /\ Kept \notin mem.left /\ pc = "baseline"
    BY <1>0, <1>1, <1>6, VariantsFacts DEF BaselineUnreadable, baselineValues
  <2>3. mem.round <= rig.lost
    BY <1>0, <1>2, <2>2
  <2> QED BY <1>0, <2>1, <2>3
<1>7. CASE PlaceOrder
  <2>1. CASE Fault /\ NextRound
    <3>1. /\ mem'.round = mem.round + 1 /\ mem'.left = VariantLimits /\ pc' # "poll"
          /\ rig'.lost = rig.lost + 1
      BY <2>1, NextRoundFacts, FaultFacts
    <3> QED BY <1>0, <1>2, <3>1
  <2>2. CASE mem' = [mem EXCEPT !.left = Variants] /\ GoTo("poll")
    <3>1. mem'.round = mem.round /\ mem'.left = VariantLimits /\ pc' = "poll"
      BY <1>0, <1>1, <2>2, VariantsFacts DEF ProbeMemory, GoTo
    <3> QED BY <1>0, <1>2, <3>1
  <2> QED BY <1>7, <2>1, <2>2 DEF PlaceOrder
<1>8. CASE PollVariant
  <2>1. PICK v \in mem.left : \E now \in Readable(v) :
           Reflects(now) /\ mem' = [mem EXCEPT !.left = @ \ {v}, !.final[v] = now]
    BY <1>8 DEF PollVariant
  <2>2. PICK now \in Readable(v) :
           Reflects(now) /\ mem' = [mem EXCEPT !.left = @ \ {v}, !.final[v] = now]
    BY <2>1
  <2>3. mem' = [mem EXCEPT !.left = mem.left \ {v}, !.final = [mem.final EXCEPT ![v] = now]]
    BY <2>2
  <2>4. /\ mem'.round = mem.round /\ mem'.left = mem.left \ {v} /\ pc = "poll" /\ pc' = pc
    BY <1>0, <1>8, <2>3 DEF PollVariant, ProbeMemory
  <2>5. v # Kept
    <3>1. SUFFICES ASSUME v = Kept PROVE FALSE
      OBVIOUS
    <3>2. now \in Int /\ now = InitialUnits /\ now < baseline
      BY <1>0, <1>1, <2>2, <3>1, ReadableFacts DEF Reflects
    <3>3. baseline \in Int /\ baseline <= InitialUnits
      BY <2>4, BaselineFacts, VariantsFacts DEF PollSettles, BaselineTaken
    <3> QED BY <3>2, <3>3
  <2> QED BY <1>0, <1>2, <2>4, <2>5
<1>9. CASE ReportRound
  <2>1. mem.left # {}
    BY <1>0, <1>2, <1>9 DEF ReportRound
  <2>2. "never_invalidated" \in fails'
    BY <1>9, <2>1 DEF ReportRound, Report
  <2> QED BY <1>1, <2>2
<1>10. CASE PollBlackbox
  BY <1>1, <1>10 DEF PollBlackbox
<1> QED BY <1>4, <1>5, <1>6, <1>7, <1>8, <1>9, <1>10 DEF NextInvalidation

(* A fair round holds nothing against a correct service.                    *)
LEMMA RoundsFairStep ==
    ASSUME ProbeTypeOK, BaselineTaken, PollSettles, RoundsFair, NextInvalidation
    PROVE  RoundsFair'
<1>0. /\ svc'.defect = svc.defect /\ mem'.script = mem.script
      /\ (rig.gaveUp /\ ~PollBlackbox => rig'.gaveUp) /\ (rig.overlap => rig'.overlap)
      /\ rig \in ProbeRig /\ InitialUnits \in Int /\ svc.sold \in Nat /\ svc.queued \in Nat
      /\ mem.final \in [VariantLimits -> Reading] /\ Unread \notin Int /\ Kept \in VariantLimits
  BY ProbeTypeStep, FieldTypes, ProbeAssumption DEF ProbeTypeOK
<1>1. SUFFICES ASSUME mem.script = "rounds", svc.defect = "none", ~rig'.gaveUp, ~rig'.overlap
               PROVE  fails' \subseteq {"stock_went_backwards"}
  BY <1>0 DEF RoundsFair
<1>2. ~PollBlackbox
  BY <1>1 DEF PollBlackbox
<1>3. fails \subseteq {"stock_went_backwards"} /\ ~rig.gaveUp /\ ~rig.overlap
  BY <1>0, <1>1, <1>2 DEF RoundsFair
<1>4. CASE Commit \/ Announce \/ BaselineRead \/ BaselineUnreadable \/ PollVariant
  BY <1>3, <1>4 DEF Commit, Announce, BaselineRead, BaselineUnreadable, PollVariant
<1>5. CASE Reader
  BY <1>3, <1>5 DEF Reader, Report
<1>6. CASE PlaceOrder
  <2>1. baselineValues = {InitialUnits - svc.sold}
    BY <1>1, <1>3, <1>6, FairBaseline DEF PlaceOrder
  <2>2. Cardinality(baselineValues) = 1
    BY <2>1, FS_Singleton
  <2>3. ~(Cardinality(baselineValues) > 1)
    BY <2>2
  <2> QED BY <1>3, <1>6, <2>3 DEF PlaceOrder, Report
<1>7. CASE ReportRound
  <2> DEFINE stock == InitialUnits - (svc.sold + svc.queued)
  <2>1. mem.left = {} /\ pc = "poll"
    <3>1. CASE AllReflect
      BY <1>7, <3>1 DEF ReportRound, AllReflect
    <3>2. CASE rig' = [rig EXCEPT !.gaveUp = TRUE]
      BY <1>0, <1>1, <3>2 DEF ProbeRig
    <3> QED BY <1>7, <3>1, <3>2 DEF ReportRound
  <2>2. \A v \in VariantLimits : mem.final[v] = stock
    BY <1>1, <1>3, <2>1 DEF PollSettles
  <2>3. stock \in Int
    BY <1>0
  <2>4. settled = {stock}
    BY <1>0, <2>2, <2>3 DEF settled
  <2>5. baseline = stock + 1
    BY <1>1, <1>3, <2>1, FairBaseline DEF PollSettles
  <2> HIDE DEF stock
  <2>6. Min(settled) = stock /\ ~(Cardinality(settled) > 1)
    <3>1. Cardinality(settled) = 1
      BY <2>4, FS_Singleton
    <3> QED BY <2>3, <2>4, <3>1, OnlyOne
  <2>7. baseline - Min(settled) = 1
    BY <2>3, <2>5, <2>6
  <2> QED BY <1>3, <1>7, <2>1, <2>6, <2>7 DEF ReportRound, Report
<1> QED BY <1>2, <1>4, <1>5, <1>6, <1>7 DEF NextInvalidation

(* A verdict is what the stock did while the probe looked.                  *)
LEMMA BlackboxStep ==
    ASSUME ProbeTypeOK, BaselineTaken, PollSettles, BlackboxVerdict, NextInvalidation
    PROVE  BlackboxVerdict'
<1>0. /\ svc'.defect = svc.defect /\ mem'.script = mem.script
      /\ rig.lost \in Nat /\ rig'.lost \in Nat /\ rig'.lost >= rig.lost
      /\ (rig.gaveUp /\ ~PollBlackbox => rig'.gaveUp) /\ (rig.overlap => rig'.overlap)
      /\ svc \in ProbeService /\ mem \in ProbeMemory /\ rig \in ProbeRig
      /\ InitialUnits \in Int /\ svc.sold \in Nat /\ svc.announced \in Nat /\ Unread \notin Int
  BY ProbeTypeStep, FieldTypes DEF ProbeTypeOK
<1>1. CASE ~PollBlackbox
  <2>1. mem'.verdict = mem.verdict
    BY <1>0, <1>1, NextRoundFacts DEF NextInvalidation, Commit, Announce, Reader, BaselineRead,
       BaselineUnreadable, PlaceOrder, PollVariant, ReportRound, ProbeMemory
  <2>2. svc'.sold \in {svc.sold, svc.sold + 1}
    BY <1>0, <1>1 DEF NextInvalidation, Commit, Announce, Reader, BaselineRead,
       BaselineUnreadable, PlaceOrder, PollVariant, ReportRound, ProbeService
  <2>3. svc.sold > 0 => svc'.sold > 0
    BY <1>0, <2>2
  <2>4. rig.lost > 0 => rig'.lost > 0
    BY <1>0
  <2> QED BY <1>0, <1>1, <2>1, <2>3, <2>4 DEF BlackboxVerdict
<1>2. CASE PollBlackbox
  <2>1. PICK after \in Readable(Max(VariantLimits)) \cup {Unread} :
           /\ mem' = [mem EXCEPT !.verdict = Verdict(after)]
           /\ IF after = Unread THEN Fault
              ELSE rig' = [rig EXCEPT !.gaveUp = after = baseline]
    BY <1>2 DEF PollBlackbox
  <2>2. pc = "poll" /\ mem.script = "blackbox" /\ UNCHANGED svc /\ mem'.verdict = Verdict(after)
    BY <1>0, <1>2, <2>1 DEF PollBlackbox, ProbeMemory
  <2>3. baselineValues # {}
    BY <2>2 DEF PollSettles
  <2>4. PICK v \in VariantLimits : mem.before[v] = baseline /\ mem.before[v] # Unread
    BY <2>3, BaselineFacts, VariantsFacts
  <2>5. baseline \in Int /\ baseline <= InitialUnits
        /\ (svc.defect = "none" /\ ~rig.overlap => baseline >= InitialUnits - svc.announced)
    BY <2>3, <2>4, BaselineFacts DEF BaselineTaken
  <2>6. CASE after = Unread
    <3>1. Verdict(after) = "FAIL" /\ rig'.lost = rig.lost + 1
      BY <2>1, <2>6, FaultFacts DEF Verdict
    <3>2. rig'.lost > 0
      BY <1>0, <3>1
    <3> QED BY <2>2, <3>1, <3>2 DEF BlackboxVerdict
  <2>7. CASE after # Unread
    <3>1. /\ after \in Int /\ after <= InitialUnits /\ InitialUnits - svc.sold <= after
          /\ svc.defect = "none" => after <= InitialUnits - svc.announced
      BY <2>1, <2>7, ReadableFacts, VariantsFacts
    <3>2. (after = baseline) \in BOOLEAN /\ rig' = [rig EXCEPT !.gaveUp = (after = baseline)]
      BY <2>1, <2>7
    <3>3. (rig'.gaveUp <=> after = baseline) /\ rig'.overlap = rig.overlap
      BY <1>0, <3>2 DEF ProbeRig
    <3>4. Verdict(after) = "PASS" => svc.sold > 0
      <4>1. Verdict(after) = "PASS" => after < baseline
        BY DEF Verdict
      <4> QED BY <1>0, <2>5, <3>1, <4>1
    <3>5. Verdict(after) = "FAIL" /\ svc.defect = "none" /\ ~rig.overlap => after = baseline
      <4>1. Verdict(after) = "FAIL" => ~(after < baseline)
        BY <2>7 DEF Verdict
      <4> QED BY <1>0, <2>5, <3>1, <4>1
    <3> QED BY <1>0, <2>2, <3>3, <3>4, <3>5 DEF BlackboxVerdict
  <2> QED BY <2>6, <2>7
<1> QED BY <1>1, <1>2

\* ----------------------------------------------------------- the invariant

(* A probe starts with nothing read, nothing sold and nothing reported.     *)
LEMMA ProbeInit == InitInvalidation => ProbeInv
<1> SUFFICES ASSUME InitInvalidation PROVE ProbeInv
  OBVIOUS
<1>1. PICK defect \in {"none", "keepsOne"}, earlier \in {0, 1} :
         svc = [defect |-> defect, queued |-> earlier, sold |-> 0, unbumped |-> 0, announced |-> 0]
  BY DEF InitInvalidation
<1>2. PICK script \in {"rounds", "blackbox"}, watch \in VariantLimits :
         mem = [script |-> script, round |-> 1, left |-> VariantLimits,
                before |-> Unreads, final |-> Unreads, watch |-> watch,
                lastSeen |-> Unread, verdict |-> "not tested"]
  BY DEF InitInvalidation
<1>3. pc = "baseline" /\ fails = {} /\ rig = [lost |-> 0, gaveUp |-> FALSE, overlap |-> FALSE]
  BY DEF InitInvalidation
<1>4. /\ Unreads \in [VariantLimits -> Reading] /\ Unread \in Reading
      /\ \A v \in VariantLimits : Unreads[v] = Unread
  BY DEF Unreads, Reading
<1>5. ProbeTypeOK
  <2>1. mem \in ProbeMemory
    BY <1>2, <1>4 DEF ProbeMemory
  <2>2. svc \in ProbeService /\ svc.announced <= svc.sold
    BY <1>1 DEF ProbeService
  <2>3. rig \in ProbeRig
    BY <1>3 DEF ProbeRig
  <2> QED BY <1>3, <2>1, <2>2, <2>3 DEF ProbeTypeOK
<1>6. BaselineTaken /\ PollSettles
  BY <1>2, <1>3, <1>4 DEF BaselineTaken, PollSettles
<1>7. RoundsCost /\ StaleFound
  <2>1. mem.round = 1 /\ mem.left = VariantLimits /\ rig.lost = 0 /\ pc = "baseline"
    BY <1>2, <1>3
  <2>2. mem.round <= 1 + rig.lost /\ ~(mem.round > 1 + rig.lost)
    BY <2>1
  <2> QED BY <2>1, <2>2 DEF RoundsCost, StaleFound
<1>8. RoundsFair /\ BlackboxVerdict
  BY <1>2, <1>3 DEF RoundsFair, BlackboxVerdict
<1> QED BY <1>5, <1>6, <1>7, <1>8 DEF ProbeInv

(* Every step of a probe keeps its invariant.                               *)
LEMMA ProbeStep ==
    ASSUME mem.script \in {"rounds", "blackbox"}, ProbeInv, NextInvalidation
    PROVE  ProbeInv'
<1>1. /\ ProbeTypeOK /\ BaselineTaken /\ PollSettles /\ RoundsCost
      /\ RoundsFair /\ StaleFound /\ BlackboxVerdict
  BY DEF ProbeInv
<1>2. /\ ProbeTypeOK' /\ BaselineTaken' /\ PollSettles' /\ RoundsCost'
      /\ RoundsFair' /\ BlackboxVerdict'
  BY <1>1, ProbeTypeStep, BaselineTakenStep, PollSettlesStep, RoundsCostStep, RoundsFairStep,
     BlackboxStep
<1>3. StaleFound'
  <2>1. mem.round \in Nat /\ mem'.round \in Nat /\ rig'.lost \in Nat
    BY <1>1, <1>2, ProbeTypeStep DEF ProbeTypeOK, ProbeMemory
  <2>2. mem'.round <= 1 + rig'.lost => ~(mem'.round > 1 + rig'.lost)
    BY <2>1
  <2> QED BY <1>2, <2>2 DEF RoundsCost, StaleFound
<1> QED BY <1>2, <1>3 DEF ProbeInv

\* ------------------------------------- the pages of a catalogue and its crawls

(* The largest of two numbers.                                              *)
LEMMA MaxOfTwo ==
    ASSUME NEW a \in Int, NEW b \in Int
    PROVE  Max({a, b}) = IF a >= b THEN a ELSE b
BY DEF Max

(* The smallest member of a set of numbers is its Min.                      *)
LEMMA MinIs ==
    ASSUME NEW S, NEW x \in S, x \in Int, \A y \in S : y \in Int /\ x <= y
    PROVE  Min(S) = x
<1>1. Min(S) \in S /\ \A y \in S : Min(S) <= y
  BY DEF Min
<1>2. Min(S) \in Int /\ x <= Min(S) /\ Min(S) <= x
  BY <1>1
<1> QED BY <1>2

(* More pages are no fewer rows.                                            *)
LEMMA MorePages ==
    ASSUME NEW p \in Int, NEW q \in Int, p <= q, NEW limit \in Nat
    PROVE  p * limit \in Int /\ q * limit \in Int /\ p * limit <= q * limit
<1>1. q * limit = p * limit + (q - p) * limit
  OBVIOUS
<1>2. (q - p) * limit >= 0
  OBVIOUS
<1> QED BY <1>1, <1>2

(* The pages of a catalogue hold all of it, and the last one something.     *)
LEMMA PagesCover ==
    ASSUME NEW total \in Nat, NEW limit \in Nat \ {0}
    PROVE  LET pages == totalPages(total, limit) IN
           /\ pages \in Nat \ {0} /\ total <= pages * limit
           /\ pages # 1 => (pages - 1) * limit < total
           /\ total > 0 => pages = (total + limit - 1) \div limit
<1> DEFINE q == (total + limit - 1) \div limit
<1>1. q \in Int /\ q * limit <= total + limit - 1 /\ total + limit - 1 < (q + 1) * limit
  OBVIOUS
<1> HIDE DEF q
<1>2. (q + 1) * limit = q * limit + limit /\ (q - 1) * limit = q * limit - limit
  BY <1>1
<1>3. total <= q * limit /\ (q - 1) * limit < total
  BY <1>1, <1>2
<1>4. q >= 0
  <2>1. CASE q <= -1
    <3>1. (q + 1) * limit <= 0 * limit
      BY <1>1, <2>1, MorePages
    <3> QED BY <1>1, <3>1
  <2> QED BY <1>1, <2>1
<1>5. total > 0 => q >= 1
  <2>1. CASE q = 0
    BY <1>3, <2>1
  <2> QED BY <1>1, <1>4, <2>1
<1>6. totalPages(total, limit) = IF 1 >= q THEN 1 ELSE q
  BY <1>1, MaxOfTwo DEF totalPages, q
<1>7. CASE q >= 1
  <2>1. totalPages(total, limit) = q
    BY <1>1, <1>6, <1>7
  <2> QED BY <1>1, <1>3, <1>7, <2>1 DEF q
<1>8. CASE q = 0
  <2>1. totalPages(total, limit) = 1 /\ total = 0
    BY <1>3, <1>5, <1>6, <1>8
  <2> QED BY <2>1
<1> QED BY <1>1, <1>4, <1>7, <1>8

(* What one page of a catalogue holds.                                      *)
LEMMA PageRows ==
    ASSUME NEW total \in Nat, NEW limit \in Nat \ {0}, NEW page \in Nat \ {0}
    PROVE  LET rows == findPageFromDb(total, page, limit).rows IN
           /\ rows = {n \in 1..total : n > (page - 1) * limit /\ n <= page * limit}
           /\ rows \subseteq 1..total /\ IsFiniteSet(rows) /\ Cardinality(rows) <= limit
           /\ page * limit <= total => Cardinality(rows) = limit
           /\ (page - 1) * limit < total => rows # {}
           /\ total <= (page - 1) * limit => rows = {}
<1> DEFINE from == (page - 1) * limit
           to == page * limit
           rows == {n \in 1..total : n > from /\ n <= to}
<1>1. from \in Int /\ to \in Int /\ to = from + limit /\ from >= 0
  <2>1. 0 * limit <= (page - 1) * limit
    BY MorePages
  <2> QED BY <2>1
<1>2. findPageFromDb(total, page, limit).rows = rows
  BY DEF findPageFromDb
<1> HIDE DEF from, to
<1>3. /\ IsFiniteSet((from + 1)..to) /\ Cardinality((from + 1)..to) = limit
  <2>1. (from + 1) \in Int /\ ~((from + 1) > to) /\ to - (from + 1) + 1 = limit
    BY <1>1
  <2> QED BY <1>1, <2>1, FS_Interval
<1>4. rows \subseteq (from + 1)..to /\ rows \subseteq 1..total
  BY <1>1
<1>5. IsFiniteSet(rows) /\ Cardinality(rows) <= limit
  BY <1>3, <1>4, FS_Subset
<1>6. to <= total => rows = (from + 1)..to
  BY <1>1
<1>7. from < total => from + 1 \in rows
  BY <1>1
<1>8. total <= from => rows = {}
  BY <1>1
<1> QED BY <1>2, <1>3, <1>4, <1>5, <1>6, <1>7, <1>8 DEF from, to

(* A page adds what its rows are to the pages before it, and nothing else.  *)
LEMMA NextPage ==
    ASSUME svc.total \in Nat, NEW limit \in Nat \ {0}, NEW page \in Nat \ {0}
    PROVE  LET rows == findPageFromDb(svc.total, page, limit).rows IN
           /\ FirstPages(page - 1, limit) \cup rows = FirstPages(page, limit)
           /\ FirstPages(page - 1, limit) \cap rows = {}
           /\ svc.total <= page * limit => FirstPages(page, limit) = 1..svc.total
           /\ FirstPages(0, limit) = {}
<1> DEFINE from == (page - 1) * limit
           to == page * limit
<1>1. from \in Int /\ to \in Int /\ from <= to /\ 0 * limit = 0
  BY MorePages
<1>2. findPageFromDb(svc.total, page, limit).rows = {n \in 1..svc.total : n > from /\ n <= to}
  BY DEF findPageFromDb
<1>3. FirstPages(page - 1, limit) = {n \in 1..svc.total : n <= from}
      /\ FirstPages(page, limit) = {n \in 1..svc.total : n <= to}
      /\ FirstPages(0, limit) = {n \in 1..svc.total : n <= 0}
  BY <1>1 DEF FirstPages
<1> HIDE DEF from, to
<1> QED BY <1>1, <1>2, <1>3 DEF to

(* The page sizes pages are cut by are some of those the script asks for.   *)
LEMMA CutFacts ==
    ASSUME NEW n \in DOMAIN SweepLimits
    PROVE  /\ Cut(n) \in Nat \ {0} /\ SweepLimits[n] \in Nat \ {0} /\ Cut(1) = SweepLimits[1]
           /\ \E k \in DOMAIN SweepLimits : Cut(n) = SweepLimits[k]
<1>1. /\ SweepLimits \in [1..Len(SweepLimits) -> Nat \ {0}] /\ 1 \in DOMAIN SweepLimits
      /\ DOMAIN SweepLimits = 1..Len(SweepLimits)
  BY PagesAssumption
<1>2. PICK k \in DOMAIN SweepLimits : k = IF svc.defect = "keyedWithoutLimit" THEN 1 ELSE n
  BY <1>1
<1>3. Cut(n) = SweepLimits[k] /\ Cut(1) = SweepLimits[1]
  BY <1>2 DEF Cut
<1> QED BY <1>1, <1>3

(* Whatever the defect, an answer is rows of the catalogue and numbers.     *)
LEMMA AnsweredTyped ==
    ASSUME svc \in [total : Totals, defect : PageDefects],
           NEW n \in DOMAIN SweepLimits, NEW page \in Nat \ {0}
    PROVE  LET body == PageAnswer(page, SweepLimits[n]) IN
           /\ body.rows \subseteq 1..svc.total /\ body.total = svc.total
           /\ body.totalPages \in Int
           /\ Coherent => body = findPageFromDb(svc.total, page, Cut(n))
<1> DEFINE limit == SweepLimits[n]
           right == findPageFromDb(svc.total, page, limit)
<1>1. limit \in Nat \ {0} /\ SweepLimits[1] \in Nat \ {0} /\ svc.total \in Nat
  <2>1. /\ SweepLimits \in [1..Len(SweepLimits) -> Nat \ {0}] /\ 1 \in 1..Len(SweepLimits)
        /\ DOMAIN SweepLimits = 1..Len(SweepLimits)
    BY PagesAssumption
  <2>2. svc.total \in Nat
    BY PagesAssumption
  <2> QED BY <2>1, <2>2
<1>2. ASSUME NEW p \in Nat \ {0}, NEW l \in Nat \ {0}
      PROVE  LET one == findPageFromDb(svc.total, p, l) IN
             /\ one.rows \subseteq 1..svc.total /\ one.total = svc.total /\ one.totalPages \in Int
             /\ one = [rows |-> one.rows, total |-> one.total, page |-> one.page,
                       limit |-> one.limit, totalPages |-> one.totalPages]
  <2>1. totalPages(svc.total, l) \in Int
    BY <1>1, PagesCover
  <2> QED BY <2>1 DEF findPageFromDb
<1>3. /\ right.rows \subseteq 1..svc.total /\ right.total = svc.total /\ right.totalPages \in Int
      /\ right = [rows |-> right.rows, total |-> right.total, page |-> right.page,
                  limit |-> right.limit, totalPages |-> right.totalPages]
  BY <1>1, <1>2
<1>4. Max({1, svc.total \div limit}) \in Int
  <2>1. svc.total \div limit \in Int
    BY <1>1
  <2> QED BY <2>1, MaxOfTwo
<1> HIDE DEF right, limit
<1>5. CASE svc.defect = "none"
  BY <1>3, <1>5 DEF PageAnswer, right, limit, Cut
<1>6. CASE svc.defect = "ignoresPage"
  <2>1. findPageFromDb(svc.total, 1, limit).rows \subseteq 1..svc.total
    BY <1>1, <1>2
  <2>2. PageAnswer(page, SweepLimits[n]) =
           [right EXCEPT !.rows = findPageFromDb(svc.total, 1, limit).rows]
    BY <1>6 DEF PageAnswer, right, limit
  <2> QED BY <1>3, <1>6, <2>1, <2>2 DEF Coherent
<1>7. CASE svc.defect = "keyedWithoutPage"
  <2>1. PageAnswer(page, SweepLimits[n]) = findPageFromDb(svc.total, 1, limit)
    BY <1>7 DEF PageAnswer, limit
  <2> QED BY <1>1, <1>2, <1>7, <2>1 DEF Coherent
<1>8. CASE svc.defect = "keyedWithoutLimit"
  <2>1. PageAnswer(page, SweepLimits[n]) = findPageFromDb(svc.total, page, SweepLimits[1])
    BY <1>8 DEF PageAnswer
  <2> QED BY <1>1, <1>2, <1>8, <2>1 DEF Cut
<1>9. CASE svc.defect = "skipsOne"
  <2>1. PICK rows \in SUBSET (1..svc.total) : PageAnswer(page, SweepLimits[n]) = [right EXCEPT !.rows = rows]
    BY <1>9 DEF PageAnswer, right, limit
  <2> QED BY <1>3, <1>9, <2>1 DEF Coherent
<1>10. CASE svc.defect = "pagesRoundedDown"
  <2>1. PageAnswer(page, SweepLimits[n]) =
           [right EXCEPT !.totalPages = Max({1, svc.total \div limit})]
    BY <1>10 DEF PageAnswer, right, limit
  <2> QED BY <1>3, <1>4, <1>10, <2>1 DEF Coherent
<1> QED BY <1>5, <1>6, <1>7, <1>8, <1>9, <1>10 DEF PageDefects

(* Which rows a defective service shows: page 1 whatever is asked for, or   *)
(* never the first row.                                                     *)
LEMMA RowsAnswered ==
    ASSUME svc \in [total : Totals, defect : PageDefects],
           NEW n \in DOMAIN SweepLimits, NEW page \in Nat \ {0}
    PROVE  LET rows == PageAnswer(page, SweepLimits[n]).rows IN
           /\ rows \subseteq 1..svc.total
           /\ svc.defect \in {"ignoresPage", "keyedWithoutPage"} /\ svc.total > 0 => 1 \in rows
           /\ svc.defect = "skipsOne" => 1 \notin rows
<1> DEFINE rows == PageAnswer(page, SweepLimits[n]).rows
<1>1. PICK limit \in Nat \ {0} : limit = SweepLimits[n]
  BY CutFacts
<1>2. svc.total \in Nat /\ rows \subseteq 1..svc.total
  BY AnsweredTyped, PagesAssumption
<1>3. CASE svc.defect \in {"ignoresPage", "keyedWithoutPage"}
  <2>1. rows = findPageFromDb(svc.total, 1, limit).rows
    BY <1>1, <1>3 DEF PageAnswer, findPageFromDb
  <2>2. rows = {k \in 1..svc.total : k > 0 * limit /\ k <= 1 * limit}
    BY <2>1 DEF findPageFromDb
  <2> QED BY <1>1, <1>2, <1>3, <2>2
<1>4. CASE svc.defect = "skipsOne"
  <2>1. rows = {k \in 1..svc.total : k - 1 > (page - 1) * limit /\ k - 1 <= page * limit}
    BY <1>1, <1>4 DEF PageAnswer, findPageFromDb
  <2>2. (page - 1) * limit >= 0
    <3>1. 0 <= page - 1 /\ page - 1 \in Int /\ 0 * limit = 0
      BY <1>1
    <3> QED BY <1>1, <3>1, MorePages
  <2>3. (page - 1) * limit \in Int
    BY <1>1
  <2> QED BY <1>2, <1>4, <2>1, <2>2, <2>3
<1> QED BY <1>2, <1>3, <1>4

(* What a page that is not the right one says of the service.               *)
LEMMA WrongAnswer ==
    ASSUME svc \in [total : Totals, defect : PageDefects],
           NEW n \in DOMAIN SweepLimits, NEW page \in Nat \ {0}, NEW other \in Nat \ {0}
    PROVE  LET limit == SweepLimits[n]
               pages == totalPages(svc.total, limit)
               wrong == PageAnswer(page, limit) # findPageFromDb(svc.total, page, limit)
           IN
           /\ svc.defect \in {"ignoresPage", "keyedWithoutPage"} =>
                 PageAnswer(other, limit).totalPages = pages /\ (wrong => page # 1)
           /\ svc.defect = "skipsOne" /\ wrong => svc.total > 0
           /\ svc.defect = "pagesRoundedDown" /\ wrong =>
                 /\ PageAnswer(other, limit).totalPages # pages
                 /\ PageAnswer(other, limit).limit = limit /\ svc.total > 0
<1>1. PICK limit \in Nat \ {0} : limit = SweepLimits[n]
  BY CutFacts
<1> DEFINE pages == totalPages(svc.total, limit)
           wrong == PageAnswer(page, limit) # findPageFromDb(svc.total, page, limit)
<1>2. svc.total \in Nat
  BY PagesAssumption
<1>3. CASE svc.defect = "ignoresPage"
  <2>1. PageAnswer(other, limit).totalPages = pages
    BY <1>3 DEF PageAnswer, findPageFromDb
  <2>2. page = 1 => PageAnswer(page, limit) = findPageFromDb(svc.total, page, limit)
    BY <1>3 DEF PageAnswer, findPageFromDb
  <2> QED BY <1>1, <1>3, <2>1, <2>2
<1>4. CASE svc.defect = "keyedWithoutPage"
  <2>1. PageAnswer(other, limit).totalPages = pages
    BY <1>4 DEF PageAnswer, findPageFromDb
  <2>2. page = 1 => PageAnswer(page, limit) = findPageFromDb(svc.total, page, limit)
    BY <1>4 DEF PageAnswer
  <2> QED BY <1>1, <1>4, <2>1, <2>2
<1>5. CASE svc.defect = "skipsOne"
  <2>1. svc.total = 0 => PageAnswer(page, limit) = findPageFromDb(svc.total, page, limit)
    <3>1. SUFFICES ASSUME svc.total = 0
                   PROVE  PageAnswer(page, limit) = findPageFromDb(svc.total, page, limit)
      OBVIOUS
    <3>2. 1..svc.total = {}
      BY <3>1
    <3> QED BY <1>5, <3>2 DEF PageAnswer, findPageFromDb
  <2> QED BY <1>1, <1>2, <1>5, <2>1
<1>6. CASE svc.defect = "pagesRoundedDown"
  <2> DEFINE told == Max({1, svc.total \div limit})
  <2>1. \A p \in {page, other} :
           PageAnswer(p, limit) = [findPageFromDb(svc.total, p, limit) EXCEPT !.totalPages = told]
    BY <1>6 DEF PageAnswer
  <2> HIDE DEF told
  <2>2. told = pages => ~wrong
    BY <2>1 DEF findPageFromDb
  <2>3. PageAnswer(other, limit).totalPages = told /\ PageAnswer(other, limit).limit = limit
    BY <2>1 DEF findPageFromDb
  <2>4. svc.total = 0 => told = pages
    <3>1. SUFFICES ASSUME svc.total = 0 PROVE told = pages
      OBVIOUS
    <3>2. svc.total \div limit = 0 /\ (svc.total + limit - 1) \div limit = 0
      <4>1. svc.total + limit - 1 = limit - 1
        BY <1>1, <3>1
      <4> QED BY <1>1, <3>1, <4>1
    <3> QED BY <3>2 DEF told, totalPages
  <2> QED BY <1>1, <1>2, <1>6, <2>2, <2>3, <2>4
<1> QED BY <1>1, <1>3, <1>4, <1>5, <1>6

(* The page the DTO makes of the one that is asked for.                     *)
LEMMA Clamped ==
    ASSUME NEW page \in Nat \ {0}
    PROVE  LET given == Min({page, MAX_PAGE}) IN
           /\ given \in Nat \ {0} /\ given = IF page <= MAX_PAGE THEN page ELSE MAX_PAGE
<1>1. page <= MAX_PAGE => Min({page, MAX_PAGE}) = page
  <2>1. page <= 1000 => \A y \in {page, 1000} : y \in Int /\ page <= y
    OBVIOUS
  <2> QED BY <2>1, MinIs DEF MAX_PAGE
<1>2. page > MAX_PAGE => Min({page, MAX_PAGE}) = MAX_PAGE
  <2>1. page > 1000 => \A y \in {page, 1000} : y \in Int /\ 1000 <= y
    OBVIOUS
  <2> QED BY <2>1, MinIs DEF MAX_PAGE
<1>3. MAX_PAGE \in Nat \ {0}
  BY DEF MAX_PAGE
<1> QED BY <1>1, <1>2, <1>3

(* AnsweredTyped for any page asked for.                                    *)
LEMMA ServedTyped ==
    ASSUME svc \in [total : Totals, defect : PageDefects],
           NEW n \in DOMAIN SweepLimits, NEW page \in Nat \ {0}
    PROVE  LET body == Served(page, SweepLimits[n]) IN
           /\ body.rows \subseteq 1..svc.total /\ body.total = svc.total
           /\ body.totalPages \in Int
           /\ Coherent => body = findPageFromDb(svc.total, Min({page, MAX_PAGE}), Cut(n))
           /\ Coherent /\ page <= MAX_PAGE => body = findPageFromDb(svc.total, page, Cut(n))
<1>1. PICK given \in Nat \ {0} :
         /\ given = Min({page, MAX_PAGE})
         /\ page <= MAX_PAGE => given = page
  BY Clamped
<1>2. Served(page, SweepLimits[n]) = PageAnswer(given, SweepLimits[n])
  BY <1>1 DEF Served
<1> QED BY <1>1, <1>2, AnsweredTyped

(* RowsAnswered for any page asked for.                                     *)
LEMMA RowsServed ==
    ASSUME svc \in [total : Totals, defect : PageDefects],
           NEW n \in DOMAIN SweepLimits, NEW page \in Nat \ {0}
    PROVE  LET rows == Served(page, SweepLimits[n]).rows IN
           /\ rows \subseteq 1..svc.total
           /\ svc.defect \in {"ignoresPage", "keyedWithoutPage"} /\ svc.total > 0 => 1 \in rows
           /\ svc.defect = "skipsOne" => 1 \notin rows
<1>1. PICK given \in Nat \ {0} : given = Min({page, MAX_PAGE})
  BY Clamped
<1>2. Served(page, SweepLimits[n]) = PageAnswer(given, SweepLimits[n])
  BY <1>1 DEF Served
<1> QED BY <1>2, RowsAnswered

(* WrongAnswer for a page the clamp leaves alone.                           *)
LEMMA WrongPage ==
    ASSUME svc \in [total : Totals, defect : PageDefects],
           NEW n \in DOMAIN SweepLimits, NEW page \in Nat \ {0}, NEW other \in Nat \ {0},
           page <= MAX_PAGE
    PROVE  LET limit == SweepLimits[n]
               pages == totalPages(svc.total, limit)
               wrong == Served(page, limit) # findPageFromDb(svc.total, page, limit)
           IN
           /\ svc.defect \in {"ignoresPage", "keyedWithoutPage"} =>
                 Served(other, limit).totalPages = pages /\ (wrong => page # 1)
           /\ svc.defect = "skipsOne" /\ wrong => svc.total > 0
           /\ svc.defect = "pagesRoundedDown" /\ wrong =>
                 /\ Served(other, limit).totalPages # pages
                 /\ Served(other, limit).limit = limit /\ svc.total > 0
<1>1. PICK given \in Nat \ {0} : given = Min({other, MAX_PAGE})
  BY Clamped
<1>2. Served(other, SweepLimits[n]) = PageAnswer(given, SweepLimits[n])
  BY <1>1 DEF Served
<1>3. Served(page, SweepLimits[n]) = PageAnswer(page, SweepLimits[n])
  <2>1. Min({page, MAX_PAGE}) = page
    BY Clamped
  <2> QED BY <2>1 DEF Served
<1> QED BY <1>2, <1>3, WrongAnswer

(* The pages a walk of a coherent service asks for are not clamped.         *)
LEMMA InClamp ==
    ASSUME Coherent, svc.total \in Nat, NEW n \in DOMAIN SweepLimits, NEW page \in Nat \ {0},
           page <= MaxCrawlPages, page <= totalPages(svc.total, Cut(n))
    PROVE  page <= MAX_PAGE
<1>1. PICK k \in DOMAIN SweepLimits : Cut(n) = SweepLimits[k]
  BY CutFacts
<1>2. PICK pages \in Nat \ {0} : pages = totalPages(svc.total, SweepLimits[k])
  BY <1>1, CutFacts, PagesCover
<1>3. CASE MaxCrawlPages <= MAX_PAGE
  BY <1>3, PagesAssumption DEF MAX_PAGE
<1>4. CASE ~(pages > MAX_PAGE)
  BY <1>1, <1>2, <1>4 DEF MAX_PAGE
<1>5. ~(MaxCrawlPages > MAX_PAGE) \/ ~(pages > MAX_PAGE)
  BY <1>2 DEF Coherent, ClampReached, BeyondClamp
<1>6. ~(MaxCrawlPages > MAX_PAGE) => MaxCrawlPages <= MAX_PAGE
  BY PagesAssumption DEF MAX_PAGE
<1> QED BY <1>3, <1>4, <1>5, <1>6

(* What the types say of each field.                                        *)
LEMMA PageFields ==
    ASSUME PageTypeOK
    PROVE  /\ mem.n \in Nat /\ mem.page \in Nat /\ mem.seen \subseteq Int
           /\ mem.crawls \in Seq(Walk \cup {Broken}) /\ mem.status \in {0, 200, 400}
           /\ svc.total \in Nat /\ svc.defect \in PageDefects /\ rig.lost \in BOOLEAN
           /\ SweepLimits \in [1..Len(SweepLimits) -> Nat \ {0}] /\ Len(SweepLimits) \in Nat
           /\ DOMAIN SweepLimits = 1..Len(SweepLimits) /\ 1 \in 1..Len(SweepLimits)
           /\ MaxCrawlPages \in Nat \ {0}
<1>1. /\ mem.n \in Nat /\ mem.page \in Nat /\ mem.seen \subseteq Int
      /\ mem.crawls \in Seq(Walk \cup {Broken}) /\ mem.status \in {0, 200, 400}
  BY DEF PageTypeOK, PageMemory
<1>2. svc.total \in Nat /\ svc.defect \in PageDefects /\ rig.lost \in BOOLEAN
  BY PagesAssumption DEF PageTypeOK
<1>3. /\ SweepLimits \in [1..Len(SweepLimits) -> Nat \ {0}] /\ Len(SweepLimits) \in Nat
      /\ DOMAIN SweepLimits = 1..Len(SweepLimits) /\ 1 \in 1..Len(SweepLimits)
      /\ MaxCrawlPages \in Nat \ {0}
  BY PagesAssumption
<1> QED BY <1>1, <1>2, <1>3

(* A walk that is over is remembered, and the next one begins at page 1.    *)
LEMMA NextCrawlFacts ==
    ASSUME PageTypeOK, pc = "crawl", NEW crawled \in Walk \cup {Broken}, NextCrawl(crawled)
    PROVE  /\ mem' \in PageMemory /\ pc' = IF mem.n = Len(SweepLimits) THEN "compare" ELSE "crawl"
           /\ mem'.n = mem.n + 1 /\ mem'.page = 1 /\ mem'.seen = {}
           /\ mem'.crawls = Append(mem.crawls, crawled)
           /\ mem'.query = mem.query /\ mem'.status = mem.status
           /\ pc' = "crawl" => mem'.n \in DOMAIN SweepLimits /\ mem'.page \in 1..MaxCrawlPages
<1>1. /\ mem \in PageMemory /\ mem.n \in DOMAIN SweepLimits
      /\ mem' = [mem EXCEPT !.n = mem.n + 1, !.page = 1, !.seen = {},
                            !.crawls = Append(mem.crawls, crawled)]
      /\ pc' = IF mem.n = Len(SweepLimits) THEN "compare" ELSE "crawl"
  BY DEF PageTypeOK, NextCrawl, GoTo
<1>2. mem.n + 1 \in Nat /\ Append(mem.crawls, crawled) \in Seq(Walk \cup {Broken})
  BY PageFields
<1> DEFINE crawls == Append(mem.crawls, crawled)
<1>3. /\ mem' \in PageMemory /\ mem'.n = mem.n + 1 /\ mem'.page = 1 /\ mem'.seen = {}
      /\ mem'.crawls = crawls /\ mem'.query = mem.query /\ mem'.status = mem.status
  <2> DEFINE Crawls == Seq(Walk \cup {Broken})
             Queries == (RawPages \cup {Absent}) \X (RawLimits \cup {Absent})
  <2>1. crawls \in Crawls
    BY <1>2
  <2>2. mem' = [mem EXCEPT !.n = mem.n + 1, !.page = 1, !.seen = {}, !.crawls = crawls]
    BY <1>1
  <2>3. PageMemory = [script : {"pages"}, n : Nat, page : Nat, seen : SUBSET Int, crawls : Crawls,
                      query : Queries, status : {0, 200, 400}]
    BY DEF PageMemory
  <2>4. mem \in PageMemory /\ mem.n + 1 \in Nat
    BY <1>1, <1>2
  <2> HIDE DEF crawls, Crawls, Queries
  <2>5. mem' \in PageMemory
    BY <2>1, <2>2, <2>3, <2>4
  <2>6. /\ mem'.n = mem.n + 1 /\ mem'.page = 1 /\ mem'.seen = {}
        /\ mem'.crawls = crawls /\ mem'.query = mem.query /\ mem'.status = mem.status
    BY <2>2, <2>3, <2>4
  <2> QED BY <2>5, <2>6
<1>4. pc' = "crawl" => mem'.n \in DOMAIN SweepLimits /\ mem'.page \in 1..MaxCrawlPages
  BY <1>1, <1>3, PageFields
<1> QED BY <1>1, <1>3, <1>4

(* The three ways a crawl goes on: to the next page, to the next walk, or   *)
(* on because an answer was lost.                                           *)
LEMMA CrawlFacts ==
    ASSUME PageTypeOK, CrawlPage
    PROVE  LET body == Served(mem.page, SweepLimits[mem.n])
               seen == mem.seen \cup body.rows
               crawled == [walked |-> TRUE, unique |-> seen, total |-> body.total,
                           pages |-> body.totalPages]
           IN
           /\ pc = "crawl" /\ UNCHANGED <<svc, rig>> /\ seen \subseteq Int
           /\ \/ /\ LastPage(body) \/ mem.page = MaxCrawlPages
                 /\ crawled \in Walk /\ NextCrawl(crawled)
              \/ /\ ~LastPage(body) /\ mem.page # MaxCrawlPages /\ UNCHANGED pc
                 /\ mem' \in PageMemory /\ mem'.page = mem.page + 1 /\ mem'.seen = seen
                 /\ mem'.n = mem.n /\ mem'.crawls = mem.crawls
                 /\ mem'.query = mem.query /\ mem'.status = mem.status
                 /\ mem'.page \in 1..MaxCrawlPages
<1> DEFINE body == Served(mem.page, SweepLimits[mem.n])
           seen == mem.seen \cup body.rows
           crawled == [walked |-> TRUE, unique |-> seen, total |-> body.total,
                       pages |-> body.totalPages]
<1>1. pc = "crawl" /\ mem.n \in DOMAIN SweepLimits /\ mem.page \in 1..MaxCrawlPages
      /\ mem \in PageMemory /\ UNCHANGED <<svc, rig>>
  BY DEF CrawlPage, PageTypeOK
<1>2. /\ body.rows \subseteq 1..svc.total /\ body.total = svc.total /\ body.totalPages \in Int
  <2>1. mem.page \in Nat \ {0} /\ svc \in [total : Totals, defect : PageDefects]
    BY <1>1, PageFields DEF PageTypeOK
  <2> QED BY <1>1, <2>1, ServedTyped
<1>3. \/ (LastPage(body) \/ mem.page = MaxCrawlPages) /\ NextCrawl(crawled)
      \/ /\ ~(LastPage(body) \/ mem.page = MaxCrawlPages)
         /\ mem' = [mem EXCEPT !.page = @ + 1, !.seen = seen] /\ UNCHANGED pc
  BY DEF CrawlPage
<1> HIDE DEF body
<1>4. seen \subseteq Int /\ crawled \in Walk
  BY <1>2, PageFields DEF Walk
<1>5. CASE ~LastPage(body) /\ mem.page # MaxCrawlPages /\ UNCHANGED pc
           /\ mem' = [mem EXCEPT !.page = @ + 1, !.seen = seen]
  <2>1. mem.page + 1 \in Nat /\ mem.page + 1 \in 1..MaxCrawlPages
    BY <1>1, <1>5, PageFields
  <2>2. mem' = [mem EXCEPT !.page = mem.page + 1, !.seen = seen]
    BY <1>5
  <2> HIDE DEF seen
  <2>3. /\ mem' \in PageMemory /\ mem'.page = mem.page + 1 /\ mem'.seen = seen
        /\ mem'.n = mem.n /\ mem'.crawls = mem.crawls
        /\ mem'.query = mem.query /\ mem'.status = mem.status
    <3> DEFINE Crawls == Seq(Walk \cup {Broken})
               Queries == (RawPages \cup {Absent}) \X (RawLimits \cup {Absent})
    <3>1. PageMemory = [script : {"pages"}, n : Nat, page : Nat, seen : SUBSET Int,
                        crawls : Crawls, query : Queries, status : {0, 200, 400}]
      BY DEF PageMemory
    <3>2. seen \in SUBSET Int
      BY <1>4 DEF seen
    <3>3. mem \in PageMemory
      BY <1>1
    <3> HIDE DEF Crawls, Queries
    <3>4. mem' \in PageMemory
      BY <2>1, <2>2, <3>1, <3>2, <3>3
    <3> QED BY <2>2, <3>1, <3>3, <3>4
  <2> QED BY <1>1, <1>4, <1>5, <2>1, <2>3 DEF body, seen
<1> QED BY <1>1, <1>3, <1>4, <1>5 DEF body

(* Types are kept, the service stays, and a lost answer stays lost.         *)
LEMMA PageTypeStep ==
    ASSUME PageTypeOK, NextPages
    PROVE  PageTypeOK' /\ svc' = svc /\ (rig.lost => rig'.lost)
<1>0. /\ svc \in [total : Totals, defect : PageDefects] /\ rig \in [lost : BOOLEAN]
      /\ mem \in PageMemory
  BY DEF PageTypeOK
<1>1. LoseAnswer => rig' \in [lost : BOOLEAN] /\ rig'.lost
  BY <1>0 DEF LoseAnswer
<1>2. CASE CrawlPage
  <2>1. UNCHANGED <<svc, rig>> /\ pc = "crawl"
    BY <1>2, CrawlFacts
  <2>2. /\ mem' \in PageMemory /\ pc' \in {"crawl", "compare"}
        /\ pc' = "crawl" => mem'.n \in DOMAIN SweepLimits /\ mem'.page \in 1..MaxCrawlPages
    <3>1. CASE \E crawled \in Walk \cup {Broken} : NextCrawl(crawled)
      BY <2>1, <3>1, NextCrawlFacts
    <3>2. CASE UNCHANGED pc /\ mem' \in PageMemory /\ mem'.n = mem.n
               /\ mem'.page \in 1..MaxCrawlPages
      BY <2>1, <3>2 DEF PageTypeOK
    <3> QED BY <1>2, <3>1, <3>2, CrawlFacts
  <2> QED BY <1>0, <2>1, <2>2 DEF PageTypeOK
<1>3. CASE CrawlBroken
  <2>1. LoseAnswer /\ UNCHANGED svc /\ pc = "crawl" /\ NextCrawl(Broken)
    BY <1>3 DEF CrawlBroken
  <2> QED BY <1>0, <1>1, <2>1, NextCrawlFacts DEF PageTypeOK
<1>4. CASE CompareCrawls
  <2>1. UNCHANGED <<svc, mem, rig>> /\ pc' \in {"distinct", "beyond"}
    BY <1>4 DEF CompareCrawls, GoTo
  <2> QED BY <1>0, <2>1 DEF PageTypeOK
<1>5. CASE PagesDistinct \/ BeyondTheEnd
  <2>1. UNCHANGED <<svc, mem>> /\ pc' \in {"beyond", "query"} /\ (UNCHANGED rig \/ LoseAnswer)
    BY <1>5 DEF PagesDistinct, BeyondTheEnd, GoTo
  <2> QED BY <1>0, <1>1, <2>1 DEF PageTypeOK
<1>6. CASE QueryProbe
  <2>1. PICK rawPage \in RawPages, rawLimit \in RawLimits :
           mem' = [mem EXCEPT !.query = <<rawPage, rawLimit>>,
                              !.status = IF Accepted(rawPage, rawLimit) THEN 200 ELSE 400]
    BY <1>6 DEF QueryProbe
  <2>2. UNCHANGED <<svc, rig>> /\ pc' = "done"
    BY <1>6 DEF QueryProbe, GoTo
  <2>3. mem' \in PageMemory
    <3> DEFINE Crawls == Seq(Walk \cup {Broken})
               Queries == (RawPages \cup {Absent}) \X (RawLimits \cup {Absent})
               query == <<rawPage, rawLimit>>
               status == IF Accepted(rawPage, rawLimit) THEN 200 ELSE 400
    <3>1. PageMemory = [script : {"pages"}, n : Nat, page : Nat, seen : SUBSET Int,
                        crawls : Crawls, query : Queries, status : {0, 200, 400}]
      BY DEF PageMemory
    <3>2. /\ status \in {0, 200, 400} /\ query \in Queries
          /\ mem' = [mem EXCEPT !.query = query, !.status = status]
      BY <2>1
    <3>3. mem \in PageMemory
      BY <1>0
    <3> HIDE DEF Crawls, Queries, query, status
    <3> QED BY <3>1, <3>2, <3>3
  <2> QED BY <1>0, <2>2, <2>3 DEF PageTypeOK
<1> QED BY <1>2, <1>3, <1>4, <1>5, <1>6 DEF NextPages

(* The page a crawl of a coherent service asks for is the next one  *)
(* of the catalogue, and with the last one it has them all.                 *)
LEMMA CrawlAdds ==
    ASSUME PageTypeOK, CrawlsRight, Coherent, pc = "crawl"
    PROVE  LET limit == Cut(mem.n)
               body == Served(mem.page, SweepLimits[mem.n])
           IN
           /\ limit \in Nat \ {0} /\ mem.page \in Nat \ {0}
           /\ body = findPageFromDb(svc.total, mem.page, limit)
           /\ mem.seen \cap body.rows = {}
           /\ mem.seen \cup body.rows = FirstPages(mem.page, limit)
           /\ (LastPage(body) \/ mem.page = MaxCrawlPages) /\ ~CeilingReached =>
                 FirstPages(mem.page, limit) = 1..svc.total
           /\ ~LastPage(body) => mem.page + 1 <= totalPages(svc.total, limit)
<1> DEFINE limit == Cut(mem.n)
           body == Served(mem.page, SweepLimits[mem.n])
           pages == totalPages(svc.total, limit)
<1>1. /\ mem.n \in DOMAIN SweepLimits /\ mem.page \in Nat \ {0} /\ mem.page <= MaxCrawlPages
      /\ limit \in Nat \ {0} /\ svc.total \in Nat /\ MaxCrawlPages \in Nat
      /\ svc \in [total : Totals, defect : PageDefects]
  <2>1. /\ mem.n \in DOMAIN SweepLimits /\ mem.page \in Nat \ {0} /\ mem.page <= MaxCrawlPages
        /\ svc.total \in Nat /\ MaxCrawlPages \in Nat
        /\ svc \in [total : Totals, defect : PageDefects]
    BY PageFields DEF PageTypeOK
  <2>2. limit \in Nat \ {0}
    BY <2>1, CutFacts
  <2> QED BY <2>1, <2>2
<1>3. mem.page <= pages /\ mem.seen = FirstPages(mem.page - 1, limit)
  BY DEF CrawlsRight
<1>2. body = findPageFromDb(svc.total, mem.page, limit)
  <2>1. mem.page <= MAX_PAGE
    BY <1>1, <1>3, InClamp
  <2> QED BY <1>1, <2>1, ServedTyped
<1> HIDE DEF limit
<1>4. pages \in Nat \ {0} /\ svc.total <= pages * limit
  BY <1>1, PagesCover
<1>5. /\ FirstPages(mem.page - 1, limit) \cup body.rows = FirstPages(mem.page, limit)
      /\ FirstPages(mem.page - 1, limit) \cap body.rows = {}
      /\ svc.total <= mem.page * limit => FirstPages(mem.page, limit) = 1..svc.total
  BY <1>1, <1>2, NextPage
<1>6. LastPage(body) <=> mem.page >= pages
  BY <1>2 DEF LastPage, findPageFromDb
<1> HIDE DEF pages, body
<1>7. mem.page >= pages => svc.total <= mem.page * limit
  BY <1>1, <1>3, <1>4
<1>8. mem.page = MaxCrawlPages /\ ~CeilingReached => mem.page >= pages
  <2>1. ~CeilingReached => ~(pages > MaxCrawlPages)
    <3>1. PICK k \in DOMAIN SweepLimits : limit = SweepLimits[k]
      BY <1>1, CutFacts DEF limit
    <3> QED BY <3>1 DEF CeilingReached, pages
  <2> QED BY <1>1, <1>4, <2>1
<1>9. ~(mem.page >= pages) => mem.page + 1 <= pages
  BY <1>1, <1>4
<1> QED BY <1>1, <1>2, <1>3, <1>5, <1>6, <1>7, <1>8, <1>9 DEF limit, body, pages

(* A walk that is added leaves the others what they were.                   *)
LEMMA WalkAdded ==
    ASSUME PageTypeOK, NEW crawled \in Walk \cup {Broken}, mem'.crawls = Append(mem.crawls, crawled),
           svc' = svc, rig.lost => rig'.lost, \A n \in DOMAIN mem.crawls : WalkRight(n),
           \/ crawled = Broken /\ rig'.lost
           \/ /\ crawled \in Walk
              /\ crawled.total = svc.total
              /\ crawled.pages = totalPages(svc.total, Cut(Len(mem.crawls) + 1))
              /\ ~CeilingReached => crawled.unique = 1..svc.total
    PROVE  Len(mem'.crawls) = Len(mem.crawls) + 1 /\ \A n \in DOMAIN mem'.crawls : WalkRight(n)'
<1>1. mem.crawls \in Seq(Walk \cup {Broken})
  BY PageFields
<1>2. /\ Len(mem'.crawls) = Len(mem.crawls) + 1 /\ Len(mem.crawls) \in Nat
      /\ \A n \in DOMAIN mem.crawls : mem'.crawls[n] = mem.crawls[n]
      /\ mem'.crawls[Len(mem.crawls) + 1] = crawled
      /\ DOMAIN mem'.crawls = DOMAIN mem.crawls \cup {Len(mem.crawls) + 1}
  BY <1>1
<1>3. CeilingReached' = CeilingReached
  BY DEF CeilingReached
<1>4. ASSUME NEW n \in DOMAIN mem.crawls PROVE WalkRight(n)'
  <2>1. WalkRight(n)
    BY <1>4
  <2> QED BY <1>2, <1>3, <2>1 DEF WalkRight, Cut
<1>5. ASSUME NEW n, n = Len(mem.crawls) + 1 PROVE WalkRight(n)'
  BY <1>2, <1>3, <1>5 DEF WalkRight, Cut
<1>6. ASSUME NEW n \in DOMAIN mem'.crawls PROVE WalkRight(n)'
  BY <1>2, <1>4, <1>5, <1>6
<1> QED BY <1>2, <1>6

(* The walks of a coherent service stay what they are.                      *)
LEMMA CrawlsStep ==
    ASSUME PageTypeOK, CrawlsRight, WalksKept, NextPages
    PROVE  CrawlsRight'
<1>0. PageTypeOK' /\ svc' = svc /\ (rig.lost => rig'.lost)
  BY PageTypeStep
<1>1. SUFFICES ASSUME Coherent
               PROVE  /\ pc' = "crawl" =>
                            /\ mem'.page <= totalPages(svc.total, Cut(mem'.n))
                            /\ mem'.seen = FirstPages(mem'.page - 1, Cut(mem'.n))
                      /\ pc' = "distinct" => totalPages(svc.total, SweepLimits[1]) >= 2
                      /\ \A n \in DOMAIN mem'.crawls : WalkRight(n)'
  BY <1>0 DEF CrawlsRight, FirstPages, Coherent, ClampReached, BeyondClamp, Cut
<1>2. /\ \A n \in DOMAIN mem.crawls : WalkRight(n)
      /\ pc = "crawl" => Len(mem.crawls) = mem.n - 1 /\ mem.n \in DOMAIN SweepLimits
      /\ pc # "crawl" => Len(mem.crawls) = Len(SweepLimits)
  BY <1>1 DEF CrawlsRight, WalksKept, PageTypeOK
<1>3. ASSUME mem'.crawls = mem.crawls PROVE \A n \in DOMAIN mem'.crawls : WalkRight(n)'
  <2>1. CeilingReached' = CeilingReached
    BY <1>0 DEF CeilingReached
  <2> QED BY <1>0, <1>2, <1>3, <2>1 DEF WalkRight, Cut
<1>4. ASSUME pc = "crawl", NEW crawled \in Walk \cup {Broken}, NextCrawl(crawled),
             \/ crawled = Broken /\ rig'.lost
             \/ /\ crawled \in Walk
                /\ crawled.total = svc.total
                /\ crawled.pages = totalPages(svc.total, Cut(mem.n))
                /\ ~CeilingReached => crawled.unique = 1..svc.total
      PROVE  /\ pc' = "crawl" =>
                    /\ mem'.page <= totalPages(svc.total, Cut(mem'.n))
                    /\ mem'.seen = FirstPages(mem'.page - 1, Cut(mem'.n))
             /\ pc' # "distinct"
             /\ \A n \in DOMAIN mem'.crawls : WalkRight(n)'
  <2>1. /\ pc' = IF mem.n = Len(SweepLimits) THEN "compare" ELSE "crawl"
        /\ mem'.n = mem.n + 1 /\ mem'.page = 1 /\ mem'.seen = {}
        /\ mem'.crawls = Append(mem.crawls, crawled)
        /\ pc' = "crawl" => mem'.n \in DOMAIN SweepLimits
    BY <1>4, NextCrawlFacts
  <2>2. mem.n \in Nat /\ Len(mem.crawls) + 1 = mem.n
    BY <1>2, <1>4, PageFields
  <2>3. Len(mem'.crawls) = Len(mem.crawls) + 1 /\ \A n \in DOMAIN mem'.crawls : WalkRight(n)'
    BY <1>0, <1>2, <1>4, <2>1, <2>2, WalkAdded
  <2>4. pc' = "crawl" => /\ mem'.page <= totalPages(svc.total, Cut(mem'.n))
                         /\ mem'.seen = FirstPages(mem'.page - 1, Cut(mem'.n))
    <3>1. SUFFICES ASSUME pc' = "crawl", NEW limit, limit = Cut(mem'.n)
                   PROVE  1 <= totalPages(svc.total, limit) /\ FirstPages(0, limit) = {}
      BY <2>1
    <3>2. limit \in Nat \ {0} /\ svc.total \in Nat
      BY <2>1, <3>1, PageFields, CutFacts
    <3>3. totalPages(svc.total, limit) \in Nat \ {0}
      BY <3>2, PagesCover
    <3>4. FirstPages(0, limit) = {}
      BY <3>2, NextPage
    <3> QED BY <3>3, <3>4
  <2> QED BY <2>1, <2>2, <2>3, <2>4
<1>5. CASE CrawlPage
  <2> DEFINE limit == Cut(mem.n)
             body == Served(mem.page, SweepLimits[mem.n])
             seen == mem.seen \cup body.rows
             crawled == [walked |-> TRUE, unique |-> seen, total |-> body.total,
                         pages |-> body.totalPages]
  <2>1. pc = "crawl"
    BY <1>5 DEF CrawlPage
  <2>2. /\ limit \in Nat \ {0} /\ mem.page \in Nat \ {0}
        /\ body = findPageFromDb(svc.total, mem.page, limit)
        /\ seen = FirstPages(mem.page, limit)
        /\ (LastPage(body) \/ mem.page = MaxCrawlPages) /\ ~CeilingReached =>
              FirstPages(mem.page, limit) = 1..svc.total
        /\ ~LastPage(body) => mem.page + 1 <= totalPages(svc.total, limit)
    BY <1>1, <2>1, CrawlAdds
  <2>3. body.total = svc.total /\ body.totalPages = totalPages(svc.total, limit)
    BY <2>2 DEF findPageFromDb
  <2>4. \/ /\ LastPage(body) \/ mem.page = MaxCrawlPages
           /\ crawled \in Walk /\ NextCrawl(crawled)
        \/ /\ ~LastPage(body) /\ UNCHANGED pc
           /\ mem'.page = mem.page + 1 /\ mem'.seen = seen
           /\ mem'.n = mem.n /\ mem'.crawls = mem.crawls
    BY <1>5, CrawlFacts
  <2> HIDE DEF limit, body, seen
  <2>5. CASE (LastPage(body) \/ mem.page = MaxCrawlPages) /\ crawled \in Walk /\ NextCrawl(crawled)
    <3>1. /\ crawled.total = svc.total /\ crawled.pages = totalPages(svc.total, limit)
          /\ ~CeilingReached => crawled.unique = 1..svc.total
      BY <2>2, <2>3, <2>5
    <3> HIDE DEF crawled
    <3> QED BY <1>4, <2>1, <2>5, <3>1 DEF limit
  <2>6. CASE /\ ~LastPage(body) /\ UNCHANGED pc
             /\ mem'.page = mem.page + 1 /\ mem'.seen = seen
             /\ mem'.n = mem.n /\ mem'.crawls = mem.crawls
    <3>1. mem'.page - 1 = mem.page
      BY <2>2, <2>6
    <3> QED BY <1>2, <1>3, <2>1, <2>2, <2>6, <3>1 DEF limit
  <2> QED BY <2>4, <2>5, <2>6
<1>6. CASE CrawlBroken
  <2>1. LoseAnswer /\ UNCHANGED svc /\ pc = "crawl" /\ NextCrawl(Broken)
    BY <1>6 DEF CrawlBroken
  <2>2. rig'.lost
    BY <2>1 DEF LoseAnswer, PageTypeOK
  <2> QED BY <1>4, <2>1, <2>2
<1>7. CASE CompareCrawls
  <2>1. /\ UNCHANGED mem /\ pc = "compare"
        /\ pc' = IF mem.crawls[1].walked /\ mem.crawls[1].pages >= 2 THEN "distinct" ELSE "beyond"
    BY <1>7 DEF CompareCrawls, GoTo
  <2>2. WalkRight(1) /\ Cut(1) = SweepLimits[1]
    <3>1. 1 \in DOMAIN mem.crawls
      BY <1>2, <2>1, PageFields
    <3>2. 1 \in DOMAIN SweepLimits
      BY PageFields
    <3> QED BY <1>2, <3>1, <3>2, CutFacts
  <2>3. pc' = "distinct" => totalPages(svc.total, SweepLimits[1]) >= 2
    <3>1. CASE mem.crawls[1] = Broken
      <4>1. ~mem.crawls[1].walked
        BY <3>1 DEF Broken
      <4> QED BY <2>1, <4>1
    <3>2. CASE mem.crawls[1].pages = totalPages(svc.total, SweepLimits[1])
      BY <2>1, <3>2
    <3> QED BY <2>2, <3>1, <3>2 DEF WalkRight
  <2> QED BY <1>3, <2>1, <2>3
<1>8. CASE PagesDistinct \/ BeyondTheEnd
  <2>1. UNCHANGED mem /\ pc # "crawl" /\ pc' \in {"beyond", "query"}
    BY <1>8 DEF PagesDistinct, BeyondTheEnd, GoTo
  <2> QED BY <1>2, <1>3, <2>1
<1>9. CASE QueryProbe
  <2>1. mem'.crawls = mem.crawls /\ pc = "query" /\ pc' = "done"
    BY <1>9 DEF QueryProbe, GoTo, PageTypeOK, PageMemory
  <2> QED BY <1>2, <1>3, <2>1
<1> QED BY <1>5, <1>6, <1>7, <1>8, <1>9 DEF NextPages

(* An answer of a service without a defect agrees with itself.              *)
LEMMA ResponseSound ==
    ASSUME NEW total \in Nat, NEW limit \in Nat \ {0}, NEW page \in Nat \ {0},
           page <= totalPages(total, limit)
    PROVE  checkResponseInvariants(findPageFromDb(total, page, limit), page) = {}
<1> DEFINE body == findPageFromDb(total, page, limit)
           pages == totalPages(total, limit)
<1>1. /\ pages \in Nat \ {0} /\ (pages # 1 => (pages - 1) * limit < total)
      /\ total > 0 => pages = (total + limit - 1) \div limit
  BY PagesCover
<1>2. /\ IsFiniteSet(body.rows) /\ Cardinality(body.rows) <= limit
      /\ page * limit <= total => Cardinality(body.rows) = limit
  BY PageRows
<1>3. /\ body.total = total /\ body.page = page /\ body.limit = limit /\ body.totalPages = pages
  BY DEF findPageFromDb
<1> HIDE DEF body, pages
<1>4. page < pages => Cardinality(body.rows) = limit
  <2>1. SUFFICES ASSUME page < pages PROVE page * limit <= total
    BY <1>2
  <2>2. page <= pages - 1 /\ pages - 1 \in Int /\ pages # 1
    BY <1>1, <2>1
  <2>3. page * limit <= (pages - 1) * limit /\ page * limit \in Int /\ (pages - 1) * limit \in Int
    BY <2>2, MorePages
  <2> QED BY <1>1, <2>2, <2>3
<1>5. Cardinality(body.rows) \in Nat
  BY <1>2, FS_CardinalityType
<1>6. ~(Cardinality(body.rows) > limit)
  BY <1>2, <1>5
<1> QED BY <1>1, <1>3, <1>4, <1>6 DEF checkResponseInvariants, body

(* No walk of the first pages is longer than the catalogue.                 *)
LEMMA AllRows ==
    ASSUME NEW total \in Nat
    PROVE  ~RowsMissing(1..total, total)
<1>1. Cardinality(1..total) = total
  BY FS_Interval
<1> QED BY <1>1 DEF RowsMissing

(* What a step adds to the accusations of a coherent service is             *)
(* what a lost answer, or a catalogue too long to walk, explains.           *)
LEMMA UnaccusedStep ==
    ASSUME PageTypeOK, CrawlsRight, WalksKept, Unaccused, NextPages
    PROVE  Unaccused'
<1> DEFINE excused == {flag \in {"duplicate_across_pages"} : rig'.lost}
                          \cup {flag \in {"meta_echo"} : rig'.lost \/ BeyondClamp}
                          \cup {flag \in {"rows_lost", "cross_limit_disagreement"} : CeilingReached}
<1>0. /\ svc' = svc /\ (rig.lost => rig'.lost) /\ CeilingReached' = CeilingReached
      /\ BeyondClamp' = BeyondClamp
  <2>1. svc' = svc /\ (rig.lost => rig'.lost)
    BY PageTypeStep
  <2> QED BY <2>1 DEF CeilingReached, BeyondClamp
<1>1. SUFFICES ASSUME Coherent PROVE fails' \subseteq excused
  BY <1>0 DEF Unaccused, Coherent, ClampReached, Excused
<1>2. fails \subseteq excused
  BY <1>0, <1>1 DEF Unaccused, Excused
<1>3. ASSUME NEW flags, Report(flags), flags \subseteq excused PROVE fails' \subseteq excused
  BY <1>2, <1>3 DEF Report
<1>4. CASE CrawlPage
  <2> DEFINE limit == Cut(mem.n)
             body == Served(mem.page, SweepLimits[mem.n])
             seen == mem.seen \cup body.rows
             over == LastPage(body) \/ mem.page = MaxCrawlPages
             flags == checkResponseInvariants(body, mem.page)
                         \cup {flag \in {"duplicate_across_pages"} : mem.seen \cap body.rows # {}}
                         \cup {flag \in {"rows_lost"} : over /\ RowsMissing(seen, body.total)}
  <2>1. pc = "crawl" /\ Report(flags)
    BY <1>4 DEF CrawlPage
  <2>2. /\ limit \in Nat \ {0} /\ mem.page \in Nat \ {0}
        /\ body = findPageFromDb(svc.total, mem.page, limit)
        /\ mem.seen \cap body.rows = {} /\ seen = FirstPages(mem.page, limit)
        /\ over /\ ~CeilingReached => FirstPages(mem.page, limit) = 1..svc.total
    BY <1>1, <2>1, CrawlAdds
  <2>3. mem.page <= totalPages(svc.total, limit) /\ svc.total \in Nat
    BY <1>1, <2>1, PageFields DEF CrawlsRight, limit
  <2> HIDE DEF limit
  <2>4. checkResponseInvariants(body, mem.page) = {}
    BY <2>2, <2>3, ResponseSound
  <2>5. body.total = svc.total
    BY <2>2 DEF findPageFromDb
  <2> HIDE DEF body, over
  <2>6. over /\ ~CeilingReached => ~RowsMissing(seen, body.total)
    <3>1. SUFFICES ASSUME over, ~CeilingReached PROVE ~RowsMissing(seen, body.total)
      OBVIOUS
    <3>2. seen = 1..svc.total /\ body.total = svc.total
      BY <2>2, <2>5, <3>1
    <3> HIDE DEF seen
    <3> QED BY <2>3, <3>2, AllRows
  <2> HIDE DEF seen
  <2>7. flags \subseteq excused
    BY <1>0, <2>2, <2>4, <2>6
  <2> HIDE DEF flags
  <2> QED BY <1>3, <2>1, <2>7
<1>5. CASE CrawlBroken
  BY <1>2, <1>5 DEF CrawlBroken
<1>6. CASE CompareCrawls
  <2> DEFINE walked == {n \in DOMAIN mem.crawls : mem.crawls[n].walked}
             flags == {flag \in {"cross_limit_disagreement"} :
                         \E n, k \in walked : \/ mem.crawls[n].total # mem.crawls[k].total
                                              \/ mem.crawls[n].unique # mem.crawls[k].unique}
  <2>1. Report(flags)
    BY <1>6 DEF CompareCrawls
  <2>2. ASSUME NEW n \in walked
        PROVE  /\ mem.crawls[n].total = svc.total
               /\ ~CeilingReached => mem.crawls[n].unique = 1..svc.total
    <3>1. WalkRight(n) /\ mem.crawls[n].walked
      BY <1>1, <2>2 DEF CrawlsRight
    <3>2. mem.crawls[n] # Broken
      BY <3>1 DEF Broken
    <3> QED BY <3>1, <3>2 DEF WalkRight
  <2> HIDE DEF walked
  <2>3. flags \subseteq excused
    BY <1>0, <2>2
  <2> HIDE DEF flags
  <2> QED BY <1>3, <2>1, <2>3
<1>7. CASE PagesDistinct
  <2> DEFINE one == Served(1, SweepLimits[1]).rows
             two == Served(2, SweepLimits[1]).rows
             flags == {flag \in {"duplicate_across_pages"} :
                         one = {} \/ two = {} \/ one \cap two # {}}
  <2>1. \/ Report(flags) \/ (LoseAnswer /\ Report({"duplicate_across_pages"}))
    BY <1>7 DEF PagesDistinct
  <2>2. CASE Report(flags)
    <3>1. PICK limit \in Nat \ {0} : limit = SweepLimits[1]
      BY PageFields
    <3>2. /\ svc.total \in Nat /\ totalPages(svc.total, limit) >= 2
          /\ svc \in [total : Totals, defect : PageDefects] /\ 1 \in DOMAIN SweepLimits
      BY <1>1, <1>7, <3>1, PageFields DEF PagesDistinct, CrawlsRight, PageTypeOK
    <3>3. /\ one = findPageFromDb(svc.total, 1, limit).rows
          /\ two = findPageFromDb(svc.total, 2, limit).rows
      <4>1. 1 \in Nat \ {0} /\ 2 \in Nat \ {0}
        OBVIOUS
      <4>2. Cut(1) = limit
        BY <3>1, <3>2, CutFacts
      <4>3. 1 <= MAX_PAGE /\ 2 <= MAX_PAGE
        BY DEF MAX_PAGE
      <4> QED BY <1>1, <3>2, <4>1, <4>2, <4>3, ServedTyped
    <3> HIDE DEF one, two
    <3>4. 1 * limit < svc.total /\ 0 * limit = 0
      <4>1. /\ totalPages(svc.total, limit) \in Int
            /\ (totalPages(svc.total, limit) - 1) * limit < svc.total
        <5>1. PICK pages \in Nat \ {0} :
                 /\ pages = totalPages(svc.total, limit)
                 /\ pages # 1 => (pages - 1) * limit < svc.total
          BY <3>1, <3>2, PagesCover
        <5>2. pages # 1
          BY <3>2, <5>1
        <5> QED BY <5>1, <5>2
      <4>2. 1 <= totalPages(svc.total, limit) - 1 /\ totalPages(svc.total, limit) - 1 \in Int
        BY <3>2, <4>1
      <4>3. /\ 1 * limit \in Int /\ (totalPages(svc.total, limit) - 1) * limit \in Int
            /\ 1 * limit <= (totalPages(svc.total, limit) - 1) * limit
        BY <4>2, MorePages
      <4> QED BY <3>2, <4>1, <4>3
    <3>5. /\ one = {n \in 1..svc.total : n > 0 * limit /\ n <= 1 * limit}
          /\ two = {n \in 1..svc.total : n > 1 * limit /\ n <= 2 * limit}
      <4>1. 1 - 1 = 0 /\ 2 - 1 = 1
        OBVIOUS
      <4> QED BY <3>3, <4>1 DEF findPageFromDb
    <3>6. one # {} /\ two # {} /\ one \cap two = {}
      <4>1. 1 \in one
        BY <3>2, <3>4, <3>5
      <4>2. limit + 1 \in two
        BY <3>2, <3>4, <3>5
      <4>3. one \cap two = {}
        BY <3>5
      <4> QED BY <4>1, <4>2, <4>3
    <3>7. flags \subseteq excused
      BY <3>6
    <3> HIDE DEF flags
    <3> QED BY <1>3, <2>2, <3>7
  <2>3. CASE LoseAnswer /\ Report({"duplicate_across_pages"})
    <3>1. rig'.lost
      BY <2>3 DEF LoseAnswer, PageTypeOK
    <3>2. {"duplicate_across_pages"} \subseteq excused
      BY <3>1
    <3> QED BY <1>3, <2>3, <3>2
  <2> QED BY <2>1, <2>2, <2>3
<1>8. CASE BeyondTheEnd
  <2> DEFINE base == mem.crawls[1]
             page == (IF base.walked THEN base.pages ELSE 1) + 5
             body == Served(page, SweepLimits[1])
             flags == {flag \in {"meta_echo"} : body.rows # {} /\ body.page # body.totalPages}
  <2>1. (Report(flags) /\ UNCHANGED rig) \/ UNCHANGED fails
    BY <1>8 DEF BeyondTheEnd
  <2>2. CASE Report(flags) /\ UNCHANGED rig
    <3>1. WalkRight(1) /\ Cut(1) = SweepLimits[1]
      <4>1. pc = "beyond" /\ 1 \in 1..Len(SweepLimits) /\ mem.crawls \in Seq(Walk \cup {Broken})
        BY <1>8, PageFields DEF BeyondTheEnd
      <4>2. 1 \in DOMAIN mem.crawls
        BY <4>1 DEF WalksKept
      <4>3. 1 \in DOMAIN SweepLimits
        BY PageFields
      <4> QED BY <1>1, <4>2, <4>3, CutFacts DEF CrawlsRight
    <3>2. CASE base = Broken /\ rig.lost
      <4>1. flags \subseteq excused
        BY <1>0, <3>2
      <4> HIDE DEF flags
      <4> QED BY <1>3, <2>2, <4>1
    <3>3. CASE base \in Walk /\ base.pages = totalPages(svc.total, SweepLimits[1])
      <4>1. PICK limit \in Nat \ {0} : limit = SweepLimits[1]
        BY PageFields
      <4>2. /\ svc.total \in Nat /\ svc \in [total : Totals, defect : PageDefects]
            /\ 1 \in DOMAIN SweepLimits
        BY PageFields DEF PageTypeOK
      <4>3. PICK pages \in Nat \ {0} :
               pages = totalPages(svc.total, limit) /\ svc.total <= pages * limit
        BY <4>1, <4>2, PagesCover
      <4>4. page = pages + 5 /\ page \in Nat \ {0}
        <5>1. base.walked
          BY <3>3 DEF Walk
        <5> QED BY <3>3, <4>1, <4>3, <5>1
      <4>5. PICK given \in Nat \ {0} :
               /\ body = findPageFromDb(svc.total, given, limit)
               /\ given = IF page <= MAX_PAGE THEN page ELSE MAX_PAGE
        <5> HIDE DEF page
        <5>1. Cut(1) = limit
          BY <3>1, <4>1
        <5>2. /\ Min({page, MAX_PAGE}) \in Nat \ {0}
              /\ Min({page, MAX_PAGE}) = IF page <= MAX_PAGE THEN page ELSE MAX_PAGE
          BY <4>4, Clamped
        <5> QED BY <1>1, <4>2, <4>4, <5>1, <5>2, ServedTyped
      <4> HIDE DEF page, body
      <4>6. body.page = given /\ body.totalPages = pages
        BY <4>3, <4>5 DEF findPageFromDb
      <4>7. ASSUME pages > MAX_PAGE PROVE flags \subseteq excused
        <5>1. BeyondClamp
          BY <4>1, <4>2, <4>3, <4>7 DEF BeyondClamp
        <5> QED BY <5>1
      <4>8. ASSUME pages <= MAX_PAGE PROVE flags \subseteq excused
        <5>1. pages = given \/ pages <= given - 1
          BY <4>3, <4>4, <4>5, <4>8 DEF MAX_PAGE
        <5>2. CASE pages <= given - 1
          <6>1. /\ pages * limit \in Int /\ (given - 1) * limit \in Int
                /\ pages * limit <= (given - 1) * limit
            BY <4>1, <4>3, <4>5, <5>2, MorePages
          <6>2. svc.total <= (given - 1) * limit
            BY <4>2, <4>3, <6>1
          <6>3. body.rows = {}
            BY <4>1, <4>2, <4>5, <6>2, PageRows
          <6> QED BY <6>3
        <5> QED BY <4>6, <5>1, <5>2
      <4>9. pages > MAX_PAGE \/ pages <= MAX_PAGE
        BY <4>3 DEF MAX_PAGE
      <4>10. flags \subseteq excused
        BY <4>7, <4>8, <4>9
      <4> HIDE DEF flags
      <4> QED BY <1>3, <2>2, <4>10
    <3> QED BY <3>1, <3>2, <3>3 DEF WalkRight
  <2> QED BY <1>2, <2>1, <2>2
<1>9. CASE QueryProbe
  BY <1>2, <1>9 DEF QueryProbe
<1> QED BY <1>4, <1>5, <1>6, <1>7, <1>8, <1>9 DEF NextPages

(* The status of the query that was probed is the one the DTO gives it.     *)
LEMMA QueryTakenStep ==
    ASSUME PageTypeOK, QueryTaken, NextPages
    PROVE  QueryTaken'
<1>1. CASE CrawlPage \/ CrawlBroken
  <2>1. mem'.query = mem.query /\ mem'.status = mem.status
    <3>1. CASE CrawlPage
      <4>1. CASE \E crawled \in Walk \cup {Broken} : NextCrawl(crawled)
        BY <3>1, <4>1, NextCrawlFacts DEF CrawlPage
      <4> QED BY <3>1, <4>1, CrawlFacts
    <3>2. CASE CrawlBroken
      <4>1. pc = "crawl" /\ NextCrawl(Broken)
        BY <3>2 DEF CrawlBroken
      <4> QED BY <4>1, NextCrawlFacts
    <3> QED BY <1>1, <3>1, <3>2
  <2> QED BY <2>1 DEF QueryTaken
<1>2. CASE CompareCrawls \/ PagesDistinct \/ BeyondTheEnd
  BY <1>2 DEF CompareCrawls, PagesDistinct, BeyondTheEnd, QueryTaken
<1>3. CASE QueryProbe
  <2>1. PICK rawPage \in RawPages, rawLimit \in RawLimits :
           mem' = [mem EXCEPT !.query = <<rawPage, rawLimit>>,
                              !.status = IF Accepted(rawPage, rawLimit) THEN 200 ELSE 400]
    BY <1>3 DEF QueryProbe
  <2> DEFINE status == IF Accepted(rawPage, rawLimit) THEN 200 ELSE 400
             query == <<rawPage, rawLimit>>
  <2>2. query[1] = rawPage /\ query[2] = rawLimit
    OBVIOUS
  <2>3. mem'.query = query /\ mem'.status = status
    <3>1. mem' = [mem EXCEPT !.query = query, !.status = status] /\ mem \in PageMemory
      BY <2>1 DEF PageTypeOK
    <3> HIDE DEF query, status
    <3> QED BY <3>1 DEF PageMemory
  <2>4. mem'.query[1] = rawPage /\ mem'.query[2] = rawLimit
    BY <2>2, <2>3
  <2> QED BY <2>3, <2>4 DEF QueryTaken
<1> QED BY <1>1, <1>2, <1>3 DEF NextPages

(* Every walk that is over is kept, and the rows seen are as before.        *)
LEMMA WalksKeptStep ==
    ASSUME PageTypeOK, WalksKept, NextPages
    PROVE  WalksKept'
<1>0. /\ PageTypeOK' /\ svc' = svc /\ mem.n \in Nat /\ svc.total \in Nat
      /\ mem.crawls \in Seq(Walk \cup {Broken})
      /\ pc = "crawl" => mem.n \in DOMAIN SweepLimits /\ mem.page \in Nat \ {0}
  BY PageTypeStep, PageFields DEF PageTypeOK
<1>1. ASSUME NEW crawled \in Walk \cup {Broken}, pc = "crawl", NextCrawl(crawled)
      PROVE  WalksKept'
  <2>1. /\ pc' = IF mem.n = Len(SweepLimits) THEN "compare" ELSE "crawl"
        /\ mem'.n = mem.n + 1 /\ mem'.page = 1 /\ mem'.seen = {}
        /\ mem'.crawls = Append(mem.crawls, crawled)
    BY <1>1, NextCrawlFacts
  <2>2. Len(mem'.crawls) = mem.n
    BY <1>0, <1>1, <2>1 DEF WalksKept
  <2> QED BY <1>0, <2>1, <2>2 DEF WalksKept
<1>2. CASE CrawlPage
  <2> DEFINE body == Served(mem.page, SweepLimits[mem.n])
             seen == mem.seen \cup body.rows
             crawled == [walked |-> TRUE, unique |-> seen, total |-> body.total,
                         pages |-> body.totalPages]
  <2>1. /\ pc = "crawl"
        /\ \/ crawled \in Walk /\ NextCrawl(crawled)
           \/ /\ UNCHANGED pc /\ mem'.page = mem.page + 1 /\ mem'.seen = seen
              /\ mem'.n = mem.n /\ mem'.crawls = mem.crawls
    BY <1>2, CrawlFacts
  <2>2. /\ body.rows \subseteq 1..svc.total
        /\ svc.defect \in {"ignoresPage", "keyedWithoutPage"} /\ svc.total > 0 => 1 \in body.rows
        /\ svc.defect = "skipsOne" => 1 \notin body.rows
    BY <1>0, <2>1, RowsServed DEF PageTypeOK
  <2> HIDE DEF body
  <2>3. CASE UNCHANGED pc /\ mem'.page = mem.page + 1 /\ mem'.seen = seen
              /\ mem'.n = mem.n /\ mem'.crawls = mem.crawls
    BY <1>0, <2>1, <2>2, <2>3 DEF WalksKept
  <2> HIDE DEF crawled
  <2> QED BY <1>1, <2>1, <2>3
<1>3. CASE CrawlBroken
  <2>1. pc = "crawl" /\ NextCrawl(Broken)
    BY <1>3 DEF CrawlBroken
  <2> QED BY <1>1, <2>1
<1>4. CASE CompareCrawls \/ PagesDistinct \/ BeyondTheEnd
  <2>1. UNCHANGED mem /\ pc # "crawl" /\ pc' # "crawl"
    BY <1>4 DEF CompareCrawls, PagesDistinct, BeyondTheEnd, GoTo
  <2> QED BY <1>0, <2>1 DEF WalksKept
<1>5. CASE QueryProbe
  <2>1. /\ mem'.crawls = mem.crawls /\ mem'.seen = mem.seen /\ mem'.page = mem.page
        /\ pc = "query" /\ pc' = "done"
    BY <1>5 DEF QueryProbe, GoTo, PageTypeOK, PageMemory
  <2> QED BY <1>0, <2>1 DEF WalksKept
<1> QED BY <1>2, <1>3, <1>4, <1>5 DEF NextPages

(* The page on which a walk ends tells a defect that shows on it: a page    *)
(* that was seen before, a row that never came, or a count that is wrong.   *)
LEMMA LastPageTells ==
    ASSUME PageTypeOK, WalksKept, pc = "crawl", ~Coherent, ~ClampReached, ~CeilingReached,
           Shows(mem.n),
           LET body == Served(mem.page, SweepLimits[mem.n]) IN
              LastPage(body) \/ mem.page = MaxCrawlPages
    PROVE  LET body == Served(mem.page, SweepLimits[mem.n])
               seen == mem.seen \cup body.rows
           IN
           \/ checkResponseInvariants(body, mem.page) # {}
           \/ mem.seen \cap body.rows # {}
           \/ RowsMissing(seen, body.total)
<1> DEFINE limit == SweepLimits[mem.n]
           body == Served(mem.page, limit)
           pages == totalPages(svc.total, limit)
<1>1. /\ mem.n \in DOMAIN SweepLimits /\ mem.page \in Nat \ {0} /\ limit \in Nat \ {0}
      /\ svc.total \in Nat /\ svc \in [total : Totals, defect : PageDefects]
      /\ svc.defect \in PageDefects /\ MaxCrawlPages \in Nat
  <2>1. /\ mem.n \in DOMAIN SweepLimits /\ mem.page \in Nat \ {0}
        /\ svc.total \in Nat /\ svc \in [total : Totals, defect : PageDefects]
        /\ svc.defect \in PageDefects /\ MaxCrawlPages \in Nat
    BY PageFields DEF PageTypeOK
  <2>2. limit \in Nat \ {0}
    BY <2>1, CutFacts
  <2> QED BY <2>1, <2>2
<1>2. /\ pages \in Nat \ {0} /\ pages <= MaxCrawlPages
      /\ pages # 1 => (pages - 1) * limit < svc.total
  <2>1. ~(pages > MaxCrawlPages)
    BY <1>1 DEF CeilingReached
  <2>2. /\ pages \in Nat \ {0}
        /\ pages # 1 => (pages - 1) * limit < svc.total
    BY <1>1, PagesCover
  <2> HIDE DEF pages, limit
  <2> QED BY <1>1, <2>1, <2>2
<1>3. PICK page \in 1..pages : Served(page, limit) # findPageFromDb(svc.total, page, limit)
  BY DEF Shows
<1>4. body.rows \subseteq 1..svc.total /\ body.total = svc.total
  BY <1>1, ServedTyped
<1>8. page \in Nat \ {0} /\ page <= MAX_PAGE
  <2>1. page \in Nat \ {0} /\ page <= pages /\ page <= MaxCrawlPages
    BY <1>1, <1>2, <1>3
  <2>2. MaxCrawlPages <= MAX_PAGE \/ pages <= MAX_PAGE
    BY <1>1, <1>2 DEF ClampReached, BeyondClamp, MAX_PAGE
  <2> QED BY <1>1, <1>2, <2>1, <2>2 DEF MAX_PAGE
<1>5. CASE svc.defect \in {"ignoresPage", "keyedWithoutPage"}
  <2>1. body.totalPages = pages /\ (page = 1 => FALSE)
    BY <1>1, <1>3, <1>5, <1>8, WrongPage
  <2>2. pages >= 2 /\ page \in Nat
    BY <1>2, <1>3, <2>1
  <2>3. svc.total > 0
    <3>1. (pages - 1) * limit >= 0
      <4>1. 0 <= pages - 1 /\ pages - 1 \in Int /\ 0 * limit = 0
        BY <1>1, <2>2, <1>2
      <4> QED BY <1>1, <4>1, MorePages
    <3>2. (pages - 1) * limit \in Int
      BY <1>1, <1>2
    <3> QED BY <1>1, <1>2, <2>2, <3>1, <3>2
  <2>4. mem.page > 1
    BY <1>1, <1>2, <2>1, <2>2 DEF LastPage
  <2>5. 1 \in mem.seen
    BY <1>5, <2>3, <2>4 DEF WalksKept
  <2>6. 1 \in body.rows
    BY <1>1, <1>5, <2>3, RowsServed
  <2> QED BY <2>5, <2>6
<1>6. CASE svc.defect = "skipsOne"
  <2>1. svc.total > 0
    BY <1>1, <1>3, <1>6, <1>8, WrongPage
  <2>2. 1 \notin mem.seen /\ 1 \notin body.rows /\ mem.seen \subseteq 1..svc.total
    BY <1>1, <1>6, RowsServed DEF WalksKept
  <2> HIDE DEF body
  <2> DEFINE seen == mem.seen \cup body.rows
  <2>3. seen \subseteq (1..svc.total) \ {1}
    BY <1>4, <2>2
  <2> HIDE DEF seen
  <2>4. /\ IsFiniteSet((1..svc.total) \ {1}) /\ Cardinality((1..svc.total) \ {1}) = svc.total - 1
    <3>1. PICK total \in Nat : total = svc.total /\ total > 0
      BY <1>1, <2>1
    <3>2. IsFiniteSet(1..total) /\ Cardinality(1..total) = total
      BY <3>1, FS_Interval
    <3>3. 1 \in 1..total
      BY <3>1
    <3> QED BY <3>1, <3>2, <3>3, FS_RemoveElement
  <2>5. Cardinality(seen) <= svc.total - 1 /\ Cardinality(seen) \in Nat
    <3> DEFINE all == (1..svc.total) \ {1}
    <3>1. seen \subseteq all /\ IsFiniteSet(all) /\ Cardinality(all) = svc.total - 1
      BY <2>3, <2>4
    <3> HIDE DEF all
    <3>2. IsFiniteSet(seen) /\ Cardinality(seen) <= Cardinality(all)
      BY <3>1, FS_Subset
    <3> QED BY <3>1, <3>2, FS_CardinalityType
  <2>6. RowsMissing(seen, body.total)
    BY <1>1, <1>4, <2>5 DEF RowsMissing
  <2> QED BY <2>6 DEF seen, body
<1>7. CASE svc.defect = "pagesRoundedDown"
  <2>1. /\ body.totalPages # pages /\ body.limit = limit /\ svc.total > 0
    BY <1>1, <1>3, <1>7, <1>8, WrongPage
  <2>2. pages = (svc.total + limit - 1) \div limit
    BY <1>1, <2>1, PagesCover
  <2> HIDE DEF body, limit, pages
  <2>3. "meta_math" \in checkResponseInvariants(body, mem.page)
    BY <1>4, <2>1, <2>2 DEF checkResponseInvariants
  <2> QED BY <2>3 DEF body, limit
<1> QED BY <1>1, <1>5, <1>6, <1>7 DEF PageDefects, Coherent

(* A defect that shows on a walk is noticed before the walk is over.        *)
LEMMA DefectNoticedStep ==
    ASSUME PageTypeOK, WalksKept, DefectNoticed, NextPages
    PROVE  DefectNoticed'
<1>0. /\ PageTypeOK' /\ svc' = svc /\ (rig.lost => rig'.lost)
      /\ mem.crawls \in Seq(Walk \cup {Broken}) /\ mem.n \in Nat
  BY PageTypeStep, PageFields
<1>1. CeilingReached' = CeilingReached /\ \A n : Shows(n)' = Shows(n)
  BY <1>0 DEF CeilingReached, Shows, Served, PageAnswer
<1>2. fails \subseteq fails'
  BY DEF NextPages, CrawlPage, CrawlBroken, CompareCrawls, PagesDistinct, BeyondTheEnd, QueryProbe,
     Report
<1>3. SUFFICES ASSUME ~Coherent, ~ClampReached, ~rig'.lost, ~CeilingReached, NEW n \in DOMAIN mem'.crawls,
                      Shows(n), fails' = {}
               PROVE  FALSE
  BY <1>0, <1>1 DEF DefectNoticed, Coherent, ClampReached, BeyondClamp
<1>4. ~rig.lost /\ fails = {}
  BY <1>0, <1>2, <1>3
<1>5. n \notin DOMAIN mem.crawls
  BY <1>3, <1>4 DEF DefectNoticed
<1>6. CASE CrawlPage
  <2> DEFINE body == Served(mem.page, SweepLimits[mem.n])
             seen == mem.seen \cup body.rows
             crawled == [walked |-> TRUE, unique |-> seen, total |-> body.total,
                         pages |-> body.totalPages]
             over == LastPage(body) \/ mem.page = MaxCrawlPages
  <2>1. /\ pc = "crawl"
        /\ \/ over /\ crawled \in Walk /\ NextCrawl(crawled)
           \/ mem'.crawls = mem.crawls
    BY <1>6, CrawlFacts
  <2>2. /\ checkResponseInvariants(body, mem.page) \subseteq fails'
        /\ mem.seen \cap body.rows # {} => "duplicate_across_pages" \in fails'
        /\ over /\ RowsMissing(seen, body.total) => "rows_lost" \in fails'
    BY <1>6 DEF CrawlPage, Report
  <2>3. over /\ crawled \in Walk /\ NextCrawl(crawled)
    BY <1>3, <1>5, <2>1
  <2>4. n = mem.n
    <3>1. mem'.crawls = Append(mem.crawls, crawled)
      BY <2>1, <2>3, NextCrawlFacts
    <3>2. Len(mem.crawls) = mem.n - 1
      BY <2>1 DEF WalksKept
    <3> HIDE DEF crawled
    <3>3. /\ DOMAIN mem'.crawls = 1..(Len(mem.crawls) + 1) /\ DOMAIN mem.crawls = 1..Len(mem.crawls)
          /\ Len(mem.crawls) \in Nat
      BY <1>0, <2>3, <3>1
    <3> QED BY <1>0, <1>3, <1>5, <3>2, <3>3
  <2>5. \/ checkResponseInvariants(body, mem.page) # {}
        \/ mem.seen \cap body.rows # {}
        \/ RowsMissing(seen, body.total)
    BY <1>3, <2>1, <2>3, <2>4, LastPageTells
  <2> QED BY <1>3, <2>2, <2>3, <2>5
<1>7. CASE CrawlBroken
  BY <1>0, <1>3, <1>7 DEF CrawlBroken, LoseAnswer, PageTypeOK
<1>8. CASE CompareCrawls \/ PagesDistinct \/ BeyondTheEnd \/ QueryProbe
  <2>1. mem'.crawls = mem.crawls
    <3>1. CASE CompareCrawls \/ PagesDistinct \/ BeyondTheEnd
      BY <3>1 DEF CompareCrawls, PagesDistinct, BeyondTheEnd
    <3>2. CASE QueryProbe
      BY <3>2 DEF QueryProbe, PageTypeOK, PageMemory
    <3> QED BY <1>8, <3>1, <3>2
  <2> QED BY <1>3, <1>5, <2>1
<1> QED BY <1>6, <1>7, <1>8 DEF NextPages

(* At its end the script has walked at every page size.                     *)
LEMMA DefectIsFound ==
    ASSUME mem.script = "pages", PageTypeOK, WalksKept, Unaccused, DefectNoticed
    PROVE  DefectFound
<1> SUFFICES ASSUME pc = "done", ~rig.lost, ~CeilingReached, ~ClampReached,
                    NEW n \in DOMAIN SweepLimits, Shows(n)
             PROVE  fails # {} <=> svc.defect # "keyedWithoutLimit"
  BY DEF DefectFound
<1>1. DOMAIN mem.crawls = DOMAIN SweepLimits
  BY PageFields DEF WalksKept
<1>4. ~BeyondClamp
  <2>1. SUFFICES ASSUME NEW k \in DOMAIN SweepLimits, NEW pages \in Nat \ {0},
                        pages > MAX_PAGE, ~(pages > MaxCrawlPages), ~(MaxCrawlPages > MAX_PAGE)
                 PROVE  FALSE
    <3>1. \A k \in DOMAIN SweepLimits : totalPages(svc.total, SweepLimits[k]) \in Nat \ {0}
      BY PageFields, CutFacts, PagesCover
    <3> QED BY <3>1 DEF BeyondClamp, ClampReached, CeilingReached
  <2> QED BY <2>1, PagesAssumption DEF MAX_PAGE
<1>2. svc.defect = "keyedWithoutLimit" => fails = {}
  BY <1>4 DEF Unaccused, Coherent, Excused
<1>3. svc.defect # "none"
  <2>1. PICK page \in 1..totalPages(svc.total, SweepLimits[n]) :
           Served(page, SweepLimits[n]) # findPageFromDb(svc.total, page, SweepLimits[n])
    BY DEF Shows
  <2>2. page \in Nat \ {0} /\ page <= MAX_PAGE
    <3>1. PICK pages \in Nat \ {0} : pages = totalPages(svc.total, SweepLimits[n])
      BY PageFields, CutFacts, PagesCover
    <3>2. ~(pages > MAX_PAGE)
      BY <1>4, <3>1 DEF BeyondClamp
    <3> QED BY <2>1, <3>1, <3>2 DEF MAX_PAGE
  <2>3. Served(page, SweepLimits[n]) = PageAnswer(page, SweepLimits[n])
    <3>1. Min({page, MAX_PAGE}) = page
      BY <2>2, Clamped
    <3> QED BY <3>1 DEF Served
  <2> QED BY <2>1, <2>3 DEF PageAnswer
<1> QED BY <1>1, <1>2, <1>3 DEF DefectNoticed, Coherent

(* A crawl starts at the first page, with nothing seen and no one accused.  *)
LEMMA PageInit ==
    ASSUME InitPages
    PROVE  /\ mem.script = "pages" /\ PageTypeOK /\ CrawlsRight /\ QueryTaken
           /\ Unaccused /\ WalksKept /\ DefectNoticed
<1>1. /\ pc = "crawl" /\ svc \in [total : Totals, defect : PageDefects]
      /\ mem = [script |-> "pages", n |-> 1, page |-> 1, seen |-> {}, crawls |-> <<>>,
                query |-> <<Absent, Absent>>, status |-> 0]
      /\ fails = {} /\ rig = [lost |-> FALSE]
  BY DEF InitPages
<1>2. /\ SweepLimits \in [1..Len(SweepLimits) -> Nat \ {0}] /\ 1 \in 1..Len(SweepLimits)
      /\ DOMAIN SweepLimits = 1..Len(SweepLimits) /\ MaxCrawlPages \in Nat \ {0}
      /\ svc.total \in Nat
  <2>1. svc.total \in Totals
    BY <1>1
  <2>2. Totals \subseteq Nat
    BY PagesAssumption
  <2>3. /\ SweepLimits \in [1..Len(SweepLimits) -> Nat \ {0}] /\ 1 \in 1..Len(SweepLimits)
        /\ DOMAIN SweepLimits = 1..Len(SweepLimits) /\ MaxCrawlPages \in Nat \ {0}
    BY PagesAssumption
  <2> QED BY <2>1, <2>2, <2>3
<1>3. PageTypeOK
  <2>1. mem \in PageMemory
    <3>1. <<>> \in Seq(Walk \cup {Broken})
      OBVIOUS
    <3>2. <<Absent, Absent>> \in (RawPages \cup {Absent}) \X (RawLimits \cup {Absent})
      OBVIOUS
    <3> QED BY <1>1, <3>1, <3>2 DEF PageMemory
  <2>2. mem.n \in DOMAIN SweepLimits /\ mem.page \in 1..MaxCrawlPages
    BY <1>1, <1>2
  <2> QED BY <1>1, <2>1, <2>2 DEF PageTypeOK
<1>4. CrawlsRight
  <2>1. PICK limit \in Nat \ {0} : limit = SweepLimits[1]
    BY <1>2
  <2>2. totalPages(svc.total, limit) \in Nat \ {0} /\ FirstPages(0, limit) = {}
    <3>1. totalPages(svc.total, limit) \in Nat \ {0}
      BY <1>2, PagesCover
    <3>2. FirstPages(0, limit) = {}
      <4>1. 1 \in Nat \ {0}
        OBVIOUS
      <4> QED BY <1>2, <4>1, NextPage
    <3> QED BY <3>1, <3>2
  <2>3. mem.n = 1 /\ mem.page = 1 /\ mem.page - 1 = 0 /\ mem.seen = {} /\ mem.crawls = <<>>
    BY <1>1
  <2>4. Cut(mem.n) = limit
    BY <1>2, <2>1, <2>3, CutFacts
  <2> QED BY <1>1, <2>1, <2>2, <2>3, <2>4 DEF CrawlsRight
<1>5. WalksKept
  <2>1. mem.n - 1 = 0 /\ Len(mem.crawls) = 0
    BY <1>1
  <2> QED BY <1>1, <2>1 DEF WalksKept
<1> QED BY <1>1, <1>3, <1>4, <1>5 DEF QueryTaken, Unaccused, DefectNoticed

(* The invariant of the page contract is kept by every step of its script.  *)
LEMMA PageStep ==
    ASSUME mem.script = "pages", PageInv, NextPages
    PROVE  PageInv'
<1>1. PageTypeOK /\ CrawlsRight /\ QueryTaken /\ Unaccused /\ WalksKept /\ DefectNoticed
  BY DEF PageInv
<1>2. /\ PageTypeOK' /\ CrawlsRight' /\ QueryTaken'
      /\ Unaccused' /\ WalksKept' /\ DefectNoticed'
  BY <1>1, PageTypeStep, CrawlsStep, QueryTakenStep, UnaccusedStep, WalksKeptStep, DefectNoticedStep
<1> QED BY <1>2 DEF PageInv

(* A step of nothing leaves it.                                             *)
LEMMA PageStutter ==
    ASSUME PageInv, UNCHANGED vars
    PROVE  PageInv'
<1>1. /\ pc' = pc /\ svc' = svc /\ mem' = mem /\ fails' = fails /\ rig' = rig
  BY DEF vars
<1>2. PageTypeOK' = PageTypeOK /\ QueryTaken' = QueryTaken
  BY <1>1 DEF PageTypeOK, QueryTaken
<1>3. /\ CeilingReached' = CeilingReached /\ ClampReached' = ClampReached
      /\ Coherent' = Coherent /\ \A n : Cut(n)' = Cut(n)
  BY <1>1 DEF CeilingReached, Coherent, ClampReached, BeyondClamp, Cut
<1>4. \A n : WalkRight(n)' = WalkRight(n) /\ Shows(n)' = Shows(n)
  BY <1>1, <1>3 DEF WalkRight, Shows, Served, PageAnswer, Cut
<1>5. CrawlsRight' = CrawlsRight
  BY <1>1, <1>3, <1>4 DEF CrawlsRight, FirstPages, Cut
<1>6. Unaccused' = Unaccused
  BY <1>1, <1>3 DEF Unaccused, Excused, BeyondClamp
<1>7. WalksKept' = WalksKept
  BY <1>1 DEF WalksKept
<1>8. DefectNoticed' = DefectNoticed
  BY <1>1, <1>3, <1>4 DEF DefectNoticed
<1> QED BY <1>1, <1>2, <1>5, <1>6, <1>7, <1>8 DEF PageInv

(* The page size a limit is snapped to is allowed, and holds what was asked *)
(* for, up to the largest.                                                  *)
LEMMA SnapLimitFacts ==
    ASSUME NEW raw \in Int
    PROVE  /\ snapLimit(raw) \in ALLOWED_LIMITS
           /\ Whole(snapLimit(raw)) >= raw \/ snapLimit(raw) = LARGEST_LIMIT
<1> DEFINE fits == {allowed \in ALLOWED_LIMITS : Whole(allowed) >= raw} \cup {LARGEST_LIMIT}
<1>1. snapLimit(raw) = Min(fits)
  BY DEF snapLimit
<1>2. ASSUME NEW x \in {10, 20, 50, 100}, x \in fits, \A y \in fits : x <= y
      PROVE  snapLimit(raw) = x
  <2>1. x \in Int /\ \A y \in fits : y \in Int /\ x <= y
    BY <1>2 DEF ALLOWED_LIMITS, LARGEST_LIMIT
  <2> HIDE DEF fits
  <2> QED BY <1>1, <1>2, <2>1, MinIs
<1>3. CASE raw <= 20
  <2>1. 10 \in fits /\ \A y \in fits : 10 <= y
    BY <1>3 DEF ALLOWED_LIMITS, LARGEST_LIMIT, Whole
  <2> HIDE DEF fits
  <2>2. snapLimit(raw) = 10
    BY <1>2, <2>1
  <2> QED BY <1>3, <2>2 DEF ALLOWED_LIMITS, Whole
<1>4. CASE raw > 20 /\ raw <= 40
  <2>1. 20 \in fits /\ \A y \in fits : 20 <= y
    BY <1>4 DEF ALLOWED_LIMITS, LARGEST_LIMIT, Whole
  <2> HIDE DEF fits
  <2>2. snapLimit(raw) = 20
    BY <1>2, <2>1
  <2> QED BY <1>4, <2>2 DEF ALLOWED_LIMITS, Whole
<1>5. CASE raw > 40 /\ raw <= 100
  <2>1. 50 \in fits /\ \A y \in fits : 50 <= y
    BY <1>5 DEF ALLOWED_LIMITS, LARGEST_LIMIT, Whole
  <2> HIDE DEF fits
  <2>2. snapLimit(raw) = 50
    BY <1>2, <2>1
  <2> QED BY <1>5, <2>2 DEF ALLOWED_LIMITS, Whole
<1>6. CASE raw > 100
  <2>1. 100 \in fits /\ \A y \in fits : 100 <= y
    BY <1>6 DEF ALLOWED_LIMITS, LARGEST_LIMIT, Whole
  <2> HIDE DEF fits
  <2>2. snapLimit(raw) = 100
    BY <1>2, <2>1
  <2> QED BY <2>2 DEF ALLOWED_LIMITS, LARGEST_LIMIT
<1> QED BY <1>3, <1>4, <1>5, <1>6

(* The page a number stands for: itself, up to the last cached one.         *)
LEMMA PageParamFacts ==
    ASSUME NEW raw \in Int
    PROVE  PageParam(raw) = IF raw <= 2000 THEN raw ELSE 2000
<1>1. PageParam(raw) = Min({raw, 2000})
  BY QueryAssumption DEF PageParam, Whole, MAX_PAGE
<1>2. CASE raw <= 2000
  <2>1. \A y \in {raw, 2000} : y \in Int /\ raw <= y
    BY <1>2
  <2>2. Min({raw, 2000}) = raw
    BY <2>1, MinIs
  <2> QED BY <1>1, <1>2, <2>2
<1>3. CASE raw > 2000
  <2>1. \A y \in {raw, 2000} : y \in Int /\ 2000 <= y
    BY <1>3
  <2>2. Min({raw, 2000}) = 2000
    BY <2>1, MinIs
  <2> QED BY <1>1, <1>3, <2>2
<1> QED BY <1>2, <1>3

(* What the DTO does with a page: refused when it is no number or below 1,  *)
(* taken when it is whole, and then itself or the last cached page.         *)
LEMMA PageAnswered ==
    ASSUME NEW raw \in Int \cup {Absent, NotANumber}
    PROVE  LET page == PageParam(raw)
               taken == page # NotANumber /\ IsWhole(page) /\ page >= Whole(1)
           IN
           /\ taken => /\ raw # NotANumber /\ (raw # Absent => ~(raw < Whole(1)))
                       /\ page \div 2 \in 1..MAX_PAGE
                       /\ raw # Absent /\ raw <= Whole(MAX_PAGE) => Whole(page \div 2) = raw
           /\ raw = Absent \/ (raw # NotANumber /\ ~(raw < Whole(1)) /\ IsWhole(raw)) => taken
<1>1. CASE raw = Absent
  <2>1. PageParam(raw) = 2
    BY <1>1 DEF PageParam, Whole
  <2> QED BY <1>1, <2>1, QueryAssumption DEF IsWhole, Whole, MAX_PAGE
<1>2. CASE raw = NotANumber
  <2>1. PageParam(raw) = NotANumber
    BY <1>2, QueryAssumption DEF PageParam
  <2> QED BY <1>2, <2>1, QueryAssumption
<1>3. CASE raw \in Int
  <2>1. PageParam(raw) = IF raw <= 2000 THEN raw ELSE 2000
    BY <1>3, PageParamFacts
  <2>2. raw # NotANumber /\ raw # Absent /\ PageParam(raw) # NotANumber
    BY <1>3, <2>1, QueryAssumption
  <2>3. CASE raw <= 2000
    <3>1. PageParam(raw) = raw
      BY <2>1, <2>3
    <3> QED BY <1>3, <2>2, <2>3, <3>1 DEF IsWhole, Whole, MAX_PAGE
  <2>4. CASE raw > 2000
    <3>1. PageParam(raw) = 2000
      BY <1>3, <2>1, <2>4
    <3> QED BY <1>3, <2>2, <2>4, <3>1 DEF IsWhole, Whole, MAX_PAGE
  <2> QED BY <1>3, <2>3, <2>4
<1> QED BY <1>1, <1>2, <1>3

(* What the DTO does with a limit: refused when it is no number or below 1, *)
(* and else one of the allowed page sizes, no smaller than was asked for.   *)
LEMMA LimitAnswered ==
    ASSUME NEW raw \in Int \cup {Absent, NotANumber}
    PROVE  LET limit == LimitParam(raw)
               taken == /\ limit # NotANumber /\ IsWhole(limit)
                        /\ limit \in Whole(1)..Whole(LARGEST_LIMIT)
           IN
           /\ taken => /\ raw # NotANumber /\ (raw # Absent => ~(raw < Whole(1)))
                       /\ limit \div 2 \in ALLOWED_LIMITS
                       /\ raw # Absent =>
                             Whole(limit \div 2) >= Min({raw, Whole(LARGEST_LIMIT)})
           /\ raw = Absent \/ (raw # NotANumber /\ ~(raw < Whole(1)) /\ IsWhole(raw)) => taken
<1>1. CASE raw = Absent
  <2>1. LimitParam(raw) = 20
    BY <1>1 DEF LimitParam, Whole
  <2> QED BY <1>1, <2>1, QueryAssumption DEF IsWhole, Whole, ALLOWED_LIMITS, LARGEST_LIMIT
<1>2. CASE raw = NotANumber
  <2>1. LimitParam(raw) = NotANumber
    BY <1>2, QueryAssumption DEF LimitParam
  <2> QED BY <1>2, <2>1, QueryAssumption
<1>3. CASE raw \in Int /\ raw < 2
  <2>1. LimitParam(raw) = raw /\ raw # Absent
    BY <1>3, QueryAssumption DEF LimitParam, Whole
  <2> QED BY <1>3, <2>1 DEF Whole, LARGEST_LIMIT
<1>4. CASE raw \in Int /\ raw >= 2
  <2>1. PICK snapped \in {10, 20, 50, 100} :
           /\ snapped = snapLimit(raw)
           /\ Whole(snapped) >= raw \/ snapped = LARGEST_LIMIT
    BY <1>4, SnapLimitFacts DEF ALLOWED_LIMITS
  <2>2. raw # NotANumber /\ raw # Absent /\ ~(raw < Whole(1))
    BY <1>4, QueryAssumption DEF Whole
  <2>3. LimitParam(raw) = 2 * snapped
    BY <2>1, <2>2 DEF LimitParam, Whole
  <2>4. 2 * snapped # NotANumber /\ (2 * snapped) \div 2 = snapped /\ IsWhole(2 * snapped)
        /\ 2 * snapped \in 2..200
    BY <2>1, QueryAssumption DEF IsWhole
  <2>5. Min({raw, 200}) <= 2 * snapped
    <3>1. CASE raw <= 200
      <4>1. \A y \in {raw, 200} : y \in Int /\ raw <= y
        BY <1>4, <3>1
      <4>2. Min({raw, 200}) = raw
        BY <4>1, MinIs
      <4> QED BY <1>4, <2>1, <3>1, <4>2 DEF Whole, LARGEST_LIMIT
    <3>2. CASE raw > 200
      <4>1. \A y \in {raw, 200} : y \in Int /\ 200 <= y
        BY <1>4, <3>2
      <4>2. Min({raw, 200}) = 200
        BY <4>1, MinIs
      <4> QED BY <1>4, <2>1, <3>2, <4>2 DEF Whole, LARGEST_LIMIT
    <3> QED BY <1>4, <3>1, <3>2
  <2>6. Whole(1) = 2 /\ Whole(LARGEST_LIMIT) = 200 /\ Whole(snapped) = 2 * snapped
        /\ 2 * snapped >= Min({raw, 200})
    <3>1. Min({raw, 200}) \in Int
      BY <1>4 DEF Min
    <3> QED BY <2>1, <2>5, <3>1 DEF Whole, LARGEST_LIMIT
  <2>7. /\ LimitParam(raw) \div 2 \in ALLOWED_LIMITS
        /\ Whole(LimitParam(raw) \div 2) >= Min({raw, Whole(LARGEST_LIMIT)})
    BY <2>1, <2>3, <2>4, <2>6 DEF ALLOWED_LIMITS
  <2>8. /\ LimitParam(raw) # NotANumber /\ IsWhole(LimitParam(raw))
        /\ LimitParam(raw) \in Whole(1)..Whole(LARGEST_LIMIT)
    BY <2>3, <2>4, <2>6
  <2> QED BY <2>2, <2>7, <2>8
<1> QED BY <1>3, <1>4, <1>1, <1>2

(* The query that was probed got what the comments of the DTO promise.      *)
LEMMA QueryIsAnswered ==
    ASSUME mem.script = "pages", PageTypeOK, QueryTaken
    PROVE  QueryAnswered
<1>1. mem.query[1] \in Int \cup {Absent, NotANumber} /\ mem.query[2] \in Int \cup {Absent, NotANumber}
  <2>1. mem.query \in (RawPages \cup {Absent}) \X (RawLimits \cup {Absent})
    BY DEF PageTypeOK, PageMemory
  <2> QED BY <2>1, PagesAssumption
<1>2. PICK rawPage \in Int \cup {Absent, NotANumber}, rawLimit \in Int \cup {Absent, NotANumber} :
         rawPage = mem.query[1] /\ rawLimit = mem.query[2]
  BY <1>1
<1>3. mem.status # 0 => mem.status = IF Accepted(rawPage, rawLimit) THEN 200 ELSE 400
  BY <1>2 DEF QueryTaken
<1> DEFINE page == PageParam(rawPage)
           limit == LimitParam(rawLimit)
           pageTaken == page # NotANumber /\ IsWhole(page) /\ page >= Whole(1)
           limitTaken == /\ limit # NotANumber /\ IsWhole(limit)
                         /\ limit \in Whole(1)..Whole(LARGEST_LIMIT)
<1>4. mem.status = 200 => pageTaken /\ limitTaken
  BY <1>3 DEF Accepted
<1>5. mem.status = 400 => ~pageTaken \/ ~limitTaken
  BY <1>3 DEF Accepted
<1>6. /\ pageTaken => /\ rawPage # NotANumber /\ (rawPage # Absent => ~(rawPage < Whole(1)))
                      /\ page \div 2 \in 1..MAX_PAGE
                      /\ rawPage # Absent /\ rawPage <= Whole(MAX_PAGE) =>
                            Whole(page \div 2) = rawPage
      /\ rawPage = Absent \/ (rawPage # NotANumber /\ ~(rawPage < Whole(1)) /\ IsWhole(rawPage))
            => pageTaken
  BY PageAnswered
<1>7. /\ limitTaken => /\ rawLimit # NotANumber /\ (rawLimit # Absent => ~(rawLimit < Whole(1)))
                       /\ limit \div 2 \in ALLOWED_LIMITS
                       /\ rawLimit # Absent =>
                             Whole(limit \div 2) >= Min({rawLimit, Whole(LARGEST_LIMIT)})
      /\ rawLimit = Absent \/ (rawLimit # NotANumber /\ ~(rawLimit < Whole(1)) /\ IsWhole(rawLimit))
            => limitTaken
  BY LimitAnswered
<1> HIDE DEF pageTaken, limitTaken
<1> QED BY <1>2, <1>4, <1>5, <1>6, <1>7 DEF QueryAnswered

===============================================================================
