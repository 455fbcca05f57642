--------------------------- MODULE InvalidationProbe --------------------------
(***************************************************************************)
(* load-test/cache-invalidation.js, and the probe in the setup of          *)
(* cache-blackbox.js: read a product's stock through several page sizes,   *)
(* order one unit, read until every page size shows it.  The service is    *)
(* seen as ProductCache leaves it to a reader: an answer shows some state  *)
(* between the last change announced by a version bump                     *)
(* (ProductCache!CachedAnswerFresh) and the last one committed; the commit *)
(* and its bump are two steps of the worker.  A defective service leaves   *)
(* one page size out of the invalidation: that page shows the initial      *)
(* stock for ever, which stands for a TTL longer than the script's poll.   *)
(* An order of an earlier run may still be queued when a script starts.    *)
(*                                                                         *)
(*   svc = [defect, queued, sold, unbumped, announced]                     *)
(*   mem = [script, round, left, before, final, watch, lastSeen, verdict]  *)
(*   rig = [lost, gaveUp, overlap]: an answer was lost or a bump failed,   *)
(*   the poll ran out of time, a measurement began while the worker was    *)
(*   not done with an earlier order                                        *)
(***************************************************************************)
EXTENDS LoadTestClient, Integers, FiniteSetsExt

CONSTANTS
    VariantLimits,      \* VARIANT_LIMITS
    Kept,               \* the page size a defective service never invalidates
    ROUNDS,
    MaxFaults,          \* bound: lost answers and failed bumps
    Unread              \* a stock not (yet) known

ASSUME ProbeAssumption ==
    /\ IsFiniteSet(VariantLimits) /\ VariantLimits \subseteq Nat /\ Kept \in VariantLimits
    /\ ROUNDS \in Nat /\ MaxFaults \in Nat /\ Unread \notin Int

InitialUnits == 2 * (ROUNDS + 1)
Unreads == [v \in VariantLimits |-> Unread]

(* setup(): the product has units for every round, and is found under every *)
(* page size.                                                               *)
InitInvalidation ==
    /\ pc = "baseline"
    /\ \E defect \in {"none", "keepsOne"}, earlier \in {0, 1} :
          /\ svc = [defect |-> defect, queued |-> earlier, sold |-> 0, unbumped |-> 0,
                    announced |-> 0]
          /\ rig = [lost |-> 0, gaveUp |-> FALSE, overlap |-> FALSE]
    /\ \E script \in {"rounds", "blackbox"}, watch \in VariantLimits :
          mem = [script |-> script, round |-> 1, left |-> VariantLimits,
                 before |-> Unreads, final |-> Unreads, watch |-> watch,
                 lastSeen |-> Unread, verdict |-> "not tested"]
    /\ fails = {}

\* ------------------------------------------------------------- the service

(* What page size v may show as remainingStock.                             *)
Readable(v) ==
    IF svc.defect = "keepsOne" /\ v = Kept THEN {InitialUnits}
    ELSE {InitialUnits - n : n \in svc.announced..svc.sold}

Idle == svc.queued = 0 /\ svc.announced = svc.sold
Fault == rig.lost < MaxFaults /\ rig' = [rig EXCEPT !.lost = @ + 1]

Commit ==
    /\ mem.script \in {"rounds", "blackbox"} /\ svc.queued > 0
    /\ svc' = [svc EXCEPT !.queued = @ - 1, !.sold = @ + 1, !.unbumped = @ + 1]
    /\ UNCHANGED <<pc, mem, fails, rig>>

(* One bump announces whatever is committed by then; it may fail.           *)
Announce ==
    /\ mem.script \in {"rounds", "blackbox"} /\ svc.unbumped > 0
    /\ \/ /\ svc' = [svc EXCEPT !.unbumped = @ - 1, !.announced = svc.sold]
          /\ UNCHANGED rig
       \/ Fault /\ svc' = [svc EXCEPT !.unbumped = @ - 1]
    /\ UNCHANGED <<pc, mem, fails>>

\* ----------------------------------------------------------- the background

(* readerLoop: one VU always reads one page size, and remembers only what   *)
(* it saw last.                                                             *)
Reader ==
    /\ mem.script = "rounds" /\ pc # "done"
    /\ \E now \in Readable(mem.watch) :
          /\ Report({flag \in {"stock_went_backwards"} :
                       mem.lastSeen # Unread /\ now > mem.lastSeen})
          /\ mem' = [mem EXCEPT !.lastSeen = now]
    /\ UNCHANGED <<pc, svc, rig>>

\* ------------------------------------------------------------- a measurement

(* The page sizes the script at hand reads: findStock() asks for the        *)
(* largest pages only.                                                      *)
Variants == IF mem.script = "rounds" THEN VariantLimits ELSE {Max(VariantLimits)}

(* The baseline, one page size after the other.                             *)
BaselineRead ==
    pc = "baseline" /\ \E v \in mem.left \cap Variants :
       /\ \/ /\ \E now \in Readable(v) : mem' = [mem EXCEPT !.left = @ \ {v}, !.before[v] = now]
             /\ rig' = [rig EXCEPT !.overlap = @ \/ ~Idle]
          \/ Fault /\ mem' = [mem EXCEPT !.left = @ \ {v}]
       /\ UNCHANGED <<pc, svc, fails>>

baselineValues == {mem.before[v] : v \in Variants} \ {Unread}
NextRound ==
    /\ mem' = [mem EXCEPT !.round = @ + 1, !.left = VariantLimits,
                          !.before = Unreads, !.final = Unreads]
    /\ GoTo(IF mem.round < ROUNDS /\ mem.script = "rounds" THEN "baseline" ELSE "done")

(* No page size was readable: nothing is measured.                          *)
BaselineUnreadable ==
    /\ pc = "baseline" /\ mem.left \cap Variants = {} /\ baselineValues = {}
    /\ NextRound
    /\ UNCHANGED <<svc, fails, rig>>

(* The order of a user who never ordered.  Without a 202 nothing is         *)
(* measured, though the order may have been queued.                         *)
PlaceOrder ==
    /\ pc = "baseline" /\ mem.left \cap Variants = {} /\ baselineValues # {}
    /\ Report({flag \in {"partial_invalidation"} :
                 mem.script = "rounds" /\ Cardinality(baselineValues) > 1})
    /\ \/ /\ svc' = [svc EXCEPT !.queued = @ + 1]
          /\ mem' = [mem EXCEPT !.left = Variants]
          /\ GoTo("poll")
          /\ UNCHANGED rig
       \/ /\ Fault /\ NextRound
          /\ \E jobs \in {0, 1} : svc' = [svc EXCEPT !.queued = @ + jobs]

baseline == Max(baselineValues)

(* Mutant: the value from before the write is taken for the one after it.   *)
BugReflects(now) == now <= baseline

Reflects(now) == now < baseline

(* invalidationRound polls those that do not show the write yet; an answer  *)
(* that is lost is asked for again.                                         *)
PollVariant ==
    pc = "poll" /\ mem.script = "rounds" /\ \E v \in mem.left :
       /\ \E now \in Readable(v) :
             Reflects(now) /\ mem' = [mem EXCEPT !.left = @ \ {v}, !.final[v] = now]
       /\ UNCHANGED <<pc, svc, fails, rig>>

(* Mutant: one page size that shows the write ends the poll.                *)
BugAllReflect == mem.left # VariantLimits

AllReflect == mem.left = {}
settled == {mem.final[v] : v \in VariantLimits} \ {Unread}

ReportRound ==
    /\ pc = "poll" /\ mem.script = "rounds"
    /\ \/ AllReflect /\ UNCHANGED rig
       \/ ~AllReflect /\ rig' = [rig EXCEPT !.gaveUp = TRUE]
    /\ Report({flag \in {"never_invalidated", "decrement_not_one", "partial_invalidation"} :
                 \/ flag = "never_invalidated" /\ mem.left # {}
                 \/ /\ flag = "decrement_not_one" /\ settled # {}
                    /\ baseline - Min(settled) # 1
                 \/ /\ flag = "partial_invalidation" /\ settled # {}
                    /\ Cardinality(settled) > 1 \/ mem.left # {}})
    /\ NextRound
    /\ UNCHANGED svc

(* Mutant: any number that is not the old one is a pass.                    *)
BugVerdict(after) == IF after # baseline THEN "PASS" ELSE "FAIL"

Verdict(after) == IF after # Unread /\ after < baseline THEN "PASS" ELSE "FAIL"

(* The loop of cache-blackbox.js ends at the first answer that is not what  *)
(* it was, a missing one included, or after thirty polls.                   *)
PollBlackbox ==
    /\ pc = "poll" /\ mem.script = "blackbox"
    /\ \E after \in Readable(Max(VariantLimits)) \cup {Unread} :
          /\ mem' = [mem EXCEPT !.verdict = Verdict(after)]
          /\ IF after = Unread THEN Fault
             ELSE rig' = [rig EXCEPT !.gaveUp = after = baseline]
    /\ GoTo("done")
    /\ UNCHANGED <<svc, fails>>

NextInvalidation ==
    \/ Commit \/ Announce \/ Reader
    \/ BaselineRead \/ BaselineUnreadable \/ PlaceOrder
    \/ PollVariant \/ ReportRound \/ PollBlackbox

\* ---------------------------------------------------------------- properties

(* A correct service passes every round that began when the worker had      *)
(* nothing left to do, whatever answers are lost, unless the worker or the  *)
(* bump takes longer than the poll -- except that the readers may see the   *)
(* stock climb between a commit and its bump, which the script calls proof  *)
(* of a stale page served after a fresher one.  "A 2 means a job ran        *)
(* twice": or that the round began before an earlier order was done.        *)
RoundsFair ==
    mem.script = "rounds" /\ svc.defect = "none" /\ fails # {} =>
        fails = {"stock_went_backwards"} \/ rig.gaveUp \/ rig.overlap

(* A page size that is never invalidated is found in the first round that   *)
(* had an order to measure, though earlier answers were lost and though the *)
(* baseline of that page size was.                                          *)
StaleFound ==
    mem.script = "rounds" /\ svc.defect = "keepsOne" /\ mem.round > 1 + rig.lost =>
        "never_invalidated" \in fails

(* The verdict of cache-blackbox.js.  A PASS is never said of a stock that  *)
(* did not fall.  A FAIL is said of a correct service only when the poll    *)
(* lost an answer, gave up, or began before an earlier order was done.      *)
BlackboxVerdict ==
    mem.script = "blackbox" =>
        /\ mem.verdict = "PASS" => svc.sold > 0
        /\ mem.verdict = "FAIL" /\ svc.defect = "none" => rig.lost > 0 \/ rig.gaveUp \/ rig.overlap

Reading == Int \cup {Unread}
ProbeService == [defect : {"none", "keepsOne"}, queued : Nat, sold : Nat, unbumped : Nat,
                 announced : Nat]
ProbeMemory ==
    [script : {"rounds", "blackbox"}, round : Nat, left : SUBSET VariantLimits,
     before : [VariantLimits -> Reading], final : [VariantLimits -> Reading],
     watch : VariantLimits, lastSeen : Reading, verdict : {"not tested", "PASS", "FAIL"}]
ProbeRig == [lost : Nat, gaveUp : BOOLEAN, overlap : BOOLEAN]
ProbeTypeOK ==
    /\ pc \in {"baseline", "poll", "done"}
    /\ svc \in ProbeService /\ svc.announced <= svc.sold
    /\ mem \in ProbeMemory /\ rig \in ProbeRig

=============================================================================
