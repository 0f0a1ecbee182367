----------------------------- MODULE MediaSchedule -----------------------------
(***************************************************************************)
(* The planning functions of the media sender, as operators: the bounded    *)
(* send plan of one scheduling pass, the choice of a recovery for a block,  *)
(* the observation of a deadline and the loss outcome of a frame.           *)
(*                                                                         *)
(* A frame is [n, stream, content, deadline, blocks]: its sequence number,  *)
(* its flags and priority, its expiry, and the numbers of source and repair *)
(* datagrams of each block.  A datagram is [n, block, esi].  Milliseconds   *)
(* and microseconds are one unit of time, far from the end of u64.          *)
(***************************************************************************)
EXTENDS Integers, Sequences, FiniteSets, SequencesExt

CONSTANTS
  MaxPerPlan,     \* MediaSendPolicy::max_datagrams_per_plan
  HardPerPlan,    \* HARD_MAX_DATAGRAMS_PER_PLAN
  MaxScanned,     \* HARD_MAX_FRAMES_SCANNED_PER_PLAN
  MaxVisits,      \* HARD_MAX_BLOCK_VISITS_PER_PLAN
  Spacing,        \* min_datagram_spacing_us
  StaleDelay,     \* stale_delta_repair_queue_delay_ms
  UrgentWindow,   \* URGENT_REPAIR_WINDOW_US
  MaxExtra,       \* MediaRecoveryPolicy::max_extra_repair_symbols
  HardExtra,      \* HARD_MAX_EXTRA_REPAIR_SYMBOLS
  SafetySymbols,  \* repair_safety_symbols
  SafetyMargin    \* deadline_safety_margin_us

ASSUME ScheduleAssumption ==
  /\ {MaxPerPlan, Spacing, StaleDelay, UrgentWindow} \subseteq Nat
  /\ {HardPerPlan, MaxScanned, MaxVisits} \subseteq Nat \ {0}
  /\ {MaxExtra, HardExtra, SafetySymbols, SafetyMargin} \subseteq Nat

-----------------------------------------------------------------------------
(* MediaDeadline.                                                           *)

IsExpiredAt(deadline, t) == deadline <= t

(* remaining_us_at: 0 stands for None                                       *)
RemainingAt(deadline, t) == Max({deadline - t, 0})

ObserveCompletion(deadline, t) ==
  [hit |-> t < deadline, headroom |-> RemainingAt(deadline, t), lateness |-> Max({t - deadline, 0})]

-----------------------------------------------------------------------------
(* The order of the candidates.                                             *)

Kinds == <<"Initialization", "CodecConfig", "VideoKey", "Audio", "VideoDelta", "Data">>

(* media_object_kind: a flag wins over the priority; as the place in Kinds  *)
ObjectKind(f) ==
  LET kind == IF "Initialization" \in f.content.flags THEN "Initialization"
              ELSE IF "CodecConfig" \in f.content.flags THEN "CodecConfig"
              ELSE f.content.priority
  IN CHOOSE i \in DOMAIN Kinds : Kinds[i] = kind

Important(f) == Kinds[ObjectKind(f)] \in {"Initialization", "CodecConfig", "VideoKey", "Audio"}

UrgentRepair(f, ready) == Important(f) /\ RemainingAt(f.deadline, ready) \in 1..UrgentWindow

(* slip: urgent repair passes important source *)
RankUrgentFirst(g, ready) ==
  IF g.role = "repair" /\ UrgentRepair(g.frame, ready) THEN 0
  ELSE IF g.role = "source" THEN (IF Important(g.frame) THEN 1 ELSE 2) ELSE 3

SchedulingRank(g, ready) ==
  IF g.role = "source" THEN (IF Important(g.frame) THEN 0 ELSE 2)
  ELSE IF UrgentRepair(g.frame, ready) THEN 1 ELSE 3

SortKey(g, ready) ==
  <<SchedulingRank(g, ready), ObjectKind(g.frame), g.frame.deadline, g.frame.stream, g.frame.n,
    IF g.role = "source" THEN 0 ELSE 1>>

Precedes(g, h, ready) ==
  LET a == SortKey(g, ready)
      b == SortKey(h, ready)
  IN \E i \in DOMAIN a : a[i] < b[i] /\ \A j \in 1..i-1 : a[j] = b[j]

Scanned(frames) == SubSeq(frames, 1, Min({Len(frames), MaxScanned}))

(* groups: the sources and the repair of each scanned frame, sorted         *)
Groups(frames, ready) ==
  LET gs == [frame : Range(Scanned(frames)), role : {"source", "repair"}]
  IN [i \in 1..Cardinality(gs) |->
        CHOOSE g \in gs : Cardinality({h \in gs : Precedes(h, g, ready)}) = i - 1]

DatagramsOf(f, b, role) ==
  LET count == f.blocks[b]
      first == IF role = "source" THEN 0 ELSE count.source
  IN [i \in 1..count[role] |-> [n |-> f.n, block |-> b, esi |-> first + i - 1]]

(* the blocks of the groups in their order, as the loop visits them         *)
Visits(groups) ==
  FlattenSeq([i \in DOMAIN groups |->
    [b \in DOMAIN groups[i].frame.blocks |-> [frame |-> groups[i].frame, role |-> groups[i].role, block |-> b]]])

Candidates(visits) ==
  FlattenSeq([i \in DOMAIN visits |->
    LET v == visits[i]
        dgs == DatagramsOf(v.frame, v.block, v.role)
    IN [j \in DOMAIN dgs |-> [dg |-> dgs[j], frame |-> v.frame, role |-> v.role]]])

-----------------------------------------------------------------------------
(* plan_media_datagrams_with_deadlines.  A pass is given its frames, when   *)
(* the queue lets its first datagram go, the queue delay, the datagrams in  *)
(* flight and the policy's max_in_flight_datagrams.                         *)

PlanLimit == Min({Max({MaxPerPlan, 1}), HardPerPlan})

InFlightLimit(pass) == Min({pass.maxInFlight, PlanLimit})

(* slip: the datagrams already in flight are not counted *)
CapacityOfOnePass(pass) == InFlightLimit(pass)

Capacity(pass) == Max({InFlightLimit(pass) - pass.inFlight, 0})

StaleDeltaRepair(c, pass) ==
  Kinds[ObjectKind(c.frame)] = "VideoDelta" /\ c.role = "repair" /\ pass.queueDelay >= StaleDelay

(* slip: a datagram that is due after its frame's expiry is scheduled *)
ConsiderUnpaced(plan, c, pass) ==
  IF IsExpiredAt(c.frame.deadline, pass.ready) \/ StaleDeltaRepair(c, pass)
  THEN [plan EXCEPT !.dropped = @ \cup {c.dg}]
  ELSE IF Len(plan.scheduled) = Capacity(pass)
  THEN [plan EXCEPT !.blocked = @ + 1]
  ELSE [plan EXCEPT !.scheduled = Append(@,
         [dg |-> c.dg, at |-> pass.ready + Len(plan.scheduled) * Spacing])]

Consider(plan, c, pass) ==
  LET sendAt == pass.ready + Len(plan.scheduled) * Spacing
      drop == [plan EXCEPT !.dropped = @ \cup {c.dg}]
  IN IF IsExpiredAt(c.frame.deadline, pass.ready) THEN drop
     ELSE IF StaleDeltaRepair(c, pass) THEN drop
     ELSE IF Len(plan.scheduled) = Capacity(pass) THEN [plan EXCEPT !.blocked = @ + 1]
     ELSE IF IsExpiredAt(c.frame.deadline, sendAt) THEN drop
     ELSE [plan EXCEPT !.scheduled = Append(@, [dg |-> c.dg, at |-> sendAt])]

(* slip: a pass that runs out of block visits does not say so *)
LimitOfDatagrams(pass, visits, candidates) ==
  Len(pass.frames) > MaxScanned \/ Len(candidates) > PlanLimit

LimitReached(pass, visits, candidates) ==
  Len(pass.frames) > MaxScanned \/ Len(visits) > MaxVisits \/ Len(candidates) > PlanLimit

Plan(pass) ==
  LET visits == Visits(Groups(pass.frames, pass.ready))
      candidates == Candidates(SubSeq(visits, 1, Min({Len(visits), MaxVisits})))
      admitted == Min({Len(candidates), PlanLimit})
      plan[i \in 0..admitted] ==
        IF i = 0 THEN [scheduled |-> <<>>, dropped |-> {}, blocked |-> 0]
        ELSE Consider(plan[i-1], candidates[i], pass)
  IN [scheduled |-> plan[admitted].scheduled, dropped |-> plan[admitted].dropped,
      blocked |-> plan[admitted].blocked, limit |-> LimitReached(pass, visits, candidates)]

-----------------------------------------------------------------------------
(* decide_media_recovery.                                                   *)

(* slip: the deficit is cut to the bound *)
RepairSymbolsCapped(deficit) == Min({deficit + SafetySymbols, MaxExtra, HardExtra})

RepairSymbols(deficit) == deficit + Min({SafetySymbols, HardExtra})

(* slip: the safety margin is left out *)
FitsWithoutMargin(estimate, remaining) == estimate <= remaining

EstimateFits(estimate, remaining) == estimate + Max({SafetyMargin, 1}) <= remaining

RepairEstimate(rtt, queueDelay, spacing, symbols) == rtt + queueDelay + (symbols - 1) * spacing

(* The action chosen and when it should arrive.  fetch is the estimate of   *)
(* the reliable path in a set, or {} for None.                              *)
DecideRecovery(now, deadline, deficit, path, fetch) ==
  LET remaining == RemainingAt(deadline, now)
      symbols == RepairSymbols(deficit)
      estimate == RepairEstimate(path.rtt, path.queueDelay, path.spacing, symbols)
      repairFits == symbols <= Min({MaxExtra, HardExtra}) /\ EstimateFits(estimate, remaining)
      fetchFits == fetch # {} /\ EstimateFits(Min(fetch), remaining)
  IN IF deficit = 0 THEN [action |-> "none", symbols |-> 0, at |-> now]
     ELSE IF remaining > 0 /\ repairFits THEN [action |-> "repair", symbols |-> symbols, at |-> now + estimate]
     ELSE IF remaining > 0 /\ fetchFits THEN [action |-> "fetch", symbols |-> 0, at |-> now + Min(fetch)]
     ELSE [action |-> "expire", symbols |-> 0, at |-> now]

-----------------------------------------------------------------------------
(* EncodedMediaFrame::loss_outcome, of the datagrams in `lost'.             *)

(* slip: repair that was lost counts as available *)
AvailableRepairSent(f, b, lost) == f.blocks[b].repair

LostRepair(f, b, lost) == Cardinality(Range(DatagramsOf(f, b, "repair")) \cap lost)

AvailableRepair(f, b, lost) == f.blocks[b].repair - LostRepair(f, b, lost)

LostSource(f, b, lost) == Cardinality(Range(DatagramsOf(f, b, "source")) \cap lost)

FailedBlocks(f, lost) ==
  {b \in DOMAIN f.blocks : LostSource(f, b, lost) > AvailableRepair(f, b, lost)}

(* loss_outcome: what was lost and used of a frame, summed over its blocks  *)
LossOutcome(f, lost, decoded) ==
  LET blocks == DOMAIN f.blocks
      Total(counts) == FoldLeft(+, 0, counts)
      lostSource == Total([b \in blocks |-> LostSource(f, b, lost)])
      spare == Total([b \in blocks |-> Max({AvailableRepair(f, b, lost) - LostSource(f, b, lost), 0})])
  IN [lostSource |-> lostSource,
      lostRepair |-> Total([b \in blocks |-> LostRepair(f, b, lost)]),
      failed |-> FailedBlocks(f, lost),
      repaired |-> IF decoded THEN lostSource ELSE 0,
      unused |-> IF decoded THEN spare ELSE 0]

=============================================================================
