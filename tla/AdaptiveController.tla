-------------------------- MODULE AdaptiveController --------------------------
(***************************************************************************)
(* AdaptiveFecController: the congestion state that follows network reports, *)
(* the repair it buys for a block, and the cut of a frame into blocks that   *)
(* MediaFecEncoder::encode_frame makes of its decision.  Operators on a      *)
(* controller record [policy, congestion, metrics, target].                  *)
(*                                                                           *)
(* Ratios and thresholds, f32 in the code, are whole numbers of 1/Unit.  The *)
(* loss is an exact fraction [num, den], since the code tells no loss from   *)
(* any; rounding errors of f32 are left out.  An optional value is a set of  *)
(* at most one.                                                              *)
(***************************************************************************)
EXTENDS Integers, FiniteSetsExt

CONSTANTS
  Unit,          \* ratios are whole numbers of 1/Unit
  KeyframeLoss,  \* the loss from which a keyframe is requested (0.20)
  JitterFull,    \* the jitter of full pressure (80 ms)
  QueueFull,     \* the queue delay of full pressure (200 ms)
  FullPressure,  \* what full pressure adds to the repair ratio (0.04)
  FrameHeader,   \* MEDIA_FRAME_HEADER_LEN
  U16Max,        \* u16::MAX
  U32Max,        \* u32::MAX
  MaxSource      \* MAX_SOURCE_SYMBOLS_PER_BLOCK

ASSUME ControllerAssumption ==
  /\ {Unit, JitterFull, QueueFull, U16Max} \subseteq Nat \ {0}
  /\ {KeyframeLoss, FullPressure, FrameHeader, U32Max, MaxSource} \subseteq Nat

Clamp(x, low, high) == Min({Max({x, low}), high})
CeilDiv(a, b) == (a + b - 1) \div b

-----------------------------------------------------------------------------
(* AdaptiveFecPolicy::normalized                                            *)
NormalizedPolicy(p) ==
  [p EXCEPT !.minSource = Max({@, 1}),
            !.maxSource = Max({@, p.minSource, 1}),
            !.minRepair = Min({@, p.maxRepair}),
            !.floorRepair = Min({@, p.maxRepair}),
            !.lossSafety = Min({@, p.maxRepair}),
            !.floorSource = Max({@, 1}),
            !.minRatio = Max({@, 0}),
            !.maxRatio = Max({@, p.minRatio, 0}),
            !.keyBoost = Max({@, 0}),
            !.audioBoost = Max({@, 0}),
            !.symbolSize = Max({@, 1})]

(* slip: an additive increase of nothing is let through *)
CongestionAsGiven(g) ==
  [g EXCEPT !.minRate = Max({@, 1}), !.maxRate = Max({@, g.minRate, 1})]

(* congestion_config_normalized *)
NormalizedCongestion(g) ==
  LET low == Max({g.minRate, 1})
      high == Max({g.maxRate, low})
  IN [g EXCEPT !.minRate = low, !.maxRate = high,
               !.initial = Clamp(@, low, high),
               !.increase = Max({@, 1}),
               !.decrease = Clamp(@, Unit \div 10, (99 * Unit) \div 100),
               !.highLoss = Clamp(@, 0, Unit),
               !.highQueue = Max({@, 1}),
               !.highRtt = Max({@, 1})]

NoLoss == [num |-> 0, den |-> 1]

NewController(policy, config) ==
  LET g == NormalizedCongestion(config)
  IN [policy |-> NormalizedPolicy(policy), congestion |-> g,
      metrics |-> [loss |-> NoLoss, rtt |-> 0, jitter |-> 0, queue |-> 0, available |-> {}],
      target |-> Clamp(g.initial, g.minRate, g.maxRate)]

-----------------------------------------------------------------------------
(* Reports.                                                                 *)

(* SequenceStats::loss_fraction *)
LossFraction(received, missing) ==
  IF received + missing = 0 THEN NoLoss
  ELSE [num |-> missing, den |-> received + missing]

ClampedFraction(f) == [f EXCEPT !.num = Min({@, f.den})]

(* NetworkMetricsObservation::into_metrics, of what a path reports, with an *)
(* optional loss of the path's own in place of the tracker's.               *)
IntoMetrics(received, missing, path) ==
  [loss |-> ClampedFraction(
              IF path.loss = {} THEN LossFraction(received, missing)
              ELSE CHOOSE f \in path.loss : TRUE),
   rtt |-> path.rtt, jitter |-> path.jitter, queue |-> path.queue, available |-> path.available]

IsAtLeast(fraction, units) == fraction.num * Unit >= units * fraction.den

Congested(c, m) ==
  \/ IsAtLeast(m.loss, c.congestion.highLoss)
  \/ m.queue >= c.congestion.highQueue
  \/ m.rtt >= c.congestion.highRtt

(* slip: a lower limit of the path is not followed by the configured one *)
InLimitsOnce(c, rate, available) == Min({Clamp(rate, c.congestion.minRate, c.congestion.maxRate)} \cup available)

(* The rate in the limits of the configuration, which hold again after the  *)
(* rate that the path offers.                                               *)
InLimits(c, rate, available) ==
  LET low == c.congestion.minRate
      high == c.congestion.maxRate
  IN Clamp(Min({Clamp(rate, low, high)} \cup available), low, high)

(* update_network_metrics *)
UpdateNetworkMetrics(c, m) ==
  LET moved == IF Congested(c, m) THEN (c.target * c.congestion.decrease) \div Unit
               ELSE c.target + c.congestion.increase
  IN [c EXCEPT !.metrics = m, !.target = InLimits(c, moved, m.available)]

(* What update_network_metrics tells the application.                       *)
CongestionDecision(c, m) ==
  [congested |-> Congested(c, m),
   dropDelta |-> Congested(c, m) /\ IsAtLeast(m.loss, c.congestion.highLoss),
   requestKeyframe |-> IsAtLeast(m.loss, KeyframeLoss)]

-----------------------------------------------------------------------------
(* Repair.                                                                  *)

Priorities == {"Audio", "VideoKey", "VideoDelta", "Data"}

Boost(c, priority) ==
  CASE priority = "Audio" -> c.policy.audioBoost
    [] priority = "VideoKey" -> c.policy.keyBoost
    [] OTHER -> 0

Pressure(delay, full) == (FullPressure * Min({delay, full})) \div full

(* repair_ratio, as num of 1/(2 * Unit * loss.den): the loss counts 3/2     *)
RatioBase(c) == 2 * c.metrics.loss.den

RepairRatio(c, priority) ==
  LET m == c.metrics
      units == c.policy.minRatio + Pressure(m.jitter, JitterFull) + Pressure(m.queue, QueueFull)
               + Boost(c, priority)
  IN Clamp(units * RatioBase(c) + 3 * m.loss.num * Unit,
           c.policy.minRatio * RatioBase(c), c.policy.maxRatio * RatioBase(c))

Lossy(c) == c.metrics.loss.num > 0

(* The repair of the ratio alone; a block too small for a whole symbol of   *)
(* repair gets one only if audio is lossy or a key frame has a boost.       *)
RatioRepair(c, n, priority) ==
  LET raw == n * RepairRatio(c, priority)
      whole == RatioBase(c) * Unit
  IN IF raw >= whole THEN CeilDiv(raw, whole)
     ELSE IF \/ priority = "Audio" /\ Lossy(c)
             \/ priority = "VideoKey" /\ RepairRatio(c, priority) > c.policy.minRatio * RatioBase(c)
     THEN 1 ELSE 0

MediaFloor(c, n, priority) ==
  IF priority = "VideoDelta" /\ n >= c.policy.floorSource THEN c.policy.floorRepair ELSE 0

LossSafety(c, n, priority) ==
  IF Lossy(c) /\ (priority \in {"Audio", "VideoKey"} \/ n >= c.policy.floorSource)
  THEN c.policy.lossSafety ELSE 0

(* repair_symbols_for, of a block of n > 0 source symbols                   *)
RepairSymbolsFor(c, n, priority) ==
  Min({Max({RatioRepair(c, n, priority), c.policy.minRepair, MediaFloor(c, n, priority)})
         + LossSafety(c, n, priority),
       c.policy.maxRepair})

-----------------------------------------------------------------------------
(* Decisions, and the blocks of a frame.                                    *)

(* symbol_size_for_payload: audio gets a symbol that fits it exactly.       *)
SymbolSize(c, len, priority) ==
  IF priority = "Audio" THEN Min({c.policy.symbolSize, Max({len, 1})}) ELSE c.policy.symbolSize

(* source_symbol_count *)
SymbolsOf(len, size) == Min({Max({CeilDiv(len, size), 1}), U16Max})

(* decide *)
Decide(c, len, priority) ==
  LET size == SymbolSize(c, len, priority)
      n == SymbolsOf(len, size)
      repair == RepairSymbolsFor(c, n, priority)
  IN [symbolSize |-> size, repair |-> repair, forPayload |-> n, datagrams |-> n + repair,
      source |-> Min({Max({n, c.policy.minSource}), c.policy.maxSource})]

MaxPayloadLen(d) == d.source * d.symbolSize

(* slip: the fragment header is not counted *)
FragmentOfWholeBlock(d) == MaxPayloadLen(d)

(* What a block of the decision leaves for a fragment.                      *)
MaxFragment(d) == MaxPayloadLen(d) - FrameHeader

FragmentsOf(len, part) == Max({CeilDiv(len, part), 1})

(* encode_frame refuses a frame whose blocks have no room for a fragment,   *)
(* one of too many fragments and one that is too long.                      *)
MayCut(c, len, priority) ==
  LET part == MaxFragment(Decide(c, len + FrameHeader, priority))
  IN part > 0 /\ FragmentsOf(len, part) <= U16Max /\ len <= U32Max

(* The lengths of the blocks that a frame of len bytes is cut into, and the *)
(* blocks, which encode_frame encodes one after the other.                  *)
BlockLens(c, len, priority) ==
  LET part == MaxFragment(Decide(c, len + FrameHeader, priority))
  IN [i \in 1..FragmentsOf(len, part) |-> FrameHeader + Min({i * part, len}) - (i - 1) * part]

FrameBlocks(c, len, priority) ==
  LET lens == BlockLens(c, len, priority)
      SourceOf(i) == SymbolsOf(lens[i], SymbolSize(c, len + FrameHeader, priority))
  IN [i \in DOMAIN lens |->
        [len |-> lens[i], source |-> SourceOf(i), repair |-> RepairSymbolsFor(c, SourceOf(i), priority)]]

(* encode_block refuses a block that is longer than the decision allows or  *)
(* has more symbols than one block of RaptorQ.                              *)
MayEncode(d, block) == block.len <= MaxPayloadLen(d) /\ block.source <= MaxSource

=============================================================================
