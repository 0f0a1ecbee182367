------------------------------ MODULE AdaptiveFlow ------------------------------
(***************************************************************************)
(* The feedback loop: the receiver's SequenceTracker counts the packets of a *)
(* flow, the application reports that count with the state of the path, and  *)
(* the AdaptiveFecController of the sender sets its rate and repair by it.   *)
(*                                                                           *)
(* The application reports again and again; that is the fairness.  Packets   *)
(* and the path owe nothing.                                                 *)
(***************************************************************************)
EXTENDS TrackedFlow, AdaptiveController

CONSTANTS
  Policies,     \* AdaptiveFecPolicy values that an application may give
  Congestion,   \* its CongestionConfig
  PathStates,   \* what a path reports: [loss, rtt, jitter, queue, available]
  FrameSizes,   \* lengths of the frames encoded
  MaxReceived,  \* bound: packets received, duplicates included
  MaxChanges    \* bound: changes of the path

(* Counts, sizes and rates are unsigned, ratios are not, and may be negative *)
(* before they are normalised; symbol counts and sizes are u16.  A path      *)
(* measures what it offers and its loss, or does not.                       *)
ASSUME FeedbackAssumption ==
  /\ MaxReceived \in Nat /\ MaxChanges \in Nat
  /\ FrameSizes \subseteq Nat
  /\ Policies \subseteq
       [minSource : 0..U16Max, maxSource : 0..U16Max, minRepair : Nat, maxRepair : Nat,
        floorSource : Nat, floorRepair : Nat, lossSafety : Nat,
        minRatio : Int, maxRatio : Int, keyBoost : Int, audioBoost : Int, symbolSize : 0..U16Max]
  /\ Congestion \in [minRate : Nat, maxRate : Nat, initial : Nat, increase : Nat, decrease : Nat,
                     highLoss : Nat, highQueue : Nat, highRtt : Nat]
  /\ \A to \in PathStates : /\ {to.rtt, to.jitter, to.queue} \cup to.available \subseteq Nat
                            /\ to.loss \subseteq [num : Nat, den : Nat \ {0}]
                            /\ \A a, b \in to.available : a = b

VARIABLES
  received,    \* SequenceStats.received
  path,        \* what the path reports now
  changes,     \* how often the path has changed
  controller   \* the AdaptiveFecController

loopVars == <<vars, received, path, changes, controller>>

LoopInit ==
  /\ Init
  /\ received = 0
  /\ path \in PathStates /\ changes = 0
  /\ \E policy \in Policies : controller = NewController(policy, Congestion)

ReceivePacket(p) ==
  /\ received < MaxReceived
  /\ Receive(p)
  /\ received' = received + 1
  /\ UNCHANGED <<path, changes, controller>>

ChangePath(to) ==
  /\ changes < MaxChanges
  /\ path' = to
  /\ changes' = changes + 1
  /\ UNCHANGED <<vars, received, controller>>

(* update_from_observation *)
Report ==
  /\ \E observed \in {IntoMetrics(received, Cardinality(tracker.missing), path)} :
       controller' = UpdateNetworkMetrics(controller, observed)
  /\ UNCHANGED <<vars, received, path, changes>>

LoopNext ==
  \/ \E p \in 0..LastPacket : ReceivePacket(p)
  \/ \E to \in PathStates : ChangePath(to)
  \/ Report

LoopSpec == LoopInit /\ [][LoopNext]_loopVars /\ WF_loopVars(Report)

-----------------------------------------------------------------------------
(* Properties, beside those of TrackedFlow.                                 *)

(* The tracker expects a packet newer than all that came.  That every packet *)
(* came is not enough: two packets that are both overtaken by a third leave  *)
(* it at one that it counted already, and the loss it reports then grows     *)
(* with the flow (see MissingIsUnreceived).                                  *)
CaughtUp == Started => Expected > Top

Calm ==
  /\ path.loss = {}
  /\ path.rtt < controller.congestion.highRtt /\ path.queue < controller.congestion.highQueue

Ceiling == InLimits(controller, controller.congestion.maxRate, path.available)

(* update_from_observation cuts the rate for a reason only: when the tracker *)
(* has caught up on a calm path, a report neither lowers a rate that the path *)
(* can carry nor drops a frame or buys loss repair, whatever was reordered  *)
(* before.                                                                  *)
CleanFlowIsNotCut ==
  [][controller' # controller /\ CaughtUp /\ Calm =>
       /\ controller'.target >= Min({controller.target, Ceiling})
       /\ ~Lossy(controller')
       /\ LET d == CongestionDecision(controller, controller'.metrics)
          IN ~d.congested /\ ~d.dropDelta /\ ~d.requestKeyframe]_loopVars

(* The target stays in the configured limits in every state, even if the    *)
(* path offers less than the least rate; a target of 0 could never grow by  *)
(* a cut that is multiplicative.                                            *)
RateInLimits ==
  /\ controller.target \in controller.congestion.minRate..controller.congestion.maxRate
  /\ controller.target > 0

(* Congestion passes: once the tracker has caught up and the path is calm    *)
(* for good, the rate climbs back to all that they and the limits allow.    *)
RateRecovers == <>[](CaughtUp /\ Calm) => <>[](controller.target = Ceiling)

(* The bytes of a frame that blocks of these lengths carry.                 *)
Carried(lens) ==
  MapThenFoldSet(LAMBDA x, y : x + y, 0, LAMBDA i : lens[i] - FrameHeader, Max, DOMAIN lens)

(* A frame that encode_frame does not refuse for its size alone is cut into *)
(* blocks that carry it once, whatever the network and the policy: none has *)
(* more symbols than the decision or more repair than the policy allows, a  *)
(* frame of one block is as long as decide() said, and encode_block can     *)
(* fail for the first block only, before the frame has spent a block id or  *)
(* a packet sequence, and only if the policy asks for blocks of more than   *)
(* MAX_SOURCE_SYMBOLS_PER_BLOCK symbols, which normalized() lets through.   *)
(* A frame encoded again is cut, or refused, as it was the first time,      *)
(* whatever has been reported meanwhile: PartialFrame::insert               *)
(* (media.rs:703) puts fragments of both copies together and does not       *)
(* compare how they were cut.                                               *)
FramesFitTheirBlocks ==
  LET first == NewController(controller.policy, Congestion) IN
  \A len \in FrameSizes, priority \in Priorities :
    LET d == Decide(controller, len + FrameHeader, priority)
        lens == BlockLens(controller, len, priority)
        blocks == FrameBlocks(controller, len, priority)
        mayCut == MayCut(controller, len, priority)
    IN /\ mayCut <=> MayCut(first, len, priority)
       /\ mayCut =>
            /\ lens = BlockLens(first, len, priority)
            /\ Carried(lens) = len
            /\ \A i \in DOMAIN lens :
                 LET block == blocks[i]
                 IN /\ block.source <= d.source /\ block.repair <= controller.policy.maxRepair
                    /\ DOMAIN lens = {1} => block.source + block.repair = d.datagrams
                    /\ ~MayEncode(d, block) =>
                         ~MayEncode(d, blocks[1]) /\ controller.policy.maxSource > MaxSource

=============================================================================
