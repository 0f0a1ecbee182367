----------------------------- MODULE MCAdaptiveFlow -----------------------------
(* Policies with limits that cross, ratios and boosts below 0, a rate that     *)
(* leaves its limits when cut, and an increase of nothing: normalisation has  *)
(* to repair all of them.  The crossed policy asks for more symbols than a    *)
(* block of RaptorQ has; the longer frames meet each limit of encode_frame.   *)
EXTENDS AdaptiveFlow

Policy == [minSource |-> 1, maxSource |-> 3, minRepair |-> 0, maxRepair |-> 2,
           floorSource |-> 2, floorRepair |-> 1, lossSafety |-> 1,
           minRatio |-> -5, maxRatio |-> 7, keyBoost |-> 2, audioBoost |-> -3, symbolSize |-> 3]

CrossedPolicy ==
  [Policy EXCEPT !.minSource = 4, !.maxSource = 2, !.minRepair = 3, !.maxRepair = 1,
                 !.floorRepair = 2, !.lossSafety = 4, !.minRatio = 8,
                 !.keyBoost = -3, !.audioBoost = 2]

Rates == [minRate |-> 2, maxRate |-> 6, initial |-> 4, increase |-> 0, decrease |-> 10,
          highLoss |-> 4, highQueue |-> 2, highRtt |-> 2]

Path == [loss |-> {}, rtt |-> 0, jitter |-> 0, queue |-> 0, available |-> {}]

MCPaths ==
  {Path, [Path EXCEPT !.available = {1}], [Path EXCEPT !.available = {5}, !.jitter = 1],
   [Path EXCEPT !.queue = 2, !.loss = {[num |-> 3, den |-> 2]}]}

MCPolicies == {Policy, CrossedPolicy}

=============================================================================
