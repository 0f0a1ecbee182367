------------------------------ MODULE MediaSender ------------------------------
(***************************************************************************)
(* A media sender under a clock.  A scheduling pass is given a batch of     *)
(* frames; what it schedules is put in flight and comes or is lost; a block *)
(* that is incomplete is recovered, by extra repair or by a reliable fetch, *)
(* as the recovery policy decides from estimates that the network exceeds   *)
(* by less than the safety margin.                                          *)
(*                                                                         *)
(* The planner keeps nothing between passes: its caller tells it how many   *)
(* datagrams are in flight, and gives it a frame once.                      *)
(***************************************************************************)
EXTENDS MediaSchedule

CONSTANTS
  Batches,         \* sequences of [stream, content, latency, blocks] for a pass
  QueueDelays,     \* queue delays the carrier may report
  InFlightLimits,  \* the max_in_flight_datagrams of the policies in use
  Paths,           \* estimates of the repair path: [rtt, queueDelay, spacing]
  Fetches,         \* estimates of the reliable path: {} or a singleton
  MaxFrames,       \* bound: frames given to passes
  MaxTime          \* bound: the clock

(* A block has a source symbol, of an empty payload too                     *)
(* (source_symbol_count); every number is unsigned.                         *)
ASSUME SenderAssumption ==
  /\ Batches \subseteq Seq([stream : Nat, latency : Nat, blocks : Seq([source : Nat \ {0}, repair : Nat]),
                            content : [flags : SUBSET STRING, priority : Range(Kinds)]])
  /\ QueueDelays \cup InFlightLimits \cup {MaxFrames, MaxTime} \subseteq Nat
  /\ Paths \subseteq [rtt : Nat, queueDelay : Nat, spacing : Nat]
  /\ \A fetch \in Fetches : fetch \subseteq Nat /\ \A a, b \in fetch : a = b

VARIABLES
  now,
  frames,     \* the frames given to passes, numbered in their order
  pass,       \* the pass just made, what it was given and its plan, or NoPass
  flight,     \* datagrams scheduled that have neither come nor been lost
  received,   \* datagrams that came
  recovery,   \* recoveries under way
  done,       \* blocks completed, how and when
  givenUp,    \* blocks whose recovery was decided as Expire
  shortfalls  \* history: recoveries that left their block incomplete

vars == <<now, frames, pass, flight, received, recovery, done, givenUp, shortfalls>>

PassOf(given) == [given |-> given, plan |-> Plan(given)]

NoPass == PassOf([frames |-> <<>>, ready |-> 0, queueDelay |-> 0, inFlight |-> 0, maxInFlight |-> 0])

Init ==
  /\ now = 0
  /\ frames = <<>>
  /\ pass = NoPass
  /\ flight = {} /\ received = {}
  /\ recovery = {} /\ done = {} /\ givenUp = {} /\ shortfalls = {}

BlocksOf(f) == {[n |-> f.n, block |-> b] : b \in DOMAIN f.blocks}
Blocks == UNION {BlocksOf(frames[n]) : n \in DOMAIN frames}
OfBlock(dgs, id) == {dg \in dgs : dg.n = id.n /\ dg.block = id.block}
SourceCount(id) == frames[id.n].blocks[id.block].source
InFlight == {x.dg : x \in flight}
IsDone(id) == \E d \in done : d.id = id

Completes(id, via) ==
  IF IsDone(id) THEN done
  ELSE done \cup {[id |-> id, via |-> via, outcome |-> ObserveCompletion(frames[id.n].deadline, now)]}

-----------------------------------------------------------------------------

Numbered(batch) ==
  [i \in DOMAIN batch |->
     [n |-> Len(frames) + i, stream |-> batch[i].stream, content |-> batch[i].content,
      deadline |-> now + batch[i].latency, blocks |-> batch[i].blocks]]

PlanPass(batch, delay, limit) ==
  /\ Len(frames) + Len(batch) <= MaxFrames
  /\ pass' = PassOf([frames |-> Numbered(batch), ready |-> now + delay, queueDelay |-> delay,
                     inFlight |-> Cardinality(flight), maxInFlight |-> limit])
  /\ flight' = flight \cup Range(pass'.plan.scheduled)
  /\ frames' = frames \o Numbered(batch)
  /\ UNCHANGED <<now, received, recovery, done, givenUp, shortfalls>>

Arrive(x) ==
  LET id == [n |-> x.dg.n, block |-> x.dg.block]
  IN /\ x.at <= now
     /\ flight' = flight \ {x}
     /\ received' = received \cup {x.dg}
     /\ done' = IF Cardinality(OfBlock(received', id)) >= SourceCount(id) THEN Completes(id, "wire") ELSE done
     /\ pass' = NoPass
     /\ UNCHANGED <<now, frames, recovery, givenUp, shortfalls>>

Lose(x) ==
  /\ flight' = flight \ {x}
  /\ pass' = NoPass
  /\ UNCHANGED <<now, frames, received, recovery, done, givenUp, shortfalls>>

(* uncovered_source_symbols, after what has come and what is in flight      *)
Deficit(id) ==
  Max({SourceCount(id) - Cardinality(OfBlock(received, id)) - Cardinality(OfBlock(InFlight, id)), 0})

Recover(id, path, fetch) ==
  LET decision == DecideRecovery(now, frames[id.n].deadline, Deficit(id), path, fetch)
  IN /\ ~IsDone(id) /\ id \notin givenUp /\ \A r \in recovery : r.id # id
     /\ \/ /\ decision.action \in {"repair", "fetch"}
           /\ recovery' = recovery \cup {[id |-> id, decision |-> decision, counted |-> OfBlock(InFlight, id)]}
           /\ UNCHANGED givenUp
        \/ /\ decision.action = "expire"
           /\ givenUp' = givenUp \cup {id}
           /\ UNCHANGED recovery
     /\ pass' = NoPass
     /\ UNCHANGED <<now, frames, flight, received, done, shortfalls>>

(* The recovery comes with what it was asked for.                           *)
RecoveryArrives(r) ==
  /\ r.decision.at <= now
  /\ recovery' = recovery \ {r}
  /\ \/ /\ IsDone(r.id)
        /\ UNCHANGED <<done, shortfalls>>
     \/ /\ ~IsDone(r.id)
        /\ \/ r.decision.action = "fetch"
           \/ Cardinality(OfBlock(received, r.id)) + r.decision.symbols >= SourceCount(r.id)
        /\ done' = Completes(r.id, "recovery")
        /\ UNCHANGED shortfalls
     \/ /\ ~IsDone(r.id)
        /\ r.decision.action = "repair"
        /\ Cardinality(OfBlock(received, r.id)) + r.decision.symbols < SourceCount(r.id)
        /\ shortfalls' = shortfalls \cup {[id |-> r.id, missing |-> r.counted \ received]}
        /\ UNCHANGED done
  /\ pass' = NoPass
  /\ UNCHANGED <<now, frames, flight, received, givenUp>>

(* A recovery exceeds its estimate by less than the safety margin.          *)
Tick ==
  /\ now < MaxTime
  /\ \A r \in recovery : now + 1 < r.decision.at + Max({SafetyMargin, 1})
  /\ now' = now + 1
  /\ pass' = NoPass
  /\ UNCHANGED <<frames, flight, received, recovery, done, givenUp, shortfalls>>

Next ==
  \/ \E batch \in Batches, delay \in QueueDelays, limit \in InFlightLimits : PlanPass(batch, delay, limit)
  \/ \E x \in flight : Arrive(x) \/ Lose(x)
  \/ \E id \in Blocks, path \in Paths, fetch \in Fetches : Recover(id, path, fetch)
  \/ \E r \in recovery : RecoveryArrives(r)
  \/ Tick

Spec == Init /\ [][Next]_vars

-----------------------------------------------------------------------------
(* Properties.                                                              *)

GivenFrames == Range(Scanned(pass.given.frames))
AllOf(f) == UNION {Range(DatagramsOf(f, b, role)) : b \in DOMAIN f.blocks, role \in {"source", "repair"}}
Scheduled == {s.dg : s \in Range(pass.plan.scheduled)}
IsSource(dg) == dg.esi < SourceCount([n |-> dg.n, block |-> dg.block])

(* A pass never brings more in flight than its policy allows, whatever      *)
(* earlier passes under other policies have left there.                     *)
CarrierIsNotOverrun ==
  [][flight' \subseteq flight \/ Cardinality(flight') <= pass'.given.maxInFlight]_vars

(* What is in flight left, or leaves, before its frame expires: the queue   *)
(* delay and the place in the paced burst are counted in.                   *)
SentInTime == \A x \in flight : x.at < frames[x.dg.n].deadline

(* No datagram is forgotten silently: a pass that does not report its limit *)
(* has scheduled, dropped or deferred each datagram of its frames, once.    *)
PassIsAccounted ==
  LET all == UNION {AllOf(f) : f \in GivenFrames}
      plan == pass.plan
  IN /\ Cardinality(Scheduled) = Len(plan.scheduled) /\ Scheduled \cap plan.dropped = {}
     /\ plan.limit \/ Len(plan.scheduled) + Cardinality(plan.dropped) + plan.blocked = Cardinality(all)

(* A live datagram that a pass leaves behind gave way only to what matters  *)
(* more: nothing passes important source but important source, repair that  *)
(* is not urgent passes no source, and among sources of one kind the first  *)
(* to expire goes first.                                                    *)
DeferredGaveWay ==
  \A f, g \in GivenFrames : \A x \in AllOf(f) \ (Scheduled \cup pass.plan.dropped), y \in AllOf(g) \cap Scheduled :
    IsSource(x) =>
      /\ Important(f) => IsSource(y) /\ ObjectKind(g) <= ObjectKind(f)
      /\ IsSource(y) \/ UrgentRepair(g, pass.given.ready)
      /\ IsSource(y) /\ ObjectKind(f) = ObjectKind(g) => g.deadline <= f.deadline

(* A recovery that was decided and came no later than its margin completes  *)
(* its block before the deadline.                                           *)
RecoveryIsInTime == \A d \in done : d.via = "recovery" => d.outcome.hit

(* A recovery leaves its block incomplete only if a datagram that the       *)
(* decision counted as in flight has not come: the repair asked for, in the *)
(* bound or not at all, covers the rest.                                    *)
RecoveryCovers == \A s \in shortfalls : s.missing # {}

(* Once nothing of a frame is in flight, the loss outcome computed from the *)
(* datagrams that did not come names as failed exactly the blocks that the  *)
(* wire did not complete, and for a frame that the wire completed alone it  *)
(* splits the repair that came into what made up for a lost source symbol   *)
(* and what was not needed.                                                 *)
LossIsAccounted ==
  \A n \in DOMAIN frames :
    LET f == frames[n]
        came == AllOf(f) \cap received
        decoded == \A id \in BlocksOf(f) : \E d \in done : d.id = id /\ d.via = "wire"
        outcome == LossOutcome(f, AllOf(f) \ received, decoded)
    IN AllOf(f) \cap InFlight = {} =>
         /\ \A id \in BlocksOf(f) :
              /\ id.block \in outcome.failed => \A d \in done : d.id = id => d.via = "recovery"
              /\ id.block \notin outcome.failed => IsDone(id)
         /\ outcome.lostSource + outcome.lostRepair + Cardinality(came) = Cardinality(AllOf(f))
         /\ decoded => /\ outcome.failed = {}
                       /\ outcome.repaired + outcome.unused = Cardinality({dg \in came : ~IsSource(dg)})

=============================================================================
