----------------------------- MODULE AudioSession -----------------------------
(***************************************************************************)
(* music-audio-session: MultichannelAudioReceiver on top of the multichannel *)
(* decoder, with its assemblies of epochs, its window of ignored blocks and  *)
(* the playout buffer.  The sender of MultichannelAudioFec gives each epoch  *)
(* a pts.  The playout clock asks for one pts after another and is not asked *)
(* for the past.                                                             *)
(*                                                                         *)
(* A shard of epoch n says which epoch, pts and group it is of.  One sender  *)
(* that never resets its block id gives an epoch a block id of its own, so   *)
(* the shards of an assembly agree and EpochAssembly::push does not fail,    *)
(* and the session knows an epoch by its ordinal as well as by its id.       *)
(* inflight and inflight_order, ignored_blocks and ignored_order are again   *)
(* the same ids twice: the queues stand for both.                            *)
(***************************************************************************)
EXTENDS MultichannelAudioFec

CONSTANTS
  MaxAssembling, \* max_inflight_epochs
  MaxIgnored,    \* max_ignored_blocks
  MaxBuffered,   \* max_buffered_epochs
  GroupSize,     \* shards (fragments) of a group
  PtsSteps       \* how far the pts of an epoch is after that of the last one

ASSUME SessionAssumption ==
  /\ {MaxAssembling, MaxIgnored, MaxBuffered, GroupSize} \subseteq Nat \ {0}
  /\ \A k \in Shards : k % GroupSize = 0
  /\ PtsSteps \subseteq Nat /\ PtsSteps # {} /\ IsFiniteSet(PtsSteps)

NeverPlayed == -1

VARIABLES
  pts,       \* the pts of the epochs encoded
  assembly,  \* inflight: the shards gathered of each epoch
  order,     \* inflight_order
  ignored,   \* ignored_order
  buffer,    \* playout.epochs, by pts
  last,      \* playout.last_played_pts
  decoded,   \* history: the epochs whose block RaptorQ decoded
  completed, \* history: how often the completion of an epoch was reported
  groups,    \* history: how often each group of an epoch was reported
  dropped,   \* history: the epochs the session gave up
  played     \* history: how often an epoch was returned for a pts

receiver == <<assembly, order, ignored, buffer, last>>
outcomes == <<decoded, completed, groups, dropped, played>>
sessionVars == <<vars, pts, receiver, outcomes>>

Pts == 0..MaxEpochs * Max(PtsSteps)
Groups == 0..(Max(Shards) \div GroupSize)-1
AllShards(n) == 0..sent[n].k-1
ShardsOfGroup(g) == {i \in ShardIndices : i \div GroupSize = g}

(* The shards of epoch n that the decoder has returned.                     *)
Returned(n) == {i \in ShardIndices : returned[n][i] > 0}

SessionInit ==
  /\ Init
  /\ pts = <<>>
  /\ assembly = <<>> /\ order = <<>> /\ ignored = <<>>
  /\ buffer = <<>> /\ last = NeverPlayed
  /\ decoded = {}
  /\ completed = [n \in Epochs |-> 0]
  /\ groups = [n \in Epochs |-> [g \in Groups |-> 0]]
  /\ dropped = {}
  /\ played = [p \in Pts |-> 0]

(* MultichannelAudioSender::encode_epoch *)
EncodeEpochAt(step, k) ==
  /\ EncodeEpoch(k)
  /\ pts' = Append(pts, step + IF pts = <<>> THEN 0 ELSE Last(pts))
  /\ UNCHANGED <<receiver, outcomes>>

-----------------------------------------------------------------------------
(* Assemblies and the blocks that are ignored.                              *)

Without(f, keys) == Restrict(f, DOMAIN f \ keys)

(* slip: the window of ignored blocks is one too short *)
IgnoreOneLess(queue, n) ==
  IF n \in Range(queue) THEN queue
  ELSE IF Len(queue) >= MaxIgnored - 1 THEN Append(Tail(queue), n)
  ELSE Append(queue, n)

(* remember_ignored *)
RememberIgnored(queue, n) ==
  IF n \in Range(queue) THEN queue
  ELSE IF Len(queue) >= MaxIgnored THEN Append(Tail(queue), n)
  ELSE Append(queue, n)

(* ensure_inflight_slot: the epoch that loses its assembly to epoch n       *)
Evicted(n) ==
  IF n \notin DOMAIN assembly /\ Len(order) >= MaxAssembling THEN {Head(order)} ELSE {}

(* slip: equal pts is in time *)
LateWhenOlder(p) == last # NeverPlayed /\ p < last

IsLate(p) == last # NeverPlayed /\ p <= last

(* ExactMultichannelAudioPlayoutBuffer::insert: the first epoch of a pts    *)
(* stays, and the oldest pts is evicted when there is no room.              *)
Inserted(p, n) ==
  LET b == [q \in DOMAIN buffer \cup {p} |-> IF q = p THEN n ELSE buffer[q]]
  IN IF IsLate(p) \/ p \in DOMAIN buffer THEN buffer
     ELSE IF Cardinality(DOMAIN b) > MaxBuffered THEN Without(b, {Min(DOMAIN b)})
     ELSE b

(* The shards of epoch n, which is neither ignored nor late, join its       *)
(* assembly; the epoch completes when all its groups are whole.             *)
Assemble(n, shards) ==
  LET before == IF n \in DOMAIN assembly THEN assembly[n] ELSE {}
      now == before \cup shards
      lost == Evicted(n)
      kept == Without(assembly, lost)
      queue == Retained(order, lost)
  IN /\ ignored' = IF lost = {} THEN ignored ELSE RememberIgnored(ignored, Head(order))
     /\ dropped' = dropped \cup lost
     /\ groups' = [groups EXCEPT ![n] = [g \in Groups |->
          IF ShardsOfGroup(g) \subseteq now /\ ~(ShardsOfGroup(g) \subseteq before) THEN @[g] + 1 ELSE @[g]]]
     /\ IF now = AllShards(n)
        THEN /\ assembly' = Without(kept, {n})
             /\ order' = Retained(queue, {n})
             /\ completed' = [completed EXCEPT ![n] = @ + 1]
             /\ buffer' = Inserted(pts[n], n)
        ELSE /\ assembly' = [m \in DOMAIN kept \cup {n} |-> IF m = n THEN now ELSE kept[m]]
             /\ order' = IF n \in DOMAIN assembly THEN queue ELSE Append(queue, n)
             /\ UNCHANGED <<completed, buffer>>

-----------------------------------------------------------------------------
(* MultichannelAudioReceiver.                                               *)

(* push_datagram: what the decoder returns, if anything, joins the assembly *)
(* of its epoch unless that is ignored or late.                             *)
Receive(n, esi) ==
  /\ PushArrival(n, esi)
  /\ decoded' = decoded \cup
       {m \in {n} : sent[m].id \in Range(audio'.completed) \ Range(audio.completed)}
  /\ LET shards == {i \in ShardIndices : returned'[n][i] > returned[n][i]}
     IN IF shards = {} THEN UNCHANGED <<assembly, order, ignored, buffer, completed, groups, dropped>>
        ELSE IF n \in Range(ignored) \/ IsLate(pts[n])
        THEN /\ dropped' = dropped \cup {n}
             /\ UNCHANGED <<assembly, order, ignored, buffer, completed, groups>>
        ELSE Assemble(n, shards)
  /\ UNCHANGED <<pts, last, played>>

(* drop_inflight of the given epochs, whose order in the map is arbitrary   *)
DropInFlight(epochs) ==
  /\ assembly' = Without(assembly, epochs)
  /\ order' = Retained(order, epochs)
  /\ \E drops \in SetToSeqs(epochs) : ignored' = FoldLeft(RememberIgnored, ignored, drops)
  /\ dropped' = dropped \cup epochs

(* take_for_playout: give up the assemblies through p, then read p.         *)
TakeForPlayout(p) ==
  /\ p >= last
  /\ DropInFlight({n \in DOMAIN assembly : pts[n] <= p})
  /\ last' = p
  /\ buffer' = Without(buffer, {q \in DOMAIN buffer : q <= p})
  /\ played' = IF p \in DOMAIN buffer THEN [played EXCEPT ![p] = @ + 1] ELSE played
  /\ UNCHANGED <<vars, pts, decoded, completed, groups>>

(* expire_before *)
ExpireBefore(p) ==
  /\ DropInFlight({n \in DOMAIN assembly : pts[n] < p})
  /\ buffer' = Without(buffer, {q \in DOMAIN buffer : q < p})
  /\ UNCHANGED <<vars, pts, last, decoded, completed, groups, played>>

SessionNext ==
  \/ \E step \in PtsSteps, k \in Shards : EncodeEpochAt(step, k)
  \/ \E n \in Sent : \E esi \in 0..sent[n].k+RepairCount-1 : Receive(n, esi)
  \/ \E p \in Pts : TakeForPlayout(p)
  \/ \E p \in Pts : ExpireBefore(p)

SessionSpec == SessionInit /\ [][SessionNext]_sessionVars

-----------------------------------------------------------------------------
(* Properties.                                                              *)

(* Nothing is kept for a moment that was played: no assembly and no         *)
(* buffered epoch has a pts the playout clock has reached.  So a pts is     *)
(* played once, though two representations may share it and the second may  *)
(* complete after the first was played.                                     *)
NothingPlayedIsHeld ==
  /\ \A n \in DOMAIN assembly : pts[n] > last
  /\ \A p \in DOMAIN buffer : p > last /\ pts[buffer[p]] = p
  /\ \A p \in Pts : played[p] <= 1

(* An assembly has every shard that the decoder returned of its epoch.  The *)
(* decoder returns a shard only once, so an assembly without one of them    *)
(* could never complete, whatever RaptorQ recovers.                         *)
AssembliesCanComplete ==
  \A n \in DOMAIN assembly : assembly[n] = Returned(n) /\ assembly[n] # AllShards(n)

(* An epoch that RaptorQ decoded is either reported whole, once, and each   *)
(* of its groups at most once, or given up by the session before it could:  *)
(* it is never both, in whatever order the calls come.                      *)
DecodedEpochsAreReported ==
  \A n \in Sent :
    /\ n \in decoded => completed[n] = IF n \in dropped THEN 0 ELSE 1
    /\ \A g \in Groups : groups[n][g] <= 1

=============================================================================
