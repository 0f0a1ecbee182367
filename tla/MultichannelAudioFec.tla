------------------------- MODULE MultichannelAudioFec -------------------------
(***************************************************************************)
(* One contributor with its MultichannelAudioFecEncoder, a network that     *)
(* loses, duplicates and reorders, and one MultichannelAudioFecDecoder.  An *)
(* epoch is named by its ordinal n; its datagrams can arrive until more     *)
(* than Delay later epochs have been encoded.                               *)
(***************************************************************************)
EXTENDS AudioDecoder

CONSTANTS
  FirstIds,      \* with_initial_block_id
  Shards,        \* numbers of source shards an epoch may have
  RepairCount,   \* MultichannelAudioFecConfig::repair_symbols
  MaxEpochs,     \* bound: epochs encoded
  Delay,         \* a datagram is delayed past at most Delay later epochs
  Expires        \* whether the application calls expire_block

ASSUME AudioAssumption ==
  /\ FirstIds \subseteq Ids
  /\ Shards \subseteq Nat \ {0} /\ IsFiniteSet(Shards) /\ RepairCount \in Nat
  /\ MaxEpochs \in Nat /\ Delay \in Nat /\ Expires \in BOOLEAN

VARIABLES
  blockId,  \* the encoder's cursor
  sent,     \* the epochs encoded: block id and number of shards
  audio,    \* the MultichannelAudioFecDecoder
  arrived,  \* history: the symbols of each epoch that arrived
  returned, \* history: how often each shard of each epoch was returned
  givenUp   \* history: the epochs evicted or expired

vars == <<blockId, sent, audio, arrived, returned, givenUp>>

Epochs == 1..MaxEpochs
Sent == 1..Len(sent)
ShardIndices == 0..Max(Shards)-1

Init ==
  /\ blockId \in FirstIds
  /\ sent = <<>>
  /\ audio = NewAudioDecoder
  /\ arrived = [n \in Epochs |-> {}]
  /\ returned = [n \in Epochs |-> [i \in ShardIndices |-> 0]]
  /\ givenUp = {}

(* encode_epoch: one block per epoch, with as many source symbols as shards *)
EncodeEpoch(k) ==
  /\ Len(sent) < MaxEpochs
  /\ sent' = Append(sent, [id |-> blockId, k |-> k])
  /\ blockId' = (blockId + 1) % IdMod
  /\ UNCHANGED <<audio, arrived, returned, givenUp>>

Deliverable(n) == n \in Sent /\ Len(sent) <= n + Delay

PushArrival(n, esi) ==
  /\ Deliverable(n) /\ esi < sent[n].k + RepairCount
  /\ \E o \in PushAudio(audio, [id |-> sent[n].id, k |-> sent[n].k, esi |-> esi]) :
       /\ audio' = o.a
       /\ returned' = [returned EXCEPT ![n] =
                         [i \in ShardIndices |-> IF i \in o.shards THEN @[i] + 1 ELSE @[i]]]
       /\ givenUp' = givenUp \cup
            {m \in Sent \ {n} : sent[m].id \in Range(audio.inFlight) \ Range(o.a.inFlight)}
  /\ arrived' = [arrived EXCEPT ![n] = @ \cup {esi}]
  /\ UNCHANGED <<blockId, sent>>

(* The playout deadline of an epoch that is still in flight has passed.     *)
ExpireBlock(n) ==
  /\ Expires
  /\ n \in Sent /\ sent[n].id \in Range(audio.inFlight)
  /\ audio' = ExpireAudio(audio, sent[n].id)
  /\ givenUp' = givenUp \cup {n}
  /\ UNCHANGED <<blockId, sent, arrived, returned>>

Next ==
  \/ \E k \in Shards : EncodeEpoch(k)
  \/ \E n \in Sent : \E esi \in 0..sent[n].k+RepairCount-1 : PushArrival(n, esi)
  \/ \E n \in Sent : ExpireBlock(n)

Spec == Init /\ [][Next]_vars

-----------------------------------------------------------------------------
(* Properties.                                                              *)

Whole(n) == \A i \in 0..sent[n].k-1 : returned[n][i] > 0
IsClosed(n) == sent[n].id \in Range(audio.completed)

(* A shard is returned once: when its datagram comes or when RaptorQ        *)
(* recovers it, never by both and never by a late copy.                     *)
ShardsAtMostOnce == \A n \in Epochs, i \in ShardIndices : returned[n][i] <= 1

(* with_in_flight_limit bounds what incomplete epochs retain: no RaptorQ     *)
(* decoder and no delivered set belongs to an epoch outside the queue.       *)
(* with_completed_window bounds the memory of the closed ones.               *)
StateIsBounded ==
  /\ IsInjective(audio.inFlight) /\ Len(audio.inFlight) <= MaxInFlight
  /\ IsInjective(audio.completed) /\ Len(audio.completed) <= MaxCompleted
  /\ InFlight(audio.fec) \subseteq Range(audio.inFlight)
  /\ DOMAIN audio.delivered \subseteq Range(audio.inFlight)

(* An epoch that is closed, or whose shards all came, was returned whole    *)
(* unless it was given up: what other epochs do costs it nothing, and what  *)
(* RaptorQ recovers fills exactly what the systematic shards left out.      *)
EpochsAreWhole ==
  \A n \in Sent :
    IsClosed(n) \/ 0..sent[n].k-1 \subseteq arrived[n] => Whole(n) \/ n \in givenUp

(* An epoch that is in flight is neither whole nor closed: the queue, which *)
(* evicts the oldest, has no place for one that needs none.                 *)
InFlightIsOpen ==
  \A n \in Sent :
    sent[n].id \in Range(audio.inFlight) => ~IsClosed(n) /\ ~(0..sent[n].k-1 \subseteq arrived[n])

(* An epoch that was given up returns nothing more: neither its late shards *)
(* nor its repair symbols start it again, whatever closed in the meantime.  *)
GivenUpIsSilent == [][\A n \in givenUp : returned'[n] = returned[n]]_vars

(* multichannel_audio.rs:853: in_flight_block_count() is the "number of     *)
(* incomplete epochs currently retaining decoder state".                    *)
InFlightRetainsState == Range(audio.inFlight) \subseteq InFlight(audio.fec)

=============================================================================
