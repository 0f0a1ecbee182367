------------------------------ MODULE AudioDecoder -----------------------------
(***************************************************************************)
(* MultichannelAudioFecDecoder: every epoch of audio is one FEC block whose *)
(* source symbols are self-describing shards.  The decoder returns a shard  *)
(* as soon as its datagram comes, and the shards still owed when RaptorQ    *)
(* recovers the block.  It bounds the epochs in flight by a queue of its    *)
(* own, over the window of block ids that the DatagramFecDecoder it owns    *)
(* keeps by itself.  Operators on a decoder record, as in FecDecoder.       *)
(*                                                                         *)
(* in_flight and in_flight_order, and completed and completed_order, are    *)
(* one set and one queue of the same ids: the queue stands for both.        *)
(* Shards and objects are those of the encoder, so decode_symbol and the    *)
(* check of the object's length do not fail.                                *)
(***************************************************************************)
EXTENDS FecDecoder, SequencesExt

CONSTANTS
  MaxInFlight,   \* max_in_flight_blocks
  MaxCompleted   \* max_completed_blocks

ASSUME AudioDecoderAssumption == MaxInFlight \in Nat \ {0} /\ MaxCompleted \in Nat \ {0}

NewAudioDecoder ==
  [fec |-> NewDecoder, delivered |-> <<>>, inFlight |-> <<>>, completed |-> <<>>]

(* slip: the delivered shards are not kept by block *)
DeliveredByAnyBlock(a, id) == UNION Range(a.delivered)

Delivered(a, id) == IF id \in DOMAIN a.delivered THEN a.delivered[id] ELSE {}

Forget(delivered, id) == Restrict(delivered, DOMAIN delivered \ {id})

(* VecDeque::retain, of the ids that are not in the set: SelectSeq, but as a *)
(* fold, which has a definition that the prover can unfold.                 *)
Retained(queue, gone) ==
  FoldLeft(LAMBDA kept, id : IF id \in gone THEN kept ELSE Append(kept, id), <<>>, queue)

-----------------------------------------------------------------------------
(* The closed epochs, and the queue of those in flight.                     *)

(* slip: the window is one id too short *)
RememberOneLess(completed, id) ==
  IF id \in Range(completed) THEN completed
  ELSE IF Len(completed) >= MaxCompleted - 1 THEN Append(Tail(completed), id)
  ELSE Append(completed, id)

RememberClosed(completed, id) ==
  IF id \in Range(completed) THEN completed
  ELSE IF Len(completed) >= MaxCompleted THEN Append(Tail(completed), id)
  ELSE Append(completed, id)

(* slip: the block stays in the queue *)
CloseKeepsPlace(a, id) ==
  [a EXCEPT !.delivered = Forget(@, id), !.completed = RememberClosed(@, id)]

CloseBlock(a, id) ==
  [fec |-> a.fec,
   inFlight |-> Retained(a.inFlight, {id}),
   delivered |-> Forget(a.delivered, id),
   completed |-> RememberClosed(a.completed, id)]

(* slip: the evicted block is not expired in the decoder below *)
EvictOldestHalfway(a) ==
  LET oldest == Head(a.inFlight)
  IN [a EXCEPT !.inFlight = Tail(@), !.delivered = Forget(@, oldest),
               !.completed = RememberClosed(@, oldest)]

EvictOldest(a) ==
  LET oldest == Head(a.inFlight)
  IN [fec |-> Close(a.fec, oldest),
      inFlight |-> Tail(a.inFlight),
      delivered |-> Forget(a.delivered, oldest),
      completed |-> RememberClosed(a.completed, oldest)]

ObserveInFlight(a, id) ==
  LET b == [a EXCEPT !.inFlight = Append(@, id)]
  IN IF id \in Range(a.inFlight) THEN a
     ELSE IF Len(b.inFlight) > MaxInFlight THEN EvictOldest(b)
     ELSE b

-----------------------------------------------------------------------------

SourceShard(p) == IF p.esi < p.k THEN {p.esi} ELSE {}

(* slip: a shard is not recorded when it is returned *)
DeliverUnrecorded(a, p) == a

(* slip: a shard is taken to come after all shards before it *)
DeliverUpTo(a, p) ==
  [a EXCEPT !.delivered = [id \in DOMAIN @ \cup {p.id} |->
     IF id = p.id THEN Delivered(a, id) \cup {i \in 0..p.k-1 : i <= p.esi} ELSE @[id]]]

DeliverSource(a, p) ==
  [a EXCEPT !.delivered = [id \in DOMAIN @ \cup {p.id} |->
     IF id = p.id THEN Delivered(a, id) \cup SourceShard(p) ELSE @[id]]]

(* MultichannelAudioFecDecoder::push_datagram: the set of what a datagram   *)
(* may lead to, as [a |-> the decoder, shards |-> the shards returned].     *)
PushAudio(a, p) ==
  IF p.id \in Range(a.completed) THEN {[a |-> a, shards |-> {}]}
  ELSE {LET b == [a EXCEPT !.fec = o.d]
            c == ObserveInFlight(b, p.id)
        IN CASE o.out = "error" -> [a |-> b, shards |-> {}]
             [] o.out = "none" ->
                  [a |-> DeliverSource(c, p),
                   shards |-> SourceShard(p) \ Delivered(c, p.id)]
             [] o.out = "decoded" ->
                  [a |-> CloseBlock(b, p.id), shards |-> 0..p.k-1 \ Delivered(b, p.id)] :
          o \in PushDatagram(a.fec, p)}

ExpireAudio(a, id) == CloseBlock([a EXCEPT !.fec = Close(@, id)], id)

=============================================================================
