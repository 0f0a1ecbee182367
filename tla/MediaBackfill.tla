----------------------------- MODULE MediaBackfill -----------------------------
(***************************************************************************)
(* MediaFec with a MediaBackfillStore at the sender: what loses more than   *)
(* its repair symbols can be asked for again over a reliable path, as a     *)
(* whole frame or as the datagrams that did not come, and meets in the      *)
(* decoder with what still arrives.                                         *)
(*                                                                         *)
(* The reliable path is in order and loses nothing; it carries one response *)
(* at a time, and brings it while the frame is recent.                      *)
(***************************************************************************)
EXTENDS MediaFec

CONSTANTS
  Capacity,    \* MediaBackfillStore::new
  MaxRequests  \* bound: the requests of the receiver

ASSUME BackfillAssumption == Capacity \in Nat /\ MaxRequests \in Nat

VARIABLES
  copies,    \* history: the frames encoded, [key, datagrams]
  store,     \* MediaBackfillStore.frames, the same records
  requests,  \* how many requests were made
  response,  \* what the reliable path still brings: key and datagrams
  promised   \* history: the keys whose request the store has to serve

backfill == <<copies, store, requests, response, promised>>
backfillVars == <<vars, backfill>>

NoResponse == [key |-> <<>>, datagrams |-> <<>>]

BackfillInit ==
  /\ Init
  /\ copies = <<>> /\ store = <<>> /\ requests = 0 /\ response = NoResponse /\ promised = {}

-----------------------------------------------------------------------------
(* The store.                                                               *)

Limit == Max({Capacity, 1})

(* The elements of a sequence that are not in a set: SelectSeq, but as a    *)
(* fold, which has a definition that the prover can unfold.                 *)
Retained(queue, gone) ==
  FoldLeft(LAMBDA kept, x : IF x \in gone THEN kept ELSE Append(kept, x), <<>>, queue)

(* slip: an older copy keeps its place beside the new one *)
InsertedBeside(frames, frame) ==
  LET all == Append(frames, frame)
  IN IF Len(all) > Limit THEN Tail(all) ELSE all

(* insert_encoded_frame *)
Inserted(frames, frame) ==
  LET all == Append(Retained(frames, {f \in Range(frames) : f.key = frame.key}), frame)
  IN IF Len(all) > Limit THEN Tail(all) ELSE all

(* get, as a set of at most one *)
Stored(key) == {f \in Range(store) : f.key = key}

(* fulfill: the datagrams of a frame that the request names                 *)
Fulfilled(frame, indices) ==
  LET known == Retained(indices, {x \in Range(indices) : x >= Len(frame.datagrams)})
  IN [i \in DOMAIN known |-> frame.datagrams[known[i] + 1]]

-----------------------------------------------------------------------------

(* The datagrams of the frame that encode_frame has just cut into blocks:   *)
(* frame.datagrams, whatever the order in which they are sent.              *)
LastEncoded == EncodedOrder([i \in 1..Len(blocks') - Len(blocks) |-> Len(blocks) + i])

Remember(key) ==
  LET frame == [key |-> key, datagrams |-> LastEncoded]
  IN /\ copies' = Append(copies, frame)
     /\ store' = Inserted(store, frame)
     /\ UNCHANGED <<requests, response, promised>>

SendNewFrame(s, count) == EncodeNewFrame(s, count) /\ Remember(<<s, nextSeq[s]>>)

SendAgain(key) == EncodeAgain(key) /\ Remember(key)

Arrive(i) == PushArrival(i) /\ UNCHANGED backfill

(* The newest copy of each frame, and the frames that the store still owes. *)
IsNewestCopy(c) == \A d \in DOMAIN copies : copies[d].key = copies[c].key => d <= c

IsOwed(c) ==
  /\ IsNewestCopy(c)
  /\ Cardinality({copies[d].key : d \in c..Len(copies)}) <= Limit

(* The receiver asks for the datagrams of copy c at these indices, and the  *)
(* store answers, or has nothing to answer.                                 *)
Request(c, indices) ==
  /\ requests < MaxRequests /\ requests' = requests + 1
  /\ response.datagrams = <<>>
  /\ returned[copies[c].key] = 0
  /\ promised' = IF IsOwed(c) THEN promised \cup {copies[c].key} ELSE promised
  /\ response' = [key |-> copies[c].key,
       datagrams |-> FlattenSeq(SetToSeq({Fulfilled(f, indices) : f \in Stored(copies[c].key)}))]
  /\ UNCHANGED <<vars, copies, store>>

Indices(c) == [i \in DOMAIN copies[c].datagrams |-> i - 1]

Missing(c) ==
  Retained(Indices(c), {i \in Range(Indices(c)) :
    copies[c].datagrams[i + 1].esi \in arrived[copies[c].datagrams[i + 1].block]})

RequestFrame(c) == Request(c, Indices(c))

(* With an index that the frame does not have, as the receiver may ask for. *)
RequestDatagrams(c) ==
  /\ Missing(c) # <<>>
  /\ Request(c, Append(Missing(c), Len(copies[c].datagrams)))

(* The next datagram of the response comes.                                 *)
Deliver ==
  /\ response.datagrams # <<>> /\ Recent(response.key)
  /\ PushSymbol(Head(response.datagrams).block, Head(response.datagrams).esi)
  /\ response' = [response EXCEPT !.datagrams = Tail(@)]
  /\ UNCHANGED <<sender, newest, copies, store, requests, promised>>

BackfillNext ==
  \/ \E s \in Streams, count \in Fragments : SendNewFrame(s, count)
  \/ \E key \in Keys : SendAgain(key)
  \/ \E i \in 1..Len(wire) : Arrive(i)
  \/ \E c \in DOMAIN copies : RequestFrame(c)
  \/ \E c \in DOMAIN copies : RequestDatagrams(c)
  \/ Deliver

BackfillSpec == BackfillInit /\ [][BackfillNext]_backfillVars

-----------------------------------------------------------------------------
(* Properties, beside those of MediaFec.                                    *)

(* MediaBackfillStore makes up for any loss of the frames it has to keep:    *)
(* when the response to a request for a frame, or for what did not come of   *)
(* its newest copy, has been delivered, the frame has been returned, however *)
(* it was interleaved with live datagrams and with copies encoded meanwhile. *)
(* (The window of the decoder below has to reach back as far as the store:   *)
(* see RecoveryBudgetIsKept.)                                                *)
BackfillCompletes ==
  \A key \in promised :
    response.datagrams = <<>> \/ response.key # key => returned[key] > 0

=============================================================================
