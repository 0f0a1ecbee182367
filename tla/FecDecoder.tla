------------------------------ MODULE FecDecoder ------------------------------
(***************************************************************************)
(* DatagramFecDecoder of raptorq-datagram-fec without its sequence tracker: *)
(* the RaptorQ state of the blocks in flight and the window of closed block *)
(* ids.  The decoder is a record of operators, so that every layer that     *)
(* owns one (audio, media, transport) uses the same definitions.            *)
(*                                                                         *)
(* A datagram is [id, k, esi]: the block id, the geometry of the block      *)
(* (transfer_length, source_symbols and symbol_size, told apart by the      *)
(* number of source symbols k) and the encoding symbol id.  A datagram that *)
(* fails its header, CRC, source block number or symbol size check changes  *)
(* nothing here, so it has no operator.                                     *)
(*                                                                         *)
(* An operator marked "slip" is no part of the model: it is the mistake     *)
(* that the runs must notice.                                               *)
(***************************************************************************)
EXTENDS Integers, FiniteSets, Functions

CONSTANTS
  IdMod,           \* block ids are taken modulo IdMod (2^32)
  CompletedWindow  \* COMPLETED_WINDOW

ASSUME DecoderAssumption ==
  /\ IdMod \in Nat \ {0}
  /\ CompletedWindow \in Nat \ {0} /\ CompletedWindow < IdMod

Ids == 0..IdMod-1

NewDecoder == [blocks |-> <<>>, completed |-> {}]

InFlight(d) == DOMAIN d.blocks

-----------------------------------------------------------------------------
(* The external RaptorQ decoder of one block of k source symbols.  Fewer    *)
(* than k distinct symbols never decode, the k source symbols always do;    *)
(* any other k symbols almost always do, but may not.                       *)

CanDecode(k, symbols) == Cardinality(symbols) >= k
MustDecode(k, symbols) == 0..k-1 \subseteq symbols

-----------------------------------------------------------------------------

(* current_block_id.wrapping_sub(COMPLETED_WINDOW) *)
Cutoff(current) == (current - CompletedWindow) % IdMod

(* slip: the window is one id too short *)
RetainsNewer(current, id) == current < CompletedWindow \/ id > Cutoff(current)

(* slip: no exemption for the first ids of the flow *)
RetainsFromCutoff(current, id) == id >= Cutoff(current)

(* slip: everything before the current id is dropped *)
RetainsCurrent(current, id) == id >= current

(* slip: nothing is dropped *)
RetainsAll(current, id) == TRUE

Retains(current, id) == current < CompletedWindow \/ id >= Cutoff(current)

Prune(d, current) ==
  [blocks |-> RestrictDomain(d.blocks, LAMBDA id : Retains(current, id)),
   completed |-> {id \in d.completed : Retains(current, id)}]

(* slip: the id is not remembered *)
CloseForgets(d, id) ==
  Prune([blocks |-> Restrict(d.blocks, InFlight(d) \ {id}),
         completed |-> d.completed], id)

(* slip: the decoder of the block is kept *)
CloseKeepsState(d, id) ==
  Prune([blocks |-> d.blocks, completed |-> d.completed \cup {id}], id)

(* DatagramFecDecoder::expire_block, and what push_datagram does with a     *)
(* block that decoded.                                                      *)
Close(d, id) ==
  Prune([blocks |-> Restrict(d.blocks, InFlight(d) \ {id}),
         completed |-> d.completed \cup {id}], id)

DropBlock(d, id) ==
  [blocks |-> Restrict(d.blocks, InFlight(d) \ {id}), completed |-> d.completed]

Held(d, id) == IF id \in InFlight(d) THEN d.blocks[id].symbols ELSE {}

Hold(d, p) ==
  [blocks |-> [id \in InFlight(d) \cup {p.id} |->
                 IF id = p.id THEN [k |-> p.k, symbols |-> Held(d, id) \cup {p.esi}]
                              ELSE d.blocks[id]],
   completed |-> d.completed]

(* slip: the geometry of a known block is not compared *)
SameGeometryAlways(d, p) == TRUE

SameGeometry(d, p) == p.id \in InFlight(d) => d.blocks[p.id].k = p.k

(* DatagramFecDecoder::push_datagram: the set of what a valid datagram may  *)
(* lead to, as [d |-> the decoder, out |-> "none", "decoded" or "error"].   *)
PushDatagram(d, p) ==
  LET symbols == Held(d, p.id) \cup {p.esi} IN
  IF p.id \in d.completed THEN {[d |-> d, out |-> "none"]}
  ELSE IF ~SameGeometry(d, p) THEN {[d |-> DropBlock(d, p.id), out |-> "error"]}
  ELSE IF p.esi \in Held(d, p.id) THEN {[d |-> d, out |-> "none"]}
  ELSE {o \in {[d |-> Close(d, p.id), out |-> "decoded"],
               [d |-> Hold(d, p), out |-> "none"]} :
          IF o.out = "decoded" THEN CanDecode(p.k, symbols)
                               ELSE ~MustDecode(p.k, symbols)}

=============================================================================
