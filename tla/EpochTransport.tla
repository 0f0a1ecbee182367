---------------------------- MODULE EpochTransport ----------------------------
(***************************************************************************)
(* MultichannelAudioFec over a MultichannelAudioTransportAdapter: an epoch  *)
(* of channel groups is cut, wrapped and sent datagram by datagram, and the *)
(* send loop stops at the first error.  The application then has an epoch   *)
(* of which only a part is on the wire, and encodes the next one.           *)
(*                                                                         *)
(* The network gives back in any order what the loop has sent, so that the  *)
(* loop can be one step: its interleaving with arrivals makes no difference *)
(* to the receiver.                                                         *)
(*                                                                         *)
(* In place of the flow an application may, once, cut an epoch of any       *)
(* groups for any adapter: PacketizeEpoch.                                  *)
(***************************************************************************)
EXTENDS MultichannelAudioFec, AudioPacketizer

CONSTANTS
  Adapter,    \* the adapter of the flow
  Config,     \* the encoder's MultichannelAudioFecConfig, before prepare_fec_config
  Epoch,      \* the groups of an epoch of the flow
  Session,    \* its session id
  Adapters,   \* adapters, configs and groups that the packetizer is tried with
  Configs,
  Groupings

Prepared == PrepareFecConfig(Adapter, Config)

(* The geometry of an epoch of the flow has a number of shards that the     *)
(* receiver is modelled with.  Sizes and counts are unsigned.               *)
ASSUME EpochAssumption ==
  /\ Config.repair \in Nat
  /\ \A adapter \in Adapters :
       /\ adapter.maxSize \in Nat
       /\ \A id \in adapter.stream : id \in Nat \X Nat /\ adapter.stream = {id}
  /\ Configs \subseteq [maxSize : Nat, overhead : Nat, repair : Nat, maxSource : Nat]
  /\ Groupings \subseteq Seq(Nat)
  /\ \A size \in GeometryForGroups(Prepared, Epoch) : SourceCount(Epoch, size) \in Shards

VARIABLES
  wire,       \* for each epoch, the symbols that its send loop has sent
  packetized  \* what PacketizeEpoch was given and the geometry it got

transportVars == <<vars, wire, packetized>>

TransportInit == Init /\ wire = <<>> /\ packetized = {}

(* prepare_fec_config and geometry_for_groups                               *)
PacketizeEpoch ==
  /\ wire = <<>> /\ packetized = {}
  /\ \E adapter \in Adapters, config \in Configs, groups \in Groupings :
       \E c \in {PrepareFecConfig(adapter, config)} :
         /\ HasBudget(c) /\ groups # <<>>
         /\ packetized' = {[adapter |-> adapter, config |-> c, groups |-> groups,
                            sizes |-> GeometryForGroups(c, groups)]}
  /\ UNCHANGED <<vars, wire>>

(* encode_epoch and send_epoch, of which the first `count' sends succeed    *)
SendEpoch(count) ==
  \E size \in GeometryForGroups(Prepared, Epoch) :
    LET k == SourceCount(Epoch, size)
    IN /\ packetized = {}
       /\ EncodeEpoch(k)
       /\ \E datagrams \in EncodedEpoch(Prepared, Epoch, size, Session) :
            \E messages \in WrapEpoch(Adapter, datagrams, k) :
              /\ count <= Len(messages)
              /\ wire' = Append(wire, {messages[i].datagram.esi : i \in 1..count})
       /\ UNCHANGED packetized

(* push_datagram of the adapter, of a message of its own stream; any other  *)
(* is an error that changes nothing.                                        *)
ReceiveMessage(n, esi) ==
  /\ esi \in wire[n]
  /\ PushArrival(n, esi)
  /\ UNCHANGED <<wire, packetized>>

Expire(n) == ExpireBlock(n) /\ UNCHANGED <<wire, packetized>>

TransportNext ==
  \/ PacketizeEpoch
  \/ \E count \in 0..Config.maxSource + Config.repair : SendEpoch(count)
  \/ \E n \in Sent : \E esi \in wire[n] : ReceiveMessage(n, esi)
  \/ \E n \in Sent : Expire(n)

TransportSpec == TransportInit /\ [][TransportNext]_transportVars

-----------------------------------------------------------------------------
(* Properties, beside those of MultichannelAudioFec.                        *)

(* geometry_for_groups looks at the fragment sizes that split a group       *)
(* evenly only; none of the others would need fewer bytes on the wire, and  *)
(* it finds no geometry only where there is none.                           *)
GeometryIsOptimal ==
  \A p \in packetized :
    LET sizes == {size \in 1..MaxFragmentPayload(p.config) : IsFeasible(p.config, p.groups, size)}
    IN /\ Cardinality(p.sizes) <= 1
       /\ p.sizes = {} => sizes = {}
       /\ \A best \in p.sizes, size \in sizes :
            ~Less(Score(p.config, p.groups, size), Score(p.config, p.groups, best))

(* The shards carry every byte of every group once and in order, and each   *)
(* is valid where it is read.                                               *)
Tiles(groups, size) ==
  LET shards == ShardsOf(groups, size)
  IN /\ Len(shards) = SourceCount(groups, size)
     /\ \A i \in DOMAIN shards : IsValidShard(shards[i], groups, ShardHeader + size)
     /\ \A g \in DOMAIN groups :
          LET own == {i \in DOMAIN shards : shards[i].group = g}
          IN /\ \A i \in own : /\ shards[i].index = Cardinality({j \in own : j < i})
                               /\ shards[i].count = Cardinality(own)
             /\ \A byte \in 0..groups[g]-1 :
                  Cardinality({i \in own :
                    shards[i].offset <= byte /\ byte < shards[i].offset + shards[i].len}) = 1

(* The shards of a geometry tile its epoch, and the epoch gets through the  *)
(* adapter that its config was prepared for if its symbols fit one block of *)
(* RaptorQ, which geometry_for_groups does not ask: neither encode_epoch    *)
(* nor wrap_epoch refuses it then, and every message fits the transport and *)
(* tells a relay its role and its session.  The framing is read one way     *)
(* only: an adapter finds the whole datagram in it, the MAGIC of FEC first, *)
(* if and only if it has the same stream id, even where a stream id is made *)
(* of the words that follow it.                                             *)
EpochsGetThrough ==
  \A p \in packetized : \A size \in p.sizes :
    LET k == SourceCount(p.groups, size)
    IN /\ Tiles(p.groups, size)
       /\ k <= MaxBlockSymbols =>
          \E datagrams \in EncodedEpoch(p.config, p.groups, size, Session) :
            \E messages \in WrapEpoch(p.adapter, datagrams, k) :
              \A i \in DOMAIN messages :
                /\ messages[i].size <= p.adapter.maxSize
                /\ \A other \in Adapters :
                     Unwrap(other, messages[i]) = {<<FecWord>>} <=> other.stream = p.adapter.stream
                /\ Inspect(datagrams[i], k, Session) = {[source |-> i <= k, session |-> {Session}]}

=============================================================================
