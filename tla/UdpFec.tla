-------------------------------- MODULE UdpFec --------------------------------
(***************************************************************************)
(* UdpFecSender and UdpFecReceiver: several senders, each with its encoder  *)
(* and the loop that sends the datagrams of a payload one by one, and one   *)
(* receiver with a decoder for each address it ever heard from.             *)
(* FecDatagramSender::send_fec is the same loop over another transport.     *)
(*                                                                         *)
(* A sender that is built again has a new encoder; new() gives it an        *)
(* address of its own, bind() may give it the one it had.  A send may end   *)
(* halfway, by an error or because its future is dropped.  The network      *)
(* loses, duplicates, reorders and damages datagrams.                       *)
(*                                                                         *)
(* Fairness is that of the receiver's loop, and of an application that      *)
(* calls recv_decoded again when it has returned.                           *)
(***************************************************************************)
EXTENDS FecDecoder, SequencesExt

CONSTANTS
  Senders,
  Addresses,      \* socket addresses, those of restarted senders included
  FirstAddress,   \* the address each sender has at first
  Payloads,       \* payloads of each: the source symbols of their blocks, and the repair
  ResetIds,       \* ids an application may pass to set_block_id
  MaxBlocks,      \* bound: blocks encoded, by all senders
  MaxResets,      \* bound: restarts of senders and calls of set_block_id
  MaxArrivals,    \* bound: datagrams that arrive, duplicates included
  SocketSize      \* datagrams that the receiver's socket holds

ASSUME UdpAssumption ==
  /\ FirstAddress \in [Senders -> Addresses] /\ ResetIds \subseteq Ids
  /\ \A s \in Senders : Payloads[s] \subseteq Seq(Nat \ {0}) \X Nat
  /\ {MaxBlocks, MaxResets, MaxArrivals, SocketSize} \subseteq Nat

VARIABLES
  address,    \* the local address of each UdpFecSender
  blockId,    \* DatagramFecEncoder.block_id of each
  pending,    \* the datagrams that the send loop of each has left
  blocks,     \* history: the blocks encoded, [peer, id, k]
  wire,       \* the datagrams sent, as <<block, symbol>>
  socket,     \* what the receiver's socket holds: <<peer, set of datagrams>>
  decoders,   \* UdpFecReceiver.decoders
  polling,    \* a call of recv_decoded is under way
  resets,     \* how often a sender was built again or had its id set
  reused,     \* history: the addresses at which ids may come a second time
  arrivals,   \* how many datagrams arrived
  accepted,   \* history: the symbols of each block that reached the socket
  handed      \* history: how often each block was returned

sender == <<address, blockId, pending, blocks, wire, resets, reused>>
receiver == <<socket, decoders, polling, arrivals, accepted, handed>>
vars == <<sender, receiver>>

Init ==
  /\ address = FirstAddress
  /\ blockId = [s \in Senders |-> 0]
  /\ pending = [s \in Senders |-> <<>>]
  /\ blocks = <<>> /\ wire = {}
  /\ resets = 0 /\ reused = {}
  /\ socket = <<>> /\ decoders = <<>> /\ polling = FALSE /\ arrivals = 0
  /\ accepted = [n \in 1..MaxBlocks |-> {}]
  /\ handed = [n \in 1..MaxBlocks |-> 0]

-----------------------------------------------------------------------------
(* The senders.  send() borrows its sender until the loop ends.             *)

Idle(s) == pending[s] = <<>>

Datagrams(n, count) == [i \in 1..count |-> <<n, i - 1>>]

(* encode_payload and encode_block, which spend an id for each block         *)
(* whatever becomes of it, and the datagrams that send() and send_block()    *)
(* set out to send: block after block, source symbols first.                 *)
StartSend(s, ks, repair) ==
  /\ Idle(s) /\ Len(blocks) + Len(ks) <= MaxBlocks
  /\ blocks' = blocks \o [i \in DOMAIN ks |->
                   [peer |-> address[s], id |-> (blockId[s] + i - 1) % IdMod, k |-> ks[i]]]
  /\ blockId' = [blockId EXCEPT ![s] = (@ + Len(ks)) % IdMod]
  /\ pending' = [pending EXCEPT ![s] =
       FlattenSeq([i \in DOMAIN ks |-> Datagrams(Len(blocks) + i, ks[i] + repair)])]
  /\ UNCHANGED <<address, wire, resets, reused, receiver>>

(* One send_to of the loop.                                                 *)
SendNext(s) ==
  /\ ~Idle(s)
  /\ wire' = wire \cup {Head(pending[s])}
  /\ pending' = [pending EXCEPT ![s] = Tail(@)]
  /\ UNCHANGED <<address, blockId, blocks, resets, reused, receiver>>

(* A send_to fails or the future is dropped: the rest is never sent, and    *)
(* what the encoder spent stays spent.                                      *)
SendFails(s) ==
  /\ ~Idle(s)
  /\ pending' = [pending EXCEPT ![s] = <<>>]
  /\ UNCHANGED <<address, blockId, blocks, wire, resets, reused, receiver>>

(* encoder_mut().set_block_id *)
SetBlockId(s, id) ==
  /\ Idle(s) /\ resets < MaxResets
  /\ blockId' = [blockId EXCEPT ![s] = id]
  /\ resets' = resets + 1
  /\ reused' = reused \cup
       {a \in {address[s]} : \E n \in DOMAIN blocks : blocks[n].peer = a /\ blocks[n].id >= id}
  /\ UNCHANGED <<address, pending, blocks, wire, receiver>>

Used == Range(address) \cup {blocks[n].peer : n \in DOMAIN blocks}

(* The process of a sender ends, at any point, and builds a new one.        *)
Restart(s, at) ==
  /\ resets < MaxResets
  /\ \A other \in Senders \ {s} : address[other] # at
  /\ address' = [address EXCEPT ![s] = at]
  /\ blockId' = [blockId EXCEPT ![s] = 0]
  /\ pending' = [pending EXCEPT ![s] = <<>>]
  /\ resets' = resets + 1
  /\ reused' = reused \cup ({at} \cap Used)
  /\ UNCHANGED <<blocks, wire, receiver>>

-----------------------------------------------------------------------------
(* The network.  What it damages fails the header or the CRC.               *)

Arrives(peer, datagrams) ==
  /\ arrivals < MaxArrivals /\ Len(socket) < SocketSize
  /\ arrivals' = arrivals + 1
  /\ socket' = Append(socket, <<peer, datagrams>>)
  /\ UNCHANGED <<sender, decoders, polling, handed>>

Arrival(p) ==
  /\ Arrives(blocks[p[1]].peer, {p})
  /\ accepted' = [accepted EXCEPT ![p[1]] = @ \cup {p[2]}]

DamagedArrival(p) ==
  /\ Arrives(blocks[p[1]].peer, {})
  /\ UNCHANGED accepted

-----------------------------------------------------------------------------
(* The receiver.                                                            *)

DecoderOf(peer) == IF peer \in DOMAIN decoders THEN decoders[peer] ELSE NewDecoder

WithDecoder(peer, d) ==
  [a \in DOMAIN decoders \cup {peer} |-> IF a = peer THEN d ELSE decoders[a]]

DatagramOf(p) == [id |-> blocks[p[1]].id, k |-> blocks[p[1]].k, esi |-> p[2]]

(* The application calls recv_decoded.                                      *)
CallRecv ==
  /\ ~polling /\ polling' = TRUE
  /\ UNCHANGED <<sender, socket, decoders, arrivals, accepted, handed>>

(* One turn of its loop, which ends the call when there is a block or an    *)
(* error to return.                                                         *)
RecvValid(peer, p) ==
  \E o \in PushDatagram(DecoderOf(peer), DatagramOf(p)) :
    /\ decoders' = WithDecoder(peer, o.d)
    /\ handed' = IF o.out = "decoded" THEN [handed EXCEPT ![p[1]] = @ + 1] ELSE handed
    /\ polling' = (o.out = "none")

RecvDamaged(peer) ==
  /\ decoders' = WithDecoder(peer, DecoderOf(peer))
  /\ polling' = FALSE
  /\ UNCHANGED handed

Recv ==
  /\ polling /\ socket # <<>>
  /\ LET peer == Head(socket)[1]
         datagrams == Head(socket)[2]
     IN \/ \E p \in datagrams : RecvValid(peer, p)
        \/ datagrams = {} /\ RecvDamaged(peer)
  /\ socket' = Tail(socket)
  /\ UNCHANGED <<sender, arrivals, accepted>>

Next ==
  \/ \E s \in Senders :
       \/ \E payload \in Payloads[s] : StartSend(s, payload[1], payload[2])
       \/ SendNext(s)
       \/ SendFails(s)
       \/ \E id \in ResetIds : SetBlockId(s, id)
       \/ \E at \in Addresses : Restart(s, at)
  \/ \E p \in wire : Arrival(p)
  \/ \E p \in wire : DamagedArrival(p)
  \/ CallRecv
  \/ Recv

Spec == Init /\ [][Next]_vars /\ WF_vars(Recv) /\ WF_vars(CallRecv)

-----------------------------------------------------------------------------
(* Properties.                                                              *)

Sent == 1..Len(blocks)

(* What the decoder of an address collects under an id came from that       *)
(* address, in blocks of that id and of one geometry: senders that share    *)
(* ids do not mix, and after set_block_id or a restart at the same address  *)
(* objects of different geometry do not.                                    *)
HeldIsOfItsPeer ==
  \A peer \in DOMAIN decoders : \A id \in InFlight(decoders[peer]) :
    LET held == decoders[peer].blocks[id]
    IN \A esi \in held.symbols :
         \E n \in Sent : blocks[n] = [peer |-> peer, id |-> id, k |-> held.k]
                         /\ esi \in accepted[n]

SourceArrived(n) == n \in Sent /\ 0..blocks[n].k-1 \subseteq accepted[n]

(* A block of the same address that was returned is so far ahead that what  *)
(* the decoder held of this one has been pruned.                            *)
Outrun(n) ==
  \E m \in Sent : /\ blocks[m].peer = blocks[n].peer /\ handed[m] > 0
                  /\ blocks[m].id - blocks[n].id > CompletedWindow

ReturnedOrExcused(n) ==
  n \in Sent => handed[n] > 0 \/ Outrun(n) \/ blocks[n].peer \in reused

(* recv_decoded: a block whose source symbols all got to the socket is      *)
(* returned in the end, but for two cases.  One more than COMPLETED_WINDOW  *)
(* ids ahead was returned first: prune() then drops what had arrived of     *)
(* this one, and its other symbols start it anew.  Or ids were started over *)
(* at its address, where the receiver cannot tell it from the block that    *)
(* had its id.  Nothing else swallows it: not a block as far ahead as the   *)
(* window allows, nor another sender, a damaged datagram, an error that     *)
(* ends a call, a send that failed before or a restart elsewhere.           *)
BlocksThatArriveAreReturned ==
  \A n \in 1..MaxBlocks : SourceArrived(n) ~> ReturnedOrExcused(n)

=============================================================================
