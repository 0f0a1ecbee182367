------------------------------ MODULE UdpFecProofs ------------------------------
(***************************************************************************)
(* Proofs about UdpFec, for every value of its constants.                   *)
(***************************************************************************)
EXTENDS UdpFec, Facts

-----------------------------------------------------------------------------
(* The invariant.                                                           *)

BlockType == [peer : Addresses, id : Ids, k : Nat \ {0}]

(* What is on its way is of a block that was encoded.                       *)
DatagramsAreOfBlocks ==
  /\ address \in [Senders -> Addresses]
  /\ blocks \in Seq(BlockType) /\ Len(blocks) <= MaxBlocks
  /\ pending \in [Senders -> Seq(Sent \X Nat)]
  /\ wire \subseteq Sent \X Nat
  /\ blockId \in [Senders -> Ids]
  /\ accepted \in [1..MaxBlocks -> SUBSET Nat]

(* What the socket holds came from where it says.                           *)
OfPeer(peer, datagrams) ==
  \A p \in datagrams : p \in Sent \X Nat /\ blocks[p[1]].peer = peer /\ p[2] \in accepted[p[1]]

SocketIsOfPeers ==
  /\ socket \in Seq(Addresses \X SUBSET (Sent \X Nat))
  /\ \A i \in 1..Len(socket) : OfPeer(socket[i][1], socket[i][2])

(* What decoder d of an address holds.                                      *)
HeldFrom(peer, d) ==
  \A id \in InFlight(d) : \A esi \in d.blocks[id].symbols :
    \E n \in Sent : blocks[n] = [peer |-> peer, id |-> id, k |-> d.blocks[id].k] /\ esi \in accepted[n]

IInv ==
  /\ DatagramsAreOfBlocks
  /\ SocketIsOfPeers
  /\ \A peer \in DOMAIN decoders : HeldFrom(peer, decoders[peer])

-----------------------------------------------------------------------------
(* One decoder.                                                             *)

(* A new decoder holds nothing.                                             *)
LEMMA NewHolds == ASSUME NEW peer PROVE HeldFrom(peer, NewDecoder)
BY DEF HeldFrom, NewDecoder, InFlight

(* Closing a block only forgets.                                            *)
LEMMA CloseHolds ==
  ASSUME NEW peer, NEW d, HeldFrom(peer, d), NEW id
  PROVE  HeldFrom(peer, Close(d, id))
<1> DEFINE c == Close(d, id)
<1>1. \A other \in InFlight(c) : other \in InFlight(d) /\ c.blocks[other] = d.blocks[other]
  BY DEF Close, Prune, InFlight, RestrictDomain, Restrict
<1> HIDE DEF c
<1>2. HeldFrom(peer, c)
  BY <1>1 DEF HeldFrom
<1> QED
  BY <1>2 DEF c

(* Dropping a block only forgets.                                           *)
LEMMA DropHolds ==
  ASSUME NEW peer, NEW d, HeldFrom(peer, d), NEW id
  PROVE  HeldFrom(peer, DropBlock(d, id))
<1> DEFINE c == DropBlock(d, id)
<1>1. \A other \in InFlight(c) : other \in InFlight(d) /\ c.blocks[other] = d.blocks[other]
  BY DEF DropBlock, InFlight, Restrict
<1> HIDE DEF c
<1>2. HeldFrom(peer, c)
  BY <1>1 DEF HeldFrom
<1> QED
  BY <1>2 DEF c

(* Holding a datagram of the peer's, of the geometry that is held already.  *)
LEMMA HoldHolds ==
  ASSUME NEW peer, NEW d, HeldFrom(peer, d), NEW p, SameGeometry(d, p),
         \E n \in Sent : blocks[n] = [peer |-> peer, id |-> p.id, k |-> p.k] /\ p.esi \in accepted[n]
  PROVE  HeldFrom(peer, Hold(d, p))
<1> DEFINE c == Hold(d, p)
<1>1. /\ InFlight(c) = InFlight(d) \cup {p.id}
      /\ \A id \in InFlight(d) \ {p.id} : c.blocks[id] = d.blocks[id]
      /\ c.blocks[p.id].k = p.k /\ c.blocks[p.id].symbols = Held(d, p.id) \cup {p.esi}
  BY DEF Hold, InFlight
<1> HIDE DEF c
<1>2. ASSUME NEW esi \in c.blocks[p.id].symbols
      PROVE  \E n \in Sent : blocks[n] = [peer |-> peer, id |-> p.id, k |-> c.blocks[p.id].k]
                             /\ esi \in accepted[n]
  <2>1. CASE esi = p.esi
    BY <1>1, <2>1
  <2>2. CASE esi # p.esi
    <3>1. p.id \in InFlight(d) /\ esi \in d.blocks[p.id].symbols
      BY <1>1, <1>2, <2>2 DEF Held
    <3>2. d.blocks[p.id].k = p.k
      BY <3>1 DEF SameGeometry
    <3> QED
      BY <1>1, <3>1, <3>2 DEF HeldFrom
  <2> QED
    BY <2>1, <2>2
<1>3. HeldFrom(peer, c)
  BY <1>1, <1>2 DEF HeldFrom
<1> QED
  BY <1>3 DEF c

(* push_datagram of a datagram of the peer's, whatever it returns.          *)
LEMMA PushHolds ==
  ASSUME NEW peer, NEW d, HeldFrom(peer, d), NEW p, NEW o \in PushDatagram(d, p),
         \E n \in Sent : blocks[n] = [peer |-> peer, id |-> p.id, k |-> p.k] /\ p.esi \in accepted[n]
  PROVE  HeldFrom(peer, o.d)
<1>1. o.d \in {d, DropBlock(d, p.id), Close(d, p.id)} \/ (SameGeometry(d, p) /\ o.d = Hold(d, p))
  BY DEF PushDatagram
<1> QED
  BY <1>1, CloseHolds, DropHolds, HoldHolds

-----------------------------------------------------------------------------
(* The steps.                                                               *)

(* A receiver starts with nothing.                                          *)
LEMMA InitHolds == Init => IInv
<1> SUFFICES ASSUME Init PROVE IInv
  OBVIOUS
<1>1. DatagramsAreOfBlocks
  BY UdpAssumption, DecoderAssumption DEF Init, DatagramsAreOfBlocks, Ids
<1>2. SocketIsOfPeers /\ DOMAIN decoders = {}
  BY DEF Init, SocketIsOfPeers
<1> QED
  BY <1>1, <1>2 DEF IInv

(* What is known of blocks does not change when more are encoded or more of *)
(* them arrives.                                                            *)
LEMMA MoreIsKnown ==
  ASSUME IInv, DatagramsAreOfBlocks',
         Len(blocks) <= Len(blocks'), \A n \in Sent : blocks'[n] = blocks[n],
         \A n \in Sent : accepted[n] \subseteq accepted'[n]
  PROVE  /\ Sent \subseteq Sent'
         /\ \A peer, datagrams : OfPeer(peer, datagrams) => OfPeer(peer, datagrams)'
         /\ \A peer, d : HeldFrom(peer, d) => HeldFrom(peer, d)'
<1>1. Sent \subseteq Sent'
  BY DEF IInv, DatagramsAreOfBlocks, Sent
<1>2. ASSUME NEW peer, NEW datagrams, OfPeer(peer, datagrams) PROVE OfPeer(peer, datagrams)'
  BY <1>1, <1>2 DEF OfPeer
<1>3. ASSUME NEW peer, NEW d, HeldFrom(peer, d) PROVE HeldFrom(peer, d)'
  BY <1>1, <1>3 DEF HeldFrom
<1> QED
  BY <1>1, <1>2, <1>3

(* A step of the senders: the receiver keeps what it has.                   *)
LEMMA SenderStep ==
  ASSUME IInv, DatagramsAreOfBlocks', UNCHANGED receiver,
         Len(blocks) <= Len(blocks'), \A n \in Sent : blocks'[n] = blocks[n]
  PROVE  IInv'
<1>1. socket' = socket /\ decoders' = decoders /\ accepted' = accepted
  BY DEF receiver
<1>2. /\ Sent \subseteq Sent'
      /\ \A peer, datagrams : OfPeer(peer, datagrams) => OfPeer(peer, datagrams)'
      /\ \A peer, d : HeldFrom(peer, d) => HeldFrom(peer, d)'
  BY <1>1, MoreIsKnown
<1>3. SocketIsOfPeers'
  <2>1. Seq(Addresses \X SUBSET (Sent \X Nat)) \subseteq Seq(Addresses \X SUBSET (Sent' \X Nat))
    <3>1. Addresses \X SUBSET (Sent \X Nat) \subseteq Addresses \X SUBSET (Sent' \X Nat)
      BY <1>2
    <3> QED
      BY <3>1, SeqOfSubset
  <2>2. socket \in Seq(Addresses \X SUBSET (Sent' \X Nat))
    BY <2>1 DEF IInv, SocketIsOfPeers
  <2>3. \A i \in 1..Len(socket) : OfPeer(socket[i][1], socket[i][2])'
    BY <1>1, <1>2 DEF IInv, SocketIsOfPeers
  <2> QED
    BY <1>1, <2>2, <2>3 DEF SocketIsOfPeers
<1>4. (\A peer \in DOMAIN decoders : HeldFrom(peer, decoders[peer]))'
  <2> SUFFICES ASSUME NEW peer \in DOMAIN decoders'
               PROVE  HeldFrom(peer, decoders[peer])'
    OBVIOUS
  <2> DEFINE d == decoders[peer]
  <2>1. HeldFrom(peer, d)
    BY <1>1 DEF IInv
  <2>2. d' = d
    BY <1>1
  <2>3. \A id \in InFlight(d) : \A esi \in d.blocks[id].symbols :
          \E n \in Sent' : blocks'[n] = [peer |-> peer, id |-> id, k |-> d.blocks[id].k]
                           /\ esi \in accepted'[n]
    <3> HIDE DEF d
    <3> QED
      BY <2>1, <1>1, <1>2 DEF HeldFrom
  <2> QED
    BY <1>1, <2>3 DEF HeldFrom, InFlight
<1> QED
  BY <1>3, <1>4 DEF IInv

(* The datagrams of a block that was encoded.                               *)
LEMMA DatagramsType ==
  ASSUME NEW S, NEW n \in S, NEW count \in Nat
  PROVE  Datagrams(n, count) \in Seq(S \X Nat)
<1>1. \A i \in 1..count : <<n, i - 1>> \in S \X Nat
  OBVIOUS
<1> QED
  BY <1>1 DEF Datagrams

(* A payload is encoded and its datagrams are set out.                      *)
LEMMA StartSendHolds ==
  ASSUME IInv, NEW s \in Senders, NEW payload \in Payloads[s], StartSend(s, payload[1], payload[2])
  PROVE  IInv'
<1> DEFINE ks == payload[1]
           repair == payload[2]
           new == [i \in DOMAIN ks |->
                     [peer |-> address[s], id |-> (blockId[s] + i - 1) % IdMod, k |-> ks[i]]]
           rows == [i \in DOMAIN ks |-> Datagrams(Len(blocks) + i, ks[i] + repair)]
           total == Len(blocks) + Len(ks)
<1>1. ks \in Seq(Nat \ {0}) /\ repair \in Nat /\ IdMod \in Nat \ {0}
  BY UdpAssumption, DecoderAssumption
<1> HIDE DEF ks, repair
<1>2. /\ blocks' = blocks \o new /\ total <= MaxBlocks
      /\ blockId' = [blockId EXCEPT ![s] = (@ + Len(ks)) % IdMod]
      /\ pending' = [pending EXCEPT ![s] = FlattenSeq(rows)]
      /\ UNCHANGED <<address, wire, receiver>>
  BY DEF StartSend, ks, repair
<1>3. /\ blocks \in Seq(BlockType) /\ address[s] \in Addresses /\ blockId[s] \in 0..IdMod-1
      /\ blockId \in [Senders -> Ids]
  BY DEF IInv, DatagramsAreOfBlocks, Ids
<1>4. new \in Seq(BlockType) /\ Len(new) = Len(ks)
  <2>1. \A i \in 1..Len(ks) : (blockId[s] + i - 1) % IdMod \in 0..IdMod-1 /\ ks[i] \in Nat \ {0}
    BY <1>1, <1>3
  <2>2. \A i \in 1..Len(ks) :
          [peer |-> address[s], id |-> (blockId[s] + i - 1) % IdMod, k |-> ks[i]] \in BlockType
    BY <1>3, <2>1 DEF BlockType, Ids
  <2>3. DOMAIN ks = 1..Len(ks) /\ Len(ks) \in Nat
    BY <1>1
  <2> QED
    BY <2>2, <2>3
<1> HIDE DEF new
<1>5. /\ blocks' \in Seq(BlockType) /\ Len(blocks') = total /\ Sent' = 1..total
      /\ Len(blocks) <= total /\ \A n \in Sent : blocks'[n] = blocks[n]
  <2>1. blocks \o new \in Seq(BlockType) /\ Len(blocks \o new) = Len(blocks) + Len(new)
    BY <1>3, <1>4
  <2>2. \A n \in 1..Len(blocks) : (blocks \o new)[n] = blocks[n]
    BY <1>3, <1>4
  <2>3. Len(blocks) \in Nat /\ Len(ks) \in Nat
    BY <1>1, <1>3
  <2> QED
    BY <1>2, <1>4, <2>1, <2>2, <2>3 DEF Sent
<1>6. Sent \subseteq Sent'
  BY <1>1, <1>3, <1>5 DEF Sent
<1>7. rows \in Seq(Seq(Sent' \X Nat))
  <2>1. ASSUME NEW i \in 1..Len(ks)
        PROVE  Datagrams(Len(blocks) + i, ks[i] + repair) \in Seq(Sent' \X Nat)
    <3>1. Len(blocks) + i \in Sent' /\ ks[i] + repair \in Nat
      BY <1>1, <1>3, <1>5
    <3> QED
      BY <3>1, DatagramsType
  <2>2. DOMAIN ks = 1..Len(ks) /\ Len(ks) \in Nat
    BY <1>1
  <2>3. rows = [i \in 1..Len(ks) |-> rows[i]] /\ \A i \in 1..Len(ks) : rows[i] \in Seq(Sent' \X Nat)
    BY <2>1, <2>2
  <2> HIDE DEF rows
  <2> QED
    BY <2>2, <2>3
<1>8. FlattenSeq(rows) \in Seq(Sent' \X Nat)
  BY <1>7, FlattenPlaces
<1> HIDE DEF rows
<1>9. pending' \in [Senders -> Seq(Sent' \X Nat)]
  <2>1. Sent \X Nat \subseteq Sent' \X Nat
    BY <1>6
  <2>2. Seq(Sent \X Nat) \subseteq Seq(Sent' \X Nat)
    BY <2>1, SeqOfSubset
  <2>3. pending \in [Senders -> Seq(Sent \X Nat)]
    BY DEF IInv, DatagramsAreOfBlocks
  <2> QED
    BY <1>2, <1>8, <2>2, <2>3
<1>10. blockId' \in [Senders -> Ids]
  <2>1. (blockId[s] + Len(ks)) % IdMod \in Ids
    BY <1>1, <1>3 DEF Ids
  <2> QED
    BY <1>2, <1>3, <2>1
<1>11. DatagramsAreOfBlocks'
  <2>1. accepted' = accepted
    BY <1>2 DEF receiver
  <2>2. wire' \subseteq Sent' \X Nat
    BY <1>2, <1>6 DEF IInv, DatagramsAreOfBlocks
  <2> QED
    BY <1>2, <1>5, <1>9, <1>10, <2>1, <2>2 DEF IInv, DatagramsAreOfBlocks
<1> QED
  BY <1>2, <1>5, <1>11, SenderStep

(* A datagram of the loop is sent, or the loop ends.                        *)
LEMMA SendHolds ==
  ASSUME IInv, NEW s \in Senders, SendNext(s) \/ SendFails(s)
  PROVE  IInv'
<1>1. /\ UNCHANGED <<address, blockId, blocks, receiver>>
      /\ \/ /\ pending[s] # <<>> /\ wire' = wire \cup {Head(pending[s])}
            /\ pending' = [pending EXCEPT ![s] = Tail(@)]
         \/ wire' = wire /\ pending' = [pending EXCEPT ![s] = <<>>]
  BY DEF SendNext, SendFails, Idle
<1>2. Sent' = Sent /\ accepted' = accepted /\ Len(blocks) \in Nat
  BY <1>1 DEF Sent, receiver, IInv, DatagramsAreOfBlocks
<1>3. pending \in [Senders -> Seq(Sent \X Nat)] /\ wire \subseteq Sent \X Nat
  BY DEF IInv, DatagramsAreOfBlocks
<1>4. pending' \in [Senders -> Seq(Sent \X Nat)] /\ wire' \subseteq Sent \X Nat
  <2>1. pending[s] \in Seq(Sent \X Nat)
    BY <1>3
  <2>2. /\ pending[s] # <<>> => Head(pending[s]) \in Sent \X Nat /\ Tail(pending[s]) \in Seq(Sent \X Nat)
        /\ <<>> \in Seq(Sent \X Nat)
    BY <2>1
  <2> QED
    BY <1>1, <1>3, <2>2
<1>5. DatagramsAreOfBlocks'
  BY <1>1, <1>2, <1>4 DEF IInv, DatagramsAreOfBlocks
<1> QED
  BY <1>1, <1>2, <1>5, SenderStep

(* Ids are started over.                                                    *)
LEMMA ResetHolds ==
  ASSUME IInv, NEW s \in Senders, NEW id \in Ids, NEW at \in Addresses,
         (id \in ResetIds /\ SetBlockId(s, id)) \/ Restart(s, at)
  PROVE  IInv'
<1>1. /\ UNCHANGED <<blocks, wire, receiver>>
      /\ \/ UNCHANGED <<address, pending>> /\ blockId' = [blockId EXCEPT ![s] = id]
         \/ /\ address' = [address EXCEPT ![s] = at]
            /\ blockId' = [blockId EXCEPT ![s] = 0]
            /\ pending' = [pending EXCEPT ![s] = <<>>]
  BY DEF SetBlockId, Restart
<1>2. Sent' = Sent /\ accepted' = accepted /\ Len(blocks) \in Nat
  BY <1>1 DEF Sent, receiver, IInv, DatagramsAreOfBlocks
<1>3. 0 \in Ids /\ <<>> \in Seq(Sent \X Nat)
  BY DecoderAssumption DEF Ids
<1>4. /\ address' \in [Senders -> Addresses] /\ blockId' \in [Senders -> Ids]
      /\ pending' \in [Senders -> Seq(Sent \X Nat)]
  BY <1>1, <1>3 DEF IInv, DatagramsAreOfBlocks
<1>5. DatagramsAreOfBlocks'
  BY <1>1, <1>2, <1>4 DEF IInv, DatagramsAreOfBlocks
<1> QED
  BY <1>1, <1>2, <1>5, SenderStep

(* Something arrives: what the socket holds is what was sent from there.    *)
LEMMA ArrivalHolds ==
  ASSUME IInv, NEW p \in wire, Arrival(p) \/ DamagedArrival(p)
  PROVE  IInv'
<1> DEFINE peer == blocks[p[1]].peer
<1>1. PICK datagrams \in {{p}, {}} :
        /\ socket' = Append(socket, <<peer, datagrams>>)
        /\ UNCHANGED <<sender, decoders>>
        /\ \/ datagrams = {p} /\ accepted' = [accepted EXCEPT ![p[1]] = @ \cup {p[2]}]
           \/ datagrams = {} /\ UNCHANGED accepted
  BY DEF Arrival, DamagedArrival, Arrives
<1>2. /\ p \in Sent \X Nat /\ Len(blocks) \in Nat /\ Len(blocks) <= MaxBlocks
      /\ blocks \in Seq(BlockType) /\ accepted \in [1..MaxBlocks -> SUBSET Nat] /\ MaxBlocks \in Nat
  BY UdpAssumption DEF IInv, DatagramsAreOfBlocks
<1>3. p[1] \in 1..Len(blocks) /\ p[1] \in 1..MaxBlocks /\ p[2] \in Nat
  BY <1>2 DEF Sent
<1>4. /\ accepted' \in [1..MaxBlocks -> SUBSET Nat]
      /\ \A n \in Sent : accepted[n] \subseteq accepted'[n]
      /\ datagrams # {} => datagrams = {p} /\ p[2] \in accepted'[p[1]]
  <2>1. \A n \in Sent : n \in 1..MaxBlocks
    BY <1>2 DEF Sent
  <2> QED
    BY <1>1, <1>2, <1>3, <2>1
<1>5. Sent' = Sent /\ blocks' = blocks /\ decoders' = decoders
  BY <1>1 DEF Sent, sender
<1>6. DatagramsAreOfBlocks'
  BY <1>1, <1>4, <1>5 DEF IInv, DatagramsAreOfBlocks, sender
<1>7. peer \in Addresses
  <2>1. blocks[p[1]] \in BlockType
    BY <1>2, <1>3
  <2> QED
    BY <2>1 DEF BlockType
<1> HIDE DEF peer
<1>8. SocketIsOfPeers'
  <2> DEFINE T == Addresses \X SUBSET (Sent \X Nat)
             item == <<peer, datagrams>>
             OfPeerThen(a, ds) ==
               \A q \in ds : q \in Sent \X Nat /\ blocks[q[1]].peer = a /\ q[2] \in accepted'[q[1]]
  <2>1. socket \in Seq(T) /\ \A i \in 1..Len(socket) : OfPeer(socket[i][1], socket[i][2])
    BY DEF IInv, SocketIsOfPeers
  <2>2. item \in T
    BY <1>2, <1>4, <1>7
  <2>3. OfPeerThen(peer, datagrams)
    BY <1>2, <1>4 DEF peer
  <2>4. \A i \in 1..Len(socket) : OfPeerThen(socket[i][1], socket[i][2])
    BY <1>4, <2>1 DEF OfPeer
  <2> HIDE DEF T, OfPeerThen
  <2>5. /\ socket' \in Seq(T) /\ Len(socket') = Len(socket) + 1 /\ Len(socket) \in Nat
        /\ socket'[Len(socket) + 1] = item /\ \A i \in 1..Len(socket) : socket'[i] = socket[i]
    BY <1>1, <2>1, <2>2
  <2>6. ASSUME NEW i \in 1..Len(socket') PROVE OfPeerThen(socket'[i][1], socket'[i][2])
    <3>1. CASE i \in 1..Len(socket)
      BY <2>4, <2>5, <3>1
    <3>2. CASE i = Len(socket) + 1
      <4>1. socket'[i][1] = peer /\ socket'[i][2] = datagrams
        BY <2>5, <3>2
      <4> QED
        BY <2>3, <4>1
    <3> QED
      BY <2>5, <3>1, <3>2
  <2> QED
    BY <1>5, <2>5, <2>6 DEF SocketIsOfPeers, OfPeer, OfPeerThen, T
<1>9. (\A a \in DOMAIN decoders : HeldFrom(a, decoders[a]))'
  BY <1>4, <1>5 DEF IInv, HeldFrom
<1> QED
  BY <1>6, <1>8, <1>9 DEF IInv

(* A call starts, or the loop takes what is next in the socket.             *)
LEMMA RecvHolds ==
  ASSUME IInv, CallRecv \/ Recv
  PROVE  IInv'
<1>1. UNCHANGED <<sender, accepted>>
  BY DEF CallRecv, Recv
<1>2. Sent' = Sent /\ blocks' = blocks /\ accepted' = accepted
  BY <1>1 DEF Sent, sender
<1>3. DatagramsAreOfBlocks'
  BY <1>1, <1>2 DEF IInv, DatagramsAreOfBlocks, sender
<1>4. CASE CallRecv
  BY <1>2, <1>3, <1>4 DEF CallRecv, IInv, SocketIsOfPeers, OfPeer, HeldFrom
<1>5. CASE Recv
  <2> DEFINE T == Addresses \X SUBSET (Sent \X Nat)
             peer == Head(socket)[1]
             datagrams == Head(socket)[2]
  <2>1. /\ socket \in Seq(T) /\ socket # <<>> /\ socket' = Tail(socket)
        /\ \A i \in 1..Len(socket) : OfPeer(socket[i][1], socket[i][2])
    BY <1>5 DEF IInv, SocketIsOfPeers, Recv
  <2>2. OfPeer(peer, datagrams)
    <3>1. Head(socket) = socket[1] /\ 1 \in 1..Len(socket)
      BY <2>1
    <3> QED
      BY <2>1, <3>1
  <2>3. SocketIsOfPeers'
    <3> HIDE DEF T
    <3>1. socket' \in Seq(T) /\ \A i \in 1..Len(socket') : i + 1 \in 1..Len(socket) /\ socket'[i] = socket[i+1]
      BY <2>1
    <3>2. \A i \in 1..Len(socket') : OfPeer(socket'[i][1], socket'[i][2])
      BY <2>1, <3>1
    <3> QED
      BY <1>2, <3>1, <3>2 DEF SocketIsOfPeers, OfPeer, T
  <2>4. PICK d : decoders' = WithDecoder(peer, d) /\ HeldFrom(peer, d)
    <3>1. HeldFrom(peer, DecoderOf(peer))
      BY NewHolds DEF IInv, DecoderOf
    <3>2. CASE \E p \in datagrams : RecvValid(peer, p)
      <4>1. PICK p \in datagrams : RecvValid(peer, p)
        BY <3>2
      <4>2. PICK o \in PushDatagram(DecoderOf(peer), DatagramOf(p)) : decoders' = WithDecoder(peer, o.d)
        BY <4>1 DEF RecvValid
      <4>3. /\ p[1] \in Sent /\ blocks[p[1]].peer = peer /\ p[2] \in accepted[p[1]]
            /\ blocks \in Seq(BlockType)
        BY <2>2 DEF OfPeer, IInv, DatagramsAreOfBlocks
      <4> HIDE DEF peer
      <4>4. blocks[p[1]] = [peer |-> peer, id |-> blocks[p[1]].id, k |-> blocks[p[1]].k]
        <5>1. blocks[p[1]] \in BlockType
          BY <4>3 DEF Sent
        <5> QED
          BY <4>3, <5>1 DEF BlockType
      <4>5. \E n \in Sent : /\ blocks[n] = [peer |-> peer, id |-> DatagramOf(p).id, k |-> DatagramOf(p).k]
                            /\ DatagramOf(p).esi \in accepted[n]
        BY <4>3, <4>4 DEF DatagramOf
      <4>6. HeldFrom(peer, o.d)
        BY <3>1, <4>2, <4>5, PushHolds
      <4> QED
        BY <4>2, <4>6
    <3>3. CASE RecvDamaged(peer)
      BY <3>1, <3>3 DEF RecvDamaged
    <3> QED
      BY <1>5, <3>2, <3>3 DEF Recv
  <2> HIDE DEF peer
  <2>5. ASSUME NEW a \in DOMAIN decoders'
        PROVE  HeldFrom(a, decoders'[a])
    <3>1. a = peer => decoders'[a] = d
      BY <2>4 DEF WithDecoder
    <3>2. a # peer => a \in DOMAIN decoders /\ decoders'[a] = decoders[a]
      BY <2>4 DEF WithDecoder
    <3> QED
      BY <2>4, <3>1, <3>2 DEF IInv
  <2>6. (\A a \in DOMAIN decoders : HeldFrom(a, decoders[a]))'
    BY <1>2, <2>5 DEF HeldFrom, InFlight
  <2> QED
    BY <1>3, <2>3, <2>6 DEF IInv
<1> QED
  BY <1>4, <1>5

(* Every step keeps the invariant.                                          *)
LEMMA NextHolds == IInv /\ [Next]_vars => IInv'
<1> SUFFICES ASSUME IInv, [Next]_vars PROVE IInv'
  OBVIOUS
<1>1. CASE \E s \in Senders : \E payload \in Payloads[s] : StartSend(s, payload[1], payload[2])
  BY <1>1, StartSendHolds
<1>2. CASE \E s \in Senders : SendNext(s) \/ SendFails(s)
  BY <1>2, SendHolds
<1>3. CASE \E s \in Senders : \E id \in ResetIds : SetBlockId(s, id)
  <2>1. PICK s \in Senders : \E id \in ResetIds : SetBlockId(s, id)
    BY <1>3
  <2>2. PICK id \in ResetIds : SetBlockId(s, id)
    BY <2>1
  <2>3. id \in Ids /\ FirstAddress[s] \in Addresses
    BY UdpAssumption
  <2> QED
    BY <2>2, <2>3, ResetHolds
<1>4. CASE \E s \in Senders : \E at \in Addresses : Restart(s, at)
  <2>1. 0 \in Ids
    BY DecoderAssumption DEF Ids
  <2> QED
    BY <1>4, <2>1, ResetHolds
<1>5. CASE \E p \in wire : Arrival(p) \/ DamagedArrival(p)
  BY <1>5, ArrivalHolds
<1>6. CASE CallRecv \/ Recv
  BY <1>6, RecvHolds
<1>7. CASE UNCHANGED vars
  BY <1>7 DEF vars, sender, receiver, IInv, DatagramsAreOfBlocks, SocketIsOfPeers, OfPeer,
     HeldFrom, InFlight, Sent
<1> QED
  BY <1>1, <1>2, <1>3, <1>4, <1>5, <1>6, <1>7 DEF Next

(* push_datagram of the decoder of an address: what it collects under an id *)
(* came from that address, in blocks of that id and of one geometry,        *)
(* whatever the other senders, resets, restarts and the network do.         *)
THEOREM PeersDoNotMix == Spec => []HeldIsOfItsPeer
<1>1. IInv => HeldIsOfItsPeer
  BY DEF IInv, HeldFrom, HeldIsOfItsPeer
<1> QED
  BY InitHolds, NextHolds, <1>1, PTL DEF Spec

=============================================================================
