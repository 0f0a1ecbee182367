---------------------------- MODULE AudioPacketizer ----------------------------
(***************************************************************************)
(* From the channel groups of an epoch to transport messages and back: the  *)
(* geometry and the shards that MultichannelAudioFecEncoder makes of the    *)
(* groups, the session id that repair datagrams carry, and the framing of   *)
(* MultichannelAudioTransportAdapter.                                       *)
(*                                                                         *)
(* A group is the length of its payload.  A config is [maxSize, overhead,   *)
(* repair, maxSource], an adapter [maxSize, stream], an optional value a    *)
(* set of at most one.  The CRC is the pair of values it is taken over.     *)
(* Where prefixes are read, bytes are words of four: a stream id is two.    *)
(* Fields that are only carried along (channels, formats, rates) are left   *)
(* out, with the checks that they are not zero.                             *)
(***************************************************************************)
EXTENDS Integers, SequencesExt

CONSTANTS
  FecFraming,      \* HEADER_LEN + ENCODING_PACKET_HEADER_LEN
  SessionTrailer,  \* DATAGRAM_AUDIO_SESSION_ID_LEN
  ShardHeader,     \* MULTICHANNEL_AUDIO_SHARD_HEADER_LEN
  AudioMagic,      \* MULTICHANNEL_AUDIO_TRANSPORT_MAGIC_LEN
  StreamPrefix,    \* STREAM_ID_PREFIX_LEN
  MaxSymbolSize,   \* u16::MAX
  MaxBlockSymbols, \* MAX_SOURCE_SYMBOLS_PER_BLOCK
  AudioWord,       \* MULTICHANNEL_AUDIO_TRANSPORT_MAGIC
  FecWord          \* the MAGIC that a FEC datagram begins with

ASSUME PacketizerAssumption ==
  {FecFraming, SessionTrailer, ShardHeader, AudioMagic, StreamPrefix, MaxSymbolSize,
   MaxBlockSymbols, AudioWord, FecWord} \subseteq Nat

DivUp(a, b) == (a + b - 1) \div b

-----------------------------------------------------------------------------
(* Geometry.                                                                *)

FramingSize(c) == c.overhead + FecFraming + SessionTrailer

(* symbol_size, an error below one byte of payload, and max_fragment_payload *)
HasBudget(c) ==
  /\ c.maxSize >= FramingSize(c) + ShardHeader + 1
  /\ c.maxSize - FramingSize(c) <= MaxSymbolSize

MaxFragmentPayload(c) == c.maxSize - FramingSize(c) - ShardHeader

PayloadLen(group) == Max({group, 1})
FragmentCount(group, size) == DivUp(PayloadLen(group), size)

SourceCount(groups, size) ==
  FoldLeft(+, 0, [g \in DOMAIN groups |-> FragmentCount(groups[g], size)])

(* Source bytes on the wire, then datagrams, then the fragment size.        *)
Score(c, groups, size) ==
  <<SourceCount(groups, size) * (FramingSize(c) + ShardHeader + size),
    SourceCount(groups, size), size>>

Less(s, t) ==
  \E i \in DOMAIN s : s[i] < t[i] /\ \A j \in 1..i-1 : s[j] = t[j]

IsFeasible(c, groups, size) == SourceCount(groups, size) \in 1..Min({c.maxSource, MaxSymbolSize})

(* slip: only the first group proposes fragment sizes *)
CandidatesOfFirst(c, groups) ==
  {MaxFragmentPayload(c)} \cup
    {DivUp(PayloadLen(groups[1]), count) :
       count \in FragmentCount(groups[1], MaxFragmentPayload(c))..c.maxSource}

(* The fragment sizes that split some group evenly.                         *)
Candidates(c, groups) ==
  {MaxFragmentPayload(c)} \cup
    UNION {{DivUp(PayloadLen(groups[g]), count) :
              count \in FragmentCount(groups[g], MaxFragmentPayload(c))..c.maxSource} :
             g \in DOMAIN groups}

(* geometry_for_groups: the best fragment size, or none                     *)
GeometryForGroups(c, groups) ==
  IF groups = <<>> \/ ~HasBudget(c) THEN {}
  ELSE LET feasible == {size \in Candidates(c, groups) : IsFeasible(c, groups, size)}
       IN {size \in feasible :
             \A other \in feasible : ~Less(Score(c, groups, other), Score(c, groups, size))}

-----------------------------------------------------------------------------
(* Shards.                                                                  *)

Fragment(groups, g, size, i) ==
  [group |-> g, index |-> i - 1, count |-> FragmentCount(groups[g], size),
   offset |-> (i - 1) * size,
   len |-> Max({Min({i * size, groups[g]}) - (i - 1) * size, 0}),
   total |-> groups[g]]

(* The headers that encode_epoch writes, by source index.                   *)
ShardsOf(groups, size) ==
  FlattenSeq([g \in DOMAIN groups |->
                [i \in 1..FragmentCount(groups[g], size) |-> Fragment(groups, g, size, i)]])

(* MultichannelAudioShardHeader::validate, in a symbol of symbolSize bytes  *)
IsValidShard(shard, groups, symbolSize) ==
  /\ shard.group <= Len(groups) /\ shard.index < shard.count
  /\ shard.offset + shard.len <= shard.total
  /\ ShardHeader + shard.len <= symbolSize

-----------------------------------------------------------------------------
(* Datagrams.                                                               *)

ChecksumOf(flag, trailer) == <<flag, trailer>>

(* The datagram of one encoding symbol, as DatagramFecEncoder makes it.     *)
FecDatagram(esi, symbolSize) ==
  [esi |-> esi, size |-> FecFraming + symbolSize,
   flag |-> FALSE, trailer |-> {}, crc |-> ChecksumOf(FALSE, {})]

(* slip: the CRC is not taken again *)
AttachKeepsChecksum(d, session) ==
  [d EXCEPT !.flag = TRUE, !.trailer = {session}, !.size = @ + SessionTrailer]

(* attach_audio_session_id *)
AttachSessionId(d, session) ==
  [d EXCEPT !.flag = TRUE, !.trailer = {session}, !.size = @ + SessionTrailer,
            !.crc = ChecksumOf(TRUE, {session})]

(* DatagramFecHeader::payload: length and CRC agree with the header.        *)
IsIntact(d) ==
  /\ d.flag <=> d.trailer # {}
  /\ d.crc = ChecksumOf(d.flag, d.trailer)

(* The rest of encode_epoch: the source datagrams by index, then repair;    *)
(* none if a header would declare more symbols than one block of RaptorQ    *)
(* has, which a geometry may, or if a datagram exceeds the budget.          *)
EncodedEpoch(c, groups, size, session) ==
  LET k == SourceCount(groups, size)
      datagrams == [i \in 1..k + c.repair |->
                      IF i <= k THEN FecDatagram(i - 1, ShardHeader + size)
                      ELSE AttachSessionId(FecDatagram(i - 1, ShardHeader + size), session)]
  IN IF \/ k > MaxBlockSymbols
        \/ \E i \in DOMAIN datagrams : datagrams[i].size + c.overhead > c.maxSize
     THEN {} ELSE {datagrams}

(* inspect_multichannel_audio_datagram: role and session, without RaptorQ.  *)
(* A source datagram has the session id in its shard.                       *)
Inspect(d, k, shardSession) ==
  IF ~IsIntact(d) THEN {}
  ELSE IF d.esi < k THEN {[source |-> TRUE, session |-> {shardSession}]}
  ELSE {[source |-> FALSE, session |-> d.trailer]}

-----------------------------------------------------------------------------
(* The transport adapter.                                                   *)

TransportOverhead(adapter) ==
  AudioMagic + (IF adapter.stream = {} THEN 0 ELSE StreamPrefix)

PrepareFecConfig(adapter, c) ==
  [c EXCEPT !.maxSize = adapter.maxSize, !.overhead = TransportOverhead(adapter)]

(* add_prefix_bytes(prefix, add_audio_epoch_prefix(payload)): its first     *)
(* words, down to the one that the datagram begins with                     *)
Message(adapter, d) ==
  [words |-> (IF adapter.stream = {} THEN <<>> ELSE CHOOSE id \in adapter.stream : TRUE)
               \o <<AudioWord, FecWord>>,
   datagram |-> d,
   size |-> AudioMagic + (IF adapter.stream = {} THEN 0 ELSE StreamPrefix) + d.size]

(* wrap_epoch: none if source follows repair or a message is too large      *)
WrapEpoch(adapter, datagrams, k) ==
  LET messages == [i \in DOMAIN datagrams |-> Message(adapter, datagrams[i])]
  IN IF \/ \E i, j \in DOMAIN datagrams : i < j /\ datagrams[i].esi >= k /\ datagrams[j].esi < k
        \/ \E i \in DOMAIN messages : messages[i].size > adapter.maxSize
     THEN {} ELSE {messages}

(* strip_transport_prefix: two words are read as a stream id if one is      *)
(* expected, whatever they are; none are if none is.                        *)
StripStreamId(adapter, words) ==
  IF adapter.stream = {} THEN {words}
  ELSE {SubSeq(words, 3, Len(words)) : id \in {i \in adapter.stream : SubSeq(words, 1, 2) = i}}

(* payload(): the first words behind the stream id and the magic, if those  *)
(* are the adapter's.                                                       *)
Unwrap(adapter, message) ==
  {Tail(words) : words \in {w \in StripStreamId(adapter, message.words) : w # <<>> /\ w[1] = AudioWord}}

=============================================================================
