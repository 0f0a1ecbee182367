---------------------------- MODULE RepairEncoder ----------------------------
(***************************************************************************)
(* RaptorQRepairEncoder: repair symbols on demand for a block that was sent *)
(* before.  The primary encoder spent the source symbols and its own repair *)
(* symbols of the block's encoding symbol ids (24 bits); a producer goes on *)
(* from there, and may be replaced by another that goes on from where it    *)
(* stopped.  Two symbols under one id are one symbol to the receiver, so    *)
(* what matters is that no id is spent twice and none leaves the namespace. *)
(*                                                                         *)
(* The limits are scaled down with the integers: the order in which the     *)
(* checks are made is kept.  The source bytes are those of the block, so    *)
(* their length is the profile's transfer length.                           *)
(***************************************************************************)
EXTENDS Integers, FiniteSets

CONSTANTS
  U32,            \* 2^32, exclusive
  U16Max,         \* u16::MAX
  EsiLimit,       \* RAPTORQ_ENCODING_SYMBOL_ID_LIMIT (2^24)
  MaxSource,      \* MAX_SOURCE_SYMBOLS_PER_BLOCK
  MaxSourceBytes, \* HARD_MAX_REPAIR_SOURCE_BYTES
  MaxExtra,       \* HARD_MAX_EXTRA_REPAIR_SYMBOLS
  MaxOutput,      \* HARD_MAX_ADDITIONAL_REPAIR_BYTES
  HeaderBytes,    \* HEADER_LEN + ENCODING_PACKET_HEADER_LEN
  Lengths,        \* lengths of the objects
  SymbolSizes,    \* DatagramFecConfig::symbol_size
  PrimaryRepairs, \* repair symbols the primary emitted
  Sequences       \* packet sequences a producer may start at

ASSUME RepairAssumption ==
  /\ U32 \in Nat /\ EsiLimit \in Nat /\ EsiLimit < U32
  /\ MaxSource \in Nat /\ MaxSource < EsiLimit
  /\ U16Max \in Nat /\ MaxSource < U16Max
  /\ MaxSourceBytes \in Nat /\ MaxExtra \in Nat /\ MaxOutput \in Nat /\ HeaderBytes \in Nat
  /\ Lengths \subseteq 0..U32-1 /\ SymbolSizes \subseteq 1..U16Max
  /\ PrimaryRepairs \subseteq Nat /\ Sequences \subseteq 0..U32-1

-----------------------------------------------------------------------------
(* The geometry of a block.                                                 *)

(* a.div_ceil(b) *)
DivCeil(a, b) == (a + b - 1) \div b

(* source_symbol_count: what an encoder writes into its headers *)
SourceSymbolCount(length, size) ==
  IF length = 0 THEN 1
  ELSE IF DivCeil(length, size) < U16Max THEN DivCeil(length, size)
  ELSE U16Max

(* slip: the declared count is not compared with the required one *)
AcceptsDeclared(p) ==
  p.k > 0 /\ p.size > 0 /\ p.length > 0 /\ p.k <= MaxSource

(* validate_one_block_geometry *)
Accepts(p) ==
  /\ p.k > 0 /\ p.size > 0 /\ p.length > 0
  /\ p.k <= MaxSource
  /\ DivCeil(p.length, p.size) <= MaxSource
  /\ p.k = DivCeil(p.length, p.size)

-----------------------------------------------------------------------------
(* What a producer may still emit.                                          *)

(* slip: one id too many *)
RangeOneTooMany(p, next, n) == next + n < U32 /\ next + n <= EsiLimit - p.k + 1

(* slip: the source symbols have no part in the namespace *)
RangeOfRepairs(p, next, n) == next + n < U32 /\ next + n <= EsiLimit

(* validate_repair_symbol_range: checked_add, then the capacity *)
RangeIsFree(p, next, n) == next + n < U32 /\ next + n <= EsiLimit - p.k

(* RaptorQRepairEncoder::new, after the geometry of the profile *)
MayProduce(p, next) == p.length <= MaxSourceBytes /\ RangeIsFree(p, next, 0)

(* the checks of encode_additional, its multiplication saturating *)
MayEncode(p, next, n) ==
  /\ n > 0 /\ n <= MaxExtra
  /\ (HeaderBytes + p.size) * n <= MaxOutput
  /\ RangeIsFree(p, next, n)

NoSymbol == -1

(* next_encoding_symbol_id *)
NextSymbolId(p, next) ==
  IF p.k + next < U32 /\ p.k + next < EsiLimit THEN p.k + next ELSE NoSymbol

-----------------------------------------------------------------------------

VARIABLES
  profile,   \* RaptorQBlockProfile of the block
  next,      \* next_repair_symbol of the producer, or of the one to come
  sequence,  \* next_packet_sequence of the producer
  open,      \* whether a producer exists
  emitted,   \* history: the encoding symbol ids on the wire
  responses, \* history: the ids of the latest response
  counts     \* history: symbols sent, with repetitions

repairVars == <<profile, next, sequence, open, emitted, responses, counts>>

(* Of the profiles that RaptorQBlockProfile::new is asked for, those it      *)
(* accepts, for a block that was sent with r repair symbols.                *)
RepairInit ==
  \E length \in Lengths, size \in SymbolSizes, k \in 0..U16Max, r \in PrimaryRepairs :
    /\ profile = [length |-> length, size |-> size, k |-> k]
    /\ Accepts(profile) /\ profile.k + r <= EsiLimit
    /\ next = r
    /\ sequence \in Sequences
    /\ open = FALSE
    /\ emitted = 0..profile.k+r-1
    /\ responses = {}
    /\ counts = profile.k + r

(* A producer takes over where the primary or another producer stopped.     *)
TakeOver(seq) ==
  /\ MayProduce(profile, next)
  /\ open' = TRUE /\ sequence' = seq
  /\ UNCHANGED <<profile, next, emitted, responses, counts>>

(* slip: the cursor moves by one whatever was asked *)
AdvanceByOne(n) == next + 1

Advanced(n) == next + n

(* slip: the packet sequence does not wrap *)
SequenceUnwrapped(n) == sequence + n

SequenceAfter(n) == (sequence + n) % U32

(* encode_additional: a call that fails changes nothing.                    *)
EncodeAdditional(n) ==
  /\ open /\ MayEncode(profile, next, n)
  /\ responses' = {profile.k + next + i : i \in 0..n-1}
  /\ emitted' = emitted \cup responses'
  /\ counts' = counts + n
  /\ next' = Advanced(n)
  /\ sequence' = SequenceAfter(n)
  /\ UNCHANGED <<profile, open>>

RepairNext ==
  \/ \E seq \in Sequences : TakeOver(seq)
  \/ \E n \in 0..U32-1 : EncodeAdditional(n)

RepairSpec == RepairInit /\ [][RepairNext]_repairVars

-----------------------------------------------------------------------------
(* Properties.                                                              *)

(* The cursors fit in u32, and next_repair_symbol += cannot overflow.       *)
RepairTypeOK ==
  /\ profile.length \in 1..U32-1 /\ profile.size \in 1..U16Max /\ profile.k \in 1..MaxSource
  /\ next \in 0..U32-1 /\ sequence \in 0..U32-1 /\ open \in BOOLEAN
  /\ emitted \subseteq Nat /\ responses \subseteq Nat /\ counts \in Nat

(* lib.rs:768: responses are disjoint: over the life of the namespace every *)
(* symbol sent has an encoding symbol id of its own, whichever of primary   *)
(* and producers sent it.                                                   *)
SymbolsAreFresh == Cardinality(emitted) = counts

(* Every id fits the 24 bits of a payload id, and a response has no source  *)
(* symbol among its ids.                                                    *)
NamespaceIsKept ==
  emitted \subseteq 0..EsiLimit-1 /\ responses \cap (0..profile.k-1) = {}

(* next_encoding_symbol_id announces the id that one more symbol will have, *)
(* and None exactly when the namespace refuses one.                         *)
NextIsAnnounced ==
  LET id == NextSymbolId(profile, next) IN
  /\ id = NoSymbol <=> ~RangeIsFree(profile, next, 1)
  /\ id # NoSymbol => id \notin emitted
  /\ id = NoSymbol => emitted = 0..EsiLimit-1

(* An accepted profile declares the count of source symbols that an encoder *)
(* writes for an object of that length: no cap and no wrong declaration     *)
(* gives primary and producer different ideas of the namespace.             *)
DeclaredIsEncoded ==
  profile.k = SourceSymbolCount(profile.length, profile.size)

=============================================================================
