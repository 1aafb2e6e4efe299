--------------------------- MODULE BlobRing_proofs --------------------------
(***************************************************************************)
(* Proofs about the blob ring and its arena, for every capacity of both,   *)
(* every set of lengths, number of readers and bound on the messages.      *)
(***************************************************************************)
EXTENDS BlobRing, TLAPS

(* The last message passed by the producer is in its slot, or that slot is *)
(* being written again.                                                    *)
Fresh ==
    /\ ppc # "idle"
    /\ \/ slotSeq[Index(pseq - 1)] = pseq - 1
       \/ ppc = "slot" /\ Index(pseq - 1) = Index(pseq)

(* A bound on the messages published so far: the header trails by those of *)
(* the frame that is being written.                                        *)
Newest == IF Fresh THEN pseq - 1 ELSE write_seq

(* What readers can learn from the ring is published.                      *)
RingInv ==
    /\ write_seq < pseq
    /\ \A i \in Slots : slotSeq[i] # SLOT_WRITING => slotSeq[i] <= Newest
    /\ \A r \in Readers : seen[r] <= Newest
    /\ ppc \in {"copy", "slot"} => pseq <= MaxSeq
    /\ ppc = "slot" => slotSeq[Index(pseq)] = SLOT_WRITING
    /\ ppc = "publish" => slotSeq[Index(pseq - 1)] = pseq - 1

(* Ranges are handed out in order, each in one piece of the arena; what is *)
(* reserved is the end of the last one.                                    *)
ArenaInv ==
    /\ \A n \in Seqs : /\ (blob[n].offset % ArenaCapacity) + blob[n].len <= ArenaCapacity
                       /\ blob[n].offset + blob[n].len <= reserved
    /\ \A m, n \in Seqs : m < n /\ blob[m].len > 0 /\ blob[n].len > 0 =>
          blob[m].offset + blob[m].len <= blob[n].offset
    /\ \A n \in Seqs : n \notin Reserved => blob[n] = EMPTY
    /\ reserved = 0 \/ \E n \in Reserved : /\ blob[n].len > 0
                                           /\ blob[n].offset + blob[n].len = reserved

(* The arena holds every message that is not lapped, and of the one that   *)
(* is being written the units copied so far.                               *)
ContentInv ==
    /\ \A n \in Seqs : n < pseq /\ ~IsLapped(blob[n]) =>
          \A u \in UnitsOf(blob[n]) : arena[u] = n
    /\ ppc \in {"copy", "slot"} =>
          /\ punits \subseteq UnitsOf(blob[pseq])
          /\ \A u \in UnitsOf(blob[pseq]) \ punits : arena[u] = pseq
    /\ ppc # "copy" => punits = {}

ProducerInv == RingInv /\ ArenaInv /\ ContentInv

(* A reader with a descriptor has one of a message that is published; as   *)
(* long as it is not lapped, the units copied so far are the message's.    *)
CopyOutInv(r) ==
    /\ rpc[r] \in {"packet", "before", "copy"} => cursor[r] < pseq
    /\ rpc[r] # "copy" => buf[r] = NoUnits
    /\ rpc[r] = "copy" =>
          /\ runits[r] \subseteq UnitsOf(blob[cursor[r]])
          /\ DOMAIN buf[r] = UnitsOf(blob[cursor[r]]) \ runits[r]
          /\ ~IsLapped(blob[cursor[r]]) => \A u \in DOMAIN buf[r] : buf[r][u] = cursor[r]

(* What was returned is whole, and published.                              *)
ItemInv(r) ==
    /\ item[r].seq < pseq
    /\ item[r].seq # 0 =>
          /\ DOMAIN item[r].data = UnitsOf(blob[item[r].seq])
          /\ \A u \in DOMAIN item[r].data : item[r].data[u] = item[r].seq

(* skip_hole only goes past messages that are gone.                        *)
HoleInv(r) ==
    /\ rpc[r] \in {"hole_slot", "scan"} => holeEnd[r] <= write_seq
    /\ rpc[r] = "hole_slot" => cursor[r] <= holeEnd[r]
    /\ rpc[r] = "scan" => /\ cursor[r] < holeNext[r]
                          /\ \A m \in cursor[r]..(holeNext[r] - 1) : Gone(m)

ReaderInv(r) == CopyOutInv(r) /\ ItemInv(r) /\ HoleInv(r)

(* The inductive invariant of the blob ring.                               *)
IInv == TypeOK /\ ProducerInv /\ \A r \in Readers : ReaderInv(r)

-----------------------------------------------------------------------------
(* Arithmetic *)

(* Division by the arena's capacity.                                       *)
LEMMA ArenaDivision ==
    ASSUME NEW n \in Nat
    PROVE  \E q \in Nat : /\ n = ArenaCapacity * q + (n % ArenaCapacity)
                          /\ n % ArenaCapacity \in 0..(ArenaCapacity - 1)
<1>1. ArenaCapacity \in Nat \ {0}
  BY BlobAssumption
<1> DEFINE q == n \div ArenaCapacity
<1>2. q \in Int /\ n = ArenaCapacity * q + (n % ArenaCapacity)
  BY <1>1
<1>3. n % ArenaCapacity \in 0..(ArenaCapacity - 1)
  BY <1>1
<1> HIDE DEF q
<1>4. q >= 0
  <2>1. SUFFICES ASSUME q <= -1 PROVE FALSE
    BY <1>2
  <2>2. ArenaCapacity * q <= -ArenaCapacity
    BY <1>1, <1>2, <2>1
  <2> QED BY <1>1, <1>2, <1>3, <2>2
<1> QED BY <1>2, <1>3, <1>4

(* A multiple of the capacity is the arena's first unit.                   *)
LEMMA MultipleIsStart ==
    ASSUME NEW q \in Nat
    PROVE  (ArenaCapacity * q) % ArenaCapacity = 0
<1>1. ArenaCapacity \in Nat \ {0} /\ ArenaCapacity * q \in Nat
  BY BlobAssumption
<1> DEFINE n == ArenaCapacity * q
           x == n % ArenaCapacity
<1>2. PICK p \in Nat : n = ArenaCapacity * p + x /\ x \in 0..(ArenaCapacity - 1)
  BY <1>1, ArenaDivision
<1>3. ArenaCapacity * (q - p) = x
  BY <1>1, <1>2
<1> HIDE DEF x, n
<1>4. ~(q - p >= 1)
  <2>1. SUFFICES ASSUME q - p >= 1 PROVE FALSE
    OBVIOUS
  <2>2. ArenaCapacity * (q - p) >= ArenaCapacity
    BY <1>1, <2>1
  <2> QED BY <1>1, <1>2, <1>3, <2>2
<1>5. ~(q - p <= -1)
  <2>1. SUFFICES ASSUME q - p <= -1 PROVE FALSE
    OBVIOUS
  <2>2. ArenaCapacity * (q - p) <= -ArenaCapacity
    BY <1>1, <2>1
  <2> QED BY <1>1, <1>2, <1>3, <2>2
<1>6. q - p = 0
  BY <1>4, <1>5
<1> QED BY <1>1, <1>3, <1>6 DEF x, n

(* reserve's range starts where the last one ended or at the arena's next  *)
(* beginning, and does not cross the arena's end.                          *)
LEMMA StartFacts ==
    ASSUME reserved \in Nat, NEW len \in 0..ArenaCapacity
    PROVE  /\ Start(len) \in Nat /\ Start(len) >= reserved
           /\ (Start(len) % ArenaCapacity) + len <= ArenaCapacity
<1>1. ArenaCapacity \in Nat \ {0}
  BY BlobAssumption
<1>2. PICK q \in Nat : /\ reserved = ArenaCapacity * q + (reserved % ArenaCapacity)
                       /\ reserved % ArenaCapacity \in 0..(ArenaCapacity - 1)
  BY ArenaDivision
<1>3. CASE (reserved % ArenaCapacity) + len > ArenaCapacity
  <2>1. Start(len) = ArenaCapacity * (q + 1)
    BY <1>1, <1>2, <1>3 DEF Start
  <2>2. Start(len) % ArenaCapacity = 0
    BY <2>1, MultipleIsStart
  <2>3. Start(len) \in Nat /\ Start(len) >= reserved
    BY <1>1, <1>2, <1>3 DEF Start
  <2> QED BY <1>1, <2>2, <2>3
<1>4. CASE ~((reserved % ArenaCapacity) + len > ArenaCapacity)
  BY <1>1, <1>2, <1>4 DEF Start
<1> QED BY <1>3, <1>4

Descriptor(b) ==
    /\ b.offset \in Nat /\ b.len \in Nat
    /\ (b.offset % ArenaCapacity) + b.len <= ArenaCapacity

(* A descriptor stands for units of the arena, an empty one for none.      *)
LEMMA UnitsOfFacts ==
    ASSUME NEW b, Descriptor(b)
    PROVE  /\ UnitsOf(b) \subseteq Units
           /\ b.len = 0 => UnitsOf(b) = {}
<1>1. ArenaCapacity \in Nat \ {0} /\ b.offset % ArenaCapacity \in 0..(ArenaCapacity - 1)
  BY BlobAssumption, ArenaDivision DEF Descriptor
<1> QED BY <1>1 DEF UnitsOf, Units, Descriptor

(* Two ranges that share a unit are a whole arena apart.                   *)
LEMMA OverlapMeansLapped ==
    ASSUME NEW b, NEW c, Descriptor(b), Descriptor(c), b.offset + b.len <= c.offset,
           NEW u \in UnitsOf(b) \cap UnitsOf(c)
    PROVE  c.offset + c.len > b.offset + ArenaCapacity
<1>1. ArenaCapacity \in Nat \ {0}
  BY BlobAssumption
<1>2. /\ b.offset \in Nat /\ b.len \in Nat /\ c.offset \in Nat /\ c.len \in Nat
  BY DEF Descriptor
<1>3. PICK q \in Nat : /\ b.offset = ArenaCapacity * q + (b.offset % ArenaCapacity)
                       /\ b.offset % ArenaCapacity \in 0..(ArenaCapacity - 1)
  BY <1>2, ArenaDivision
<1>4. PICK p \in Nat : /\ c.offset = ArenaCapacity * p + (c.offset % ArenaCapacity)
                       /\ c.offset % ArenaCapacity \in 0..(ArenaCapacity - 1)
  BY <1>2, ArenaDivision
<1>5. PICK i \in 0..(b.len - 1) : u = (b.offset % ArenaCapacity) + i
  BY DEF UnitsOf
<1>6. PICK j \in 0..(c.len - 1) : u = (c.offset % ArenaCapacity) + j
  BY DEF UnitsOf
<1> DEFINE x == b.offset % ArenaCapacity
           y == c.offset % ArenaCapacity
<1> HIDE DEF x, y
<1>7. /\ x \in Nat /\ y \in Nat /\ i \in Nat /\ j \in Nat /\ x + i = y + j
      /\ i < b.len /\ j < c.len
      /\ b.offset = ArenaCapacity * q + x /\ c.offset = ArenaCapacity * p + y
  BY <1>1, <1>2, <1>3, <1>4, <1>5, <1>6 DEF x, y
<1>8. ArenaCapacity * (p - q) > 0
  <2>1. ArenaCapacity * q \in Nat /\ ArenaCapacity * p \in Nat
        /\ ArenaCapacity * (p - q) = ArenaCapacity * p - ArenaCapacity * q
    BY <1>1
  <2>2. ArenaCapacity * q + x + b.len <= ArenaCapacity * p + y
    BY <1>7
  <2> QED BY <1>2, <1>7, <2>1, <2>2
<1>9. p - q >= 1
  BY <1>1, <1>8
<1>10. ArenaCapacity * (p - q) >= ArenaCapacity
  BY <1>1, <1>9
<1>11. c.offset + j >= b.offset + ArenaCapacity
  <2>1. ArenaCapacity * q \in Nat /\ ArenaCapacity * p \in Nat
        /\ ArenaCapacity * (p - q) = ArenaCapacity * p - ArenaCapacity * q
    BY <1>1
  <2> QED BY <1>1, <1>2, <1>7, <1>10, <2>1
<1> QED BY <1>1, <1>2, <1>7, <1>11

(* What is reserved only grows.                                            *)
LEMMA StillBelow == \A a, b, c, d \in Nat : a + b <= c /\ c <= d => a + b <= d
OBVIOUS

(* Every sequence addresses a slot.                                        *)
LEMMA IndexInSlots == \A n \in Nat : Index(n) \in Slots
BY CapacityAssumption DEF Index, Slots

(* Neighbours share a slot in a ring of one slot only.                     *)
LEMMA NeighboursShareSlot ==
    ASSUME NEW n \in Nat, n >= 1, Index(n - 1) = Index(n)
    PROVE  Slots = {0}
<1>1. Capacity \in Nat \ {0}
  BY CapacityAssumption
<1> DEFINE q(x) == x \div Capacity
<1>2. /\ q(n) \in Int /\ q(n - 1) \in Int /\ Index(n) \in Int
      /\ n = Capacity * q(n) + Index(n) /\ n - 1 = Capacity * q(n - 1) + Index(n - 1)
  BY <1>1 DEF Index
<1> HIDE DEF q
<1>3. Capacity * (q(n) - q(n - 1)) = 1
  BY <1>1, <1>2
<1>4. q(n) - q(n - 1) >= 1
  BY <1>1, <1>2, <1>3
<1>5. Capacity * (q(n) - q(n - 1)) >= Capacity
  BY <1>1, <1>2, <1>4
<1>6. Capacity = 1
  BY <1>1, <1>3, <1>5
<1> QED BY <1>6 DEF Slots

(* oldest_retained leaves a ring of messages, or all of them.              *)
LEMMA OldestRetainedBounds ==
    \A w \in Nat : /\ OldestRetained(w) \in Nat /\ OldestRetained(w) >= 1
                   /\ OldestRetained(w) <= w + 1
                   /\ OldestRetained(w) > 1 => OldestRetained(w) + Capacity = w + 1
BY CapacityAssumption DEF OldestRetained

-----------------------------------------------------------------------------
(* Types, by who writes them *)

Blobs == [offset : 0..reserved, len : 0..ArenaCapacity]

ProducerTypes ==
    /\ slotSeq \in [Slots -> 0..MaxSeq \cup {SLOT_WRITING}]
    /\ write_seq \in 0..MaxSeq
    /\ reserved \in Nat
    /\ arena \in [Units -> 0..MaxSeq]
    /\ pseq \in 1..(MaxSeq + 1)
    /\ ppc \in {"idle", "copy", "slot", "publish"}
    /\ punits \in SUBSET Units
    /\ blob \in [Seqs -> Blobs]

ReaderTypes ==
    /\ rpc \in [Readers -> {"detached", "idle", "packet", "before", "copy", "overwritten",
                            "hole", "hole_slot", "scan"}]
    /\ cursor \in [Readers -> 1..(MaxSeq + 1)]
    /\ lapped \in [Readers -> Nat]
    /\ seen \in [Readers -> 0..MaxSeq]
    /\ runits \in [Readers -> SUBSET Units]
    /\ buf \in [Readers -> Payloads]
    /\ polls \in [Readers -> 0..(HolePeriod - 1)]
    /\ holeEnd \in [Readers -> 0..MaxSeq]
    /\ holeNext \in [Readers -> 0..(MaxSeq + 1)]
    /\ item \in [Readers -> [seq : 0..MaxSeq, data : Payloads]]

(* TypeOK in two parts.                                                    *)
LEMMA TypeSplit == TypeOK <=> ProducerTypes /\ ReaderTypes
BY DEF TypeOK, ProducerTypes, ReaderTypes, Blobs

(* The copy of an empty payload.                                           *)
LEMMA NoUnitsFacts == NoUnits \in Payloads /\ DOMAIN NoUnits = {}
<1>1. NoUnits \in [{} -> 0..MaxSeq]
  BY DEF NoUnits
<1> QED BY <1>1 DEF Payloads, NoUnits

(* The descriptors are well formed, and lapping is a matter of offsets.    *)
LEMMA BlobFacts ==
    ASSUME ProducerTypes, ArenaInv, NEW n \in Seqs
    PROVE  /\ Descriptor(blob[n])
           /\ blob[n].offset \in Nat /\ blob[n].len \in Nat
           /\ UnitsOf(blob[n]) \subseteq Units
           /\ blob[n].len = 0 => UnitsOf(blob[n]) = {}
<1>1. blob[n] \in Blobs
  BY DEF ProducerTypes
<1>2. blob[n].offset \in Nat /\ blob[n].len \in Nat
  BY <1>1, BlobAssumption DEF Blobs, ProducerTypes
<1>3. Descriptor(blob[n])
  BY <1>2 DEF Descriptor, ArenaInv
<1> QED BY <1>2, <1>3, UnitsOfFacts

(* BlobRef::EMPTY stands for no units.                                     *)
LEMMA EmptyFacts == Descriptor(EMPTY) /\ EMPTY.len = 0 /\ EMPTY.offset = 0 /\ UnitsOf(EMPTY) = {}
<1>1. ArenaCapacity \in Nat /\ ArenaCapacity * 0 = 0
  BY BlobAssumption
<1>2. 0 % ArenaCapacity = 0
  BY <1>1, MultipleIsStart
<1>3. Descriptor(EMPTY) /\ EMPTY.len = 0 /\ EMPTY.offset = 0
  BY <1>1, <1>2 DEF Descriptor, EMPTY
<1> QED BY <1>3, UnitsOfFacts

-----------------------------------------------------------------------------
(* The producer *)

(* The producer leaves the readers' variables alone.                       *)
LEMMA ProducerFrame ==
    ASSUME ProducerStep
    PROVE  UNCHANGED readerVars
BY DEF ProducerStep, Reserve, CopyUnitIn, MarkWriting, PublishSlot, PublishHeader, SkipTo

(* What reserve hands out is new, and in one piece.                        *)
LEMMA ReserveEffect ==
    ASSUME ProducerTypes, NEW len \in Lengths, Reserve(len)
    PROVE  /\ pseq \in Seqs /\ ppc \in {"idle", "publish"} /\ ppc' = "copy"
           /\ UNCHANGED <<slotSeq, write_seq, pseq, arena>>
           /\ reserved' \in Nat /\ reserved <= reserved'
           /\ \E b \in Blobs' :
                 /\ blob' = [blob EXCEPT ![pseq] = b]
                 /\ Descriptor(b) /\ punits' = UnitsOf(b)
                 /\ b.offset + b.len <= reserved'
                 /\ \/ b.len = 0 /\ reserved' = reserved
                    \/ b.len > 0 /\ reserved <= b.offset /\ b.offset + b.len = reserved'
<1>1. /\ pseq \in Seqs /\ ppc \in {"idle", "publish"} /\ ppc' = "copy" /\ reserved \in Nat
      /\ UNCHANGED <<slotSeq, write_seq, pseq, arena>>
  BY BlobAssumption DEF Reserve, ProducerTypes, Seqs, ringVars
<1>2. len \in 0..ArenaCapacity /\ ArenaCapacity \in Nat
  BY BlobAssumption
<1>3. CASE len = 0
  <2>1. blob' = [blob EXCEPT ![pseq] = EMPTY] /\ punits' = {} /\ reserved' = reserved
    BY <1>3 DEF Reserve
  <2>2. EMPTY \in Blobs'
    BY <1>1, <1>2, <2>1 DEF EMPTY, Blobs
  <2>3. EMPTY.offset + EMPTY.len <= reserved' /\ reserved <= reserved' /\ reserved' \in Nat
    BY <1>1, <2>1, EmptyFacts
  <2> QED BY <1>1, <2>1, <2>2, <2>3, EmptyFacts
<1>4. CASE len # 0
  <2> DEFINE b == [offset |-> Start(len), len |-> len]
  <2>1. /\ Start(len) \in Nat /\ Start(len) >= reserved
        /\ (Start(len) % ArenaCapacity) + len <= ArenaCapacity
    BY <1>1, <1>2, StartFacts
  <2>2. /\ blob' = [blob EXCEPT ![pseq] = b] /\ reserved' = Start(len) + len
        /\ punits' = UnitsOf(b)
    BY <1>1, <1>4 DEF Reserve, ProducerTypes
  <2>3. b.offset = Start(len) /\ b.len = len
    OBVIOUS
  <2>4. b \in Blobs' /\ reserved' \in Nat /\ reserved <= reserved'
    <3>1. Start(len) \in 0..reserved' /\ reserved' \in Nat /\ reserved <= reserved'
      BY <1>1, <1>2, <2>1, <2>2
    <3> QED BY <3>1, <1>2 DEF Blobs
  <2>5. Descriptor(b)
    BY <1>2, <2>1, <2>3 DEF Descriptor
  <2> HIDE DEF b
  <2>6. /\ b.len > 0 /\ b.offset + b.len = reserved' /\ reserved <= b.offset
        /\ b.offset + b.len <= reserved'
    BY <1>2, <1>4, <2>1, <2>2, <2>3
  <2> QED BY <1>1, <2>2, <2>4, <2>5, <2>6
<1> QED BY <1>3, <1>4

(* A step of the producer keeps its variables in range.                    *)
LEMMA ProducerKeepsTypes ==
    ASSUME ProducerTypes, ProducerInv, ProducerStep
    PROVE  ProducerTypes'
<1> USE BlobAssumption DEF ringVars, arenaVars
<1>s. ASSUME UNCHANGED <<reserved, blob>> PROVE blob' \in [Seqs -> Blobs']
  BY <1>s DEF ProducerTypes, Blobs
<1>1. ASSUME NEW len \in Lengths, Reserve(len) PROVE ProducerTypes'
  <2>0. /\ reserved' \in Nat /\ reserved <= reserved' /\ ppc' = "copy"
        /\ UNCHANGED <<slotSeq, write_seq, pseq, arena>>
    BY <1>1, ReserveEffect
  <2>1. PICK b \in Blobs' : /\ blob' = [blob EXCEPT ![pseq] = b]
                            /\ Descriptor(b) /\ punits' = UnitsOf(b)
    BY <1>1, ReserveEffect
  <2>2. Blobs \subseteq Blobs'
    BY <2>0 DEF Blobs, ProducerTypes
  <2>3. blob' \in [Seqs -> Blobs']
    BY <2>1, <2>2 DEF ProducerTypes
  <2>4. punits' \in SUBSET Units
    BY <2>1, UnitsOfFacts
  <2> QED BY <2>0, <2>3, <2>4 DEF ProducerTypes
<1>2. ASSUME NEW u \in Units, CopyUnitIn(u) PROVE ProducerTypes'
  <2>1. pseq \in 0..MaxSeq
    BY <1>2 DEF CopyUnitIn, ProducerTypes, ProducerInv, RingInv
  <2>2. arena' \in [Units -> 0..MaxSeq]
    BY <1>2, <2>1 DEF CopyUnitIn, ProducerTypes
  <2> QED BY <1>2, <1>s, <2>2 DEF CopyUnitIn, ProducerTypes
<1>3. CASE MarkWriting
  BY <1>3, <1>s DEF MarkWriting, ProducerTypes
<1>4. CASE PublishSlot
  <2>1. pseq \in 1..MaxSeq
    BY <1>4 DEF PublishSlot, ProducerTypes, ProducerInv, RingInv
  <2>2. slotSeq' \in [Slots -> 0..MaxSeq \cup {SLOT_WRITING}]
    <3>1. pseq \in 0..MaxSeq
      BY <2>1
    <3> QED BY <1>4, <3>1 DEF PublishSlot, ProducerTypes
  <2> QED BY <1>4, <1>s, <2>1, <2>2 DEF PublishSlot, ProducerTypes
<1>5. CASE PublishHeader
  BY <1>5, <1>s DEF PublishHeader, ProducerTypes
<1>6. ASSUME NEW seq \in Seqs, SkipTo(seq) PROVE ProducerTypes'
  BY <1>6, <1>s DEF SkipTo, ProducerTypes, Seqs
<1> QED BY <1>1, <1>2, <1>3, <1>4, <1>5, <1>6 DEF ProducerStep

(* Facts about the numbers of the ring.                                    *)
LEMMA RingFacts ==
    ASSUME ProducerTypes, RingInv
    PROVE  /\ pseq \in Nat /\ pseq >= 1 /\ write_seq \in Nat /\ Newest \in Nat
           /\ write_seq <= Newest /\ Newest < pseq
           /\ pseq # SLOT_WRITING /\ pseq - 1 # SLOT_WRITING /\ pseq - 1 \in Nat
           /\ Index(pseq) \in Slots /\ Index(pseq - 1) \in Slots
           /\ \A i \in Slots : slotSeq[i] \in Nat
<1>1. /\ pseq \in Nat /\ pseq >= 1 /\ write_seq \in Nat /\ pseq - 1 \in Nat
      /\ pseq # SLOT_WRITING /\ pseq - 1 # SLOT_WRITING
      /\ \A i \in Slots : slotSeq[i] \in Nat
  BY BlobAssumption DEF ProducerTypes
<1>2. Newest \in Nat /\ write_seq <= Newest /\ Newest < pseq
  BY <1>1 DEF Newest, RingInv
<1> QED BY <1>1, <1>2, IndexInSlots

(* The producer's steps keep the ring, and what is published only grows.   *)
LEMMA ProducerKeepsRing ==
    ASSUME ProducerTypes, RingInv, ContentInv, ProducerStep, ReaderTypes
    PROVE  RingInv' /\ Newest <= Newest' /\ Newest' \in Nat
<1>0. UNCHANGED seen
  BY ProducerFrame DEF readerVars
<1>1. /\ pseq \in Nat /\ pseq >= 1 /\ write_seq \in Nat /\ Newest \in Nat
      /\ write_seq <= Newest /\ Newest < pseq
      /\ pseq # SLOT_WRITING /\ pseq - 1 # SLOT_WRITING /\ pseq - 1 \in Nat
      /\ Index(pseq) \in Slots /\ Index(pseq - 1) \in Slots
      /\ \A i \in Slots : slotSeq[i] \in Nat
  BY RingFacts
<1>2. /\ \A i \in Slots : slotSeq[i] # SLOT_WRITING => slotSeq[i] <= Newest
      /\ \A r \in Readers : seen[r] <= Newest /\ seen[r] \in Nat
  BY BlobAssumption DEF RingInv, ReaderTypes
<1>s. ASSUME UNCHANGED <<slotSeq, write_seq, pseq>>,
             \/ ppc = "idle" /\ ppc' = "copy" /\ pseq <= MaxSeq
             \/ ppc = "publish" /\ ppc' = "copy" /\ pseq <= MaxSeq
             \/ ppc' = ppc
      PROVE  RingInv' /\ Newest <= Newest' /\ Newest' \in Nat
  <2>1. Newest <= Newest' /\ Newest' \in Nat
    BY <1>s, <1>1 DEF Newest, Fresh
  <2>2. /\ \A i \in Slots : slotSeq[i] # SLOT_WRITING => slotSeq[i] <= Newest'
        /\ \A r \in Readers : seen[r] <= Newest'
    BY <1>1, <1>2, <2>1
  <2> HIDE DEF Newest
  <2> QED BY <1>s, <1>0, <2>1, <2>2 DEF RingInv
<1>3. ASSUME NEW len \in Lengths, Reserve(len)
      PROVE  RingInv' /\ Newest <= Newest' /\ Newest' \in Nat
  BY <1>3, <1>s DEF Reserve, ringVars
<1>4. CASE \E u \in Units : CopyUnitIn(u)
  BY <1>4, <1>s DEF CopyUnitIn, ringVars
<1>5. CASE MarkWriting
  <2>1. /\ ppc = "copy" /\ ppc' = "slot" /\ UNCHANGED <<write_seq, pseq>>
        /\ slotSeq'[Index(pseq)] = SLOT_WRITING
        /\ \A i \in Slots \ {Index(pseq)} : slotSeq'[i] = slotSeq[i]
    BY <1>5, <1>1 DEF MarkWriting, ProducerTypes
  <2>2. Newest <= Newest' /\ Newest' \in Nat
    BY <2>1, <1>1 DEF Newest, Fresh
  <2>3. /\ \A i \in Slots : slotSeq'[i] # SLOT_WRITING => slotSeq'[i] <= Newest'
        /\ \A r \in Readers : seen[r] <= Newest'
    BY <1>1, <1>2, <2>1, <2>2
  <2> HIDE DEF Newest
  <2> QED BY <1>0, <2>1, <2>2, <2>3 DEF RingInv
<1>6. CASE PublishSlot
  <2>1. /\ ppc = "slot" /\ ppc' = "publish" /\ pseq' = pseq + 1 /\ UNCHANGED write_seq
        /\ slotSeq'[Index(pseq)] = pseq
        /\ \A i \in Slots \ {Index(pseq)} : slotSeq'[i] = slotSeq[i]
    BY <1>6, <1>1 DEF PublishSlot, ProducerTypes
  <2>2. pseq' - 1 = pseq
    BY <2>1, <1>1
  <2>3. Newest' = pseq
    BY <2>1, <2>2 DEF Newest, Fresh
  <2>4. /\ \A i \in Slots : slotSeq'[i] # SLOT_WRITING => slotSeq'[i] <= pseq
        /\ \A r \in Readers : seen[r] <= pseq
        /\ write_seq < pseq + 1
    BY <1>1, <1>2, <2>1
  <2> HIDE DEF Newest
  <2>5. RingInv'
    BY <1>0, <2>1, <2>2, <2>3, <2>4 DEF RingInv
  <2> QED BY <2>3, <2>5, <1>1
<1>7. CASE PublishHeader
  <2>1. ppc' = "idle" /\ write_seq' = pseq - 1 /\ UNCHANGED <<slotSeq, pseq>>
    BY <1>7 DEF PublishHeader
  <2>2. Newest' = pseq - 1
    BY <2>1 DEF Newest, Fresh
  <2>3. /\ \A i \in Slots : slotSeq[i] # SLOT_WRITING => slotSeq[i] <= pseq - 1
        /\ \A r \in Readers : seen[r] <= pseq - 1
        /\ pseq - 1 < pseq
    BY <1>1, <1>2
  <2> HIDE DEF Newest
  <2>4. RingInv'
    BY <1>0, <2>1, <2>2, <2>3 DEF RingInv
  <2> QED BY <2>2, <2>4, <1>1
<1>8. ASSUME NEW seq \in Seqs, SkipTo(seq)
      PROVE  RingInv' /\ Newest <= Newest' /\ Newest' \in Nat
  <2>1. /\ ppc = "idle" /\ ppc' = "idle" /\ pseq' = seq /\ seq > pseq /\ seq \in Nat
        /\ UNCHANGED <<slotSeq, write_seq>>
    BY <1>8, BlobAssumption DEF SkipTo, ringVars, Seqs
  <2>2. Newest = write_seq /\ Newest' = write_seq
    BY <2>1 DEF Newest, Fresh
  <2> HIDE DEF Newest
  <2>3. RingInv'
    BY <1>0, <1>1, <1>2, <2>1, <2>2 DEF RingInv
  <2> QED BY <2>2, <2>3, <1>1
<1> QED BY <1>3, <1>4, <1>5, <1>6, <1>7, <1>8 DEF ProducerStep

(* A message is gone when its slot has left it or the published messages   *)
(* are a lap past it.                                                      *)
Passed(m) == m < pseq /\ (slotSeq[Index(m)] # m \/ m + Capacity <= Newest)

GoneIsPassed == \A m \in Nat : Gone(m) <=> Passed(m)

(* The two ways to say that a message is gone agree.                       *)
LEMMA GoneMeans == ProducerTypes /\ RingInv => GoneIsPassed
<1> SUFFICES ASSUME ProducerTypes, RingInv, NEW m \in Nat
             PROVE  Gone(m) <=> Passed(m)
  BY DEF GoneIsPassed
<1>0. Capacity \in Nat \ {0} /\ Index(m) \in Slots
  BY CapacityAssumption, IndexInSlots
<1>1. /\ pseq \in Nat /\ pseq >= 1 /\ write_seq \in Nat /\ Newest \in Nat
      /\ write_seq <= Newest /\ Newest < pseq
      /\ pseq # SLOT_WRITING /\ pseq - 1 # SLOT_WRITING /\ pseq - 1 \in Nat
      /\ Index(pseq) \in Slots /\ Index(pseq - 1) \in Slots
      /\ \A i \in Slots : slotSeq[i] \in Nat
  BY RingFacts
<1>2. ASSUME Gone(m) PROVE slotSeq[Index(m)] # m \/ m + Capacity <= Newest
  BY <1>0, <1>1, <1>2 DEF Gone, RingInv
<1>3. ASSUME m < pseq, m + Capacity <= Newest PROVE Gone(m)
  <2>1. CASE ~Fresh
    BY <1>0, <1>1, <1>3, <2>1 DEF Newest, Gone
  <2>2. CASE slotSeq[Index(pseq - 1)] = pseq - 1 /\ Fresh
    <3>1. slotSeq[Index(pseq - 1)] >= m + Capacity
      BY <1>0, <1>1, <1>3, <2>2 DEF Newest
    <3> QED BY <1>1, <1>3, <2>2, <3>1 DEF Gone
  <2>3. CASE ppc = "slot" /\ Index(pseq - 1) = Index(pseq)
    <3>1. Slots = {0}
      BY <1>1, <2>3, NeighboursShareSlot
    <3>2. slotSeq[Index(m)] = SLOT_WRITING
      BY <1>0, <1>1, <2>3, <3>1 DEF RingInv
    <3>3. m # SLOT_WRITING
      BY <1>3, BlobAssumption DEF ProducerTypes
    <3> QED BY <1>3, <3>2, <3>3 DEF Gone
  <2> QED BY <2>1, <2>2, <2>3 DEF Fresh
<1>4. ASSUME m < pseq, slotSeq[Index(m)] # m PROVE Gone(m)
  BY <1>4 DEF Gone
<1>5. Gone(m) => m < pseq
  BY DEF Gone
<1> QED BY <1>2, <1>3, <1>4, <1>5 DEF Passed

(* A message that is gone stays gone.                                      *)
LEMMA GoneStays ==
    ASSUME ProducerTypes, ReaderTypes, ProducerInv, ProducerStep, NEW m \in Nat, Gone(m)
    PROVE  Gone(m)'
<1>0. RingInv /\ ContentInv /\ Capacity \in Nat
  BY CapacityAssumption DEF ProducerInv
<1>1. ProducerTypes' /\ RingInv' /\ Newest <= Newest' /\ Newest' \in Nat
  BY <1>0, ProducerKeepsTypes, ProducerKeepsRing
<1>2. m < pseq /\ (slotSeq[Index(m)] # m \/ m + Capacity <= Newest) /\ Newest \in Nat
      /\ pseq \in Nat /\ Index(pseq) \in Slots
  BY <1>0, GoneMeans, RingFacts DEF GoneIsPassed, Passed
<1>3. pseq <= pseq' /\ pseq' \in Nat
  BY <1>1, <1>2, BlobAssumption DEF ProducerStep, Reserve, CopyUnitIn, MarkWriting, PublishSlot,
                                    PublishHeader, SkipTo, ProducerTypes
<1>4. slotSeq[Index(m)] # m => slotSeq'[Index(m)] # m
  <2>1. Index(m) \in Slots /\ m # SLOT_WRITING
    BY <1>2, IndexInSlots, BlobAssumption DEF ProducerTypes
  <2>2. CASE MarkWriting
    BY <2>1, <2>2, <1>2 DEF MarkWriting, ProducerTypes
  <2>3. CASE PublishSlot
    BY <2>1, <2>3, <1>2 DEF PublishSlot, ProducerTypes
  <2>4. CASE UNCHANGED slotSeq
    BY <2>4
  <2> QED BY <2>2, <2>3, <2>4 DEF ProducerStep, Reserve, CopyUnitIn, PublishHeader, SkipTo, ringVars
<1>5. m + Capacity <= Newest => m + Capacity <= Newest'
  BY <1>0, <1>1, <1>2
<1>6. m < pseq'
  BY <1>2, <1>3
<1>7. GoneIsPassed'
  BY <1>1, GoneMeans, PTL
<1>8. Passed(m)'
  BY <1>2, <1>4, <1>5, <1>6 DEF Passed
<1> QED BY <1>7, <1>8 DEF GoneIsPassed

(* Numbers of the arena.                                                   *)
LEMMA ArenaFacts ==
    ASSUME ProducerTypes, ArenaInv
    PROVE  /\ reserved \in Nat /\ ArenaCapacity \in Nat /\ pseq \in Nat
           /\ \A n \in Seqs : n \in Nat /\ blob[n].offset \in Nat /\ blob[n].len \in Nat
           /\ \A n \in Seqs : blob[n].offset + blob[n].len <= reserved
<1>1. reserved \in Nat /\ ArenaCapacity \in Nat /\ pseq \in Nat /\ \A n \in Seqs : n \in Nat
  BY BlobAssumption DEF ProducerTypes, Seqs
<1> QED BY <1>1, BlobFacts DEF ArenaInv

(* Ranges are handed out in order.                                         *)
LEMMA ProducerKeepsArena ==
    ASSUME ProducerTypes, ProducerInv, ProducerStep
    PROVE  ArenaInv'
<1>0. /\ RingInv /\ ArenaInv /\ reserved \in Nat /\ ArenaCapacity \in Nat /\ pseq \in Nat
      /\ \A n \in Seqs : n \in Nat /\ blob[n].offset \in Nat /\ blob[n].len \in Nat
      /\ \A n \in Seqs : blob[n].offset + blob[n].len <= reserved
  BY ArenaFacts DEF ProducerInv
<1>s. ASSUME UNCHANGED <<blob, reserved>>, Reserved \subseteq Reserved' PROVE ArenaInv'
  BY <1>s, <1>0 DEF ArenaInv
<1>1. ASSUME NEW len \in Lengths, Reserve(len) PROVE ArenaInv'
  <2>1. /\ pseq \in Seqs /\ ppc \in {"idle", "publish"} /\ ppc' = "copy" /\ pseq' = pseq
        /\ reserved' \in Nat /\ reserved <= reserved'
    BY <1>1, ReserveEffect
  <2>2. PICK b \in Blobs' :
           /\ blob' = [blob EXCEPT ![pseq] = b]
           /\ Descriptor(b) /\ b.offset + b.len <= reserved'
           /\ \/ b.len = 0 /\ reserved' = reserved
              \/ b.len > 0 /\ reserved <= b.offset /\ b.offset + b.len = reserved'
    BY <1>1, ReserveEffect
  <2>3. blob'[pseq] = b /\ \A n \in Seqs \ {pseq} : blob'[n] = blob[n]
    BY <2>1, <2>2 DEF ProducerTypes
  <2>4. Reserved' = Reserved \cup {pseq} /\ pseq \notin Reserved
    BY <2>1, <1>0 DEF Reserved
  <2>b. b.offset \in Nat /\ b.len \in Nat /\ (b.offset % ArenaCapacity) + b.len <= ArenaCapacity
    BY <2>2 DEF Descriptor
  <2>5. \A n \in Seqs : /\ (blob'[n].offset % ArenaCapacity) + blob'[n].len <= ArenaCapacity
                        /\ blob'[n].offset + blob'[n].len <= reserved'
    <3> SUFFICES ASSUME NEW n \in Seqs
                 PROVE  /\ (blob'[n].offset % ArenaCapacity) + blob'[n].len <= ArenaCapacity
                        /\ blob'[n].offset + blob'[n].len <= reserved'
      OBVIOUS
    <3>1. CASE n = pseq
      BY <3>1, <2>2, <2>3, <2>b
    <3>2. CASE n # pseq
      <4>1. /\ (blob[n].offset % ArenaCapacity) + blob[n].len <= ArenaCapacity
            /\ blob[n].offset + blob[n].len <= reserved
        BY <1>0 DEF ArenaInv
      <4>2. blob[n].offset + blob[n].len <= reserved'
        <5>1. blob[n].offset \in Nat /\ blob[n].len \in Nat /\ reserved \in Nat /\ reserved' \in Nat
          BY <1>0, <2>1
        <5> QED BY <5>1, <4>1, <2>1, StillBelow
      <4> QED BY <3>2, <4>1, <4>2, <2>3
    <3> QED BY <3>1, <3>2
  <2>6. ASSUME NEW m \in Seqs, NEW n \in Seqs, m < n, blob'[m].len > 0, blob'[n].len > 0
        PROVE  blob'[m].offset + blob'[m].len <= blob'[n].offset
    <3>1. CASE m # pseq /\ n # pseq
      BY <3>1, <2>3, <2>6, <1>0 DEF ArenaInv
    <3>2. CASE n = pseq
      <4>1. m # pseq /\ blob[m].offset + blob[m].len <= reserved
        BY <3>2, <2>6, <1>0
      <4>2. b.len > 0 /\ reserved <= b.offset
        BY <3>2, <2>2, <2>3, <2>6, <2>b
      <4>3. blob[m].offset + blob[m].len <= b.offset
        BY <4>1, <4>2, <1>0, <2>b
      <4> QED BY <3>2, <4>1, <4>3, <2>3
    <3>3. CASE m = pseq
      <4>1. n # pseq /\ n \notin Reserved
        BY <3>3, <2>6, <1>0, <2>4 DEF Reserved
      <4>2. blob'[n] = EMPTY
        BY <4>1, <2>3, <1>0 DEF ArenaInv
      <4> QED BY <4>2, <2>6, EmptyFacts
    <3> QED BY <3>1, <3>2, <3>3
  <2>7. \A n \in Seqs : n \notin Reserved' => blob'[n] = EMPTY
    BY <2>3, <2>4, <1>0 DEF ArenaInv
  <2>8. reserved' = 0 \/ \E n \in Reserved' : /\ blob'[n].len > 0
                                              /\ blob'[n].offset + blob'[n].len = reserved'
    <3>1. CASE b.len > 0 /\ b.offset + b.len = reserved'
      BY <3>1, <2>3, <2>4
    <3>2. CASE reserved' = reserved /\ reserved # 0
      <4>1. PICK n \in Reserved : blob[n].len > 0 /\ blob[n].offset + blob[n].len = reserved
        BY <3>2, <1>0 DEF ArenaInv
      <4>2. n \in Seqs /\ n # pseq
        BY <2>4 DEF Reserved
      <4>3. n \in Reserved' /\ blob'[n] = blob[n]
        BY <4>2, <2>3, <2>4
      <4> QED BY <3>2, <4>1, <4>3
    <3>3. CASE reserved' = reserved /\ reserved = 0
      BY <3>3
    <3> QED BY <2>2, <3>1, <3>2, <3>3
  <2> QED BY <2>5, <2>6, <2>7, <2>8 DEF ArenaInv
<1>2. CASE \E u \in Units : CopyUnitIn(u)
  BY <1>2, <1>s DEF CopyUnitIn, Reserved
<1>3. CASE MarkWriting
  BY <1>3, <1>s DEF MarkWriting, Reserved, arenaVars
<1>4. CASE PublishSlot
  BY <1>4, <1>s, <1>0 DEF PublishSlot, Reserved, arenaVars
<1>5. CASE PublishHeader
  BY <1>5, <1>s DEF PublishHeader, Reserved, arenaVars
<1>6. ASSUME NEW seq \in Seqs, SkipTo(seq) PROVE ArenaInv'
  BY <1>6, <1>s, <1>0 DEF SkipTo, Reserved, arenaVars
<1> QED BY <1>1, <1>2, <1>3, <1>4, <1>5, <1>6 DEF ProducerStep

(* The payload being copied in does not touch one that is not lapped.      *)
LEMMA ProducerKeepsContent ==
    ASSUME ProducerTypes, ProducerInv, ProducerStep
    PROVE  ContentInv'
<1>0. /\ RingInv /\ ArenaInv /\ ContentInv /\ reserved \in Nat /\ ArenaCapacity \in Nat
      /\ pseq \in Nat /\ \A n \in Seqs : n \in Nat /\ blob[n].offset \in Nat /\ blob[n].len \in Nat
      /\ \A n \in Seqs : blob[n].offset + blob[n].len <= reserved
  BY ArenaFacts DEF ProducerInv
<1>1. ASSUME NEW len \in Lengths, Reserve(len) PROVE ContentInv'
  <2>1. /\ pseq \in Seqs /\ ppc' = "copy" /\ pseq' = pseq /\ arena' = arena
        /\ reserved' \in Nat /\ reserved <= reserved'
    BY <1>1, ReserveEffect
  <2>2. PICK b \in Blobs' : blob' = [blob EXCEPT ![pseq] = b] /\ punits' = UnitsOf(b)
    BY <1>1, ReserveEffect
  <2>3. blob'[pseq] = b /\ \A n \in Seqs \ {pseq} : blob'[n] = blob[n]
    BY <2>1, <2>2 DEF ProducerTypes
  <2>4. ASSUME NEW n \in Seqs, n < pseq, ~(reserved' - blob'[n].offset > ArenaCapacity),
               NEW u \in UnitsOf(blob'[n])
        PROVE  arena[u] = n
    <3>1. blob'[n] = blob[n] /\ n # pseq
      BY <2>3, <2>4, <1>0
    <3>2. ~(reserved' - blob[n].offset > ArenaCapacity)
      BY <2>4, <3>1
    <3>3. ~IsLapped(blob[n])
      <4>1. blob[n].offset \in Nat /\ reserved \in Nat /\ reserved' \in Nat /\ ArenaCapacity \in Nat
        BY <1>0, <2>1
      <4> QED BY <4>1, <3>2, <2>1 DEF IsLapped
    <3> QED BY <3>1, <3>3, <2>4, <1>0 DEF ContentInv
  <2>5. \A n \in Seqs : n < pseq' /\ ~(reserved' - blob'[n].offset > ArenaCapacity) =>
           \A u \in UnitsOf(blob'[n]) : arena'[u] = n
    BY <2>1, <2>4
  <2>6. punits' \subseteq UnitsOf(blob'[pseq']) /\ UnitsOf(blob'[pseq']) \ punits' = {}
    BY <2>1, <2>2, <2>3
  <2> QED BY <2>1, <2>5, <2>6 DEF ContentInv, UnitsOf, IsLapped
<1>2. ASSUME NEW u \in Units, CopyUnitIn(u) PROVE ContentInv'
  <2>1. /\ ppc = "copy" /\ u \in punits /\ arena' = [arena EXCEPT ![u] = pseq]
        /\ punits' = punits \ {u} /\ UNCHANGED <<reserved, pseq, ppc, blob>>
    BY <1>2 DEF CopyUnitIn
  <2>2. pseq \in Seqs /\ u \in UnitsOf(blob[pseq])
    BY <2>1, <1>0 DEF RingInv, ContentInv, ProducerTypes, Seqs
  <2>3. ASSUME NEW n \in Seqs, n < pseq, ~IsLapped(blob[n])
        PROVE  u \notin UnitsOf(blob[n])
    <3>1. SUFFICES ASSUME u \in UnitsOf(blob[n]) PROVE FALSE
      OBVIOUS
    <3>2. Descriptor(blob[n]) /\ Descriptor(blob[pseq])
      BY <1>0, <2>2, BlobFacts
    <3>3. blob[n].len > 0 /\ blob[pseq].len > 0
      BY <1>0, <2>2, <3>1, BlobFacts
    <3>4. blob[n].offset + blob[n].len <= blob[pseq].offset
      BY <1>0, <2>2, <2>3, <3>3 DEF ArenaInv
    <3>5. blob[pseq].offset + blob[pseq].len > blob[n].offset + ArenaCapacity
      BY <2>2, <3>1, <3>2, <3>4, OverlapMeansLapped
    <3>6. reserved - blob[n].offset > ArenaCapacity
      <4>1. /\ blob[n].offset \in Nat /\ blob[pseq].offset \in Nat /\ blob[pseq].len \in Nat
            /\ reserved \in Nat /\ ArenaCapacity \in Nat
            /\ blob[pseq].offset + blob[pseq].len <= reserved
        BY <1>0, <2>2
      <4> QED BY <4>1, <3>5
    <3> QED BY <2>3, <3>6 DEF IsLapped
  <2>4. \A n \in Seqs : n < pseq /\ ~IsLapped(blob[n]) => \A v \in UnitsOf(blob[n]) : arena'[v] = n
    <3> SUFFICES ASSUME NEW n \in Seqs, n < pseq, ~IsLapped(blob[n]), NEW v \in UnitsOf(blob[n])
                 PROVE  arena'[v] = n
      OBVIOUS
    <3>1. v # u /\ v \in Units
      BY <2>3, <1>0, BlobFacts
    <3>2. arena[v] = n
      BY <1>0 DEF ContentInv
    <3> QED BY <3>1, <3>2, <2>1 DEF ProducerTypes
  <2>5. \A v \in UnitsOf(blob[pseq]) \ punits' : arena'[v] = pseq
    <3> SUFFICES ASSUME NEW v \in UnitsOf(blob[pseq]) \ punits' PROVE arena'[v] = pseq
      OBVIOUS
    <3>1. v \in Units
      BY <1>0, <2>2, BlobFacts
    <3> QED BY <3>1, <2>1, <1>0 DEF ContentInv, ProducerTypes
  <2>6. punits' \subseteq UnitsOf(blob[pseq])
    BY <2>1, <1>0 DEF ContentInv
  <2>7. \A n \in Seqs : IsLapped(blob[n])' <=> IsLapped(blob[n])
    BY <2>1 DEF IsLapped
  <2> QED BY <2>1, <2>4, <2>5, <2>6, <2>7 DEF ContentInv, UnitsOf
<1>s. ASSUME UNCHANGED <<arena, reserved, blob, pseq, punits>>, ppc' \in {"slot", "idle"},
             ppc' = "slot" => ppc = "copy" /\ punits = {}, ppc' = "idle" => ppc = "publish"
      PROVE  ContentInv'
  BY <1>s, <1>0 DEF ContentInv, IsLapped, UnitsOf
<1>3. CASE MarkWriting
  BY <1>3, <1>s DEF MarkWriting, arenaVars
<1>4. CASE PublishSlot
  <2>1. /\ ppc = "slot" /\ ppc' = "publish" /\ pseq' = pseq + 1
        /\ UNCHANGED <<arena, reserved, blob, punits>>
    BY <1>4 DEF PublishSlot, arenaVars
  <2>2. punits = {} /\ \A u \in UnitsOf(blob[pseq]) : arena[u] = pseq
    BY <2>1, <1>0 DEF ContentInv
  <2>3. \A n \in Seqs : n < pseq + 1 => n < pseq \/ n = pseq
    BY <1>0
  <2>4. \A n \in Seqs : n < pseq + 1 /\ ~IsLapped(blob[n]) => \A u \in UnitsOf(blob[n]) : arena[u] = n
    BY <2>2, <2>3, <1>0 DEF ContentInv
  <2> QED BY <2>1, <2>2, <2>4 DEF ContentInv, IsLapped, UnitsOf
<1>5. CASE PublishHeader
  BY <1>5, <1>s DEF PublishHeader, arenaVars
<1>6. ASSUME NEW seq \in Seqs, SkipTo(seq) PROVE ContentInv'
  <2>1. /\ ppc = "idle" /\ ppc' = "idle" /\ pseq' = seq
        /\ UNCHANGED <<arena, reserved, blob, punits>>
    BY <1>6 DEF SkipTo, arenaVars
  <2>2. \A n \in Seqs : ~(n < pseq) => UnitsOf(blob[n]) = {}
    <3>1. \A n \in Seqs : ~(n < pseq) => n \notin Reserved
      BY <2>1, <1>0 DEF Reserved
    <3>2. \A n \in Seqs : ~(n < pseq) => blob[n] = EMPTY
      BY <3>1, <1>0 DEF ArenaInv
    <3> QED BY <3>2, EmptyFacts
  <2>3. \A n \in Seqs : ~IsLapped(blob[n]) => \A u \in UnitsOf(blob[n]) : arena[u] = n
    BY <2>2, <1>0 DEF ContentInv
  <2>4. punits = {}
    BY <2>1, <1>0 DEF ContentInv
  <2> QED BY <2>1, <2>3, <2>4 DEF ContentInv, IsLapped, UnitsOf
<1> QED BY <1>1, <1>2, <1>3, <1>4, <1>5, <1>6 DEF ProducerStep

(* The producer's counters grow; the descriptors of published messages stay. *)
LEMMA ProducerGrows ==
    ASSUME ProducerTypes, ProducerInv, ProducerStep
    PROVE  /\ pseq <= pseq' /\ write_seq <= write_seq' /\ reserved <= reserved'
           /\ {pseq, pseq', write_seq, write_seq', reserved, reserved'} \subseteq Nat
           /\ \A n \in Seqs : n < pseq => blob'[n] = blob[n]
<1>0. /\ RingInv /\ ArenaInv /\ pseq \in Nat /\ write_seq \in Nat /\ reserved \in Nat
      /\ write_seq < pseq
  BY BlobAssumption DEF ProducerInv, RingInv, ProducerTypes
<1>1. /\ ProducerTypes' /\ pseq' \in Nat /\ write_seq' \in Nat /\ reserved' \in Nat
  BY ProducerKeepsTypes, <1>0, BlobAssumption DEF ProducerTypes, ProducerInv
<1>2. ASSUME NEW len \in Lengths, Reserve(len)
      PROVE  /\ pseq <= pseq' /\ write_seq <= write_seq' /\ reserved <= reserved'
             /\ \A n \in Seqs : n < pseq => blob'[n] = blob[n]
  <2>1. /\ UNCHANGED <<pseq, write_seq>> /\ reserved <= reserved'
        /\ \E b \in Blobs' : blob' = [blob EXCEPT ![pseq] = b]
    BY <1>2, ReserveEffect
  <2>2. \A n \in Seqs : n < pseq => n # pseq
    BY <1>0, BlobAssumption DEF Seqs
  <2> QED BY <1>0, <2>1, <2>2 DEF ProducerTypes
<1>3. CASE \E u \in Units : CopyUnitIn(u)
  BY <1>0, <1>3 DEF CopyUnitIn, ringVars
<1>4. CASE MarkWriting
  BY <1>0, <1>4 DEF MarkWriting, arenaVars
<1>5. CASE PublishSlot
  BY <1>0, <1>5 DEF PublishSlot, arenaVars
<1>6. CASE PublishHeader
  BY <1>0, <1>6 DEF PublishHeader, arenaVars
<1>7. ASSUME NEW seq \in Seqs, SkipTo(seq)
      PROVE  /\ pseq <= pseq' /\ write_seq <= write_seq' /\ reserved <= reserved'
             /\ \A n \in Seqs : n < pseq => blob'[n] = blob[n]
  BY <1>0, <1>7, BlobAssumption DEF SkipTo, ringVars, arenaVars, Seqs
<1> QED BY <1>0, <1>1, <1>2, <1>3, <1>4, <1>5, <1>6, <1>7 DEF ProducerStep

(* What a reader relies on survives the producer's steps.                  *)
LEMMA ProducerKeepsReaders ==
    ASSUME ProducerTypes, ReaderTypes, ProducerInv, ProducerStep,
           NEW r \in Readers, ReaderInv(r)
    PROVE  ReaderInv(r)'
<1>0. /\ rpc'[r] = rpc[r] /\ cursor'[r] = cursor[r] /\ runits'[r] = runits[r]
      /\ buf'[r] = buf[r] /\ item'[r] = item[r] /\ holeEnd'[r] = holeEnd[r]
      /\ holeNext'[r] = holeNext[r]
  BY ProducerFrame DEF readerVars, holeVars
<1>1. /\ pseq <= pseq' /\ write_seq <= write_seq' /\ reserved <= reserved'
      /\ pseq \in Nat /\ pseq' \in Nat /\ write_seq \in Nat /\ write_seq' \in Nat
      /\ reserved \in Nat /\ reserved' \in Nat
      /\ \A n \in Seqs : n < pseq => blob'[n] = blob[n]
  BY ProducerGrows
<1>2. /\ cursor[r] \in Nat /\ cursor[r] >= 1 /\ item[r].seq \in 0..MaxSeq
      /\ holeEnd[r] \in Nat /\ holeNext[r] \in Nat
      /\ cursor[r] < pseq => cursor[r] \in Seqs
  BY BlobAssumption DEF ReaderTypes, ProducerTypes, Seqs
<1>3. CopyOutInv(r)'
  <2>1. rpc[r] \in {"packet", "before", "copy"} => cursor[r] < pseq /\ cursor[r] < pseq'
    BY <1>1, <1>2 DEF ReaderInv, CopyOutInv
  <2>2. CASE rpc[r] # "copy"
    BY <1>0, <2>1, <2>2 DEF ReaderInv, CopyOutInv
  <2>3. CASE rpc[r] = "copy"
    <3>1. blob'[cursor[r]] = blob[cursor[r]] /\ cursor[r] \in Seqs
      BY <1>1, <1>2, <2>1, <2>3
    <3>2. UnitsOf(blob[cursor[r]])' = UnitsOf(blob[cursor[r]])
      BY <1>0, <3>1 DEF UnitsOf
    <3>3. ~IsLapped(blob[cursor[r]])' => ~IsLapped(blob[cursor[r]])
      <4>1. blob[cursor[r]].offset \in Nat /\ ArenaCapacity \in Nat
        BY <3>1, ArenaFacts DEF ProducerInv
      <4> QED BY <4>1, <1>0, <1>1, <3>1 DEF IsLapped
    <3> QED BY <1>0, <2>1, <2>3, <3>2, <3>3 DEF ReaderInv, CopyOutInv
  <2> QED BY <2>2, <2>3
<1>4. ItemInv(r)'
  <2>1. item[r].seq < pseq /\ item[r].seq < pseq'
    BY <1>1, <1>2, BlobAssumption DEF ReaderInv, ItemInv
  <2>2. item[r].seq # 0 => UnitsOf(blob[item[r].seq])' = UnitsOf(blob[item[r].seq])
    <3>1. item[r].seq # 0 => item[r].seq \in Seqs
      BY <1>2, BlobAssumption DEF Seqs
    <3> QED BY <1>0, <1>1, <2>1, <3>1 DEF UnitsOf
  <2> QED BY <1>0, <2>1, <2>2 DEF ReaderInv, ItemInv
<1>5. HoleInv(r)'
  <2>1. holeEnd[r] <= write_seq => holeEnd[r] <= write_seq'
    BY <1>1, <1>2
  <2>2. ASSUME NEW m \in cursor[r]..(holeNext[r] - 1), Gone(m) PROVE Gone(m)'
    BY <1>2, <2>2, GoneStays
  <2>3. rpc[r] = "scan" => \A m \in cursor[r]..(holeNext[r] - 1) : Gone(m)'
    BY <2>2 DEF ReaderInv, HoleInv
  <2> QED BY <1>0, <2>1, <2>3 DEF ReaderInv, HoleInv
<1> QED BY <1>3, <1>4, <1>5 DEF ReaderInv

-----------------------------------------------------------------------------
(* The readers *)

RingStays == UNCHANGED <<slotSeq, write_seq, reserved, arena, pseq, ppc, punits, blob>>

(* Readers only read: ring, arena and producer stay as they are.           *)
LEMMA ReaderFrame ==
    ASSUME NEW r \in Readers, Attach(r) \/ ReaderStep(r)
    PROVE  RingStays
BY DEF Attach, ReaderStep, LoadSeq, RecheckSeq, CheckBefore, CopyUnitOut, CheckAfter,
       SkipOverwritten, HoleLoadHeader, HoleLoadSlot, HoleScan,
       ringVars, arenaVars, producerVars, RingStays

(* What holds of ring and arena does while they stay.                      *)
LEMMA RingStaysFacts ==
    ASSUME RingStays, ProducerTypes, ArenaInv, ContentInv
    PROVE  ProducerTypes' /\ ArenaInv' /\ ContentInv' /\ Newest' = Newest
<1>1. ProducerTypes'
  BY DEF RingStays, ProducerTypes, Blobs
<1>2. Newest' = Newest
  BY DEF RingStays, Newest, Fresh
<1>3. ArenaInv'
  BY DEF RingStays, ArenaInv, Reserved
<1>4. ContentInv'
  BY DEF RingStays, ContentInv, IsLapped, UnitsOf
<1> QED BY <1>1, <1>2, <1>3, <1>4

SameReader(s) ==
    /\ rpc'[s] = rpc[s] /\ cursor'[s] = cursor[s] /\ seen'[s] = seen[s]
    /\ runits'[s] = runits[s] /\ buf'[s] = buf[s] /\ item'[s] = item[s]
    /\ holeEnd'[s] = holeEnd[s] /\ holeNext'[s] = holeNext[s]

(* A reader's step leaves the other readers alone.                         *)
LEMMA OtherReaders ==
    ASSUME ReaderTypes, NEW r \in Readers, Attach(r) \/ ReaderStep(r),
           NEW s \in Readers, s # r
    PROVE  SameReader(s)
BY DEF Attach, ReaderStep, LoadSeq, RecheckSeq, CheckBefore, CopyUnitOut, CheckAfter,
       SkipOverwritten, HoleLoadHeader, HoleLoadSlot, HoleScan, SkipCurrent, ToPc,
       SameReader, ReaderTypes, holeVars

(* A reader that neither is touched nor sees the ring change.              *)
LEMMA SameReaderKeeps ==
    ASSUME RingStays, NEW s \in Readers, SameReader(s), ReaderInv(s)
    PROVE  ReaderInv(s)'
<1>1. \A m : Gone(m)' <=> Gone(m)
  BY DEF RingStays, Gone
<1>2. CopyOutInv(s)'
  BY DEF RingStays, SameReader, ReaderInv, CopyOutInv, IsLapped, UnitsOf
<1>3. ItemInv(s)'
  BY DEF RingStays, SameReader, ReaderInv, ItemInv, UnitsOf
<1>4. HoleInv(s)'
  BY <1>1 DEF RingStays, SameReader, ReaderInv, HoleInv
<1> QED BY <1>2, <1>3, <1>4 DEF ReaderInv

(* A copy has units of the arena, each with a message's number.            *)
LEMMA PayloadFacts ==
    ASSUME NEW p \in Payloads
    PROVE  DOMAIN p \subseteq Units /\ \A v \in DOMAIN p : p[v] \in 0..MaxSeq
BY DEF Payloads

(* The numbers a reader works with.                                        *)
LEMMA ReaderFacts ==
    ASSUME ProducerTypes, ReaderTypes, RingInv, NEW r \in Readers
    PROVE  /\ cursor[r] \in Nat /\ cursor[r] >= 1 /\ cursor[r] <= MaxSeq + 1
           /\ MaxSeq \in Nat /\ pseq \in Nat /\ pseq <= MaxSeq + 1
           /\ write_seq \in Nat /\ write_seq <= MaxSeq /\ write_seq < pseq
           /\ holeEnd[r] \in Nat /\ holeEnd[r] <= MaxSeq
           /\ holeNext[r] \in Nat /\ holeNext[r] <= MaxSeq + 1
           /\ lapped[r] \in Nat /\ seen[r] \in Nat /\ seen[r] <= MaxSeq
           /\ SLOT_WRITING \in Nat /\ Index(cursor[r]) \in Slots
           /\ slotSeq[Index(cursor[r])] \in 0..MaxSeq \cup {SLOT_WRITING}
<1>1. cursor[r] \in 1..(MaxSeq + 1) /\ MaxSeq \in Nat /\ SLOT_WRITING \in Nat
  BY BlobAssumption DEF ReaderTypes
<1>2. Index(cursor[r]) \in Slots
  BY <1>1, IndexInSlots
<1> QED BY <1>1, <1>2 DEF ReaderTypes, ProducerTypes, RingInv

(* A reader's step keeps its variables in range.                           *)
LEMMA ReaderKeepsTypes ==
    ASSUME ProducerTypes, ReaderTypes, RingInv, ArenaInv, NEW r \in Readers, ReaderInv(r),
           Attach(r) \/ ReaderStep(r)
    PROVE  ReaderTypes'
<1>0. /\ cursor[r] \in Nat /\ cursor[r] >= 1 /\ cursor[r] <= MaxSeq + 1
      /\ MaxSeq \in Nat /\ pseq \in Nat /\ pseq <= MaxSeq + 1
      /\ write_seq \in Nat /\ write_seq <= MaxSeq /\ write_seq < pseq
      /\ holeEnd[r] \in Nat /\ holeEnd[r] <= MaxSeq
      /\ holeNext[r] \in Nat /\ holeNext[r] <= MaxSeq + 1
      /\ lapped[r] \in Nat /\ seen[r] \in Nat /\ seen[r] <= MaxSeq
      /\ SLOT_WRITING \in Nat /\ Index(cursor[r]) \in Slots
      /\ slotSeq[Index(cursor[r])] \in 0..MaxSeq \cup {SLOT_WRITING}
  BY ReaderFacts
<1>s. rpc[r] \in {"packet", "before", "copy"} =>
         cursor[r] + 1 \in 1..(MaxSeq + 1) /\ lapped[r] + 1 \in Nat /\ cursor[r] \in 0..MaxSeq
  BY <1>0 DEF ReaderInv, CopyOutInv
<1>1. CASE Attach(r)
  <2>1. OldestRetained(write_seq) \in 1..(MaxSeq + 1)
    BY <1>0, OldestRetainedBounds
  <2> QED BY <1>1, <2>1 DEF Attach, ToPc, ReaderTypes, holeVars
<1>2. CASE LoadSeq(r)
  <2>1. (polls[r] + 1) % HolePeriod \in 0..(HolePeriod - 1)
    BY BlobAssumption DEF ReaderTypes
  <2>2. slotSeq[Index(cursor[r])] # SLOT_WRITING => slotSeq[Index(cursor[r])] \in 0..MaxSeq
    BY <1>0
  <2> QED BY <1>2, <2>1, <2>2 DEF LoadSeq, ToPc, ReaderTypes
<1>3. CASE RecheckSeq(r)
  <2>1. /\ slotSeq[Index(cursor[r])] # SLOT_WRITING => slotSeq[Index(cursor[r])] \in 0..MaxSeq
        /\ 0 \in 0..MaxSeq
    BY <1>0
  <2> QED BY <1>3, <2>1 DEF RecheckSeq, ToPc, ReaderTypes, holeVars
<1>4. CASE CheckBefore(r)
  <2>1. rpc[r] = "before" /\ cursor[r] \in Seqs
    BY <1>4, <1>0, <1>s DEF CheckBefore, Seqs
  <2>2. UnitsOf(blob[cursor[r]]) \subseteq Units
    BY <2>1, BlobFacts
  <2>3. /\ cursor' \in [Readers -> 1..(MaxSeq + 1)]
        /\ lapped' \in [Readers -> Nat]
    <3>1. CASE IsLapped(blob[cursor[r]])
      BY <1>4, <2>1, <3>1, <1>s DEF CheckBefore, SkipCurrent, ReaderTypes
    <3>2. CASE ~IsLapped(blob[cursor[r]])
      BY <1>4, <3>2 DEF CheckBefore, ReaderTypes
    <3> QED BY <3>1, <3>2
  <2>4. runits' \in [Readers -> SUBSET Units]
    BY <1>4, <2>2 DEF CheckBefore, ReaderTypes
  <2> QED BY <1>4, <2>3, <2>4 DEF CheckBefore, SkipCurrent, ToPc, ReaderTypes, holeVars
<1>5. ASSUME NEW u \in Units, CopyUnitOut(r, u) PROVE ReaderTypes'
  <2> DEFINE p == [v \in DOMAIN buf[r] \cup {u} |-> IF v = u THEN arena[u] ELSE buf[r][v]]
  <2>1. buf' = [buf EXCEPT ![r] = p]
    BY <1>5 DEF CopyUnitOut
  <2>2. buf[r] \in Payloads /\ arena[u] \in 0..MaxSeq
    BY DEF ReaderTypes, ProducerTypes
  <2>3. p \in [DOMAIN buf[r] \cup {u} -> 0..MaxSeq] /\ DOMAIN buf[r] \cup {u} \in SUBSET Units
    BY <2>2, PayloadFacts
  <2>4. p \in Payloads
    BY <2>3 DEF Payloads
  <2> HIDE DEF p
  <2>5. buf' \in [Readers -> Payloads]
    BY <2>1, <2>4 DEF ReaderTypes
  <2>6. runits' \in [Readers -> SUBSET Units]
    BY <1>5 DEF CopyUnitOut, ReaderTypes
  <2> QED BY <1>5, <2>5, <2>6 DEF CopyUnitOut, ReaderTypes, holeVars
<1>6. CASE CheckAfter(r)
  <2>1. rpc[r] = "copy" /\ buf[r] \in Payloads
    BY <1>6 DEF CheckAfter, ReaderTypes
  <2>2. [seq |-> cursor[r], data |-> buf[r]] \in [seq : 0..MaxSeq, data : Payloads]
    BY <2>1, <1>s
  <2>3. item' \in [Readers -> [seq : 0..MaxSeq, data : Payloads]]
    BY <1>6, <2>2 DEF CheckAfter, ReaderTypes
  <2>4. buf' \in [Readers -> Payloads]
    BY <1>6, NoUnitsFacts DEF CheckAfter, ReaderTypes
  <2>5. rpc' \in [Readers -> {"detached", "idle", "packet", "before", "copy", "overwritten",
                              "hole", "hole_slot", "scan"}]
    BY <1>6 DEF CheckAfter, SkipCurrent, ToPc, ReaderTypes
  <2>6. /\ cursor' = [cursor EXCEPT ![r] = cursor[r] + 1]
        /\ lapped' \in {lapped, [lapped EXCEPT ![r] = lapped[r] + 1]}
    BY <1>6 DEF CheckAfter, SkipCurrent
  <2>7. cursor' \in [Readers -> 1..(MaxSeq + 1)]
    BY <2>1, <2>6, <1>s DEF ReaderTypes
  <2>8. lapped' \in [Readers -> Nat]
    BY <2>1, <2>6, <1>s DEF ReaderTypes
  <2> QED BY <1>6, <2>3, <2>4, <2>5, <2>7, <2>8 DEF CheckAfter, ReaderTypes, holeVars
<1>7. CASE SkipOverwritten(r)
  <2> DEFINE old == OldestRetained(Max2(write_seq, seen[r]))
             next == Max2(cursor[r], old)
  <2>1. Max2(write_seq, seen[r]) \in Nat /\ Max2(write_seq, seen[r]) <= MaxSeq
    BY <1>0 DEF Max2
  <2>2. old \in 1..(MaxSeq + 1)
    BY <1>0, <2>1, OldestRetainedBounds
  <2> HIDE DEF old
  <2>3. next \in 1..(MaxSeq + 1) /\ lapped[r] + (next - cursor[r]) \in Nat /\ 0 \in 0..MaxSeq
    BY <1>0, <2>2 DEF Max2
  <2>4. /\ cursor' = [cursor EXCEPT ![r] = next]
        /\ lapped' = [lapped EXCEPT ![r] = lapped[r] + (next - cursor[r])]
    BY <1>7 DEF SkipOverwritten, old
  <2> HIDE DEF next
  <2>5. cursor' \in [Readers -> 1..(MaxSeq + 1)] /\ lapped' \in [Readers -> Nat]
    BY <2>3, <2>4 DEF ReaderTypes
  <2>6. seen' \in [Readers -> 0..MaxSeq]
    BY <1>7, <2>3 DEF SkipOverwritten, ReaderTypes
  <2> QED BY <1>7, <2>5, <2>6 DEF SkipOverwritten, ToPc, ReaderTypes, holeVars
<1>8. CASE HoleLoadHeader(r)
  <2>1. write_seq \in 0..MaxSeq
    BY DEF ProducerTypes
  <2> QED BY <1>8, <2>1 DEF HoleLoadHeader, ToPc, ReaderTypes
<1>9. CASE HoleLoadSlot(r)
  <2> DEFINE next == Max2(OldestRetained(holeEnd[r]), cursor[r] + 1)
  <2>1. cursor[r] <= holeEnd[r]
    BY <1>9 DEF HoleLoadSlot, ReaderInv, HoleInv
  <2>2. next \in 0..(MaxSeq + 1) /\ 0 \in 0..MaxSeq
    BY <1>0, <2>1, OldestRetainedBounds DEF Max2
  <2> HIDE DEF next
  <2> QED BY <1>9, <2>2 DEF HoleLoadSlot, ToPc, ReaderTypes, next
<1>10. CASE HoleScan(r)
  <2>1. cursor[r] < holeNext[r] /\ rpc[r] = "scan"
    BY <1>10 DEF HoleScan, ReaderInv, HoleInv
  <2>2. /\ holeNext[r] \in 1..(MaxSeq + 1) /\ lapped[r] + (holeNext[r] - cursor[r]) \in Nat
        /\ holeNext[r] <= holeEnd[r] => holeNext[r] + 1 \in 0..(MaxSeq + 1)
        /\ 0 \in 0..(MaxSeq + 1) /\ 0 \in 0..MaxSeq
    BY <1>0, <2>1
  <2>3. CASE holeNext[r] > holeEnd[r] \/ slotSeq[Index(holeNext[r])] = holeNext[r]
    <3>1. cursor' \in [Readers -> 1..(MaxSeq + 1)] /\ lapped' \in [Readers -> Nat]
      BY <1>10, <2>2, <2>3 DEF HoleScan, ReaderTypes
    <3>2. holeEnd' \in [Readers -> 0..MaxSeq] /\ holeNext' \in [Readers -> 0..(MaxSeq + 1)]
      BY <1>10, <2>2, <2>3 DEF HoleScan, ReaderTypes
    <3> QED BY <1>10, <2>3, <3>1, <3>2 DEF HoleScan, ToPc, ReaderTypes
  <2>4. CASE ~(holeNext[r] > holeEnd[r] \/ slotSeq[Index(holeNext[r])] = holeNext[r])
    <3>1. holeNext[r] + 1 \in 0..(MaxSeq + 1)
      BY <1>0, <2>2, <2>4
    <3> QED BY <1>10, <2>4, <3>1 DEF HoleScan, ReaderTypes
  <2> QED BY <2>3, <2>4
<1> QED BY <1>1, <1>2, <1>3, <1>4, <1>5, <1>6, <1>7, <1>8, <1>9, <1>10 DEF ReaderStep

(* The readers see nothing that is not published.                          *)
LEMMA ReaderKeepsRing ==
    ASSUME ProducerTypes, ReaderTypes, RingInv, NEW r \in Readers, Attach(r) \/ ReaderStep(r)
    PROVE  RingInv'
<1>0. RingStays
  BY ReaderFrame
<1>1. Newest' = Newest
  BY <1>0 DEF RingStays, Newest, Fresh
<1>2. /\ cursor[r] \in Nat /\ Index(cursor[r]) \in Slots /\ Newest \in Nat
  BY ReaderFacts, RingFacts
<1>3. seen'[r] = seen[r] \/ seen'[r] = 0 \/ (/\ seen'[r] = slotSeq[Index(cursor[r])]
                                             /\ slotSeq[Index(cursor[r])] # SLOT_WRITING)
  BY DEF Attach, ReaderStep, LoadSeq, RecheckSeq, CheckBefore, CopyUnitOut, CheckAfter,
         SkipOverwritten, HoleLoadHeader, HoleLoadSlot, HoleScan, ReaderTypes
<1>4. seen'[r] <= Newest
  BY <1>2, <1>3 DEF RingInv
<1>5. \A s \in Readers : seen'[s] <= Newest
  BY <1>4, OtherReaders DEF SameReader, RingInv
<1> HIDE DEF Newest
<1> QED BY <1>0, <1>1, <1>5 DEF RingStays, RingInv

(* A reader that holds no descriptor and looks for no hole.                *)
LEMMA QuietReader ==
    ASSUME RingStays, NEW r \in Readers, ReaderInv(r), item'[r] = item[r], buf'[r] = NoUnits,
           rpc'[r] \in {"detached", "idle", "overwritten", "hole"}
    PROVE  ReaderInv(r)'
<1>1. CopyOutInv(r)'
  BY DEF CopyOutInv
<1>2. ItemInv(r)'
  BY DEF RingStays, ReaderInv, ItemInv, UnitsOf
<1>3. HoleInv(r)'
  BY DEF HoleInv
<1> QED BY <1>1, <1>2, <1>3 DEF ReaderInv

(* Reading the slot: only what is published is taken for a packet.         *)
LEMMA SlotReadKeeps ==
    ASSUME ProducerTypes, ReaderTypes, RingInv, NEW r \in Readers, ReaderInv(r),
           LoadSeq(r) \/ RecheckSeq(r)
    PROVE  ReaderInv(r)'
<1>0. RingStays
  BY ReaderFrame DEF ReaderStep
<1>1. /\ item'[r] = item[r] /\ buf'[r] = buf[r] /\ cursor'[r] = cursor[r]
      /\ rpc[r] \in {"idle", "packet"} /\ buf[r] = NoUnits
  BY DEF LoadSeq, RecheckSeq, ReaderInv, CopyOutInv
<1>2. \/ rpc'[r] \in {"idle", "overwritten", "hole"}
      \/ rpc'[r] \in {"packet", "before"} /\ slotSeq[Index(cursor[r])] = cursor[r]
  BY DEF LoadSeq, RecheckSeq, ToPc, ReaderTypes
<1>3. CASE rpc'[r] \in {"idle", "overwritten", "hole"}
  BY <1>0, <1>1, <1>3, QuietReader
<1>4. CASE rpc'[r] \in {"packet", "before"} /\ slotSeq[Index(cursor[r])] = cursor[r]
  <2>1. /\ cursor[r] \in Nat /\ cursor[r] <= MaxSeq + 1 /\ Index(cursor[r]) \in Slots
        /\ Newest \in Nat /\ Newest < pseq /\ pseq \in Nat
    BY ReaderFacts, RingFacts
  <2>2. cursor[r] # SLOT_WRITING
    BY <2>1, BlobAssumption
  <2>3. cursor[r] < pseq
    BY <1>4, <2>1, <2>2 DEF RingInv
  <2>4. CopyOutInv(r)'
    BY <1>0, <1>1, <1>4, <2>3 DEF CopyOutInv, RingStays
  <2>5. ItemInv(r)'
    BY <1>0, <1>1 DEF RingStays, ReaderInv, ItemInv, UnitsOf
  <2>6. HoleInv(r)'
    BY <1>4 DEF HoleInv
  <2> QED BY <2>4, <2>5, <2>6 DEF ReaderInv
<1> QED BY <1>2, <1>3, <1>4

(* Copying out: each unit is the message's unless it was lapped.           *)
LEMMA CopyOutKeeps ==
    ASSUME ProducerTypes, ReaderTypes, RingInv, ArenaInv, ContentInv, NEW r \in Readers,
           ReaderInv(r), CheckBefore(r) \/ (\E u \in Units : CopyUnitOut(r, u)) \/ CheckAfter(r)
    PROVE  ReaderInv(r)'
<1>0. RingStays
  BY ReaderFrame DEF ReaderStep
<1>1. rpc[r] \in {"before", "copy"} /\ cursor[r] < pseq /\ cursor[r] \in Seqs
  <2>1. rpc[r] \in {"before", "copy"} /\ cursor[r] < pseq
    BY DEF CheckBefore, CopyUnitOut, CheckAfter, ReaderInv, CopyOutInv
  <2> QED BY <2>1, ReaderFacts DEF Seqs
<1> DEFINE b == blob[cursor[r]]
<1>2. ASSUME item'[r] = item[r] PROVE ItemInv(r)'
  BY <1>0, <1>2 DEF RingStays, ReaderInv, ItemInv, UnitsOf
<1>3. CASE CheckBefore(r)
  <2>1. rpc[r] = "before" /\ buf[r] = NoUnits /\ buf'[r] = buf[r] /\ item'[r] = item[r]
    BY <1>3 DEF CheckBefore, ReaderInv, CopyOutInv
  <2>2. \/ rpc'[r] = "idle"
        \/ rpc'[r] = "copy" /\ runits'[r] = UnitsOf(b) /\ cursor'[r] = cursor[r]
    BY <1>3 DEF CheckBefore, SkipCurrent, ToPc, ReaderTypes
  <2>3. CASE rpc'[r] = "idle"
    BY <1>0, <2>1, <2>3, QuietReader
  <2>4. CASE rpc'[r] = "copy" /\ runits'[r] = UnitsOf(b) /\ cursor'[r] = cursor[r]
    <3>1. CopyOutInv(r)'
      BY <1>0, <1>1, <2>1, <2>4, NoUnitsFacts DEF CopyOutInv, RingStays, UnitsOf
    <3>2. HoleInv(r)'
      BY <2>4 DEF HoleInv
    <3> QED BY <1>2, <2>1, <3>1, <3>2 DEF ReaderInv
  <2> QED BY <2>2, <2>3, <2>4
<1>4. ASSUME NEW u \in Units, CopyUnitOut(r, u) PROVE ReaderInv(r)'
  <2>1. /\ rpc[r] = "copy" /\ rpc'[r] = "copy" /\ u \in runits[r] /\ runits'[r] = runits[r] \ {u}
        /\ cursor'[r] = cursor[r] /\ item'[r] = item[r]
        /\ buf'[r] = [v \in DOMAIN buf[r] \cup {u} |-> IF v = u THEN arena[u] ELSE buf[r][v]]
    BY <1>4 DEF CopyUnitOut, ReaderTypes
  <2>2. /\ runits[r] \subseteq UnitsOf(b) /\ DOMAIN buf[r] = UnitsOf(b) \ runits[r]
        /\ ~IsLapped(b) => \A v \in DOMAIN buf[r] : buf[r][v] = cursor[r]
    BY <2>1 DEF ReaderInv, CopyOutInv
  <2>3. runits'[r] \subseteq UnitsOf(b) /\ DOMAIN buf'[r] = UnitsOf(b) \ runits'[r]
    BY <2>1, <2>2
  <2>4. ~IsLapped(b) => \A v \in DOMAIN buf'[r] : buf'[r][v] = cursor[r]
    <3>1. ~IsLapped(b) => arena[u] = cursor[r]
      BY <1>1, <2>1, <2>2 DEF ContentInv
    <3> QED BY <2>1, <2>2, <3>1
  <2>5. CopyOutInv(r)'
    <3>1. /\ UnitsOf(blob[cursor[r]])' = UnitsOf(blob[cursor[r]])
          /\ IsLapped(blob[cursor[r]])' <=> IsLapped(blob[cursor[r]])
      BY <1>0, <2>1 DEF RingStays, UnitsOf, IsLapped
    <3>2. /\ runits'[r] \subseteq UnitsOf(blob[cursor[r]])'
          /\ DOMAIN buf'[r] = UnitsOf(blob[cursor[r]])' \ runits'[r]
      BY <2>3, <3>1
    <3>3. ~IsLapped(blob[cursor[r]])' => \A v \in DOMAIN buf'[r] : buf'[r][v] = cursor'[r]
      BY <2>1, <2>4, <3>1
    <3>4. cursor'[r] < pseq'
      BY <1>0, <1>1, <2>1 DEF RingStays
    <3> QED BY <2>1, <3>2, <3>3, <3>4 DEF CopyOutInv
  <2>6. HoleInv(r)'
    BY <2>1 DEF HoleInv
  <2> QED BY <1>2, <2>1, <2>5, <2>6 DEF ReaderInv
<1>5. CASE CheckAfter(r)
  <2>1. /\ rpc[r] = "copy" /\ runits[r] = {} /\ rpc'[r] = "idle" /\ buf'[r] = NoUnits
        /\ IsLapped(b) => item'[r] = item[r]
        /\ ~IsLapped(b) => item'[r] = [seq |-> cursor[r], data |-> buf[r]]
    BY <1>5 DEF CheckAfter, SkipCurrent, LappedMeanwhile, ToPc, ReaderTypes
  <2>2. CASE IsLapped(b)
    BY <1>0, <2>1, <2>2, QuietReader
  <2>3. CASE ~IsLapped(b)
    <3>1. item'[r].seq = cursor[r] /\ item'[r].data = buf[r]
      BY <2>1, <2>3
    <3>2. DOMAIN buf[r] = UnitsOf(b) /\ \A u \in DOMAIN buf[r] : buf[r][u] = cursor[r]
      BY <2>1, <2>3 DEF ReaderInv, CopyOutInv
    <3>3. ItemInv(r)'
      BY <1>0, <1>1, <3>1, <3>2 DEF RingStays, ItemInv, UnitsOf
    <3>4. CopyOutInv(r)' /\ HoleInv(r)'
      BY <2>1 DEF CopyOutInv, HoleInv
    <3> QED BY <3>3, <3>4 DEF ReaderInv
  <2> QED BY <2>2, <2>3
<1> QED BY <1>3, <1>4, <1>5

(* Looking for a hole: what is passed over is gone.                        *)
LEMMA HoleKeeps ==
    ASSUME ProducerTypes, ReaderTypes, RingInv, NEW r \in Readers, ReaderInv(r),
           HoleLoadHeader(r) \/ HoleLoadSlot(r) \/ HoleScan(r)
    PROVE  ReaderInv(r)'
<1>0. RingStays /\ \A m : Gone(m)' <=> Gone(m)
  BY ReaderFrame DEF ReaderStep, RingStays, Gone
<1>1. /\ rpc[r] \in {"hole", "hole_slot", "scan"} /\ buf[r] = NoUnits
      /\ buf'[r] = buf[r] /\ item'[r] = item[r]
  BY DEF HoleLoadHeader, HoleLoadSlot, HoleScan, ReaderInv, CopyOutInv
<1>2. ASSUME rpc'[r] = "idle" PROVE ReaderInv(r)'
  BY <1>0, <1>1, <1>2, QuietReader
<1>3. ASSUME rpc'[r] \in {"hole_slot", "scan"}, HoleInv(r)' PROVE ReaderInv(r)'
  <2>1. CopyOutInv(r)'
    BY <1>1, <1>3 DEF CopyOutInv
  <2>2. ItemInv(r)'
    BY <1>0, <1>1 DEF RingStays, ReaderInv, ItemInv, UnitsOf
  <2> QED BY <1>3, <2>1, <2>2 DEF ReaderInv
<1>4. /\ cursor[r] \in Nat /\ cursor[r] >= 1 /\ write_seq \in Nat /\ pseq \in Nat
      /\ write_seq < pseq /\ holeEnd[r] \in Nat /\ holeNext[r] \in Nat /\ Capacity \in Nat
      /\ SLOT_WRITING \in Nat
  BY ReaderFacts, CapacityAssumption
<1>5. CASE HoleLoadHeader(r)
  <2>1. \/ rpc'[r] = "idle"
        \/ /\ rpc'[r] = "hole_slot" /\ holeEnd'[r] = write_seq /\ cursor'[r] = cursor[r]
           /\ ~(write_seq < cursor[r])
    BY <1>5 DEF HoleLoadHeader, ToPc, ReaderTypes
  <2>2. CASE /\ rpc'[r] = "hole_slot" /\ holeEnd'[r] = write_seq /\ cursor'[r] = cursor[r]
             /\ ~(write_seq < cursor[r])
    <3>1. HoleInv(r)'
      BY <1>0, <1>4, <2>2 DEF HoleInv, RingStays
    <3> QED BY <1>3, <2>2, <3>1
  <2> QED BY <1>2, <2>1, <2>2
<1>6. CASE HoleLoadSlot(r)
  <2> DEFINE old == OldestRetained(holeEnd[r])
             next == Max2(old, cursor[r] + 1)
  <2>1. /\ rpc[r] = "hole_slot" /\ holeEnd[r] <= write_seq /\ cursor[r] <= holeEnd[r]
    BY <1>6 DEF HoleLoadSlot, ReaderInv, HoleInv
  <2>2. \/ rpc'[r] = "idle"
        \/ /\ ~Landed(r) /\ rpc'[r] = "scan" /\ holeNext'[r] = next
           /\ holeEnd'[r] = holeEnd[r] /\ cursor'[r] = cursor[r]
    BY <1>6 DEF HoleLoadSlot, ToPc, ReaderTypes
  <2>3. CASE /\ ~Landed(r) /\ rpc'[r] = "scan" /\ holeNext'[r] = next
             /\ holeEnd'[r] = holeEnd[r] /\ cursor'[r] = cursor[r]
    <3>1. slotSeq[Index(cursor[r])] # cursor[r]
      BY <2>3, <1>4 DEF Landed
    <3>2. old \in Nat /\ (old > 1 => old + Capacity = holeEnd[r] + 1)
      BY <1>4, OldestRetainedBounds
    <3> HIDE DEF old
    <3>3. next \in Nat /\ cursor[r] < next /\ (next = old \/ next = cursor[r] + 1)
      BY <1>4, <3>2 DEF Max2
    <3> HIDE DEF next
    <3>4. ASSUME NEW m \in cursor[r]..(next - 1) PROVE Gone(m)
      <4>1. m \in Nat /\ m >= cursor[r] /\ m < next
        BY <1>4, <3>3
      <4>2. CASE m = cursor[r]
        <5>1. m < pseq
          BY <1>4, <2>1, <4>2
        <5> QED BY <3>1, <4>2, <5>1 DEF Gone
      <4>3. CASE m # cursor[r]
        <5>1. old > 1 /\ m + 1 <= old
          BY <1>4, <3>2, <3>3, <4>1, <4>3
        <5>2. write_seq >= m + Capacity /\ m < pseq
          BY <1>4, <2>1, <3>2, <4>1, <5>1, CapacityAssumption
        <5> QED BY <5>2 DEF Gone
      <4> QED BY <4>2, <4>3
    <3>5. HoleInv(r)'
      BY <1>0, <2>1, <2>3, <3>3, <3>4 DEF HoleInv, RingStays
    <3> QED BY <1>3, <2>3, <3>5
  <2> QED BY <1>2, <2>2, <2>3
<1>7. CASE HoleScan(r)
  <2> DEFINE next == holeNext[r]
  <2>1. /\ rpc[r] = "scan" /\ holeEnd[r] <= write_seq /\ cursor[r] < next
        /\ \A m \in cursor[r]..(next - 1) : Gone(m)
    BY <1>7 DEF HoleScan, ReaderInv, HoleInv
  <2>2. \/ rpc'[r] = "idle"
        \/ /\ ~(next > holeEnd[r]) /\ slotSeq[Index(next)] # next
           /\ rpc'[r] = "scan" /\ holeNext'[r] = next + 1
           /\ holeEnd'[r] = holeEnd[r] /\ cursor'[r] = cursor[r]
    BY <1>7, <2>1 DEF HoleScan, ToPc, ReaderTypes
  <2>3. CASE /\ ~(next > holeEnd[r]) /\ slotSeq[Index(next)] # next
             /\ rpc'[r] = "scan" /\ holeNext'[r] = next + 1
             /\ holeEnd'[r] = holeEnd[r] /\ cursor'[r] = cursor[r]
    <3>1. Gone(next)
      <4>1. next < pseq
        BY <1>4, <2>1, <2>3
      <4> QED BY <2>3, <4>1 DEF Gone
    <3>2. \A m \in cursor[r]..((next + 1) - 1) : m \in cursor[r]..(next - 1) \/ m = next
      BY <1>4
    <3>3. \A m \in cursor[r]..((next + 1) - 1) : Gone(m)
      BY <2>1, <3>1, <3>2
    <3>4. cursor[r] < next + 1
      BY <1>4, <2>1
    <3> HIDE DEF next
    <3>5. HoleInv(r)'
      BY <1>0, <2>1, <2>3, <3>3, <3>4 DEF HoleInv, RingStays
    <3> QED BY <1>3, <2>3, <3>5
  <2> QED BY <1>2, <2>2, <2>3
<1> QED BY <1>5, <1>6, <1>7

(* Each step of a reader keeps what holds of it.                           *)
LEMMA ReaderKeepsItself ==
    ASSUME ProducerTypes, ReaderTypes, ProducerInv, NEW r \in Readers, ReaderInv(r),
           Attach(r) \/ ReaderStep(r)
    PROVE  ReaderInv(r)'
<1>0. RingStays /\ RingInv /\ ArenaInv /\ ContentInv
  BY ReaderFrame DEF ProducerInv
<1>1. CASE Attach(r) \/ SkipOverwritten(r)
  <2>1. /\ buf'[r] = buf[r] /\ item'[r] = item[r] /\ rpc'[r] = "idle"
        /\ rpc[r] \in {"detached", "overwritten"}
    BY <1>1 DEF Attach, SkipOverwritten, ToPc, ReaderTypes
  <2>2. buf[r] = NoUnits
    BY <2>1 DEF ReaderInv, CopyOutInv
  <2> QED BY <1>0, <2>1, <2>2, QuietReader
<1>2. CASE LoadSeq(r) \/ RecheckSeq(r)
  BY <1>0, <1>2, SlotReadKeeps
<1>3. CASE CheckBefore(r) \/ (\E u \in Units : CopyUnitOut(r, u)) \/ CheckAfter(r)
  BY <1>0, <1>3, CopyOutKeeps
<1>4. CASE HoleLoadHeader(r) \/ HoleLoadSlot(r) \/ HoleScan(r)
  BY <1>0, <1>4, HoleKeeps
<1> QED BY <1>1, <1>2, <1>3, <1>4 DEF ReaderStep

-----------------------------------------------------------------------------
(* The invariant *)

(* The invariant holds of a new ring.                                      *)
LEMMA InitInv == Init => IInv
<1> SUFFICES ASSUME Init PROVE IInv
  OBVIOUS
<1>0. /\ MaxSeq \in Nat /\ ArenaCapacity \in Nat \ {0} /\ Capacity \in Nat \ {0}
      /\ HolePeriod \in Nat \ {0} /\ SLOT_WRITING \in Nat /\ SLOT_WRITING > MaxSeq + 1
  BY BlobAssumption, CapacityAssumption
<1>1. \A n \in Seqs : blob[n] = EMPTY
  BY DEF Init
<1>2. ProducerTypes
  <2>1. EMPTY \in Blobs
    BY <1>0 DEF Init, EMPTY, Blobs
  <2>2. blob \in [Seqs -> Blobs]
    BY <2>1 DEF Init
  <2> QED BY <1>0, <2>2 DEF Init, ProducerTypes
<1>3. ReaderTypes
  <2>1. [seq |-> 0, data |-> NoUnits] \in [seq : 0..MaxSeq, data : Payloads]
    BY <1>0, NoUnitsFacts
  <2>2. item \in [Readers -> [seq : 0..MaxSeq, data : Payloads]]
    BY <2>1 DEF Init
  <2>3. buf \in [Readers -> Payloads]
    BY NoUnitsFacts DEF Init
  <2> QED BY <1>0, <2>2, <2>3 DEF Init, ReaderTypes
<1>4. RingInv
  <2>1. Newest = 0
    BY DEF Init, Newest, Fresh
  <2> QED BY <2>1, <1>0 DEF Init, RingInv
<1>5. ArenaInv
  <2>1. /\ (EMPTY.offset % ArenaCapacity) + EMPTY.len <= ArenaCapacity
        /\ EMPTY.offset + EMPTY.len <= 0 /\ ~(EMPTY.len > 0)
    BY EmptyFacts DEF Descriptor
  <2>2. reserved = 0
    BY DEF Init
  <2> QED BY <1>1, <2>1, <2>2 DEF ArenaInv
<1>6. ContentInv
  <2>1. \A n \in Seqs : UnitsOf(blob[n]) = {}
    BY <1>1, EmptyFacts
  <2> QED BY <2>1 DEF Init, ContentInv
<1>7. ASSUME NEW r \in Readers PROVE ReaderInv(r)
  <2>1. /\ rpc[r] = "detached" /\ buf[r] = NoUnits /\ item[r].seq = 0 /\ pseq = 1
    BY DEF Init
  <2> QED BY <2>1 DEF ReaderInv, CopyOutInv, ItemInv, HoleInv
<1> QED BY <1>2, <1>3, <1>4, <1>5, <1>6, <1>7, TypeSplit DEF IInv, ProducerInv

(* The producer's steps preserve the invariant.                            *)
LEMMA ProducerKeepsInv == IInv /\ ProducerStep => IInv'
<1> SUFFICES ASSUME IInv, ProducerStep PROVE IInv'
  OBVIOUS
<1>0. /\ ProducerTypes /\ ReaderTypes /\ ProducerInv /\ RingInv /\ ContentInv
      /\ \A r \in Readers : ReaderInv(r)
  BY TypeSplit DEF IInv, ProducerInv
<1>1. ProducerTypes'
  BY <1>0, ProducerKeepsTypes
<1>2. ReaderTypes'
  BY <1>0, ProducerFrame DEF readerVars, holeVars, ReaderTypes
<1>3. RingInv' /\ ArenaInv' /\ ContentInv'
  BY <1>0, ProducerKeepsRing, ProducerKeepsArena, ProducerKeepsContent
<1>4. \A r \in Readers : ReaderInv(r)'
  BY <1>0, ProducerKeepsReaders
<1>5. TypeOK'
  BY <1>1, <1>2, TypeSplit, PTL
<1> QED BY <1>3, <1>4, <1>5 DEF IInv, ProducerInv

(* The steps of a reader preserve it.                                      *)
LEMMA ReadersKeepInv ==
    ASSUME IInv, NEW r \in Readers, Attach(r) \/ ReaderStep(r)
    PROVE  IInv'
<1>0. /\ ProducerTypes /\ ReaderTypes /\ ProducerInv /\ RingInv /\ ArenaInv /\ ContentInv
      /\ \A s \in Readers : ReaderInv(s)
  BY TypeSplit DEF IInv, ProducerInv
<1>1. RingStays
  BY ReaderFrame
<1>2. ProducerTypes' /\ ArenaInv' /\ ContentInv'
  BY <1>0, <1>1, RingStaysFacts
<1>3. ReaderTypes' /\ RingInv'
  BY <1>0, ReaderKeepsTypes, ReaderKeepsRing
<1>4. ASSUME NEW s \in Readers PROVE ReaderInv(s)'
  <2>1. CASE s = r
    BY <1>0, <2>1, ReaderKeepsItself
  <2>2. CASE s # r
    BY <1>0, <1>1, <2>2, OtherReaders, SameReaderKeeps
  <2> QED BY <2>1, <2>2
<1>5. TypeOK'
  BY <1>2, <1>3, TypeSplit, PTL
<1> QED BY <1>2, <1>3, <1>4, <1>5 DEF IInv, ProducerInv

(* So does a step that changes nothing.                                    *)
LEMMA StutterKeepsInv == IInv /\ UNCHANGED vars => IInv'
<1> SUFFICES ASSUME IInv, UNCHANGED vars PROVE IInv'
  OBVIOUS
<1>0. /\ RingStays /\ UNCHANGED <<rpc, cursor, lapped, seen, runits, buf, polls, holeEnd, holeNext, item>>
  BY DEF vars, ringVars, arenaVars, producerVars, readerVars, holeVars, RingStays
<1>1. /\ ProducerTypes /\ ReaderTypes /\ RingInv /\ ArenaInv /\ ContentInv
      /\ \A s \in Readers : ReaderInv(s)
  BY TypeSplit DEF IInv, ProducerInv
<1>2. ProducerTypes' /\ ArenaInv' /\ ContentInv' /\ Newest' = Newest
  BY <1>0, <1>1, RingStaysFacts
<1>3. ReaderTypes'
  BY <1>0, <1>1 DEF ReaderTypes
<1>4. RingInv'
  BY <1>0, <1>1, <1>2 DEF RingInv, RingStays
<1>5. \A s \in Readers : ReaderInv(s)'
  BY <1>0, <1>1, SameReaderKeeps DEF SameReader
<1>6. TypeOK'
  BY <1>2, <1>3, TypeSplit, PTL
<1> QED BY <1>2, <1>4, <1>5, <1>6 DEF IInv, ProducerInv

(* The invariant is inductive.                                             *)
LEMMA NextKeepsInv == IInv /\ [Next]_vars => IInv'
BY ProducerKeepsInv, ReadersKeepInv, StutterKeepsInv DEF Next

(* The invariant holds in every state the blob ring reaches.               *)
THEOREM Invariance == Spec => []IInv
BY InitInv, NextKeepsInv, PTL DEF Spec

(* Ring, arena and program counters stay in range, and a descriptor never  *)
(* reaches beyond what reserve has handed out.                             *)
THEOREM TypeCorrect == Spec => []TypeOK
<1>1. IInv => TypeOK
  BY DEF IInv
<1> QED BY <1>1, Invariance, PTL

(* next_blob and view_blob return whole payloads only: every unit is the   *)
(* one pushed under the message's sequence, whatever the producer reserved *)
(* and wrote between the two checks.                                       *)
THEOREM PayloadsAreWhole == Spec => []NoTornBlob
<1>1. IInv => NoTornBlob
  BY DEF IInv, ReaderInv, ItemInv, NoTornBlob
<1> QED BY <1>1, Invariance, PTL

(* reserve's ranges lie in the arena, and two that are not lapped have no  *)
(* unit in common: two messages share a unit only when the later one's     *)
(* range ends a whole arena past the earlier one's start, and then the     *)
(* earlier one is lapped.                                                  *)
THEOREM LiveRangesAreDisjoint == Spec => []LiveBlobsDisjoint
<1>1. IInv => LiveBlobsDisjoint
  <2> SUFFICES ASSUME IInv, NEW m \in Reserved, NEW n \in Reserved
               PROVE  /\ UnitsOf(blob[n]) \subseteq Units
                      /\ m # n /\ ~IsLapped(blob[m]) /\ ~IsLapped(blob[n])
                         => UnitsOf(blob[m]) \cap UnitsOf(blob[n]) = {}
    BY DEF LiveBlobsDisjoint
  <2>0. ProducerTypes /\ ArenaInv /\ m \in Seqs /\ n \in Seqs
    BY TypeSplit DEF IInv, ProducerInv, Reserved
  <2>1. UnitsOf(blob[n]) \subseteq Units
    BY <2>0, BlobFacts
  <2>2. ASSUME NEW i \in Seqs, NEW j \in Seqs, i < j, ~IsLapped(blob[i]),
               NEW u \in UnitsOf(blob[i]) \cap UnitsOf(blob[j])
        PROVE  FALSE
    <3>1. /\ Descriptor(blob[i]) /\ Descriptor(blob[j])
          /\ blob[i].offset \in Nat /\ blob[i].len \in Nat
          /\ blob[j].offset \in Nat /\ blob[j].len \in Nat
          /\ blob[i].len # 0 /\ blob[j].len # 0
      BY <2>0, <2>2, BlobFacts
    <3>2. blob[i].offset + blob[i].len <= blob[j].offset
      <4>1. blob[i].len > 0 /\ blob[j].len > 0
        BY <3>1
      <4> QED BY <2>0, <2>2, <4>1 DEF ArenaInv
    <3>3. blob[j].offset + blob[j].len > blob[i].offset + ArenaCapacity
      BY <3>1, <3>2, OverlapMeansLapped
    <3>4. blob[j].offset + blob[j].len <= reserved /\ reserved \in Nat /\ ArenaCapacity \in Nat
      BY <2>0, ArenaFacts
    <3>5. reserved - blob[i].offset > ArenaCapacity
      BY <3>1, <3>3, <3>4
    <3> QED BY <2>2, <3>5 DEF IsLapped
  <2>3. m # n => m < n \/ n < m
    BY <2>0, BlobAssumption DEF Seqs
  <2> QED BY <2>0, <2>1, <2>2, <2>3
<1> QED BY <1>1, Invariance, PTL

(* The payload of a message is lapped only by that of a newer one.         *)
LEMMA LappedByNewer ==
    ASSUME ProducerTypes, ArenaInv, NEW c \in Seqs, IsLapped(blob[c]), blob[c].len > 0
    PROVE  \E n \in Reserved : n > c /\ blob[n].len > 0
<1>1. /\ reserved \in Nat /\ ArenaCapacity \in Nat /\ c \in Nat
      /\ blob[c].offset \in Nat /\ blob[c].len \in Nat /\ blob[c].len <= ArenaCapacity
      /\ blob[c].offset + blob[c].len <= reserved
  <2>1. blob[c] \in Blobs
    BY DEF ProducerTypes
  <2>2. blob[c].len <= ArenaCapacity
    BY <2>1, BlobAssumption DEF Blobs
  <2> QED BY <2>2, ArenaFacts
<1>2. reserved # 0 /\ blob[c].offset + blob[c].len # reserved
  BY <1>1 DEF IsLapped
<1>3. PICK n \in Reserved : blob[n].len > 0 /\ blob[n].offset + blob[n].len = reserved
  BY <1>2 DEF ArenaInv
<1>4. n \in Seqs /\ n \in Nat /\ n # c
  BY <1>2, <1>3, BlobAssumption DEF Reserved, Seqs
<1>5. ~(n < c)
  <2>1. SUFFICES ASSUME n < c PROVE FALSE
    OBVIOUS
  <2>2. reserved <= blob[c].offset
    BY <1>3, <1>4, <2>1 DEF ArenaInv
  <2> QED BY <1>1, <2>2
<1>6. n > c
  BY <1>1, <1>4, <1>5
<1> QED BY <1>3, <1>6

(* What a reader's step passes over is lost.                               *)
LEMMA ReaderPassesOverGone ==
    ASSUME IInv, NEW r \in Readers, Attach(r) \/ ReaderStep(r), lapped'[r] > lapped[r]
    PROVE  IF Drops(r)
           THEN blob[cursor[r]].len > 0 =>
                    \E n \in Reserved : n > cursor[r] /\ blob[n].len > 0
           ELSE \A m \in cursor[r]..(cursor'[r] - 1) : Gone(m)
<1>0. /\ ProducerTypes /\ ReaderTypes /\ RingInv /\ ArenaInv /\ ReaderInv(r)
  BY TypeSplit DEF IInv, ProducerInv
<1>1. /\ cursor[r] \in Nat /\ cursor[r] >= 1 /\ MaxSeq \in Nat /\ pseq \in Nat
      /\ pseq <= MaxSeq + 1 /\ write_seq \in Nat /\ seen[r] \in Nat /\ lapped[r] \in Nat
      /\ holeNext[r] \in Nat
      /\ Newest \in Nat /\ write_seq <= Newest /\ Newest < pseq
  BY <1>0, ReaderFacts, RingFacts
<1>2. \/ CheckBefore(r) /\ IsLapped(blob[cursor[r]])
      \/ CheckAfter(r) /\ IsLapped(blob[cursor[r]])
      \/ SkipOverwritten(r)
      \/ HoleScan(r) /\ (holeNext[r] > holeEnd[r] \/ slotSeq[Index(holeNext[r])] = holeNext[r])
  <2>1. ~(lapped' = lapped)
    BY <1>1
  <2> QED BY <2>1 DEF Attach, ReaderStep, LoadSeq, RecheckSeq, CheckBefore, CopyUnitOut, CheckAfter,
                      HoleLoadHeader, HoleLoadSlot, HoleScan, LappedMeanwhile
<1>3. CASE (CheckBefore(r) \/ CheckAfter(r)) /\ IsLapped(blob[cursor[r]])
  <2>1. rpc[r] \in {"before", "copy"}
    BY <1>3 DEF CheckBefore, CheckAfter
  <2>2. cursor[r] < pseq /\ Drops(r)
    BY <2>1, <1>0 DEF ReaderInv, CopyOutInv, Drops
  <2>3. cursor[r] \in Seqs
    BY <1>1, <2>2 DEF Seqs
  <2> QED BY <1>0, <1>3, <2>2, <2>3, LappedByNewer
<1>4. CASE SkipOverwritten(r)
  <2> DEFINE w == Max2(write_seq, seen[r])
             old == OldestRetained(w)
  <2>1. ~Drops(r) /\ cursor'[r] = Max2(cursor[r], old)
    BY <1>0, <1>4 DEF SkipOverwritten, Drops, ReaderTypes
  <2>2. w \in Nat /\ w <= Newest
    BY <1>0, <1>1 DEF RingInv, Max2
  <2> HIDE DEF w
  <2>3. old \in Nat /\ (old > 1 => old + Capacity = w + 1) /\ Capacity \in Nat
    BY <2>2, OldestRetainedBounds, CapacityAssumption
  <2> HIDE DEF old
  <2>4. ASSUME NEW m \in cursor[r]..(cursor'[r] - 1) PROVE Gone(m)
    <3>1. m \in Nat /\ m >= 1 /\ m + 1 <= old
      BY <1>1, <2>1, <2>3 DEF Max2
    <3>2. m + Capacity <= Newest /\ m < pseq
      BY <1>1, <2>2, <2>3, <3>1
    <3>3. Passed(m)
      BY <3>2 DEF Passed
    <3> QED BY <1>0, <3>1, <3>3, GoneMeans DEF GoneIsPassed
  <2> QED BY <2>1, <2>4
<1>5. CASE HoleScan(r) /\ (holeNext[r] > holeEnd[r] \/ slotSeq[Index(holeNext[r])] = holeNext[r])
  <2>1. rpc[r] = "scan" /\ cursor'[r] = holeNext[r]
    BY <1>0, <1>5 DEF HoleScan, ReaderTypes
  <2>2. ~Drops(r) /\ \A m \in cursor[r]..(holeNext[r] - 1) : Gone(m)
    BY <1>0, <2>1 DEF ReaderInv, HoleInv, Drops
  <2> QED BY <2>1, <2>2
<1> QED BY <1>2, <1>3, <1>4, <1>5

(* What a consumer counts as lapped is lost: a payload is given up only    *)
(* for that of a newer message, and skip_overwritten and skip_hole pass    *)
(* over messages only that the ring does not hold.                         *)
THEOREM SkipsAreJustified == Spec => PassedOverMeansGone
<1> DEFINE Justified ==
        \A r \in Readers :
           lapped'[r] > lapped[r] =>
              IF Drops(r)
              THEN blob[cursor[r]].len > 0 =>
                       \E n \in Reserved : n > cursor[r] /\ blob[n].len > 0
              ELSE \A m \in cursor[r]..(cursor'[r] - 1) : Gone(m)
<1>1. IInv /\ [Next]_vars => [Justified]_vars
  <2> SUFFICES ASSUME IInv, Next PROVE Justified
    OBVIOUS
  <2>0. ReaderTypes /\ \A r \in Readers : lapped[r] \in Nat
    BY TypeSplit DEF IInv, ReaderTypes
  <2>1. CASE ProducerStep
    <3>1. lapped' = lapped
      BY <2>1, ProducerFrame DEF readerVars
    <3> QED BY <2>0, <3>1
  <2>2. ASSUME NEW s \in Readers, Attach(s) \/ ReaderStep(s) PROVE Justified
    <3>1. SUFFICES ASSUME NEW r \in Readers, lapped'[r] > lapped[r]
                   PROVE  IF Drops(r)
                          THEN blob[cursor[r]].len > 0 =>
                                   \E n \in Reserved : n > cursor[r] /\ blob[n].len > 0
                          ELSE \A m \in cursor[r]..(cursor'[r] - 1) : Gone(m)
      OBVIOUS
    <3>2. r # s => lapped'[r] = lapped[r]
      BY <2>0, <2>2 DEF Attach, ReaderStep, LoadSeq, RecheckSeq, CheckBefore, CopyUnitOut, CheckAfter,
             SkipOverwritten, HoleLoadHeader, HoleLoadSlot, HoleScan, SkipCurrent, ReaderTypes
    <3>3. r = s
      BY <2>0, <3>1, <3>2
    <3> QED BY <2>2, <3>1, <3>3, ReaderPassesOverGone
  <2> QED BY <2>1, <2>2 DEF Next
<1>2. Spec => [][Justified]_vars
  BY <1>1, Invariance, PTL DEF Spec
<1> QED BY <1>2 DEF PassedOverMeansGone

=============================================================================
