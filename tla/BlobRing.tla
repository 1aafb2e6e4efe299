------------------------------ MODULE BlobRing ------------------------------
(***************************************************************************)
(* Variable-length messages: the descriptor ring of blob.rs over the byte  *)
(* arena of arena.rs.                                                      *)
(*                                                                         *)
(* The producer reserves a contiguous range of the arena (skipping the end *)
(* of the arena when the range would cross it), copies the payload there   *)
(* and publishes a descriptor in the ring.  A consumer that has read the   *)
(* descriptor checks that the arena has not been reserved past it, copies  *)
(* the payload, and checks again.                                          *)
(*                                                                         *)
(* Ranges are in units of 64 bytes, to which reserve rounds every length.  *)
(* A unit of message n's payload is the number n.  SpmcRing shows that a   *)
(* descriptor is read whole, so a slot is its sequence word and the        *)
(* descriptor belonging to it.  The ring of a mirror is sparse: it has      *)
(* holes, and its header is stored once for all the records of a frame.    *)
(***************************************************************************)
EXTENDS RingSlots

CONSTANTS
    Readers,
    ArenaCapacity,  \* units of the arena
    Lengths,        \* payload lengths that are pushed, in units
    MaxSeq,         \* bound: last message pushed
    Sparse,         \* whether the ring is a mirror's (FLAG_SPARSE)
    HolePeriod,     \* empty polls between two looks for a hole (64)
    SLOT_WRITING    \* u64::MAX

ASSUME BlobAssumption ==
    /\ ArenaCapacity \in Nat \ {0}
    /\ Lengths \subseteq 0..ArenaCapacity
    /\ MaxSeq \in Nat
    /\ Sparse \in BOOLEAN
    /\ HolePeriod \in Nat \ {0}
    /\ SLOT_WRITING \in Nat /\ SLOT_WRITING > MaxSeq + 1

VARIABLES
    slotSeq, write_seq,     \* the ring
    reserved, arena,        \* ArenaHeader.reserved and the arena's units
    \* the producer
    pseq, ppc,
    punits,     \* units of the payload not copied in yet
    blob,       \* the descriptor of every message reserved so far (history
                \* beyond the slots' contents)
    \* the consumers
    rpc, cursor, lapped, seen,
    runits, buf,  \* units not copied out yet, and the copy
    polls, holeEnd, holeNext,   \* empty_polls, and skip_hole's write_seq and next
    item        \* history: last message and payload returned

ringVars == <<slotSeq, write_seq>>
arenaVars == <<reserved, arena>>
producerVars == <<pseq, ppc, punits, blob>>
holeVars == <<polls, holeEnd, holeNext>>
readerVars == <<rpc, cursor, lapped, seen, runits, buf, holeVars, item>>
vars == <<ringVars, arenaVars, producerVars, readerVars>>

Units == 0..(ArenaCapacity - 1)
Payloads == UNION {[S -> 0..MaxSeq] : S \in SUBSET Units}
Seqs == 1..MaxSeq

EMPTY == [offset |-> 0, len |-> 0]
NoUnits == [u \in {} |-> 0]

(* slice: the units a descriptor stands for.                               *)
UnitsOf(b) == {(b.offset % ArenaCapacity) + i : i \in 0..(b.len - 1)}

Init ==
    /\ slotSeq = [i \in Slots |-> 0]
    /\ write_seq = 0
    /\ reserved = 0
    /\ arena = [u \in Units |-> 0]
    /\ pseq = 1
    /\ ppc = "idle"
    /\ punits = {}
    /\ blob = [n \in Seqs |-> EMPTY]
    /\ rpc = [r \in Readers |-> "detached"]
    /\ cursor = [r \in Readers |-> 1]
    /\ lapped = [r \in Readers |-> 0]
    /\ seen = [r \in Readers |-> 0]
    /\ runits = [r \in Readers |-> {}]
    /\ buf = [r \in Readers |-> NoUnits]
    /\ polls = [r \in Readers |-> 0]
    /\ holeEnd = [r \in Readers |-> 0]
    /\ holeNext = [r \in Readers |-> 0]
    /\ item = [r \in Readers |-> [seq |-> 0, data |-> NoUnits]]

-----------------------------------------------------------------------------
(* Producer *)

(* reserve: where a range of len units starts.                             *)
Start(len) ==
    IF (reserved % ArenaCapacity) + len > ArenaCapacity
    THEN reserved - (reserved % ArenaCapacity) + ArenaCapacity
    ELSE reserved

(* reserve: an empty payload takes no room.  A mirror goes on with the next *)
(* record of its frame before it stores the header.                        *)
Reserve(len) ==
    /\ ppc = "idle" \/ (Sparse /\ ppc = "publish")
    /\ pseq <= MaxSeq
    /\ IF len = 0
       THEN /\ blob' = [blob EXCEPT ![pseq] = EMPTY]
            /\ punits' = {}
            /\ UNCHANGED reserved
       ELSE /\ blob' = [blob EXCEPT ![pseq] = [offset |-> Start(len), len |-> len]]
            /\ punits' = UnitsOf(blob'[pseq])
            /\ reserved' = Start(len) + len
    /\ ppc' = "copy"
    /\ UNCHANGED <<ringVars, arena, pseq, readerVars>>

(* write_blob, write_blob_with: the payload, unit by unit.                 *)
CopyUnitIn(u) ==
    /\ ppc = "copy"
    /\ u \in punits
    /\ arena' = [arena EXCEPT ![u] = pseq]
    /\ punits' = punits \ {u}
    /\ UNCHANGED <<ringVars, reserved, pseq, ppc, blob, readerVars>>

(* publish_packet: write_slot's first and last store, then the header.     *)
MarkWriting ==
    /\ ppc = "copy"
    /\ punits = {}
    /\ slotSeq' = [slotSeq EXCEPT ![Index(pseq)] = SLOT_WRITING]
    /\ ppc' = "slot"
    /\ UNCHANGED <<write_seq, arenaVars, pseq, punits, blob, readerVars>>

PublishSlot ==
    /\ ppc = "slot"
    /\ slotSeq' = [slotSeq EXCEPT ![Index(pseq)] = pseq]
    /\ pseq' = pseq + 1
    /\ ppc' = "publish"
    /\ UNCHANGED <<write_seq, arenaVars, punits, blob, readerVars>>

PublishHeader ==
    /\ ppc = "publish"
    /\ write_seq' = pseq - 1
    /\ ppc' = "idle"
    /\ UNCHANGED <<slotSeq, arenaVars, pseq, punits, blob, readerVars>>

(* MirrorRing::skip_to: records that the mirror will never get.            *)
SkipTo(seq) ==
    /\ Sparse /\ ppc = "idle"
    /\ seq > pseq
    /\ pseq' = seq
    /\ UNCHANGED <<ringVars, arenaVars, ppc, punits, blob, readerVars>>

-----------------------------------------------------------------------------
(* Consumers *)

ToPc(r, pc) == rpc' = [rpc EXCEPT ![r] = pc]

(* attach: the oldest retained message.                                    *)
Attach(r) ==
    /\ rpc[r] = "detached"
    /\ cursor' = [cursor EXCEPT ![r] = OldestRetained(write_seq)]
    /\ ToPc(r, "idle")
    /\ UNCHANGED <<ringVars, arenaVars, producerVars, lapped, seen, runits, buf, holeVars, item>>

(* A reader of a sparse ring that finds nothing looks for a hole from time  *)
(* to time.                                                                *)
LooksForHole(r) == (polls[r] + 1) % HolePeriod = 0

(* read_slot, first load: the message, a newer one, or (only of interest in *)
(* a sparse ring) not yet.                                                 *)
LoadSeq(r) ==
    LET s1 == slotSeq[Index(cursor[r])]
    IN  /\ rpc[r] = "idle"
        /\ \/ /\ s1 = cursor[r]
              /\ ToPc(r, "packet")
              /\ UNCHANGED <<seen, polls>>
           \/ /\ s1 # SLOT_WRITING /\ s1 > cursor[r]
              /\ ToPc(r, "overwritten")
              /\ seen' = [seen EXCEPT ![r] = s1]
              /\ UNCHANGED polls
           \/ /\ s1 = SLOT_WRITING \/ s1 < cursor[r]
              /\ Sparse
              /\ polls' = [polls EXCEPT ![r] = (@ + 1) % HolePeriod]
              /\ ToPc(r, IF LooksForHole(r) THEN "hole" ELSE "idle")
              /\ UNCHANGED seen
        /\ UNCHANGED <<ringVars, arenaVars, producerVars, cursor, lapped, runits, buf,
                       holeEnd, holeNext, item>>

(* read_slot, second load: the descriptor of the cursor's message, or none. *)
RecheckSeq(r) ==
    LET s2 == slotSeq[Index(cursor[r])]
    IN  /\ rpc[r] = "packet"
        /\ IF s2 = cursor[r]
           THEN ToPc(r, "before") /\ UNCHANGED seen
           ELSE /\ ToPc(r, "overwritten")
                /\ seen' = [seen EXCEPT ![r] = IF s2 = SLOT_WRITING THEN 0 ELSE s2]
        /\ UNCHANGED <<ringVars, arenaVars, producerVars, cursor, lapped, runits, buf,
                       holeVars, item>>

(* is_lapped: reserved has passed the descriptor by more than the arena.    *)
(* In the mutant not until all of the blob is passed.                      *)
IsLappedLate(b) == reserved - b.offset > ArenaCapacity + b.len

IsLapped(b) == reserved - b.offset > ArenaCapacity

(* skip_current: the message at the cursor is dropped.                     *)
SkipCurrent(r) ==
    /\ cursor' = [cursor EXCEPT ![r] = @ + 1]
    /\ lapped' = [lapped EXCEPT ![r] = @ + 1]
    /\ ToPc(r, "idle")

(* next_blob, the check before the payload is touched; a caller's buffer    *)
(* that is too small ends the call there and leaves the message.           *)
CheckBefore(r) ==
    LET b == blob[cursor[r]]
    IN  /\ rpc[r] = "before"
        /\ \/ /\ IsLapped(b)
              /\ SkipCurrent(r)
              /\ UNCHANGED runits
           \/ /\ ~IsLapped(b)
              /\ ToPc(r, "copy")
              /\ runits' = [runits EXCEPT ![r] = UnitsOf(b)]
              /\ UNCHANGED <<cursor, lapped>>
           \/ /\ ~IsLapped(b) /\ b.len > 0
              /\ ToPc(r, "idle")
              /\ UNCHANGED <<cursor, lapped, runits>>
        /\ UNCHANGED <<ringVars, arenaVars, producerVars, seen, buf, holeVars, item>>

(* view_blob: the payload, unit by unit.                                   *)
CopyUnitOut(r, u) ==
    /\ rpc[r] = "copy"
    /\ u \in runits[r]
    /\ buf' = [buf EXCEPT ![r] = [v \in DOMAIN @ \cup {u} |->
                                     IF v = u THEN arena[u] ELSE @[v]]]
    /\ runits' = [runits EXCEPT ![r] = @ \ {u}]
    /\ UNCHANGED <<ringVars, arenaVars, producerVars, rpc, cursor, lapped, seen, holeVars, item>>

(* The check after the payload was read; the mutant relies on the first.   *)
TrustFirstCheck(b) == FALSE

LappedMeanwhile(b) == IsLapped(b)

(* next_blob: the payload is returned, or discarded with its message.      *)
CheckAfter(r) ==
    /\ rpc[r] = "copy"
    /\ runits[r] = {}
    /\ IF LappedMeanwhile(blob[cursor[r]])
       THEN SkipCurrent(r) /\ UNCHANGED item
       ELSE /\ item' = [item EXCEPT ![r] = [seq |-> cursor[r], data |-> buf[r]]]
            /\ cursor' = [cursor EXCEPT ![r] = @ + 1]
            /\ ToPc(r, "idle")
            /\ UNCHANGED lapped
    /\ buf' = [buf EXCEPT ![r] = NoUnits]
    /\ UNCHANGED <<ringVars, arenaVars, producerVars, seen, runits, holeVars>>

(* skip_overwritten.                                                       *)
SkipOverwritten(r) ==
    LET oldest == OldestRetained(Max2(write_seq, seen[r]))
    IN  /\ rpc[r] = "overwritten"
        /\ cursor' = [cursor EXCEPT ![r] = Max2(@, oldest)]
        /\ lapped' = [lapped EXCEPT ![r] = @ + (Max2(cursor[r], oldest) - cursor[r])]
        /\ seen' = [seen EXCEPT ![r] = 0]
        /\ ToPc(r, "idle")
        /\ UNCHANGED <<ringVars, arenaVars, producerVars, runits, buf, holeVars, item>>

(* skip_hole: write_seq first, ...                                         *)
HoleLoadHeader(r) ==
    /\ rpc[r] = "hole"
    /\ IF write_seq < cursor[r]
       THEN ToPc(r, "idle") /\ UNCHANGED holeEnd
       ELSE ToPc(r, "hole_slot") /\ holeEnd' = [holeEnd EXCEPT ![r] = write_seq]
    /\ UNCHANGED <<ringVars, arenaVars, producerVars, cursor, lapped, seen, runits, buf,
                   polls, holeNext, item>>

(* ... then the slot again, where the message may have landed meanwhile     *)
(* (the mutant does not look), ...                                         *)
NotLooked(r) == FALSE

Landed(r) ==
    LET s == slotSeq[Index(cursor[r])] IN s = SLOT_WRITING \/ s >= cursor[r]

HoleLoadSlot(r) ==
    /\ rpc[r] = "hole_slot"
    /\ IF Landed(r)
       THEN /\ ToPc(r, "idle")
            /\ holeEnd' = [holeEnd EXCEPT ![r] = 0]
            /\ UNCHANGED holeNext
       ELSE /\ ToPc(r, "scan")
            /\ holeNext' = [holeNext EXCEPT ![r] =
                               Max2(OldestRetained(holeEnd[r]), cursor[r] + 1)]
            /\ UNCHANGED holeEnd
    /\ UNCHANGED <<ringVars, arenaVars, producerVars, cursor, lapped, seen, runits, buf,
                   polls, item>>

(* ... then the slots up to it, for the next message that is there.        *)
HoleScan(r) ==
    LET next == holeNext[r] IN
    /\ rpc[r] = "scan"
    /\ IF next > holeEnd[r] \/ slotSeq[Index(next)] = next
       THEN /\ cursor' = [cursor EXCEPT ![r] = next]
            /\ lapped' = [lapped EXCEPT ![r] = @ + (next - cursor[r])]
            /\ holeNext' = [holeNext EXCEPT ![r] = 0]
            /\ holeEnd' = [holeEnd EXCEPT ![r] = 0]
            /\ ToPc(r, "idle")
       ELSE /\ holeNext' = [holeNext EXCEPT ![r] = @ + 1]
            /\ UNCHANGED <<rpc, cursor, lapped, holeEnd>>
    /\ UNCHANGED <<ringVars, arenaVars, producerVars, seen, runits, buf, polls, item>>

ReaderStep(r) ==
    \/ LoadSeq(r) \/ RecheckSeq(r) \/ CheckBefore(r)
    \/ (\E u \in Units : CopyUnitOut(r, u))
    \/ CheckAfter(r) \/ SkipOverwritten(r)
    \/ HoleLoadHeader(r) \/ HoleLoadSlot(r) \/ HoleScan(r)

-----------------------------------------------------------------------------

ProducerStep ==
    \/ \E len \in Lengths : Reserve(len)
    \/ \E u \in Units : CopyUnitIn(u)
    \/ MarkWriting \/ PublishSlot \/ PublishHeader
    \/ \E seq \in Seqs : SkipTo(seq)

Next ==
    \/ ProducerStep
    \/ \E r \in Readers : Attach(r) \/ ReaderStep(r)

Spec == Init /\ [][Next]_vars

-----------------------------------------------------------------------------
(* Properties *)

(* Ring, arena and program counters stay in range; descriptors never reach  *)
(* beyond what is reserved.                                                *)
TypeOK ==
    /\ slotSeq \in [Slots -> 0..MaxSeq \cup {SLOT_WRITING}]
    /\ write_seq \in 0..MaxSeq
    /\ reserved \in Nat
    /\ arena \in [Units -> 0..MaxSeq]
    /\ pseq \in 1..(MaxSeq + 1)
    /\ ppc \in {"idle", "copy", "slot", "publish"}
    /\ punits \in SUBSET Units
    /\ blob \in [Seqs -> [offset : 0..reserved, len : 0..ArenaCapacity]]
    /\ rpc \in [Readers -> {"detached", "idle", "packet", "before", "copy", "overwritten",
                        "hole", "hole_slot", "scan"}]
    /\ cursor \in [Readers -> 1..(MaxSeq + 1)]
    /\ lapped \in [Readers -> Nat]
    /\ seen \in [Readers -> 0..MaxSeq]
    /\ runits \in [Readers -> SUBSET Units]
    /\ buf \in [Readers -> Payloads]
    /\ polls \in [Readers -> 0..(HolePeriod - 1)]
    /\ holeEnd \in [Readers -> 0..MaxSeq]
    /\ holeNext \in [Readers -> 0..(MaxSeq + 1)]
    /\ item \in [Readers -> [seq : 0..MaxSeq, data : Payloads]]

(* A payload is returned whole: every unit of it is the one pushed under    *)
(* the message's sequence, however often the arena was lapped meanwhile.   *)
NoTornBlob ==
    \A r \in Readers :
        item[r].seq # 0 =>
            /\ DOMAIN item[r].data = UnitsOf(blob[item[r].seq])
            /\ \A u \in DOMAIN item[r].data : item[r].data[u] = item[r].seq

(* Messages reserved so far.                                               *)
Reserved == {n \in Seqs : n < pseq \/ (n = pseq /\ ppc \in {"copy", "slot"})}

(* reserve hands out ranges that lie in the arena and, as long as neither   *)
(* is lapped, do not overlap.                                              *)
LiveBlobsDisjoint ==
    \A m, n \in Reserved :
        /\ UnitsOf(blob[n]) \subseteq Units
        /\ m # n /\ ~IsLapped(blob[m]) /\ ~IsLapped(blob[n])
           => UnitsOf(blob[m]) \cap UnitsOf(blob[n]) = {}

(* Consumer r drops the message at its cursor.                             *)
Drops(r) == rpc[r] \in {"before", "copy"} /\ lapped'[r] > lapped[r]

(* Message m is not to be had: the producer has passed it, and its slot     *)
(* has another, or messages a lap or more ahead are published.  (In a      *)
(* sparse ring an old message stays in its slot when the next lap's is a   *)
(* hole; oldest_retained does not count it any more.)                      *)
Gone(m) ==
    /\ m < pseq
    /\ \/ slotSeq[Index(m)] # m
       \/ write_seq >= m + Capacity
       \/ \E i \in Slots : slotSeq[i] # SLOT_WRITING /\ slotSeq[i] >= m + Capacity

(* What a consumer passes over and counts as lapped is lost: a payload is   *)
(* given up only for that of a newer message, and messages are skipped, as  *)
(* overwritten or as a hole, only when the ring does not hold them, also    *)
(* when one lands while the consumer looks.  Empty payloads are excepted:   *)
(* is_lapped takes one for overwritten once its place in the arena has come *)
(* round, and the consumer drops a message that the ring still holds.      *)
PassedOverMeansGone ==
    [][\A r \in Readers :
          lapped'[r] > lapped[r] =>
              IF Drops(r)
              THEN blob[cursor[r]].len > 0 =>
                       \E n \in Reserved : n > cursor[r] /\ blob[n].len > 0
              ELSE \A m \in cursor[r]..(cursor'[r] - 1) : Gone(m)]_vars

=============================================================================
