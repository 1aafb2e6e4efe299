------------------------------ MODULE SpmcRing ------------------------------
(***************************************************************************)
(* The lossy single-producer broadcast ring of spmc.rs.                    *)
(*                                                                         *)
(* One producer writes messages numbered 1, 2, 3, ... into Capacity slots. *)
(* A slot is a sequence word and a payload of several machine words: the   *)
(* producer stores SLOT_WRITING into the sequence word, copies the payload *)
(* and then stores the message's sequence (a seqlock).  Any number of      *)
(* readers poll the slot of their cursor without ever writing to the ring: *)
(* they load the sequence word, copy the payload and load the sequence     *)
(* word again.  write_seq in the header lags the slots during a batch.     *)
(*                                                                         *)
(* The payload of message n is modelled by the number n in every word, so  *)
(* a copy is torn exactly when its words are not all equal.  The copies    *)
(* touch the words one at a time in any order; the release and acquire     *)
(* fences of write_slot and read_slot order them against the accesses to   *)
(* the sequence word, which is what the program counters express.          *)
(*                                                                         *)
(* Sparse rings (FLAG_SPARSE, written by replication.rs::MirrorRing with   *)
(* the source's numbering) may leave holes in the sequence; the constant   *)
(* Sparse selects them.                                                    *)
(***************************************************************************)
EXTENDS RingSlots

CONSTANTS
    Readers,        \* the readers of the ring
    Words,          \* the machine words of a payload
    MaxSeq,         \* bound: the last sequence number a producer uses
    SLOT_WRITING,   \* u64::MAX, above every sequence a producer or reader uses
    Sparse,         \* TRUE for a mirror ring, whose sequence may have holes
    HolePeriod,     \* a sparse reader looks for a hole every HolePeriod empty
                    \* polls (64 in the code)
    MaxLapped       \* bound: a reader whose lapped_total is above MaxLapped is
                    \* not repositioned again

ASSUME SpmcAssumption ==
    /\ MaxSeq \in Nat
    /\ SLOT_WRITING \in Nat /\ SLOT_WRITING > MaxSeq + 1
    /\ Sparse \in BOOLEAN
    /\ HolePeriod \in Nat \ {0}
    /\ MaxLapped \in Nat

VARIABLES
    slotSeq,    \* Slot.seq of every slot
    slotData,   \* Slot.data of every slot, word by word
    write_seq,  \* RingHeader.write_seq
    \* the producer process
    pseq,       \* RingProducer.seq / MirrorRing.next_seq: the next message
    ppc,        \* where the producer is in push / push_batch
    pwords,     \* words of the current payload not copied into the slot yet
    log,        \* history: the messages whose slot was published
    begun,      \* history: the newest message whose slot was marked
    \* the reader processes
    rpc,        \* where the reader is in recv_status
    cursor,     \* RingConsumer.cursor: the message it wants next
    lapped,     \* RingConsumer.lapped_total
    skipped,    \* next_item's local `skipped`
    seen,       \* the newer sequence carried by SlotRead::Overwritten
    rwords,     \* words of the slot not copied out yet
    buf,        \* the copy made so far
    polls,      \* RingConsumer.empty_polls (modulo HolePeriod)
    holeEnd,    \* skip_hole's local write_seq
    holeNext,   \* skip_hole's local next
    item,       \* history: sequence and payload of the last returned item
    got         \* history: start position plus number of items returned

slotVars == <<slotSeq, slotData, write_seq>>
producerVars == <<pseq, ppc, pwords, log, begun>>
scanVars == <<holeEnd, holeNext>>
copyVars == <<seen, rwords, buf>>
historyVars == <<item, got>>
readerVars == <<rpc, cursor, lapped, skipped, copyVars, polls, scanVars, historyVars>>
vars == <<slotVars, producerVars, readerVars>>

Seqs == 1..MaxSeq
NoWords == [w \in Words |-> 0]

-----------------------------------------------------------------------------
(* Producer *)

(* A freshly created ring: every slot carries sequence 0, the first message *)
(* will be number 1, nothing is published.                                  *)
ProducerInit ==
    /\ slotSeq = [i \in Slots |-> 0]
    /\ slotData = [i \in Slots |-> NoWords]
    /\ write_seq = 0
    /\ pseq = 1
    /\ ppc = "idle"
    /\ pwords = {}
    /\ log = {}
    /\ begun = 0

(* Mutant of MarkWriting: the mark goes into the slot after the one that is *)
(* written.                                                                 *)
MarkNextSlot ==
    /\ ppc \in {"idle", "next"}
    /\ pseq <= MaxSeq
    /\ slotSeq' = [slotSeq EXCEPT ![Index(pseq + 1)] = SLOT_WRITING]
    /\ ppc' = "copy"
    /\ pwords' = Words
    /\ begun' = pseq
    /\ UNCHANGED <<slotData, write_seq, pseq, log, readerVars>>

(* write_slot, first store: push starts ("idle") or push_batch goes on to   *)
(* its next item ("next").                                                  *)
MarkWriting ==
    /\ ppc \in {"idle", "next"}
    /\ pseq <= MaxSeq
    /\ slotSeq' = [slotSeq EXCEPT ![Index(pseq)] = SLOT_WRITING]
    /\ ppc' = "copy"
    /\ pwords' = Words
    /\ begun' = pseq
    /\ UNCHANGED <<slotData, write_seq, pseq, log, readerVars>>

(* write_slot: one word of copy_nonoverlapping. *)
CopyWordIn(w) ==
    /\ ppc = "copy"
    /\ w \in pwords
    /\ slotData' = [slotData EXCEPT ![Index(pseq)][w] = pseq]
    /\ pwords' = pwords \ {w}
    /\ UNCHANGED <<slotSeq, write_seq, pseq, ppc, log, begun, readerVars>>

(* write_slot, last store, and write_one's increment.  A batch goes on with *)
(* its next item; a push, and the end of a batch, go on to publish.         *)
PublishSlot ==
    /\ ppc = "copy"
    /\ pwords = {}
    /\ slotSeq' = [slotSeq EXCEPT ![Index(pseq)] = pseq]
    /\ pseq' = pseq + 1
    /\ log' = log \cup {pseq}
    /\ \/ ppc' = "publish"
       \/ pseq < MaxSeq /\ ppc' = "next"
    /\ UNCHANGED <<slotData, write_seq, pwords, begun, readerVars>>

(* publish_progress: the header catches up with the slots. *)
PublishProgress ==
    /\ ppc = "publish"
    /\ write_seq' = pseq - 1
    /\ ppc' = "idle"
    /\ UNCHANGED <<slotSeq, slotData, pseq, pwords, log, begun, readerVars>>

(* MirrorRing::skip_to: the write position moves on and leaves a hole.      *)
SkipTo(seq) ==
    /\ Sparse
    /\ ppc = "idle"
    /\ seq > pseq
    /\ pseq' = seq
    /\ UNCHANGED <<slotVars, ppc, pwords, log, begun, readerVars>>

(* The producer process dies, possibly between the stores of write_slot or  *)
(* between a slot and the header; the mapping stays as it is.               *)
ProducerDies ==
    /\ ppc # "dead"
    /\ ppc' = "dead"
    /\ UNCHANGED <<slotVars, pseq, pwords, log, begun, readerVars>>

ProducerStep ==
    \/ MarkWriting
    \/ \E w \in Words : CopyWordIn(w)
    \/ PublishSlot
    \/ PublishProgress

-----------------------------------------------------------------------------
(* Readers *)

ReaderInit ==
    /\ rpc = [r \in Readers |-> "detached"]
    /\ cursor = [r \in Readers |-> 1]
    /\ lapped = [r \in Readers |-> 0]
    /\ skipped = [r \in Readers |-> 0]
    /\ seen = [r \in Readers |-> 0]
    /\ rwords = [r \in Readers |-> {}]
    /\ buf = [r \in Readers |-> NoWords]
    /\ polls = [r \in Readers |-> 0]
    /\ holeEnd = [r \in Readers |-> 0]
    /\ holeNext = [r \in Readers |-> 0]
    /\ item = [r \in Readers |-> [seq |-> 0, data |-> NoWords]]
    /\ got = [r \in Readers |-> 1]

(* The reader is placed at `pos`, having been told of `skips` lost          *)
(* messages: the end of attach, seek and the jumps.                         *)
PlaceAt(r, pos, skips) ==
    /\ lapped[r] <= MaxLapped
    /\ cursor' = [cursor EXCEPT ![r] = pos]
    /\ lapped' = [lapped EXCEPT ![r] = @ + skips]
    /\ got' = [got EXCEPT ![r] = pos - (lapped[r] + skips)]

(* attach_with_options: every start mode is resolved against one load of    *)
(* write_seq.  A checkpointed consumer resumes as Sequence(saved + 1).      *)
AttachLatest(r) ==
    PlaceAt(r, Max2(write_seq, 1), 0)

AttachHead(r) ==
    PlaceAt(r, write_seq + 1, 0)

AttachOldest(r) ==
    PlaceAt(r, OldestRetained(write_seq), 0)

PlaceAtSequence(r, seq) ==
    LET target == Max2(seq, 1)
        oldest == OldestRetained(write_seq)
    IN  IF target < oldest
        THEN PlaceAt(r, oldest, oldest - target)
        ELSE PlaceAt(r, target, 0)

Attach(r) ==
    /\ rpc[r] = "detached"
    /\ rpc' = [rpc EXCEPT ![r] = "idle"]
    /\ \/ AttachLatest(r)
       \/ AttachHead(r)
       \/ AttachOldest(r)
       \/ \E seq \in 0..MaxSeq : PlaceAtSequence(r, seq)
    /\ UNCHANGED <<slotVars, producerVars, skipped, copyVars, polls, scanVars, item>>

(* seek: forward or backward, clamped to the oldest retained message.       *)
Seek(r, seq) ==
    /\ rpc[r] = "idle"
    /\ PlaceAtSequence(r, seq)
    /\ UNCHANGED <<slotVars, producerVars, rpc, skipped, copyVars, polls, scanVars, item>>

(* jump_to_latest and jump_to_oldest: only ever forward.                    *)
JumpTo(r, target) ==
    /\ rpc[r] = "idle"
    /\ target > cursor[r]
    /\ PlaceAt(r, target, target - cursor[r])
    /\ UNCHANGED <<slotVars, producerVars, rpc, skipped, copyVars, polls, scanVars, item>>

JumpToLatest(r) == JumpTo(r, write_seq)

JumpToOldest(r) == JumpTo(r, OldestRetained(write_seq))

(* recv_status returns without an item: the call's skips are dropped.       *)
ReturnEmpty(r) ==
    /\ rpc' = [rpc EXCEPT ![r] = "idle"]
    /\ skipped' = [skipped EXCEPT ![r] = 0]

(* Polling is a loop over read_slot: "idle" starts a call, "loop" goes on   *)
(* with the one that has skipped something.                                 *)
Polling(r) == rpc[r] \in {"idle", "loop"}

(* read_slot, s1 = want: the payload copy begins.                           *)
LoadSeqWanted(r) ==
    /\ Polling(r)
    /\ slotSeq[Index(cursor[r])] = cursor[r]
    /\ rpc' = [rpc EXCEPT ![r] = "copy"]
    /\ rwords' = [rwords EXCEPT ![r] = Words]
    /\ UNCHANGED <<slotVars, producerVars, cursor, lapped, skipped, seen, buf,
                   polls, scanVars, historyVars>>

(* A sparse reader looks for a hole on every HolePeriod-th empty poll; the   *)
(* mutant never does.                                                       *)
NeverLooks(r) == FALSE

LooksForHole(r) == Sparse /\ (polls[r] + 1) % HolePeriod = 0

(* read_slot, Pending: not published yet or being written.                  *)
LoadSeqPending(r) ==
    LET s1 == slotSeq[Index(cursor[r])]
    IN  /\ Polling(r)
        /\ s1 # cursor[r]
        /\ s1 = SLOT_WRITING \/ s1 < cursor[r]
        /\ IF LooksForHole(r)
           THEN /\ rpc' = [rpc EXCEPT ![r] = "hole"]
                /\ UNCHANGED skipped
           ELSE ReturnEmpty(r)
        /\ polls' = IF Sparse
                    THEN [polls EXCEPT ![r] = (@ + 1) % HolePeriod]
                    ELSE polls
        /\ UNCHANGED <<slotVars, producerVars, cursor, lapped, copyVars, scanVars,
                       historyVars>>

(* read_slot, Overwritten(s1): a newer message sits in the slot.            *)
LoadSeqNewer(r) ==
    LET s1 == slotSeq[Index(cursor[r])]
    IN  /\ Polling(r)
        /\ s1 # SLOT_WRITING /\ s1 > cursor[r]
        /\ rpc' = [rpc EXCEPT ![r] = "overwritten"]
        /\ seen' = [seen EXCEPT ![r] = s1]
        /\ UNCHANGED <<slotVars, producerVars, cursor, lapped, skipped, rwords, buf,
                       polls, scanVars, historyVars>>

(* racy_copy: one word.                                                     *)
CopyWordOut(r, w) ==
    /\ rpc[r] = "copy"
    /\ w \in rwords[r]
    /\ buf' = [buf EXCEPT ![r][w] = slotData[Index(cursor[r])][w]]
    /\ rwords' = [rwords EXCEPT ![r] = @ \ {w}]
    /\ UNCHANGED <<slotVars, producerVars, rpc, cursor, lapped, skipped, seen, polls,
                   scanVars, historyVars>>

(* read_slot, second load of the sequence word: nothing was written into    *)
(* the slot while it was copied.  The mutant trusts the copy.               *)
CopyTrusted(r) == TRUE

CopyIntact(r) == slotSeq[Index(cursor[r])] = cursor[r]

(* read_slot, s2 = want: the item is returned and the cursor moves on; the  *)
(* status carries the call's skips.                                         *)
RecheckAccept(r) ==
    /\ rpc[r] = "copy"
    /\ rwords[r] = {}
    /\ CopyIntact(r)
    /\ item' = [item EXCEPT ![r] = [seq |-> cursor[r], data |-> buf[r]]]
    /\ got' = [got EXCEPT ![r] = @ + 1]
    /\ cursor' = [cursor EXCEPT ![r] = @ + 1]
    /\ rpc' = [rpc EXCEPT ![r] = "idle"]
    /\ skipped' = [skipped EXCEPT ![r] = 0]
    /\ buf' = [buf EXCEPT ![r] = NoWords]
    /\ UNCHANGED <<slotVars, producerVars, lapped, seen, rwords, polls, scanVars>>

(* read_slot, s2 # want: the copy is discarded; a slot mid-write tells      *)
(* nothing about the newer message (seen = 0).                              *)
RecheckReject(r) ==
    LET s2 == slotSeq[Index(cursor[r])]
    IN  /\ rpc[r] = "copy"
        /\ rwords[r] = {}
        /\ ~CopyIntact(r)
        /\ seen' = [seen EXCEPT ![r] = IF s2 = SLOT_WRITING THEN 0 ELSE s2]
        /\ rpc' = [rpc EXCEPT ![r] = "overwritten"]
        /\ buf' = [buf EXCEPT ![r] = NoWords]
        /\ UNCHANGED <<slotVars, producerVars, cursor, lapped, skipped, rwords, polls,
                       scanVars, historyVars>>

(* Mutant of Advance: lapped_total is forgotten.                            *)
AdvanceUncounted(r, next) ==
    /\ cursor' = [cursor EXCEPT ![r] = next]
    /\ skipped' = [skipped EXCEPT ![r] = @ + (next - cursor[r])]
    /\ rpc' = [rpc EXCEPT ![r] = "loop"]
    /\ UNCHANGED lapped

(* The cursor moves past unreadable messages and next_item loops.           *)
Advance(r, next) ==
    /\ cursor' = [cursor EXCEPT ![r] = next]
    /\ lapped' = [lapped EXCEPT ![r] = @ + (next - cursor[r])]
    /\ skipped' = [skipped EXCEPT ![r] = @ + (next - cursor[r])]
    /\ rpc' = [rpc EXCEPT ![r] = "loop"]

(* skip_overwritten, with next_item's reaction to its result: nothing to    *)
(* skip ends the call with no item.                                         *)
SkipOverwritten(r) ==
    LET oldest == OldestRetained(Max2(write_seq, seen[r]))
    IN  /\ rpc[r] = "overwritten"
        /\ IF oldest > cursor[r]
           THEN Advance(r, oldest)
           ELSE ReturnEmpty(r) /\ UNCHANGED <<cursor, lapped>>
        /\ seen' = [seen EXCEPT ![r] = 0]
        /\ UNCHANGED <<slotVars, producerVars, rwords, buf, polls, scanVars, historyVars>>

(* skip_hole, load of write_seq: the header has not passed the cursor, so   *)
(* the reader is simply caught up.                                          *)
HoleLoadHeader(r) ==
    /\ rpc[r] = "hole"
    /\ IF write_seq < cursor[r]
       THEN ReturnEmpty(r) /\ UNCHANGED holeEnd
       ELSE /\ rpc' = [rpc EXCEPT ![r] = "hole_slot"]
            /\ holeEnd' = [holeEnd EXCEPT ![r] = write_seq]
            /\ UNCHANGED skipped
    /\ UNCHANGED <<slotVars, producerVars, cursor, lapped, copyVars, polls, holeNext,
                   historyVars>>

(* skip_hole, second load of the slot: the message may have landed between  *)
(* the two loads.  The mutant does not look again.                          *)
NotLooked(r) == FALSE

Landed(r) ==
    LET s == slotSeq[Index(cursor[r])]
    IN  s = SLOT_WRITING \/ s >= cursor[r]

HoleLoadSlot(r) ==
    /\ rpc[r] = "hole_slot"
    /\ IF Landed(r)
       THEN /\ ReturnEmpty(r)
            /\ holeEnd' = [holeEnd EXCEPT ![r] = 0]
            /\ UNCHANGED holeNext
       ELSE /\ rpc' = [rpc EXCEPT ![r] = "scan"]
            /\ holeNext' = [holeNext EXCEPT ![r] =
                               Max2(OldestRetained(holeEnd[r]), cursor[r] + 1)]
            /\ UNCHANGED <<skipped, holeEnd>>
    /\ UNCHANGED <<slotVars, producerVars, cursor, lapped, copyVars, polls, historyVars>>

(* skip_hole, the scan: one slot per step, until a slot holds its message   *)
(* or the scan passes write_seq.                                            *)
HoleScan(r) ==
    LET next == holeNext[r]
        found == next > holeEnd[r] \/ slotSeq[Index(next)] = next
    IN  /\ rpc[r] = "scan"
        /\ IF found
           THEN /\ Advance(r, next)
                /\ holeNext' = [holeNext EXCEPT ![r] = 0]
                /\ holeEnd' = [holeEnd EXCEPT ![r] = 0]
           ELSE /\ holeNext' = [holeNext EXCEPT ![r] = @ + 1]
                /\ UNCHANGED <<rpc, cursor, lapped, skipped, holeEnd>>
        /\ UNCHANGED <<slotVars, producerVars, copyVars, polls, historyVars>>

(* The steps of one recv_status call, polled again and again.               *)
ReaderStep(r) ==
    \/ LoadSeqWanted(r)
    \/ LoadSeqPending(r)
    \/ LoadSeqNewer(r)
    \/ \E w \in Words : CopyWordOut(r, w)
    \/ RecheckAccept(r)
    \/ RecheckReject(r)
    \/ SkipOverwritten(r)
    \/ HoleLoadHeader(r)
    \/ HoleLoadSlot(r)
    \/ HoleScan(r)

-----------------------------------------------------------------------------

Init == ProducerInit /\ ReaderInit

Next ==
    \/ ProducerStep
    \/ \E seq \in Seqs : SkipTo(seq)
    \/ ProducerDies
    \/ \E r \in Readers :
          \/ Attach(r)
          \/ \E seq \in 0..MaxSeq : Seek(r, seq)
          \/ JumpToLatest(r)
          \/ JumpToOldest(r)
          \/ ReaderStep(r)

Spec == Init /\ [][Next]_vars

-----------------------------------------------------------------------------
(* Properties *)

ProducerPcs == {"idle", "copy", "next", "publish", "dead"}
ReaderPcs == {"detached", "idle", "loop", "copy", "overwritten", "hole", "hole_slot", "scan"}
Payloads == [Words -> 0..MaxSeq]

(* The slots hold sequence words and payload words, a cursor is between 1 *)
(* and one past the last message a producer can write, the program          *)
(* counters are those of push_batch and of next_item.                       *)
TypeOK ==
    /\ slotSeq \in [Slots -> 0..MaxSeq \cup {SLOT_WRITING}]
    /\ slotData \in [Slots -> Payloads]
    /\ write_seq \in 0..MaxSeq
    /\ pseq \in 1..(MaxSeq + 1)
    /\ ppc \in ProducerPcs
    /\ pwords \in SUBSET Words
    /\ log \in SUBSET Seqs
    /\ begun \in 0..MaxSeq
    /\ rpc \in [Readers -> ReaderPcs]
    /\ cursor \in [Readers -> 1..(MaxSeq + 1)]
    /\ lapped \in [Readers -> Nat]
    /\ skipped \in [Readers -> Nat]
    /\ seen \in [Readers -> 0..MaxSeq]
    /\ rwords \in [Readers -> SUBSET Words]
    /\ buf \in [Readers -> Payloads]
    /\ polls \in [Readers -> Nat]
    /\ holeEnd \in [Readers -> 0..MaxSeq]
    /\ holeNext \in [Readers -> Nat]
    /\ item \in [Readers -> [seq : Nat, data : Payloads]]
    /\ got \in [Readers -> Int]

(* read_slot rejects torn copies: whatever the producer did while the words *)
(* were copied, the payload of a returned item is the one pushed under the  *)
(* sequence the reader asked for.                                           *)
NoTornItem ==
    \A r \in Readers : \A w \in Words : item[r].data[w] = item[r].seq

(* What the ring retains is readable: unless a write a full ring newer has  *)
(* begun, a written message's slot still carries its sequence and payload.  *)
RetainedReadable ==
    \A n \in log :
        n + Capacity > begun =>
            /\ slotSeq[Index(n)] = n
            /\ \A w \in Words : slotData[Index(n)][w] = n

(* lapped_count() accounts for every message between the reader's start and *)
(* its cursor that it was not given (docs/benchmarking.md: received +       *)
(* lapped = pushed).                                                        *)
LapAccounting == \A r \in Readers : cursor[r] = got[r] + lapped[r]

(* The reader is polling and message n, which it wants, is behind the       *)
(* published write position.                                                *)
Waiting(r, n) == rpc[r] # "detached" /\ cursor[r] = n /\ n <= write_seq

(* A producer that died inside write_slot leaves its slot marked for good.  *)
StuckSlot(n) == ppc = "dead" /\ slotSeq[Index(n)] = SLOT_WRITING

(* A reader that keeps polling never hangs on a published position: it      *)
(* reads, skips the overwritten messages or crosses the hole, except where  *)
(* a dead producer left its slot marked.                                    *)
PollingReaderMoves ==
    \A r \in Readers : \A n \in Seqs :
        Waiting(r, n) ~> (cursor[r] # n \/ StuckSlot(n))

(* The readers are polled for ever and a producer inside a push finishes it *)
(* or dies.                                                                 *)
Fairness ==
    /\ \A r \in Readers : WF_vars(ReaderStep(r))
    /\ WF_vars(ppc # "idle" /\ ProducerStep)

FairSpec == Spec /\ Fairness

(* The ring keeps the broadcast promise: items are delivered intact, in     *)
(* order and at most once, and a receive call passes over a message only    *)
(* when it is gone.                                                         *)
Promise == INSTANCE Broadcast WITH
              busy <- [r \in Readers |-> rpc[r] \notin {"detached", "idle"}],
              pos <- cursor,
              lost <- lapped

RefinesBroadcast == Promise!Spec

=============================================================================
