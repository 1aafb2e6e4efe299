-------------------------- MODULE SpmcRing_proofs ---------------------------
(***************************************************************************)
(* Proofs about the broadcast ring, for every capacity, number of readers, *)
(* payload size and bound on the sequence numbers.                         *)
(***************************************************************************)
EXTENDS SpmcRing, TLAPS

(* The producer is past the last message it began, or in the middle of it; *)
(* the header never runs ahead of the slots.                               *)
ProducerInv ==
    /\ begun <= pseq
    /\ ppc \in {"idle", "next", "publish"} => begun < pseq
    /\ ppc = "copy" => begun = pseq /\ slotSeq[Index(pseq)] = SLOT_WRITING
    /\ ppc = "publish" => begun = pseq - 1
    /\ write_seq <= begun
    /\ write_seq < pseq
    /\ \A n \in log : n <= begun /\ n < pseq

(* A slot that is not mid-write holds one message, completely; a slot      *)
(* mid-write is the one of the message begun last.                         *)
SlotInv ==
    \A i \in Slots :
        /\ slotSeq[i] = SLOT_WRITING =>
              ppc \in {"copy", "dead"} /\ i = Index(pseq) /\ begun = pseq
        /\ slotSeq[i] # SLOT_WRITING =>
              /\ slotSeq[i] <= begun
              /\ slotSeq[i] < pseq
              /\ slotSeq[i] # 0 => slotSeq[i] \in log
              /\ \A w \in Words : slotData[i][w] = slotSeq[i]

(* The words copied so far are the payload of the message being written.   *)
CopyInInv ==
    ppc = "copy" => \A w \in Words \ pwords : slotData[Index(pseq)][w] = pseq

(* While a reader copies, its slot still holds the wanted message and the  *)
(* words copied so far are its payload, or the slot has moved on for good. *)
CopyOutInv ==
    \A r \in Readers : rpc[r] = "copy" =>
        LET s == slotSeq[Index(cursor[r])] IN
        \/ s = cursor[r] /\ \A w \in Words \ rwords[r] : buf[r][w] = cursor[r]
        \/ s = SLOT_WRITING /\ cursor[r] < pseq
        \/ s # SLOT_WRITING /\ s > cursor[r]

(* The sequence a reader saw in its slot was written.                      *)
SeenInv == \A r \in Readers : seen[r] <= begun

(* What a sparse reader's scan has passed over is gone.                    *)
Gone(m) == m \notin log \/ m + Capacity <= begun

ScanInv ==
    \A r \in Readers :
        /\ holeEnd[r] <= write_seq
        /\ rpc[r] \in {"hole_slot", "scan"} => cursor[r] <= holeEnd[r]
        /\ rpc[r] = "scan" =>
              /\ holeNext[r] > cursor[r]
              /\ holeNext[r] <= holeEnd[r] + 1
              /\ \A m \in cursor[r]..(holeNext[r] - 1) : Gone(m)

(* The ring, which only the producer writes.                               *)
RingInv == ProducerInv /\ SlotInv /\ CopyInInv /\ RetainedReadable

(* The readers' copies and scans.                                          *)
ReadInv == CopyOutInv /\ SeenInv /\ NoTornItem /\ ScanInv

(* The inductive invariant of the ring.                                    *)
IInv == TypeOK /\ RingInv /\ ReadInv /\ LapAccounting

-----------------------------------------------------------------------------
(* Arithmetic of slots and of the retained window *)

(* Every sequence number addresses a slot.                                 *)
LEMMA IndexInSlots == \A n \in Nat : Index(n) \in Slots
BY SpmcAssumption, CapacityAssumption DEF Index, Slots

(* Two different messages that share a slot are at least a ring apart.     *)
LEMMA SameSlot ==
    ASSUME NEW m \in Nat, NEW n \in Nat, m < n, Index(m) = Index(n)
    PROVE  m + Capacity <= n
<1>1. Capacity \in Nat \ {0}
  BY SpmcAssumption, CapacityAssumption
<1>2. /\ m = Capacity * (m \div Capacity) + (m % Capacity)
      /\ n = Capacity * (n \div Capacity) + (n % Capacity)
      /\ m \div Capacity \in Int /\ n \div Capacity \in Int
      /\ m % Capacity \in Int
  BY <1>1
<1> DEFINE k == (n \div Capacity) - (m \div Capacity)
<1>3. n - m = Capacity * k /\ k \in Int
  BY <1>1, <1>2 DEF Index
<1>4. k > 0
  <2>1. Capacity * k > 0
    BY <1>2, <1>3
  <2> QED BY <2>1, <1>1, <1>3
<1>5. Capacity * k >= Capacity
  BY <1>1, <1>3, <1>4
<1> QED BY <1>3, <1>5, <1>1

(* The oldest retained sequence is a sequence, at most one past the newest *)
(* message, and everything below it is a full ring behind.                 *)
LEMMA OldestFacts ==
    ASSUME NEW w \in Nat
    PROVE  /\ OldestRetained(w) \in Nat \ {0}
           /\ OldestRetained(w) <= w + 1
           /\ \A m \in Nat \ {0} : m < OldestRetained(w) => m + Capacity <= w
BY SpmcAssumption, CapacityAssumption DEF OldestRetained

(* oldest_retained of a published position is a position.                  *)
LEMMA OldestInRange ==
    ASSUME NEW w \in 0..MaxSeq
    PROVE  OldestRetained(w) \in 1..(MaxSeq + 1)
BY OldestFacts, SpmcAssumption, CapacityAssumption DEF OldestRetained

(* A marked slot is not one that carries a sequence.                       *)
LEMMA WritingIsNoSeq == \A n \in 0..MaxSeq : n # SLOT_WRITING
BY SpmcAssumption, CapacityAssumption

-----------------------------------------------------------------------------
(* Frames: who writes what *)

ReaderAction(r) ==
    \/ Attach(r)
    \/ \E seq \in 0..MaxSeq : Seek(r, seq)
    \/ JumpToLatest(r)
    \/ JumpToOldest(r)
    \/ ReaderStep(r)

ProducerAction ==
    \/ ProducerStep
    \/ \E seq \in Seqs : SkipTo(seq)
    \/ ProducerDies

(* A step is the producer's or one reader's.                               *)
LEMMA NextSplit == Next <=> ProducerAction \/ \E r \in Readers : ReaderAction(r)
BY DEF Next, ProducerAction, ReaderAction

(* Readers never write to the ring: the lossy producer cannot be disturbed *)
(* by them.                                                                *)
LEMMA ReaderFrame ==
    ASSUME NEW r \in Readers, ReaderAction(r)
    PROVE  UNCHANGED <<slotVars, producerVars>>
BY DEF ReaderAction, ReaderStep, Attach, Seek, JumpToLatest, JumpToOldest, JumpTo,
       LoadSeqWanted, LoadSeqPending, LoadSeqNewer, CopyWordOut, RecheckAccept,
       RecheckReject, SkipOverwritten, HoleLoadHeader, HoleLoadSlot, HoleScan

(* The producer never touches a reader.                                    *)
LEMMA ProducerFrame == ProducerAction => UNCHANGED readerVars
BY DEF ProducerAction, ProducerStep, MarkWriting, CopyWordIn, PublishSlot,
       PublishProgress, SkipTo, ProducerDies

-----------------------------------------------------------------------------
(* Type correctness *)

ProducerTypes ==
    /\ slotSeq \in [Slots -> 0..MaxSeq \cup {SLOT_WRITING}]
    /\ slotData \in [Slots -> Payloads]
    /\ write_seq \in 0..MaxSeq
    /\ pseq \in 1..(MaxSeq + 1)
    /\ ppc \in ProducerPcs
    /\ pwords \in SUBSET Words
    /\ log \in SUBSET Seqs
    /\ begun \in 0..MaxSeq

ReaderTypes ==
    /\ rpc \in [Readers -> ReaderPcs]
    /\ cursor \in [Readers -> 1..(MaxSeq + 1)]
    /\ lapped \in [Readers -> Nat]
    /\ skipped \in [Readers -> Nat]
    /\ seen \in [Readers -> 0..MaxSeq]
    /\ rwords \in [Readers -> SUBSET Words]
    /\ buf \in [Readers -> Payloads]
    /\ polls \in [Readers -> Nat]
    /\ holeEnd \in [Readers -> 0..MaxSeq]
    /\ holeNext \in [Readers -> Nat]
    /\ item \in [Readers -> [seq : Nat, data : Payloads]]
    /\ got \in [Readers -> Int]

(* TypeOK is the producer's and the readers' part.                         *)
LEMMA TypeSplit == TypeOK <=> ProducerTypes /\ ReaderTypes
BY DEF TypeOK, ProducerTypes, ReaderTypes

(* An untouched buffer has the type of a payload.                          *)
LEMMA NoWordsPayload == NoWords \in Payloads
BY SpmcAssumption, CapacityAssumption DEF NoWords, Payloads

(* The producer's steps keep its types: the copy of a message begun at     *)
(* pseq stays within the bound on sequences.                               *)
LEMMA ProducerTypesStep ==
    ASSUME ProducerTypes, ProducerInv, ProducerAction
    PROVE  ProducerTypes'
<1> USE SpmcAssumption, CapacityAssumption DEF ProducerTypes, ProducerPcs
<1>1. CASE MarkWriting
  BY <1>1, IndexInSlots DEF MarkWriting
<1>2. ASSUME NEW w \in Words, CopyWordIn(w)
      PROVE  ProducerTypes'
  <2>1. pseq \in 0..MaxSeq /\ Index(pseq) \in Slots
    BY <1>2, IndexInSlots DEF CopyWordIn, ProducerInv
  <2>2. slotData[Index(pseq)] \in Payloads
    BY <2>1
  <2>3. [slotData[Index(pseq)] EXCEPT ![w] = pseq] \in Payloads
    BY <2>1, <2>2 DEF Payloads
  <2>4. slotData' \in [Slots -> Payloads]
    BY <1>2, <2>3, <2>1 DEF CopyWordIn
  <2> QED BY <1>2, <2>4 DEF CopyWordIn
<1>3. CASE PublishSlot
  BY <1>3, IndexInSlots DEF PublishSlot, ProducerInv, Seqs
<1>4. CASE PublishProgress
  BY <1>4 DEF PublishProgress
<1>5. ASSUME NEW seq \in Seqs, SkipTo(seq)
      PROVE  ProducerTypes'
  BY <1>5 DEF SkipTo, slotVars, Seqs
<1>6. CASE ProducerDies
  BY <1>6 DEF ProducerDies, slotVars
<1> QED BY <1>1, <1>2, <1>3, <1>4, <1>5, <1>6 DEF ProducerAction, ProducerStep

(* Repositioning a reader keeps its types.                                 *)
LEMMA PlaceTypes ==
    ASSUME ReaderTypes, NEW r \in Readers, NEW pos \in 1..(MaxSeq + 1), NEW skips \in Nat,
           PlaceAt(r, pos, skips)
    PROVE  /\ (cursor \in [Readers -> 1..(MaxSeq + 1)])'
           /\ (lapped \in [Readers -> Nat])'
           /\ (got \in [Readers -> Int])'
           /\ cursor'[r] = got'[r] + lapped'[r]
           /\ \A q \in Readers \ {r} : /\ cursor'[q] = cursor[q]
                                      /\ got'[q] = got[q]
                                      /\ lapped'[q] = lapped[q]
BY SpmcAssumption, CapacityAssumption DEF ReaderTypes, PlaceAt

(* Every way of placing a reader places it at a sequence, with a natural   *)
(* number of skips.                                                        *)
LEMMA PlaceAtSequenceForm ==
    ASSUME ProducerTypes, NEW r \in Readers, NEW seq \in 0..MaxSeq, PlaceAtSequence(r, seq)
    PROVE  \E pos \in 1..(MaxSeq + 1), skips \in Nat : PlaceAt(r, pos, skips)
<1>1. OldestRetained(write_seq) \in 1..(MaxSeq + 1)
  BY OldestInRange, SpmcAssumption, CapacityAssumption DEF ProducerTypes
<1>2. Max2(seq, 1) \in 1..(MaxSeq + 1)
  BY SpmcAssumption, CapacityAssumption DEF Max2
<1> DEFINE t == Max2(seq, 1)
           o == OldestRetained(write_seq)
<1>3. CASE t < o
  <2>1. PlaceAt(r, o, o - t) /\ o - t \in Nat
    BY <1>1, <1>2, <1>3 DEF PlaceAtSequence
  <2> QED BY <2>1, <1>1
<1>4. CASE ~(t < o)
  BY <1>1, <1>2, <1>4 DEF PlaceAtSequence
<1> QED BY <1>3, <1>4

(* Attaching, seeking and jumping all place the reader.                    *)
LEMMA AttachForm ==
    ASSUME ProducerTypes, NEW r \in Readers, Attach(r)
    PROVE  \E pos \in 1..(MaxSeq + 1), skips \in Nat : PlaceAt(r, pos, skips)
<1>1. CASE AttachLatest(r)
  BY <1>1, SpmcAssumption, CapacityAssumption DEF AttachLatest, ProducerTypes, Max2
<1>2. CASE AttachHead(r)
  BY <1>2, SpmcAssumption, CapacityAssumption DEF AttachHead, ProducerTypes
<1>3. CASE AttachOldest(r)
  <2>2. OldestRetained(write_seq) \in 1..(MaxSeq + 1)
    BY OldestInRange DEF ProducerTypes
  <2> QED BY <1>3, <2>2 DEF AttachOldest
<1>4. ASSUME NEW seq \in 0..MaxSeq, PlaceAtSequence(r, seq)
      PROVE  \E pos \in 1..(MaxSeq + 1), skips \in Nat : PlaceAt(r, pos, skips)
  BY <1>4, SpmcAssumption, CapacityAssumption, PlaceAtSequenceForm
<1> QED BY <1>1, <1>2, <1>3, <1>4 DEF Attach

(* A jump places the reader like an attach does.                           *)
LEMMA JumpForm ==
    ASSUME ReaderTypes, NEW r \in Readers, NEW t \in 0..(MaxSeq + 1), JumpTo(r, t)
    PROVE  \E pos \in 1..(MaxSeq + 1), skips \in Nat : PlaceAt(r, pos, skips)
<1>1. t \in 1..(MaxSeq + 1) /\ t - cursor[r] \in Nat
  BY SpmcAssumption, CapacityAssumption DEF JumpTo, ReaderTypes
<1> QED BY <1>1 DEF JumpTo

(* Every step of a reader keeps the reader types and the accounting of     *)
(* lapped messages.                                                        *)
LEMMA ReaderTypesStep ==
    ASSUME ProducerTypes, ReaderTypes, LapAccounting, SlotInv, ScanInv,
           NEW r \in Readers, ReaderAction(r)
    PROVE  ReaderTypes' /\ LapAccounting'
<1> USE SpmcAssumption, CapacityAssumption DEF ReaderPcs
<1>0. write_seq \in Nat /\ Index(cursor[r]) \in Slots /\ cursor[r] \in Nat \ {0}
  BY IndexInSlots DEF ProducerTypes, ReaderTypes
<1>p. ASSUME NEW pos \in 1..(MaxSeq + 1), NEW skips \in Nat, PlaceAt(r, pos, skips),
             UNCHANGED <<skipped, copyVars, polls, scanVars, item>>,
             rpc' \in [Readers -> ReaderPcs]
      PROVE  ReaderTypes' /\ LapAccounting'
  BY <1>p, PlaceTypes DEF ReaderTypes, LapAccounting, copyVars, scanVars
<1>1. CASE Attach(r)
  BY <1>1, <1>p, AttachForm DEF Attach, ReaderTypes
<1>2. ASSUME NEW seq \in 0..MaxSeq, Seek(r, seq)
      PROVE  ReaderTypes' /\ LapAccounting'
  BY <1>2, <1>p, PlaceAtSequenceForm DEF Seek, ReaderTypes
<1>3. ASSUME NEW t \in 0..(MaxSeq + 1), JumpTo(r, t)
      PROVE  ReaderTypes' /\ LapAccounting'
  BY <1>3, <1>p, JumpForm DEF JumpTo, ReaderTypes
<1>4. CASE LoadSeqWanted(r)
  BY <1>4 DEF LoadSeqWanted, ReaderTypes, LapAccounting, scanVars, historyVars
<1>5. CASE LoadSeqPending(r)
  <2>1. polls' \in [Readers -> Nat]
    <3>1. (polls[r] + 1) % HolePeriod \in Nat
      BY DEF ReaderTypes
    <3> QED BY <1>5, <3>1 DEF LoadSeqPending, ReaderTypes
  <2>2. /\ rpc' \in [Readers -> ReaderPcs]
        /\ skipped' \in [Readers -> Nat]
    <3>1. CASE ReturnEmpty(r)
      BY <3>1 DEF ReturnEmpty, ReaderTypes
    <3>2. CASE rpc' = [rpc EXCEPT ![r] = "hole"] /\ UNCHANGED skipped
      BY <3>2 DEF ReaderTypes
    <3> QED BY <1>5, <3>1, <3>2 DEF LoadSeqPending
  <2> QED BY <1>5, <2>1, <2>2 DEF LoadSeqPending, ReaderTypes, LapAccounting, copyVars,
             scanVars, historyVars
<1>6. CASE LoadSeqNewer(r)
  BY <1>6, <1>0 DEF LoadSeqNewer, ReaderTypes, ProducerTypes, LapAccounting, scanVars,
                    historyVars
<1>7. ASSUME NEW w \in Words, CopyWordOut(r, w)
      PROVE  ReaderTypes' /\ LapAccounting'
  <2>1. slotData[Index(cursor[r])] \in Payloads /\ buf[r] \in Payloads
    BY <1>0 DEF ProducerTypes, ReaderTypes
  <2>2. [buf[r] EXCEPT ![w] = slotData[Index(cursor[r])][w]] \in Payloads
    BY <2>1 DEF Payloads
  <2>3. buf' \in [Readers -> Payloads]
    BY <1>7, <2>2 DEF CopyWordOut, ReaderTypes
  <2> QED BY <1>7, <2>3 DEF CopyWordOut, ReaderTypes, LapAccounting, scanVars,
             historyVars
<1>8. CASE RecheckAccept(r)
  <2>1. [seq |-> cursor[r], data |-> buf[r]] \in [seq : Nat, data : Payloads]
    BY <1>0 DEF ReaderTypes
  <2>2. item' \in [Readers -> [seq : Nat, data : Payloads]]
    BY <1>8, <2>1 DEF RecheckAccept, ReaderTypes
  <2>3. buf' \in [Readers -> Payloads]
    BY <1>8, NoWordsPayload DEF RecheckAccept, ReaderTypes
  <2>4. /\ rpc' \in [Readers -> ReaderPcs]
        /\ cursor' \in [Readers -> 1..(MaxSeq + 1)]
        /\ skipped' \in [Readers -> Nat]
        /\ got' \in [Readers -> Int]
    <3>1. cursor[r] \in 1..MaxSeq
      BY <1>8, <1>0 DEF RecheckAccept, CopyIntact, ReaderTypes, ProducerTypes
    <3> QED BY <1>8, <3>1 DEF RecheckAccept, ReaderTypes
  <2>5. LapAccounting'
    BY <1>8 DEF RecheckAccept, ReaderTypes, LapAccounting
  <2> QED BY <1>8, <2>2, <2>3, <2>4, <2>5 DEF RecheckAccept, ReaderTypes, scanVars
<1>9. CASE RecheckReject(r)
  <2>1. seen' \in [Readers -> 0..MaxSeq]
    BY <1>9, <1>0 DEF RecheckReject, ReaderTypes, ProducerTypes
  <2>2. buf' \in [Readers -> Payloads]
    BY <1>9, NoWordsPayload DEF RecheckReject, ReaderTypes
  <2>3. rpc' \in [Readers -> ReaderPcs]
    BY <1>9 DEF RecheckReject, ReaderTypes
  <2> QED BY <1>9, <2>1, <2>2, <2>3 DEF RecheckReject, ReaderTypes, LapAccounting,
             scanVars, historyVars
<1>a. ASSUME NEW next \in 1..(MaxSeq + 1), next > cursor[r], Advance(r, next), UNCHANGED got
      PROVE  /\ cursor' \in [Readers -> 1..(MaxSeq + 1)]
             /\ lapped' \in [Readers -> Nat]
             /\ skipped' \in [Readers -> Nat]
             /\ rpc' \in [Readers -> ReaderPcs]
             /\ LapAccounting'
  <2>1. next - cursor[r] \in Nat
    BY <1>a, <1>0
  <2> QED BY <1>a, <2>1 DEF Advance, ReaderTypes, LapAccounting
<1>10. CASE SkipOverwritten(r)
  <2> DEFINE o == OldestRetained(Max2(write_seq, seen[r]))
  <2>1. Max2(write_seq, seen[r]) \in 0..MaxSeq
    BY <1>0 DEF Max2, ReaderTypes, ProducerTypes
  <2>2. o \in 1..(MaxSeq + 1)
    BY <2>1, OldestInRange
  <2>3. seen' \in [Readers -> 0..MaxSeq]
    BY <1>10 DEF SkipOverwritten, ReaderTypes
  <2>4. CASE o > cursor[r]
    <3>1. Advance(r, o) /\ UNCHANGED got
      BY <1>10, <2>4 DEF SkipOverwritten, historyVars
    <3> HIDE DEF o
    <3> QED BY <1>10, <2>2, <2>3, <2>4, <3>1, <1>a DEF SkipOverwritten, ReaderTypes,
               scanVars, historyVars
  <2>5. CASE ~(o > cursor[r])
    <3>1. ReturnEmpty(r) /\ UNCHANGED <<cursor, lapped>>
      BY <1>10, <2>5 DEF SkipOverwritten
    <3> HIDE DEF o
    <3> QED BY <1>10, <2>3, <3>1 DEF SkipOverwritten, ReturnEmpty, ReaderTypes,
               LapAccounting, scanVars, historyVars
  <2> QED BY <2>4, <2>5
<1>11. CASE HoleLoadHeader(r)
  <2>1. /\ rpc' \in [Readers -> ReaderPcs]
        /\ skipped' \in [Readers -> Nat]
        /\ holeEnd' \in [Readers -> 0..MaxSeq]
    <3>1. CASE write_seq < cursor[r]
      <4>1. ReturnEmpty(r) /\ UNCHANGED holeEnd
        BY <1>11, <3>1 DEF HoleLoadHeader
      <4> QED BY <4>1 DEF ReturnEmpty, ReaderTypes
    <3>2. CASE ~(write_seq < cursor[r])
      <4>1. /\ rpc' = [rpc EXCEPT ![r] = "hole_slot"]
            /\ holeEnd' = [holeEnd EXCEPT ![r] = write_seq]
            /\ UNCHANGED skipped
        BY <1>11, <3>2 DEF HoleLoadHeader
      <4> QED BY <4>1 DEF ReaderTypes, ProducerTypes
    <3> QED BY <3>1, <3>2
  <2> QED BY <1>11, <2>1 DEF HoleLoadHeader, ReaderTypes, LapAccounting, copyVars,
             historyVars
<1>12. CASE HoleLoadSlot(r)
  <2>1. Max2(OldestRetained(holeEnd[r]), cursor[r] + 1) \in Nat
    <3>1. holeEnd[r] \in Nat
      BY DEF ReaderTypes
    <3>2. OldestRetained(holeEnd[r]) \in Nat \ {0}
      BY <3>1, OldestFacts
    <3> QED BY <3>2, <1>0 DEF Max2
  <2>2. /\ rpc' \in [Readers -> ReaderPcs]
        /\ skipped' \in [Readers -> Nat]
        /\ holeEnd' \in [Readers -> 0..MaxSeq]
        /\ holeNext' \in [Readers -> Nat]
    <3>1. CASE /\ ReturnEmpty(r)
               /\ holeEnd' = [holeEnd EXCEPT ![r] = 0]
               /\ UNCHANGED holeNext
      BY <3>1 DEF ReturnEmpty, ReaderTypes
    <3>2. CASE /\ rpc' = [rpc EXCEPT ![r] = "scan"]
               /\ holeNext' = [holeNext EXCEPT ![r] =
                                  Max2(OldestRetained(holeEnd[r]), cursor[r] + 1)]
               /\ UNCHANGED <<skipped, holeEnd>>
      BY <2>1, <3>2 DEF ReaderTypes
    <3> QED BY <1>12, <3>1, <3>2 DEF HoleLoadSlot
  <2> QED BY <1>12, <2>2 DEF HoleLoadSlot, ReaderTypes, LapAccounting, copyVars,
             historyVars
<1>13. CASE HoleScan(r)
  <2> DEFINE next == holeNext[r]
             found == next > holeEnd[r] \/ slotSeq[Index(next)] = next
  <2>1. next \in 1..(MaxSeq + 1) /\ next > cursor[r]
    BY <1>13 DEF HoleScan, ScanInv, ReaderTypes
  <2>2. CASE found
    <3>1. Advance(r, next) /\ UNCHANGED got
      BY <1>13, <2>2 DEF HoleScan, historyVars
    <3>2. /\ holeEnd' \in [Readers -> 0..MaxSeq]
          /\ holeNext' \in [Readers -> Nat]
      <4>1. /\ holeNext' = [holeNext EXCEPT ![r] = 0]
            /\ holeEnd' = [holeEnd EXCEPT ![r] = 0]
        BY <1>13, <2>2 DEF HoleScan
      <4> QED BY <4>1 DEF ReaderTypes
    <3>3. UNCHANGED <<copyVars, polls, historyVars>>
      BY <1>13 DEF HoleScan
    <3> HIDE DEF next
    <3> QED BY <2>1, <3>1, <3>2, <3>3, <1>a DEF ReaderTypes, copyVars, historyVars
  <2>3. CASE ~found
    <3>1. /\ holeNext' = [holeNext EXCEPT ![r] = @ + 1]
          /\ UNCHANGED <<rpc, cursor, lapped, skipped, holeEnd>>
          /\ UNCHANGED <<copyVars, polls, historyVars>>
      BY <1>13, <2>3 DEF HoleScan
    <3> QED BY <3>1 DEF ReaderTypes, LapAccounting, copyVars, historyVars
  <2> QED BY <2>2, <2>3
<1>14. CASE JumpToLatest(r)
  BY <1>14, <1>3, <1>0 DEF JumpToLatest, ProducerTypes
<1>15. CASE JumpToOldest(r)
  <2>1. OldestRetained(write_seq) \in 0..(MaxSeq + 1)
    BY OldestInRange DEF ProducerTypes
  <2> QED BY <1>15, <1>3, <2>1 DEF JumpToOldest
<1> QED BY <1>1, <1>2, <1>4, <1>5, <1>6, <1>7, <1>8, <1>9, <1>10, <1>11, <1>12, <1>13,
           <1>14, <1>15 DEF ReaderAction, ReaderStep

-----------------------------------------------------------------------------
(* The slots under the producer's steps *)

(* The ring invariants speak of the producer and the slots only.           *)
LEMMA RingFrame ==
    ASSUME RingInv, UNCHANGED <<slotVars, producerVars>>
    PROVE  RingInv'
BY DEF RingInv, ProducerInv, SlotInv, CopyInInv, RetainedReadable, slotVars, producerVars,
       Index

(* The producer's steps keep the slots and its own state consistent.       *)
LEMMA RingStep ==
    ASSUME ProducerTypes, RingInv, ProducerAction
    PROVE  RingInv'
<1> USE SpmcAssumption, CapacityAssumption
<1>0. /\ pseq \in Nat /\ begun \in Nat /\ write_seq \in Nat
      /\ Index(pseq) \in Slots
      /\ log \subseteq Nat
  BY IndexInSlots DEF ProducerTypes, Seqs
<1>1. CASE MarkWriting
  <2>1. /\ pseq <= MaxSeq /\ begun < pseq
        /\ begun' = pseq /\ pseq' = pseq /\ log' = log /\ ppc' = "copy"
        /\ pwords' = Words /\ write_seq' = write_seq /\ slotData' = slotData
        /\ slotSeq' = [slotSeq EXCEPT ![Index(pseq)] = SLOT_WRITING]
    BY <1>1 DEF MarkWriting, RingInv, ProducerInv
  <2>2. ProducerInv'
    BY <2>1, <1>0 DEF ProducerTypes, RingInv, ProducerInv, Index
  <2>3. SlotInv'
    BY <2>1, <1>0 DEF ProducerTypes, RingInv, SlotInv, Index
  <2>4. CopyInInv'
    BY <2>1 DEF CopyInInv
  <2>5. ASSUME NEW n \in log, n + Capacity > pseq
        PROVE  Index(n) # Index(pseq)
    BY <2>5, <1>0, SameSlot DEF RingInv, ProducerInv
  <2>6. RetainedReadable'
    BY <2>1, <2>5, <1>0, IndexInSlots DEF ProducerTypes, RingInv, RetainedReadable, Index
  <2> QED BY <2>2, <2>3, <2>4, <2>6 DEF RingInv
<1>2. ASSUME NEW w \in Words, CopyWordIn(w)
      PROVE  RingInv'
  <2>1. /\ ppc = "copy" /\ begun = pseq
        /\ slotSeq[Index(pseq)] = SLOT_WRITING
        /\ slotData' = [slotData EXCEPT ![Index(pseq)][w] = pseq]
        /\ pwords' = pwords \ {w}
        /\ UNCHANGED <<slotSeq, write_seq, pseq, ppc, log, begun>>
    BY <1>2 DEF CopyWordIn, RingInv, ProducerInv
  <2>2. ProducerInv'
    BY <2>1 DEF RingInv, ProducerInv, Index
  <2>3. \A i \in Slots \ {Index(pseq)} : slotData'[i] = slotData[i]
    BY <2>1 DEF ProducerTypes
  <2>4. SlotInv'
    BY <2>1, <2>3 DEF RingInv, SlotInv, Index
  <2>5. /\ slotData'[Index(pseq)][w] = pseq
        /\ \A v \in Words \ {w} : slotData'[Index(pseq)][v] = slotData[Index(pseq)][v]
    BY <2>1, <1>0 DEF ProducerTypes, Payloads
  <2>6. CopyInInv'
    BY <2>1, <2>5 DEF RingInv, CopyInInv, Index
  <2>7. ASSUME NEW n \in log, n + Capacity > begun
        PROVE  Index(n) # Index(pseq)
    BY <2>1, <2>7, <1>0, SameSlot DEF RingInv, ProducerInv
  <2>8. RetainedReadable'
    BY <2>1, <2>3, <2>7, <1>0, IndexInSlots DEF RingInv, RetainedReadable, Index
  <2> QED BY <2>2, <2>4, <2>6, <2>8 DEF RingInv
<1>3. CASE PublishSlot
  <2>1. /\ ppc = "copy" /\ begun = pseq
        /\ slotSeq[Index(pseq)] = SLOT_WRITING
        /\ slotSeq' = [slotSeq EXCEPT ![Index(pseq)] = pseq]
        /\ pseq' = pseq + 1 /\ log' = log \cup {pseq}
        /\ ppc' \in {"publish", "next"}
        /\ UNCHANGED <<slotData, write_seq, begun>>
        /\ \A w \in Words : slotData[Index(pseq)][w] = pseq
        /\ pseq \in 0..MaxSeq
    BY <1>3 DEF PublishSlot, RingInv, ProducerInv, CopyInInv, ProducerTypes
  <2>2. ProducerInv'
    BY <2>1, <1>0 DEF RingInv, ProducerInv, Index
  <2>3. \A i \in Slots \ {Index(pseq)} : slotSeq[i] # SLOT_WRITING
    BY <2>1 DEF RingInv, SlotInv
  <2>4. SlotInv'
    <3> SUFFICES ASSUME NEW i \in Slots
                 PROVE  /\ slotSeq'[i] # SLOT_WRITING
                        /\ slotSeq'[i] <= begun'
                        /\ slotSeq'[i] < pseq'
                        /\ slotSeq'[i] # 0 => slotSeq'[i] \in log'
                        /\ \A w \in Words : slotData'[i][w] = slotSeq'[i]
      BY DEF SlotInv
    <3>1. CASE i = Index(pseq)
      BY <3>1, <2>1, <1>0 DEF ProducerTypes
    <3>2. CASE i # Index(pseq)
      <4>1. slotSeq'[i] = slotSeq[i] /\ slotSeq[i] # SLOT_WRITING
        BY <3>2, <2>1, <2>3 DEF ProducerTypes
      <4>2. slotSeq[i] \in 0..MaxSeq
        BY <4>1 DEF ProducerTypes
      <4> QED BY <4>1, <4>2, <2>1, <1>0 DEF RingInv, SlotInv
    <3> QED BY <3>1, <3>2
  <2>5. CopyInInv'
    BY <2>1 DEF CopyInInv
  <2>6. ASSUME NEW n \in log, n + Capacity > begun
        PROVE  Index(n) # Index(pseq)
    BY <2>1, <2>6, <1>0, SameSlot DEF RingInv, ProducerInv
  <2>7. RetainedReadable'
    <3> SUFFICES ASSUME NEW n \in log', n + Capacity > begun
                 PROVE  /\ slotSeq'[Index(n)] = n
                        /\ \A w \in Words : slotData[Index(n)][w] = n
      BY <2>1 DEF RetainedReadable, Index
    <3>1. CASE n = pseq
      BY <3>1, <2>1, <1>0 DEF ProducerTypes
    <3>2. CASE n \in log
      <4>1. Index(n) # Index(pseq) /\ Index(n) \in Slots
        BY <3>2, <2>6, <1>0, IndexInSlots
      <4>2. slotSeq'[Index(n)] = slotSeq[Index(n)]
        BY <4>1, <2>1 DEF ProducerTypes
      <4> QED BY <3>2, <4>2 DEF RingInv, RetainedReadable
    <3> QED BY <3>1, <3>2, <2>1
  <2> QED BY <2>2, <2>4, <2>5, <2>7 DEF RingInv
<1>4. CASE PublishProgress
  <2>1. /\ ppc = "publish" /\ begun = pseq - 1
        /\ write_seq' = pseq - 1 /\ ppc' = "idle"
        /\ UNCHANGED <<slotSeq, slotData, pseq, pwords, log, begun>>
    BY <1>4 DEF PublishProgress, RingInv, ProducerInv
  <2>2. ProducerInv'
    BY <2>1, <1>0 DEF RingInv, ProducerInv
  <2> QED BY <2>1, <2>2 DEF RingInv, SlotInv, CopyInInv, RetainedReadable, Index
<1>5. ASSUME NEW seq \in Seqs, SkipTo(seq)
      PROVE  RingInv'
  <2>1. /\ ppc = "idle" /\ ppc' = "idle" /\ begun < pseq
        /\ pseq' = seq /\ seq > pseq /\ seq \in Nat
        /\ UNCHANGED <<slotSeq, slotData, write_seq, pwords, log, begun>>
    BY <1>5 DEF SkipTo, slotVars, RingInv, ProducerInv, Seqs
  <2>2. ProducerInv'
    BY <2>1, <1>0 DEF RingInv, ProducerInv
  <2>3. \A i \in Slots : slotSeq[i] # SLOT_WRITING /\ slotSeq[i] \in 0..MaxSeq
    BY <2>1 DEF RingInv, SlotInv, ProducerTypes
  <2>4. SlotInv'
    BY <2>1, <2>3, <1>0 DEF RingInv, SlotInv
  <2> QED BY <2>1, <2>2, <2>4 DEF RingInv, CopyInInv, RetainedReadable, Index
<1>6. CASE ProducerDies
  <2>1. ppc' = "dead" /\ UNCHANGED <<slotVars, pseq, pwords, log, begun>>
    BY <1>6 DEF ProducerDies
  <2> QED BY <2>1 DEF RingInv, ProducerInv, SlotInv, CopyInInv, RetainedReadable,
             slotVars, Index
<1> QED BY <1>1, <1>2, <1>3, <1>4, <1>5, <1>6 DEF ProducerAction, ProducerStep

-----------------------------------------------------------------------------
(* The readers' copies and scans *)

(* What a producer step can do to a slot: nothing, mark it for a message    *)
(* newer than the one it holds, or publish the message it was marked for.   *)
(* A newly logged message is above the published write position.            *)
LEMMA ProducerEffect ==
    ASSUME ProducerTypes, RingInv, ProducerAction
    PROVE  /\ pseq' >= pseq /\ begun' >= begun /\ write_seq' >= write_seq
           /\ \A i \in Slots :
                 \/ slotSeq'[i] = slotSeq[i]
                 \/ /\ slotSeq'[i] = SLOT_WRITING
                    /\ slotSeq[i] # SLOT_WRITING /\ slotSeq[i] < pseq
                 \/ slotSeq[i] = SLOT_WRITING /\ slotSeq'[i] = pseq /\ pseq <= MaxSeq
           /\ \A n \in log' : n \in log \/ n > write_seq
<1> USE SpmcAssumption, CapacityAssumption
<1>0. /\ pseq \in Nat /\ begun \in Nat /\ write_seq \in Nat
      /\ Index(pseq) \in Slots
  BY IndexInSlots DEF ProducerTypes
<1>1. CASE MarkWriting
  BY <1>1, <1>0 DEF MarkWriting, RingInv, ProducerInv, SlotInv, ProducerTypes
<1>2. ASSUME NEW w \in Words, CopyWordIn(w)
      PROVE  UNCHANGED <<slotSeq, pseq, begun, write_seq, log>>
  BY <1>2 DEF CopyWordIn
<1>3. CASE PublishSlot
  BY <1>3, <1>0 DEF PublishSlot, RingInv, ProducerInv, ProducerTypes
<1>4. CASE PublishProgress
  BY <1>4, <1>0 DEF PublishProgress, RingInv, ProducerInv
<1>5. ASSUME NEW seq \in Seqs, SkipTo(seq)
      PROVE  pseq' >= pseq /\ UNCHANGED <<slotSeq, begun, write_seq, log>>
  BY <1>5, <1>0 DEF SkipTo, slotVars, Seqs
<1>6. CASE ProducerDies
  BY <1>6, <1>0 DEF ProducerDies, slotVars
<1> QED BY <1>0, <1>1, <1>2, <1>3, <1>4, <1>5, <1>6 DEF ProducerAction, ProducerStep

(* What readers rely on survives the steps of the producer.                *)
LEMMA ReadUnderProducer ==
    ASSUME TypeOK, RingInv, ReadInv, ProducerAction
    PROVE  ReadInv'
<1> USE SpmcAssumption, CapacityAssumption
<1>0. ProducerTypes /\ ReaderTypes /\ ProducerTypes'
  BY TypeSplit, ProducerTypesStep DEF RingInv
<1>1. UNCHANGED <<rpc, cursor, seen, rwords, buf, holeEnd, holeNext, item>>
  BY ProducerFrame DEF readerVars, copyVars, scanVars, historyVars
<1>2. /\ pseq \in Nat /\ begun \in Nat /\ write_seq \in Nat
      /\ pseq' \in Nat /\ begun' \in Nat /\ write_seq' \in Nat
  BY <1>0 DEF ProducerTypes
<1>3. CopyOutInv'
  <2> SUFFICES ASSUME NEW r \in Readers, rpc[r] = "copy"
               PROVE  LET s == slotSeq'[Index(cursor[r])] IN
                      \/ /\ s = cursor[r]
                         /\ \A w \in Words \ rwords[r] : buf[r][w] = cursor[r]
                      \/ s = SLOT_WRITING /\ cursor[r] < pseq'
                      \/ s # SLOT_WRITING /\ s > cursor[r]
    BY <1>1 DEF CopyOutInv, Index
  <2> DEFINE i == Index(cursor[r])
  <2>1. cursor[r] \in Nat /\ i \in Slots
    BY <1>0, IndexInSlots DEF ReaderTypes
  <2>2. \/ /\ slotSeq[i] = cursor[r]
           /\ \A w \in Words \ rwords[r] : buf[r][w] = cursor[r]
        \/ slotSeq[i] = SLOT_WRITING /\ cursor[r] < pseq
        \/ slotSeq[i] # SLOT_WRITING /\ slotSeq[i] > cursor[r]
    BY DEF ReadInv, CopyOutInv
  <2>3. /\ pseq' >= pseq
        /\ \/ slotSeq'[i] = slotSeq[i]
           \/ /\ slotSeq'[i] = SLOT_WRITING
              /\ slotSeq[i] # SLOT_WRITING /\ slotSeq[i] < pseq
           \/ slotSeq[i] = SLOT_WRITING /\ slotSeq'[i] = pseq /\ pseq <= MaxSeq
    BY <1>0, <2>1, ProducerEffect
  <2>4. slotSeq[i] \in Nat /\ SLOT_WRITING \in Nat /\ SLOT_WRITING > MaxSeq /\ MaxSeq \in Nat
    BY <2>1, <1>0 DEF ProducerTypes
  <2>5. slotSeq[i] = SLOT_WRITING => cursor[r] < pseq
    <3>1. cursor[r] # SLOT_WRITING
      BY <1>0 DEF ReaderTypes
    <3> QED BY <2>2, <3>1
  <2> HIDE DEF i
  <2>6. \/ /\ slotSeq'[i] = cursor[r]
           /\ \A w \in Words \ rwords[r] : buf[r][w] = cursor[r]
        \/ slotSeq'[i] = SLOT_WRITING /\ cursor[r] < pseq'
        \/ slotSeq'[i] # SLOT_WRITING /\ slotSeq'[i] > cursor[r]
    BY <2>1, <2>2, <2>3, <2>4, <2>5, <1>2
  <2> QED BY <2>6 DEF i
<1>4. SeenInv'
  <2>1. begun' >= begun
    BY <1>0, ProducerEffect
  <2> QED BY <2>1, <1>0, <1>1, <1>2 DEF ReadInv, SeenInv, ReaderTypes
<1>5. NoTornItem'
  BY <1>1 DEF ReadInv, NoTornItem
<1>6. ScanInv'
  <2>1. /\ write_seq' >= write_seq /\ begun' >= begun
        /\ \A n \in log' : n \in log \/ n > write_seq
    BY <1>0, ProducerEffect
  <2> SUFFICES ASSUME NEW r \in Readers
               PROVE  /\ holeEnd[r] <= write_seq'
                      /\ rpc[r] \in {"hole_slot", "scan"} => cursor[r] <= holeEnd[r]
                      /\ rpc[r] = "scan" =>
                            /\ holeNext[r] > cursor[r]
                            /\ holeNext[r] <= holeEnd[r] + 1
                            /\ \A m \in cursor[r]..(holeNext[r] - 1) : Gone(m)'
    BY <1>1 DEF ScanInv, Gone
  <2>2. holeEnd[r] \in Nat /\ cursor[r] \in Nat /\ holeNext[r] \in Nat
    BY <1>0 DEF ReaderTypes
  <2>3. ASSUME rpc[r] = "scan", NEW m \in cursor[r]..(holeNext[r] - 1)
        PROVE  Gone(m)'
    <3>1. m <= write_seq /\ m \in Nat /\ Gone(m)
      BY <2>2, <2>3, <1>2 DEF ReadInv, ScanInv
    <3> QED BY <3>1, <2>1, <1>2 DEF Gone
  <2> QED BY <2>1, <2>2, <2>3, <1>2 DEF ReadInv, ScanInv
<1> QED BY <1>3, <1>4, <1>5, <1>6 DEF ReadInv

(* What the read invariant says of one reader.                             *)
ReadInvOf(r) ==
    /\ rpc[r] = "copy" =>
          LET s == slotSeq[Index(cursor[r])] IN
          \/ s = cursor[r] /\ \A w \in Words \ rwords[r] : buf[r][w] = cursor[r]
          \/ s = SLOT_WRITING /\ cursor[r] < pseq
          \/ s # SLOT_WRITING /\ s > cursor[r]
    /\ seen[r] <= begun
    /\ \A w \in Words : item[r].data[w] = item[r].seq
    /\ holeEnd[r] <= write_seq
    /\ rpc[r] \in {"hole_slot", "scan"} => cursor[r] <= holeEnd[r]
    /\ rpc[r] = "scan" =>
          /\ holeNext[r] > cursor[r]
          /\ holeNext[r] <= holeEnd[r] + 1
          /\ \A m \in cursor[r]..(holeNext[r] - 1) : Gone(m)

(* The read invariant, reader by reader.                                   *)
LEMMA ReadInvSplit == ReadInv <=> \A r \in Readers : ReadInvOf(r)
BY DEF ReadInv, ReadInvOf, CopyOutInv, SeenInv, NoTornItem, ScanInv

(* The variables of one reader that its read invariant mentions.           *)
LocalFrame(q) ==
    /\ rpc'[q] = rpc[q] /\ cursor'[q] = cursor[q] /\ seen'[q] = seen[q]
    /\ rwords'[q] = rwords[q] /\ buf'[q] = buf[q] /\ item'[q] = item[q]
    /\ holeEnd'[q] = holeEnd[q] /\ holeNext'[q] = holeNext[q]

(* A step of one reader leaves the others as they are.                     *)
LEMMA OtherReaders ==
    ASSUME ReaderTypes, NEW r \in Readers, ReaderAction(r),
           NEW q \in Readers, q # r
    PROVE  LocalFrame(q)
<1> USE DEF ReaderTypes, LocalFrame, copyVars, scanVars, historyVars
<1>p. ASSUME NEW pos, NEW skips, PlaceAt(r, pos, skips)
      PROVE  cursor'[q] = cursor[q]
  BY <1>p DEF PlaceAt
<1>s. ASSUME NEW seq, PlaceAtSequence(r, seq)
      PROVE  cursor'[q] = cursor[q]
  BY <1>s, <1>p DEF PlaceAtSequence
<1>1. CASE Attach(r)
  <2>1. cursor'[q] = cursor[q]
    BY <1>1, <1>p, <1>s DEF Attach, AttachLatest, AttachHead, AttachOldest
  <2> QED BY <1>1, <2>1 DEF Attach
<1>2. ASSUME NEW seq \in 0..MaxSeq, Seek(r, seq)
      PROVE  LocalFrame(q)
  BY <1>2, <1>s DEF Seek
<1>3. CASE JumpToLatest(r) \/ JumpToOldest(r)
  BY <1>3, <1>p DEF JumpToLatest, JumpToOldest, JumpTo
<1>4. CASE LoadSeqWanted(r)
  BY <1>4 DEF LoadSeqWanted
<1>5. CASE LoadSeqPending(r)
  BY <1>5 DEF LoadSeqPending, ReturnEmpty
<1>6. CASE LoadSeqNewer(r)
  BY <1>6 DEF LoadSeqNewer
<1>7. ASSUME NEW w \in Words, CopyWordOut(r, w)
      PROVE  LocalFrame(q)
  BY <1>7 DEF CopyWordOut
<1>8. CASE RecheckAccept(r)
  BY <1>8 DEF RecheckAccept
<1>9. CASE RecheckReject(r)
  BY <1>9 DEF RecheckReject
<1>10. CASE SkipOverwritten(r)
  BY <1>10 DEF SkipOverwritten, Advance, ReturnEmpty
<1>11. CASE HoleLoadHeader(r)
  BY <1>11 DEF HoleLoadHeader, ReturnEmpty
<1>12. CASE HoleLoadSlot(r)
  BY <1>12 DEF HoleLoadSlot, ReturnEmpty
<1>13. CASE HoleScan(r)
  BY <1>13 DEF HoleScan, Advance
<1> QED BY <1>1, <1>2, <1>3, <1>4, <1>5, <1>6, <1>7, <1>8, <1>9, <1>10, <1>11, <1>12,
           <1>13 DEF ReaderAction, ReaderStep

(* A message whose slot carries neither its own nor a later sequence, or    *)
(* carries another one, is gone.                                            *)
LEMMA NotInSlot ==
    ASSUME ProducerTypes, RingInv, NEW m \in Nat, slotSeq[Index(m)] # m
    PROVE  Gone(m)
<1>1. begun \in Nat /\ Capacity \in Nat
  BY SpmcAssumption, CapacityAssumption DEF ProducerTypes
<1> QED BY <1>1 DEF Gone, RingInv, RetainedReadable

(* A step of a reader keeps its own read invariant.                         *)
LEMMA ReadOwnStep ==
    ASSUME TypeOK, RingInv, NEW r \in Readers, ReadInvOf(r), ReaderAction(r)
    PROVE  ReadInvOf(r)'
<1> USE SpmcAssumption, CapacityAssumption
<1>0. ProducerTypes /\ ReaderTypes
  BY TypeSplit
<1>1. /\ cursor[r] \in Nat \ {0} /\ Index(cursor[r]) \in Slots
      /\ cursor[r] # SLOT_WRITING
      /\ begun \in Nat /\ write_seq \in Nat /\ pseq \in Nat
      /\ holeEnd[r] \in Nat /\ holeNext[r] \in Nat /\ seen[r] \in Nat
      /\ write_seq <= begun
  BY <1>0, IndexInSlots DEF ProducerTypes, ReaderTypes, RingInv, ProducerInv
<1>2. UNCHANGED <<slotSeq, slotData, write_seq, pseq, log, begun>>
  BY ReaderFrame DEF slotVars, producerVars
<1>a. ASSUME rpc'[r] \in {"idle", "loop"}, seen'[r] \in {0, seen[r]}, item'[r] = item[r],
             holeEnd'[r] \in {0, holeEnd[r]}
      PROVE  ReadInvOf(r)'
  BY <1>a, <1>1, <1>2 DEF ReadInvOf
<1> USE DEF copyVars, scanVars, historyVars
<1>3. CASE Attach(r)
  BY <1>3, <1>a, <1>0 DEF Attach, ReaderTypes
<1>4. ASSUME NEW seq \in 0..MaxSeq, Seek(r, seq)
      PROVE  ReadInvOf(r)'
  BY <1>4, <1>a DEF Seek
<1>5. CASE JumpToLatest(r) \/ JumpToOldest(r)
  BY <1>5, <1>a DEF JumpToLatest, JumpToOldest, JumpTo
<1>6. CASE LoadSeqWanted(r)
  <2>1. /\ rpc'[r] = "copy" /\ rwords'[r] = Words /\ slotSeq[Index(cursor[r])] = cursor[r]
        /\ UNCHANGED <<cursor, seen, item, buf, holeEnd, holeNext>>
    BY <1>6, <1>0 DEF LoadSeqWanted, ReaderTypes
  <2> QED BY <2>1, <1>1, <1>2 DEF ReadInvOf, Index
<1>7. CASE LoadSeqPending(r)
  <2>1. /\ rpc'[r] \in {"hole", "idle"}
        /\ UNCHANGED <<cursor, seen, item, holeEnd>>
    BY <1>7, <1>0 DEF LoadSeqPending, ReturnEmpty, ReaderTypes
  <2> QED BY <2>1, <1>1, <1>2 DEF ReadInvOf
<1>8. CASE LoadSeqNewer(r)
  <2>1. /\ rpc'[r] = "overwritten" /\ seen'[r] = slotSeq[Index(cursor[r])]
        /\ slotSeq[Index(cursor[r])] # SLOT_WRITING
        /\ UNCHANGED <<cursor, item, holeEnd>>
    BY <1>8, <1>0 DEF LoadSeqNewer, ReaderTypes
  <2>2. seen'[r] <= begun
    BY <2>1, <1>1 DEF RingInv, SlotInv
  <2> QED BY <2>1, <2>2, <1>2 DEF ReadInvOf
<1>9. ASSUME NEW w \in Words, CopyWordOut(r, w)
      PROVE  ReadInvOf(r)'
  <2>1. /\ rpc[r] = "copy" /\ rpc'[r] = "copy"
        /\ rwords'[r] = rwords[r] \ {w}
        /\ buf'[r] = [buf[r] EXCEPT ![w] = slotData[Index(cursor[r])][w]]
        /\ UNCHANGED <<cursor, seen, item, holeEnd>>
    BY <1>9, <1>0 DEF CopyWordOut, ReaderTypes
  <2>2. /\ buf'[r][w] = slotData[Index(cursor[r])][w]
        /\ \A v \in Words \ {w} : buf'[r][v] = buf[r][v]
    BY <2>1, <1>0 DEF ReaderTypes, Payloads
  <2>3. slotSeq[Index(cursor[r])] = cursor[r] =>
           slotData[Index(cursor[r])][w] = cursor[r]
    BY <1>1 DEF RingInv, SlotInv
  <2> QED BY <2>1, <2>2, <2>3, <1>2 DEF ReadInvOf, Index
<1>10. CASE RecheckAccept(r)
  <2>1. /\ rpc[r] = "copy" /\ rpc'[r] = "idle" /\ rwords[r] = {}
        /\ slotSeq[Index(cursor[r])] = cursor[r]
        /\ item'[r] = [seq |-> cursor[r], data |-> buf[r]]
        /\ UNCHANGED <<seen, holeEnd>>
    BY <1>10, <1>0 DEF RecheckAccept, CopyIntact, ReaderTypes
  <2>2. \A w \in Words : buf[r][w] = cursor[r]
    BY <2>1, <1>1 DEF ReadInvOf
  <2> QED BY <2>1, <2>2, <1>1, <1>2 DEF ReadInvOf
<1>11. CASE RecheckReject(r)
  <2>1. /\ rpc'[r] = "overwritten"
        /\ seen'[r] = IF slotSeq[Index(cursor[r])] = SLOT_WRITING
                      THEN 0 ELSE slotSeq[Index(cursor[r])]
        /\ UNCHANGED <<cursor, item, holeEnd>>
    BY <1>11, <1>0 DEF RecheckReject, ReaderTypes
  <2>2. seen'[r] <= begun
    BY <2>1, <1>1 DEF RingInv, SlotInv
  <2> QED BY <2>1, <2>2, <1>2 DEF ReadInvOf
<1>12. CASE SkipOverwritten(r)
  <2>1. /\ rpc'[r] \in {"idle", "loop"} /\ seen'[r] = 0
        /\ UNCHANGED <<item, holeEnd>>
    BY <1>12, <1>0 DEF SkipOverwritten, Advance, ReturnEmpty, ReaderTypes
  <2> QED BY <2>1, <1>a
<1>13. CASE HoleLoadHeader(r)
  <2>1. /\ UNCHANGED <<cursor, seen, item>>
        /\ \/ rpc'[r] = "idle" /\ UNCHANGED holeEnd
           \/ rpc'[r] = "hole_slot" /\ holeEnd'[r] = write_seq /\ ~(write_seq < cursor[r])
    BY <1>13, <1>0 DEF HoleLoadHeader, ReturnEmpty, ReaderTypes
  <2> QED BY <2>1, <1>1, <1>2 DEF ReadInvOf
<1>14. CASE HoleLoadSlot(r)
  <2>1. rpc[r] = "hole_slot" /\ cursor[r] <= holeEnd[r] /\ UNCHANGED <<cursor, seen, item>>
    BY <1>14 DEF HoleLoadSlot, ReadInvOf
  <2> DEFINE o == OldestRetained(holeEnd[r])
             next == Max2(o, cursor[r] + 1)
  <2>2. CASE rpc'[r] = "idle" /\ holeEnd'[r] = 0
    BY <2>1, <2>2, <1>a
  <2>3. CASE /\ rpc'[r] = "scan" /\ holeNext'[r] = next
             /\ UNCHANGED holeEnd /\ slotSeq[Index(cursor[r])] # cursor[r]
    <3>1. /\ o \in Nat \ {0} /\ o <= holeEnd[r] + 1
          /\ \A m \in Nat \ {0} : m < o => m + Capacity <= holeEnd[r]
      BY OldestFacts, <1>1
    <3> HIDE DEF o
    <3>2. /\ next \in Nat /\ next > cursor[r] /\ next <= holeEnd[r] + 1
          /\ \A m \in cursor[r]..(next - 1) : m = cursor[r] \/ m < o
      BY <3>1, <2>1, <1>1 DEF Max2
    <3>3. \A m \in cursor[r]..(next - 1) : m \in Nat \ {0}
      BY <1>1, <3>2
    <3>4. Gone(cursor[r])
      BY <2>3, <1>0, <1>1, NotInSlot
    <3>5. ASSUME NEW m \in Nat \ {0}, m < o
          PROVE  Gone(m)
      <4>1. m + Capacity <= holeEnd[r] /\ holeEnd[r] <= write_seq
        BY <3>5, <3>1 DEF ReadInvOf
      <4> QED BY <4>1, <1>1 DEF Gone
    <3> HIDE DEF next
    <3>6. \A m \in cursor[r]..(next - 1) : Gone(m)
      BY <3>2, <3>3, <3>4, <3>5
    <3> QED BY <2>1, <2>3, <3>2, <3>6, <1>2 DEF ReadInvOf, Gone
  <2> QED BY <1>14, <1>0, <1>1, <2>2, <2>3 DEF HoleLoadSlot, Landed, ReturnEmpty, ReaderTypes
<1>15. CASE HoleScan(r)
  <2>1. rpc[r] = "scan" /\ UNCHANGED <<seen, item>>
    BY <1>15 DEF HoleScan
  <2> DEFINE next == holeNext[r]
  <2>2. CASE rpc'[r] = "loop" /\ holeEnd'[r] = 0
    BY <2>1, <2>2, <1>a
  <2>3. CASE /\ rpc'[r] = "scan" /\ holeNext'[r] = next + 1
             /\ UNCHANGED <<cursor, holeEnd>>
             /\ next <= holeEnd[r] /\ slotSeq[Index(next)] # next
    <3>1. Gone(next)
      BY <2>3, <1>0, <1>1, NotInSlot
    <3>2. \A m \in cursor[r]..(next - 1) : Gone(m)
      BY <2>1 DEF ReadInvOf
    <3>3. \A m \in cursor[r]..next : Gone(m)
      BY <3>1, <3>2, <1>1
    <3> QED BY <2>1, <2>3, <3>3, <1>1, <1>2 DEF ReadInvOf, Gone
  <2> QED BY <1>15, <1>0, <1>1, <2>2, <2>3 DEF HoleScan, Advance, ReaderTypes
<1> QED BY <1>3, <1>4, <1>5, <1>6, <1>7, <1>8, <1>9, <1>10, <1>11, <1>12, <1>13, <1>14,
           <1>15 DEF ReaderAction, ReaderStep

-----------------------------------------------------------------------------
(* The invariants hold *)

(* The invariant holds of a new ring without readers.                      *)
LEMMA InitIInv == Init => IInv
<1> SUFFICES ASSUME Init PROVE IInv
  OBVIOUS
<1> USE SpmcAssumption, CapacityAssumption DEF Init, ProducerInit, ReaderInit
<1>1. TypeOK
  <2>1. NoWords \in Payloads
    BY NoWordsPayload
  <2>2. ProducerTypes
    BY <2>1 DEF ProducerTypes, ProducerPcs
  <2>3. ReaderTypes
    BY <2>1 DEF ReaderTypes, ReaderPcs
  <2> QED BY <2>2, <2>3, TypeSplit
<1>2. RingInv
  <2>1. ProducerInv /\ CopyInInv /\ RetainedReadable
    BY DEF ProducerInv, CopyInInv, RetainedReadable
  <2>2. SlotInv
    BY DEF SlotInv, NoWords
  <2> QED BY <2>1, <2>2 DEF RingInv
<1>3. ReadInv
  <2>1. CopyOutInv /\ SeenInv /\ ScanInv
    BY DEF CopyOutInv, SeenInv, ScanInv
  <2>2. ASSUME NEW r \in Readers, NEW w \in Words
        PROVE  item[r].data[w] = item[r].seq
    <3>1. item[r] = [seq |-> 0, data |-> NoWords] /\ NoWords[w] = 0
      BY DEF NoWords
    <3> QED BY <3>1
  <2> QED BY <2>1, <2>2 DEF ReadInv, NoTornItem
<1>4. LapAccounting
  <2>1. \A r \in Readers : cursor[r] = 1 /\ got[r] = 1 /\ lapped[r] = 0
    OBVIOUS
  <2>2. 1 = 1 + 0
    OBVIOUS
  <2> QED BY <2>1, <2>2 DEF LapAccounting
<1> QED BY <1>1, <1>2, <1>3, <1>4 DEF IInv

(* Every step preserves the invariant.                                     *)
LEMMA NextIInv == IInv /\ [Next]_vars => IInv'
<1> SUFFICES ASSUME IInv, [Next]_vars PROVE IInv'
  OBVIOUS
<1>0. TypeOK /\ RingInv /\ ReadInv /\ LapAccounting /\ ProducerTypes /\ ReaderTypes
  BY TypeSplit DEF IInv
<1>1. CASE ProducerAction
  <2>1. ProducerTypes' /\ RingInv' /\ ReadInv'
    BY <1>0, <1>1, ProducerTypesStep, RingStep, ReadUnderProducer DEF RingInv
  <2>2. UNCHANGED readerVars
    BY <1>1, ProducerFrame
  <2>3. ReaderTypes' /\ LapAccounting'
    BY <1>0, <2>2 DEF readerVars, copyVars, scanVars, historyVars, ReaderTypes,
                      LapAccounting
  <2> QED BY <2>1, <2>3, TypeSplit DEF IInv, TypeOK, ProducerTypes, ReaderTypes
<1>2. ASSUME NEW r \in Readers, ReaderAction(r)
      PROVE  IInv'
  <2>1. UNCHANGED <<slotVars, producerVars>>
    BY <1>2, ReaderFrame
  <2>2. ProducerTypes' /\ RingInv'
    BY <1>0, <2>1, RingFrame DEF slotVars, producerVars, ProducerTypes
  <2>3. ReaderTypes' /\ LapAccounting'
    BY <1>0, <1>2, ReaderTypesStep DEF RingInv, ReadInv
  <2>4. ASSUME NEW q \in Readers
        PROVE  ReadInvOf(q)'
    <3>1. ReadInvOf(q)
      BY <1>0, ReadInvSplit
    <3>2. CASE q = r
      BY <3>1, <3>2, <1>0, <1>2, ReadOwnStep
    <3>3. CASE q # r
      <4>1. LocalFrame(q)
        BY <3>3, <1>0, <1>2, OtherReaders
      <4> QED BY <3>1, <4>1, <2>1 DEF LocalFrame, ReadInvOf, Gone, slotVars,
                 producerVars, Index
    <3> QED BY <3>2, <3>3
  <2>5. ReadInv'
    BY <2>4 DEF ReadInv, ReadInvOf, CopyOutInv, SeenInv, NoTornItem, ScanInv
  <2> QED BY <2>2, <2>3, <2>5 DEF IInv, TypeOK, ProducerTypes, ReaderTypes
<1>3. CASE UNCHANGED vars
  <2>1. UNCHANGED <<slotVars, producerVars>> /\ UNCHANGED readerVars
    BY <1>3 DEF vars
  <2>2. RingInv'
    BY <1>0, <2>1, RingFrame
  <2>3. TypeOK' /\ LapAccounting'
    BY <1>0, <2>1 DEF slotVars, producerVars, readerVars, copyVars, scanVars,
                      historyVars, TypeOK, LapAccounting
  <2>4. ReadInv'
    BY <1>0, <2>1 DEF slotVars, producerVars, readerVars, copyVars, scanVars, historyVars,
       ReadInv, CopyOutInv, SeenInv, NoTornItem, ScanInv, Gone, Index
  <2> QED BY <2>2, <2>3, <2>4 DEF IInv
<1> QED BY <1>1, <1>2, <1>3, NextSplit

(* The inductive invariant holds in every reachable state.                 *)
THEOREM Invariance == Spec => []IInv
BY InitIInv, NextIInv, PTL DEF Spec

(* Every variable of the ring and of its readers keeps its type.           *)
THEOREM TypeCorrect == Spec => []TypeOK
<1>1. IInv => TypeOK
  BY DEF IInv
<1> QED BY <1>1, Invariance, PTL

(* read_slot never returns a torn item, whatever the number of readers,    *)
(* slots and payload words and however often the producer laps the copy.   *)
THEOREM TearFree == Spec => []NoTornItem
<1>1. IInv => NoTornItem
  BY DEF IInv, ReadInv
<1> QED BY <1>1, Invariance, PTL

(* A written message stays readable in its slot until a message a full     *)
(* ring newer is begun.                                                    *)
THEOREM Retention == Spec => []RetainedReadable
<1>1. IInv => RetainedReadable
  BY DEF IInv, RingInv
<1> QED BY <1>1, Invariance, PTL

(* lapped_count() accounts for every message a reader was not given.       *)
THEOREM Accounting == Spec => []LapAccounting
<1>1. IInv => LapAccounting
  BY DEF IInv
<1> QED BY <1>1, Invariance, PTL

-----------------------------------------------------------------------------
(* The ring implements the broadcast promise *)

Outside == {"detached", "idle"}
Busy == [r \in Readers |-> rpc[r] \notin {"detached", "idle"}]

(* A step within a call, or outside, leaves Busy alone.                    *)
LEMMA BusyStays ==
    ASSUME ReaderTypes, NEW r \in Readers, NEW v, rpc' = [rpc EXCEPT ![r] = v],
           (v \in Outside) <=> (rpc[r] \in Outside)
    PROVE  Busy' = Busy
<1>1. \A q \in Readers : (rpc'[q] \notin {"detached", "idle"}) = (rpc[q] \notin {"detached", "idle"})
  BY DEF ReaderTypes, Outside
<1> QED BY <1>1 DEF Busy

(* A call begins.                                                          *)
LEMMA BusySet ==
    ASSUME ReaderTypes, NEW r \in Readers, NEW v, rpc' = [rpc EXCEPT ![r] = v],
           v \notin Outside
    PROVE  Busy' = [Busy EXCEPT ![r] = TRUE]
<1>1. \A q \in Readers : q # r => rpc'[q] = rpc[q]
  BY DEF ReaderTypes
<1>2. rpc'[r] \notin {"detached", "idle"}
  BY DEF ReaderTypes, Outside
<1> QED BY <1>1, <1>2, Zenon DEF Busy

(* A call ends.                                                            *)
LEMMA BusyClear ==
    ASSUME ReaderTypes, NEW r \in Readers, rpc' = [rpc EXCEPT ![r] = "idle"]
    PROVE  Busy' = [Busy EXCEPT ![r] = FALSE]
<1>1. \A q \in Readers : q # r => rpc'[q] = rpc[q]
  BY DEF ReaderTypes
<1>2. ~(rpc'[r] \notin {"detached", "idle"})
  BY DEF ReaderTypes
<1> QED BY <1>1, <1>2, Zenon DEF Busy

(* The reader's part of the promise that a step leaves alone.              *)
Still == UNCHANGED <<log, begun, cursor, lapped, item>>

(* Placing a reader is a Place of the promise.                             *)
LEMMA PlaceRefines ==
    ASSUME ReaderTypes, NEW r \in Readers, rpc[r] \in Outside, Busy' = Busy,
           NEW pos \in 1..(MaxSeq + 1), NEW skips \in Nat, PlaceAt(r, pos, skips),
           UNCHANGED <<log, begun, item>>
    PROVE  Promise!Next
<1>1. /\ cursor' = [cursor EXCEPT ![r] = pos] /\ cursor'[r] = pos
      /\ lapped' = [lapped EXCEPT ![r] = @ + skips]
      /\ lapped'[r] - lapped[r] = skips
  BY DEF PlaceAt, ReaderTypes
<1>2. ~Busy[r]
  BY DEF Busy, Outside
<1>3. Promise!Move(r, lapped'[r] - lapped[r])
  <2>1. pos \in Nat
    BY SpmcAssumption, CapacityAssumption
  <2> DEFINE d == lapped'[r] - lapped[r]
  <2>2. d = skips
    BY <1>1
  <2> HIDE DEF d
  <2>3. lapped' = [lapped EXCEPT ![r] = @ + d] /\ d \in Nat
    BY <1>1, <2>2
  <2>4. cursor'[r] \in Nat /\ cursor' = [cursor EXCEPT ![r] = cursor'[r]]
    BY <1>1, <2>1
  <2> QED BY <2>3, <2>4 DEF Promise!Move, d
<1>4. Promise!Place(r)
  BY <1>2, <1>3 DEF Promise!Place, Busy
<1> QED BY <1>4 DEF Promise!Next

(* Entering, leaving and going on with a receive call.                     *)
LEMMA CallRefines ==
    ASSUME ReaderTypes, NEW r \in Readers, NEW v, rpc' = [rpc EXCEPT ![r] = v],
           v \in {"idle"} \/ v \notin Outside, rpc[r] # "detached", Still
    PROVE  Promise!Next \/ UNCHANGED Promise!vars
<1>1. CASE v \in Outside <=> rpc[r] \in Outside
  <2>1. Busy' = Busy
    BY <1>1, BusyStays
  <2> QED BY <2>1 DEF Still, Promise!vars, Busy
<1>2. CASE v \notin Outside /\ rpc[r] \in Outside
  <2>1. Busy' = [Busy EXCEPT ![r] = TRUE] /\ ~Busy[r]
    BY <1>2, BusySet DEF Busy, Outside
  <2>2. Promise!Call(r)
    BY <2>1 DEF Promise!Call, Still, Busy
  <2> QED BY <2>2 DEF Promise!Next
<1>3. CASE v \in Outside /\ rpc[r] \notin Outside
  <2>1. v = "idle"
    BY <1>3
  <2>2. Busy' = [Busy EXCEPT ![r] = FALSE]
    BY <2>1, BusyClear
  <2>3. Busy[r]
    BY <1>3 DEF Busy, Outside
  <2>4. Promise!GiveUp(r)
    BY <2>2, <2>3 DEF Promise!GiveUp, Still, Busy
  <2> QED BY <2>4 DEF Promise!Next
<1> QED BY <1>1, <1>2, <1>3

(* Skipping is a Pass of the promise when what is skipped is gone.         *)
LEMMA PassRefines ==
    ASSUME ReaderTypes, NEW r \in Readers, rpc[r] \notin Outside,
           NEW next \in Nat, next > cursor[r], Advance(r, next),
           \A m \in cursor[r]..(next - 1) : Gone(m),
           UNCHANGED <<log, begun, item>>
    PROVE  Promise!Next
<1>1. /\ cursor' = [cursor EXCEPT ![r] = next] /\ cursor'[r] = next
      /\ lapped' = [lapped EXCEPT ![r] = @ + (next - cursor[r])]
      /\ next - cursor[r] \in Nat
  BY SpmcAssumption, CapacityAssumption DEF Advance, ReaderTypes
<1>2. Busy' = Busy
  BY BusyStays DEF Advance, Outside
<1>3. Busy[r]
  BY DEF Busy, Outside
<1>4. Promise!Move(r, cursor'[r] - cursor[r])
  BY <1>1 DEF Promise!Move
<1>5. \A m \in cursor[r]..(cursor'[r] - 1) : Promise!Gone(m)
  BY <1>1 DEF Gone, Promise!Gone
<1>6. Promise!Pass(r)
  BY <1>1, <1>2, <1>3, <1>4, <1>5 DEF Promise!Pass, Busy
<1> QED BY <1>6 DEF Promise!Next

(* Every step of the producer writes, or changes nothing the promise sees. *)
LEMMA ProducerRefines ==
    ASSUME TypeOK, RingInv, ProducerAction
    PROVE  Promise!Next \/ UNCHANGED Promise!vars
<1>0. UNCHANGED <<rpc, cursor, lapped, item>>
  BY ProducerFrame DEF readerVars, historyVars
<1>b. Busy' = Busy
  BY <1>0 DEF Busy
<1>1. CASE MarkWriting
  <2>1. begun' = pseq /\ begun < pseq /\ pseq \in Nat /\ log' = log
    BY <1>1 DEF MarkWriting, RingInv, ProducerInv, TypeOK
  <2>2. Promise!BeginWrite
    BY <2>1, <1>0, <1>b DEF Promise!BeginWrite, Busy
  <2> QED BY <2>2 DEF Promise!Next
<1>2. ASSUME NEW w \in Words, CopyWordIn(w)
      PROVE  UNCHANGED Promise!vars
  BY <1>2, <1>0, <1>b DEF CopyWordIn, Promise!vars, Busy
<1>3. CASE PublishSlot
  <2>1. log' = log \cup {begun} /\ begun' = begun
    BY <1>3 DEF PublishSlot, RingInv, ProducerInv
  <2>2. Promise!Write
    BY <2>1, <1>0, <1>b DEF Promise!Write, Busy
  <2> QED BY <2>2 DEF Promise!Next
<1>4. CASE PublishProgress
  BY <1>4, <1>0, <1>b DEF PublishProgress, Promise!vars, Busy
<1>5. ASSUME NEW seq \in Seqs, SkipTo(seq)
      PROVE  UNCHANGED Promise!vars
  BY <1>5, <1>0, <1>b DEF SkipTo, Promise!vars, Busy
<1>6. CASE ProducerDies
  BY <1>6, <1>0, <1>b DEF ProducerDies, Promise!vars, Busy
<1> QED BY <1>1, <1>2, <1>3, <1>4, <1>5, <1>6 DEF ProducerAction, ProducerStep

(* Every step of a reader is a step of the promise or a stutter.           *)
LEMMA ReaderRefines ==
    ASSUME IInv, NEW r \in Readers, ReaderAction(r)
    PROVE  Promise!Next \/ UNCHANGED Promise!vars
<1> USE SpmcAssumption, CapacityAssumption
<1>0. TypeOK /\ ProducerTypes /\ ReaderTypes /\ RingInv /\ ReadInvOf(r)
  BY TypeSplit, ReadInvSplit DEF IInv
<1>1. UNCHANGED <<log, begun>>
  BY ReaderFrame DEF producerVars
<1>2. cursor[r] \in Nat \ {0} /\ write_seq \in Nat /\ begun \in Nat /\ write_seq <= begun
  BY <1>0 DEF ReaderTypes, ProducerTypes, RingInv, ProducerInv
<1> USE DEF copyVars, scanVars, historyVars, Outside
<1>3. CASE Attach(r)
  <2>1. Busy' = Busy
    BY <1>0, <1>3, BusyStays DEF Attach
  <2> QED BY <1>0, <1>1, <1>3, <2>1, AttachForm, PlaceRefines DEF Attach
<1>4. ASSUME NEW seq \in 0..MaxSeq, Seek(r, seq)
      PROVE  Promise!Next
  <2>1. Busy' = Busy
    BY <1>4 DEF Seek, Busy
  <2> QED BY <1>0, <1>1, <1>4, <2>1, PlaceAtSequenceForm, PlaceRefines DEF Seek
<1>5. ASSUME NEW t \in 0..(MaxSeq + 1), JumpTo(r, t)
      PROVE  Promise!Next
  <2>1. Busy' = Busy
    BY <1>5 DEF JumpTo, Busy
  <2> QED BY <1>0, <1>1, <1>5, <2>1, JumpForm, PlaceRefines DEF JumpTo
<1>6. CASE JumpToLatest(r)
  BY <1>6, <1>5, <1>0 DEF JumpToLatest, ProducerTypes
<1>7. CASE JumpToOldest(r)
  <2>1. OldestRetained(write_seq) \in 0..(MaxSeq + 1)
    BY <1>0, OldestInRange DEF ProducerTypes
  <2> QED BY <1>7, <1>5, <2>1 DEF JumpToOldest
<1>8. CASE LoadSeqWanted(r)
  <2>1. rpc' = [rpc EXCEPT ![r] = "copy"] /\ rpc[r] # "detached" /\ Still
    BY <1>8, <1>1 DEF LoadSeqWanted, Polling, Still
  <2> QED BY <1>0, <2>1, CallRefines
<1>9. CASE LoadSeqPending(r)
  <2>1. /\ rpc[r] # "detached" /\ Still
        /\ \/ rpc' = [rpc EXCEPT ![r] = "hole"]
           \/ rpc' = [rpc EXCEPT ![r] = "idle"]
    BY <1>9, <1>1 DEF LoadSeqPending, ReturnEmpty, Polling, Still
  <2> QED BY <1>0, <2>1, CallRefines
<1>10. CASE LoadSeqNewer(r)
  <2>1. rpc' = [rpc EXCEPT ![r] = "overwritten"] /\ rpc[r] # "detached" /\ Still
    BY <1>10, <1>1 DEF LoadSeqNewer, Polling, Still
  <2> QED BY <1>0, <2>1, CallRefines
<1>11. ASSUME NEW w \in Words, CopyWordOut(r, w)
       PROVE  UNCHANGED Promise!vars
  BY <1>11, <1>1 DEF CopyWordOut, Promise!vars
<1>12. CASE RecheckAccept(r)
  <2>1. /\ rpc[r] = "copy" /\ rwords[r] = {} /\ slotSeq[Index(cursor[r])] = cursor[r]
        /\ item' = [item EXCEPT ![r] = [seq |-> cursor[r], data |-> buf[r]]]
        /\ cursor' = [cursor EXCEPT ![r] = @ + 1]
        /\ rpc' = [rpc EXCEPT ![r] = "idle"]
        /\ UNCHANGED lapped
    BY <1>12 DEF RecheckAccept, CopyIntact
  <2>2. cursor[r] # SLOT_WRITING /\ Index(cursor[r]) \in Slots
    BY <1>0, IndexInSlots DEF ReaderTypes
  <2>3. cursor[r] \in log
    BY <2>1, <2>2, <1>0, <1>2 DEF RingInv, SlotInv
  <2>4. buf[r] = [w \in Words |-> cursor[r]]
    <3>1. \A w \in Words : buf[r][w] = cursor[r]
      BY <2>1, <2>2, <1>0, <1>2 DEF ReadInvOf
    <3> QED BY <3>1, <1>0 DEF ReaderTypes, Payloads
  <2>5. Busy' = [Busy EXCEPT ![r] = FALSE] /\ Busy[r]
    <3>1. Busy' = [Busy EXCEPT ![r] = FALSE]
      BY <1>0, <2>1, BusyClear
    <3>2. Busy[r]
      BY <2>1 DEF Busy
    <3> QED BY <3>1, <3>2
  <2>6. Promise!Deliver(r)
    BY <1>1, <2>1, <2>3, <2>4, <2>5 DEF Promise!Deliver, Promise!Intact, Busy
  <2> QED BY <2>6 DEF Promise!Next
<1>13. CASE RecheckReject(r)
  <2>1. rpc' = [rpc EXCEPT ![r] = "overwritten"] /\ rpc[r] # "detached" /\ Still
    BY <1>13, <1>1 DEF RecheckReject, Still
  <2> QED BY <1>0, <2>1, CallRefines
<1>14. CASE SkipOverwritten(r)
  <2> DEFINE w == Max2(write_seq, seen[r])
             o == OldestRetained(w)
  <2>1. w \in Nat /\ w <= begun
    BY <1>0, <1>2 DEF Max2, ReaderTypes, ReadInvOf
  <2>2. o \in Nat \ {0} /\ \A m \in Nat \ {0} : m < o => m + Capacity <= w
    <3> HIDE DEF w
    <3> QED BY <2>1, OldestFacts
  <2>3. rpc[r] = "overwritten" /\ UNCHANGED item
    BY <1>14 DEF SkipOverwritten
  <2>4. CASE o > cursor[r]
    <3>1. Advance(r, o)
      BY <1>14, <2>4 DEF SkipOverwritten
    <3> HIDE DEF o, w
    <3>2. \A m \in cursor[r]..(o - 1) : Gone(m)
      BY <2>1, <2>2, <1>2 DEF Gone
    <3> QED BY <1>0, <1>1, <2>2, <2>3, <2>4, <3>1, <3>2, PassRefines
  <2>5. CASE ~(o > cursor[r])
    <3>1. rpc' = [rpc EXCEPT ![r] = "idle"] /\ Still
      BY <1>14, <1>1, <2>5 DEF SkipOverwritten, ReturnEmpty, Still
    <3> QED BY <1>0, <2>3, <3>1, CallRefines
  <2> QED BY <2>4, <2>5
<1>15. CASE HoleLoadHeader(r)
  <2>1. /\ rpc[r] # "detached" /\ Still
        /\ \/ rpc' = [rpc EXCEPT ![r] = "idle"]
           \/ rpc' = [rpc EXCEPT ![r] = "hole_slot"]
    BY <1>15, <1>1 DEF HoleLoadHeader, ReturnEmpty, Still
  <2> QED BY <1>0, <2>1, CallRefines
<1>16. CASE HoleLoadSlot(r)
  <2>1. /\ rpc[r] # "detached" /\ Still
        /\ \/ rpc' = [rpc EXCEPT ![r] = "idle"]
           \/ rpc' = [rpc EXCEPT ![r] = "scan"]
    BY <1>16, <1>1 DEF HoleLoadSlot, ReturnEmpty, Still
  <2> QED BY <1>0, <2>1, CallRefines
<1>17. CASE HoleScan(r)
  <2>1. rpc[r] = "scan" /\ UNCHANGED item
    BY <1>17 DEF HoleScan
  <2>2. CASE Advance(r, holeNext[r])
    <3>1. /\ holeNext[r] \in Nat /\ holeNext[r] > cursor[r]
          /\ \A m \in cursor[r]..(holeNext[r] - 1) : Gone(m)
      BY <1>0, <2>1 DEF ReadInvOf, ReaderTypes
    <3> QED BY <1>0, <1>1, <2>1, <2>2, <3>1, PassRefines
  <2>3. CASE UNCHANGED <<rpc, cursor, lapped>>
    BY <2>1, <2>3, <1>1 DEF Promise!vars
  <2> QED BY <1>17, <2>2, <2>3 DEF HoleScan
<1> QED BY <1>3, <1>4, <1>6, <1>7, <1>8, <1>9, <1>10, <1>11, <1>12, <1>13, <1>14, <1>15,
           <1>16, <1>17 DEF ReaderAction, ReaderStep

(* The lossy ring keeps the broadcast promise for every capacity, payload  *)
(* size and number of readers: intact items, in order, at most once, and   *)
(* no message is passed over that could still be read.                     *)
THEOREM Refinement == Spec => RefinesBroadcast
<1>1. Init => Promise!Init
  <2> SUFFICES ASSUME Init PROVE Promise!Init
    OBVIOUS
  <2>1. Busy = [r \in Readers |-> FALSE]
    BY DEF Init, ReaderInit, Busy
  <2> QED BY <2>1 DEF Init, ReaderInit, ProducerInit, NoWords, Promise!Init, Busy
<1>2. IInv /\ [Next]_vars => [Promise!Next]_Promise!vars
  <2> SUFFICES ASSUME IInv, [Next]_vars
               PROVE  Promise!Next \/ UNCHANGED Promise!vars
    OBVIOUS
  <2>1. CASE ProducerAction
    BY <2>1, ProducerRefines DEF IInv
  <2>2. ASSUME NEW r \in Readers, ReaderAction(r)
        PROVE  Promise!Next \/ UNCHANGED Promise!vars
    BY <2>2, ReaderRefines
  <2>3. CASE UNCHANGED vars
    BY <2>3 DEF vars, producerVars, readerVars, historyVars, Promise!vars
  <2> QED BY <2>1, <2>2, <2>3, NextSplit
<1> QED BY <1>1, <1>2, Invariance, PTL DEF Spec, RefinesBroadcast, Promise!Spec

=============================================================================
