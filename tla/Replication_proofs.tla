------------------------- MODULE Replication_proofs -------------------------
(***************************************************************************)
(* Proofs about replication, for every capacity, frame size, limit of the  *)
(* NAKs and of the datagrams kept aside, both transports, dense and sparse *)
(* sources, and whatever the network loses, doubles or delays.             *)
(***************************************************************************)
EXTENDS Replication, SequenceTheorems, FiniteSetTheorems, TLAPS

(* The position after a frame.                                             *)
End(f) == f.seq + f.count

(* What raw readers find in the source ring.                               *)
RingInv ==
    /\ write_seq < nseq /\ arenaLapped < nseq
    /\ \A i \in Slots : slotSeq[i] = SLOT_WRITING => Marked /\ i = Index(nseq)
    /\ \A i \in Slots : slotSeq[i] # SLOT_WRITING => slotSeq[i] < nseq

(* What is on its way, or kept aside, has been sent before by udp_loop, and *)
(* only that is announced.                                                 *)
SentInv ==
    /\ \A d \in net : End(d) <= cursor
    /\ beat < cursor
    /\ spc = "range" => sto < cursor
    /\ \A k \in 1..Len(frames) :
          transport = "udp" /\ frames[k].kind = "DATA" => End(frames[k]) <= cursor

(* So the mirror asks for nothing else.                                    *)
AskInv ==
    /\ NaksFollowTheSender
    /\ IsFiniteSet(pending)
    /\ \A p \in pending : End(p) <= cursor

(* Which part of the server and of the mirror is in use.                   *)
SessionInv ==
    /\ ~connected => spc = "off" /\ frames = <<>> /\ naks = <<>> /\ pending = {} /\ nak = NoNak
    /\ spc \in {"naks", "range"} => transport = "udp"
    /\ spc = "stream" => transport = "tcp"
    /\ transport = "tcp" => naks = <<>> /\ pending = {} /\ nak = NoNak
    /\ transport = "tcp" /\ connected => spc = "stream"

(* A GAP tells of records that are gone.                                   *)
GapFrames ==
    \A k \in 1..Len(frames) :
        frames[k].kind = "GAP" => \A n \in 1..(frames[k].seq - 1) : Gone(n)

GapInv == GapMeansGone /\ GapFrames

GoneBetween(a, b) == \A n \in a..(b - 1) : Gone(n)

(* Where the stream goes on after its first k - 1 frames.                  *)
Position(k) == IF k <= Len(frames) THEN frames[k].seq ELSE scursor

(* By TCP every frame continues where the one before ended, or goes past   *)
(* what is gone; the first one continues the mirror's ring.                *)
StreamInv ==
    transport = "tcp" /\ connected =>
        /\ next_seq <= Position(1) /\ GoneBetween(next_seq, Position(1))
        /\ \A k \in 1..Len(frames) :
              End(frames[k]) <= Position(k + 1) /\ GoneBetween(End(frames[k]), Position(k + 1))

(* The inductive invariant of replication.                                 *)
IInv == TypeOK /\ RingInv /\ SentInv /\ AskInv /\ SessionInv /\ GapInv /\ StreamInv

-----------------------------------------------------------------------------
(* Arithmetic *)

(* Sets of naturals have a smallest element, which Min finds.              *)
LEMMA MinFacts ==
    ASSUME NEW S \in SUBSET Nat, S # {}
    PROVE  Min(S) \in S /\ \A y \in S : Min(S) <= y
<1> DEFINE Below(m) == 0..(m - 1)
           T == {Below(m) : m \in S}
           R == StrictSubsetOrdering(Nat)
<1>1. T \subseteq FiniteSubsetsOf(Nat) /\ T # {}
  <2> SUFFICES ASSUME NEW m \in S PROVE Below(m) \in FiniteSubsetsOf(Nat)
    OBVIOUS
  <2>1. IsFiniteSet(Below(m)) /\ Below(m) \subseteq Nat
    BY FS_Interval
  <2> QED BY <2>1 DEF FiniteSubsetsOf
<1>2. \E x \in T : \A y \in T : ~(<<y, x>> \in R)
  <2> HIDE DEF T, R
  <2>1. IsWellFoundedOn(R, FiniteSubsetsOf(Nat))
    BY FS_StrictSubsetOrderingWellFounded DEF R
  <2> QED BY <1>1, <2>1, WFMin
<1>3. PICK x \in S : \A y \in S : ~(<<Below(y), Below(x)>> \in R)
  BY <1>2
<1>4. \A y \in S : x <= y
  <2> SUFFICES ASSUME NEW y \in S, y < x PROVE FALSE
    OBVIOUS
  <2>1. /\ Below(y) \subseteq Below(x) /\ y \in Below(x) /\ y \notin Below(y)
        /\ Below(x) \subseteq Nat
    OBVIOUS
  <2> QED BY <1>3, <2>1 DEF StrictSubsetOrdering
<1> QED BY <1>4 DEF Min

(* The bounds of the model.                                                *)
LEMMA Bounds ==
    /\ Capacity \in Nat \ {0} /\ MaxSeq \in Nat \ {0} /\ Batch \in Nat \ {0}
    /\ NAK_MAX \in Nat \ {0} /\ PENDING_MAX \in Nat \ {0} /\ MaxNaks \in Nat \ {0}
    /\ MaxFrames \in Nat \ {0} /\ MaxLag \in Nat \ {0} /\ MaxConnects \in Nat
    /\ SLOT_WRITING \in Nat /\ SLOT_WRITING > MaxSeq + 1
BY CapacityAssumption, ReplicationAssumption

(* Every sequence addresses a slot.                                        *)
LEMMA IndexInSlots == \A n \in Nat : Index(n) \in Slots
BY CapacityAssumption DEF Index, Slots

(* oldest_retained leaves a ring of messages, or all of them.              *)
LEMMA OldestRetainedBounds ==
    \A w \in Nat : /\ OldestRetained(w) \in Nat /\ OldestRetained(w) >= 1
                   /\ OldestRetained(w) <= w + 1
                   /\ OldestRetained(w) > 1 => OldestRetained(w) + Capacity = w + 1
BY CapacityAssumption DEF OldestRetained

-----------------------------------------------------------------------------
(* Types, by the part of the system *)

SourceTypes ==
    /\ slotSeq \in [Slots -> 0..MaxSeq \cup {SLOT_WRITING}]
    /\ write_seq \in 0..MaxSeq /\ nseq \in 1..(MaxSeq + 1)
    /\ arenaLapped \in 0..MaxSeq

SenderTypes ==
    /\ transport \in Transports
    /\ cursor \in 1..(MaxSeq + 1) /\ net \subseteq DataFrames /\ beat \in 0..MaxSeq

ServerTypes ==
    /\ spc \in {"off", "naks", "range", "stream"}
    /\ scursor \in 1..(MaxSeq + 1) /\ sto \in 0..MaxSeq
    /\ frames \in Seq(Frames) /\ Len(frames) <= MaxFrames

MirrorTypes ==
    /\ next_seq \in 1..(MaxSeq + 1) /\ mirrored \in 0..MaxSeq
    /\ pending \subseteq [seq : Seqs, count : 1..Batch]
    /\ Cardinality(pending) <= PENDING_MAX
    /\ nak \in Naks \cup {NoNak}
    /\ naks \in Seq(Naks)

SessionTypes ==
    /\ connects \in 0..MaxConnects /\ connected \in BOOLEAN /\ resumable \in BOOLEAN
    /\ skipped \subseteq Seqs

(* TypeOK in these parts.                                                  *)
LEMMA TypeSplit ==
    TypeOK <=> SourceTypes /\ SenderTypes /\ ServerTypes /\ MirrorTypes /\ SessionTypes
BY DEF TypeOK, SourceTypes, SenderTypes, ServerTypes, MirrorTypes, SessionTypes

(* The numbers of the source ring.                                         *)
LEMMA SourceFacts ==
    ASSUME SourceTypes
    PROVE  /\ write_seq \in Nat /\ write_seq <= MaxSeq /\ nseq \in Nat /\ nseq >= 1
           /\ nseq <= MaxSeq + 1 /\ arenaLapped \in Nat /\ arenaLapped <= MaxSeq
           /\ MaxSeq \in Nat /\ Capacity \in Nat \ {0} /\ SLOT_WRITING \in Nat
           /\ nseq # SLOT_WRITING
           /\ \A i \in Slots : /\ slotSeq[i] \in Nat
                               /\ slotSeq[i] # SLOT_WRITING => slotSeq[i] <= MaxSeq
BY Bounds DEF SourceTypes

(* The numbers of the sender.                                              *)
LEMMA SenderFacts ==
    ASSUME SenderTypes
    PROVE  /\ cursor \in Nat /\ cursor >= 1 /\ cursor <= MaxSeq + 1
           /\ beat \in Nat /\ beat <= MaxSeq
BY Bounds DEF SenderTypes

(* A frame by its kind.                                                    *)
LEMMA FrameFacts ==
    ASSUME NEW f \in Frames
    PROVE  /\ f.seq \in Nat /\ f.seq >= 1 /\ f.seq <= MaxSeq + 1 /\ f.count \in Nat
           /\ f.kind = "DATA" \/ (f.kind = "GAP" /\ f.count = 0)
           /\ f.kind = "DATA" => f.seq \in Seqs /\ f.count \in 1..Batch
           /\ End(f) \in Nat
<1>1. CASE f \in DataFrames
  <2>1. PICK s \in Seqs, n \in 1..Batch : f = Data(s, n)
    BY <1>1 DEF DataFrames
  <2>2. f.seq = s /\ f.count = n /\ f.kind = "DATA"
    BY <2>1 DEF Data
  <2> QED BY <2>2, Bounds DEF Seqs, End
<1>2. CASE f \in {Gap(n) : n \in 1..(MaxSeq + 1)}
  <2>1. PICK n \in 1..(MaxSeq + 1) : f = Gap(n)
    BY <1>2
  <2>2. f.seq = n /\ f.count = 0 /\ f.kind = "GAP"
    BY <2>1 DEF Gap
  <2> QED BY <2>2, Bounds DEF Seqs, End
<1> QED BY <1>1, <1>2 DEF Frames

(* The frames that the server and the sender make.                         *)
LEMMA DataFacts ==
    ASSUME NEW s \in Seqs, NEW n \in 1..Batch
    PROVE  /\ Data(s, n) \in DataFrames /\ Data(s, n) \in Frames
           /\ Data(s, n).seq = s /\ Data(s, n).count = n /\ Data(s, n).kind = "DATA"
           /\ End(Data(s, n)) = s + n
BY DEF Data, DataFrames, Frames, End

(* The frame that stands for what is gone.                                 *)
LEMMA GapFacts ==
    ASSUME NEW s \in 1..(MaxSeq + 1)
    PROVE  /\ Gap(s) \in Frames
           /\ Gap(s).seq = s /\ Gap(s).count = 0 /\ Gap(s).kind = "GAP"
           /\ End(Gap(s)) = s
BY Bounds DEF Gap, Frames, End

-----------------------------------------------------------------------------
(* The source *)

(* What an oldest_retained computed from published records leaves out is   *)
(* gone.                                                                   *)
LEMMA BelowOldestIsGone ==
    ASSUME SourceTypes, NEW w \in Nat, w < nseq, NEW n \in Nat, n >= 1, n < OldestRetained(w)
    PROVE  Gone(n)
<1>1. OldestRetained(w) > 1 /\ OldestRetained(w) + Capacity = w + 1
  BY OldestRetainedBounds
<1>2. n + Capacity < nseq
  BY <1>1, SourceFacts, OldestRetainedBounds
<1> QED BY <1>2 DEF Gone

(* resync stays within what is published.                                  *)
LEMMA ResyncFacts ==
    ASSUME SourceTypes, RingInv, NEW c \in Nat
    PROVE  /\ Resync(c) \in 1..(MaxSeq + 1)
           /\ \A n \in Nat : n >= 1 /\ n < Resync(c) => Gone(n)
<1> DEFINE s == IF slotSeq[Index(c)] = SLOT_WRITING THEN 0 ELSE slotSeq[Index(c)]
           w == Max2(write_seq, s)
<1>1. Index(c) \in Slots
  BY IndexInSlots
<1>2. s \in Nat /\ s < nseq /\ s <= MaxSeq
  BY <1>1, SourceFacts DEF RingInv
<1> HIDE DEF s
<1>3. w \in Nat /\ w < nseq /\ w <= MaxSeq
  BY <1>2, SourceFacts DEF Max2, RingInv
<1>4. Resync(c) = OldestRetained(w)
  BY DEF Resync, s
<1> HIDE DEF w
<1> QED BY <1>3, <1>4, OldestRetainedBounds, BelowOldestIsGone, SourceFacts

(* collect ends where the ring does.                                       *)
LEMMA CollectedFacts ==
    ASSUME SourceTypes, RingInv, NEW c \in 1..(MaxSeq + 1), NEW n \in 1..Batch, Collected(c, n)
    PROVE  c \in Seqs /\ c + n <= MaxSeq + 1 /\ c + n \in 1..(MaxSeq + 1)
<1>0. c \in Nat /\ c >= 1 /\ c <= MaxSeq + 1 /\ n \in Nat /\ n >= 1 /\ MaxSeq \in Nat
  BY Bounds
<1>1. SUFFICES ASSUME c + n > MaxSeq + 1 PROVE FALSE
  BY <1>0 DEF Seqs
<1> DEFINE j == (MaxSeq + 1) - c
<1>2. j \in 0..(n - 1) /\ c + j = MaxSeq + 1
  BY <1>0, <1>1
<1>3. slotSeq[Index(MaxSeq + 1)] = MaxSeq + 1
  BY <1>2 DEF Collected, ReadItem
<1>4. Index(MaxSeq + 1) \in Slots
  BY <1>0, IndexInSlots
<1> QED BY <1>0, <1>3, <1>4, SourceFacts, Bounds

(* The producer of the source keeps the ring consistent.                   *)
LEMMA SourceKeepsRing ==
    ASSUME SourceTypes, RingInv, SourceStep
    PROVE  SourceTypes' /\ RingInv'
<1>0. /\ write_seq \in Nat /\ write_seq <= MaxSeq /\ nseq \in Nat /\ nseq >= 1
      /\ nseq <= MaxSeq + 1 /\ arenaLapped \in Nat /\ arenaLapped <= MaxSeq
      /\ MaxSeq \in Nat /\ SLOT_WRITING \in Nat /\ nseq # SLOT_WRITING
      /\ write_seq < nseq /\ arenaLapped < nseq /\ Index(nseq) \in Slots
  BY SourceFacts, IndexInSlots DEF RingInv
<1>1. CASE ReserveArena
  <2>1. /\ UNCHANGED <<slotSeq, write_seq, nseq>>
        /\ arenaLapped' \in 0..MaxSeq /\ arenaLapped' < nseq
    BY <1>0, <1>1 DEF ReserveArena
  <2> QED BY <2>1 DEF SourceTypes, RingInv, Marked
<1>2. CASE MarkWriting
  <2>1. /\ ~Marked /\ nseq' \in nseq..MaxSeq /\ UNCHANGED <<write_seq, arenaLapped>>
        /\ slotSeq' = [slotSeq EXCEPT ![Index(nseq')] = SLOT_WRITING]
    BY <1>0, <1>2 DEF MarkWriting, Seqs
  <2>2. /\ nseq' \in Nat /\ nseq <= nseq' /\ nseq' \in Seqs /\ nseq' \in 1..(MaxSeq + 1)
        /\ Index(nseq') \in Slots
    BY <1>0, <2>1, IndexInSlots DEF Seqs
  <2>3. SourceTypes'
    BY <2>1, <2>2 DEF SourceTypes
  <2>4. Marked'
    BY <2>1, <2>2 DEF SourceTypes, Marked, Index
  <2>5. \A i \in Slots : slotSeq'[i] = SLOT_WRITING => i = Index(nseq')
    BY <2>1, <2>2 DEF SourceTypes, RingInv
  <2>6. \A i \in Slots : slotSeq'[i] # SLOT_WRITING => slotSeq'[i] < nseq'
    <3> SUFFICES ASSUME NEW i \in Slots, slotSeq'[i] # SLOT_WRITING PROVE slotSeq'[i] < nseq'
      OBVIOUS
    <3>1. slotSeq'[i] = slotSeq[i] /\ slotSeq[i] < nseq /\ slotSeq[i] \in Nat
      BY <2>1, <2>2, SourceFacts DEF SourceTypes, RingInv
    <3> QED BY <1>0, <2>2, <3>1
  <2>7. write_seq' < nseq' /\ arenaLapped' < nseq'
    BY <1>0, <2>1, <2>2
  <2> QED BY <2>3, <2>4, <2>5, <2>6, <2>7 DEF RingInv, Index
<1>3. CASE PublishSlot
  <2>1. /\ Marked /\ nseq' = nseq + 1 /\ UNCHANGED <<write_seq, arenaLapped>>
        /\ slotSeq' = [slotSeq EXCEPT ![Index(nseq)] = nseq]
    BY <1>3 DEF PublishSlot
  <2>2. nseq \in Seqs /\ nseq \in 0..MaxSeq /\ nseq + 1 \in 1..(MaxSeq + 1)
    BY <1>0, <2>1 DEF Marked, Seqs
  <2>3. SourceTypes'
    BY <2>1, <2>2 DEF SourceTypes
  <2>4. \A i \in Slots : slotSeq'[i] # SLOT_WRITING
    BY <1>0, <2>1 DEF SourceTypes, RingInv
  <2>5. \A i \in Slots : slotSeq'[i] < nseq + 1
    <3> SUFFICES ASSUME NEW i \in Slots PROVE slotSeq'[i] < nseq + 1
      OBVIOUS
    <3>1. CASE i = Index(nseq)
      BY <1>0, <2>1, <3>1 DEF SourceTypes
    <3>2. CASE i # Index(nseq)
      <4>1. slotSeq'[i] = slotSeq[i] /\ slotSeq[i] < nseq /\ slotSeq[i] \in Nat
        BY <2>1, <3>2, SourceFacts DEF SourceTypes, RingInv
      <4> QED BY <1>0, <4>1
    <3> QED BY <3>1, <3>2
  <2>6. write_seq < nseq + 1 /\ arenaLapped < nseq + 1
    BY <1>0
  <2> QED BY <2>1, <2>3, <2>4, <2>5, <2>6 DEF RingInv
<1>4. CASE PublishProgress
  <2>1. /\ write_seq' = nseq - 1 /\ UNCHANGED <<slotSeq, nseq, arenaLapped>>
        /\ nseq - 1 \in 0..MaxSeq /\ nseq - 1 < nseq
    BY <1>0, <1>4 DEF PublishProgress
  <2> QED BY <2>1 DEF SourceTypes, RingInv, Marked
<1> QED BY <1>1, <1>2, <1>3, <1>4 DEF SourceStep

(* A record that is gone stays gone.                                       *)
LEMMA GoneStays ==
    ASSUME SourceTypes, RingInv, SourceStep, NEW n \in Nat, Gone(n)
    PROVE  Gone(n)'
<1>0. /\ nseq \in Nat /\ arenaLapped \in Nat /\ Capacity \in Nat /\ MaxSeq \in Nat
      /\ nseq <= MaxSeq + 1 /\ Index(n) \in Slots
  BY SourceFacts, IndexInSlots
<1>1. /\ nseq' \in Nat /\ nseq <= nseq' /\ arenaLapped' \in Nat /\ arenaLapped <= arenaLapped'
  BY <1>0 DEF SourceStep, ReserveArena, MarkWriting, PublishSlot, PublishProgress, Seqs
<1>2. CASE n + Capacity < nseq
  BY <1>0, <1>1, <1>2 DEF Gone
<1>3. CASE n <= arenaLapped
  BY <1>0, <1>1, <1>3 DEF Gone
<1>4. CASE n + Capacity = nseq /\ slotSeq[Index(n)] = SLOT_WRITING
  <2>1. Marked
    BY <1>0, <1>4 DEF RingInv
  <2>2. CASE PublishSlot
    <3>1. n + Capacity < nseq'
      BY <1>0, <1>4, <2>2 DEF PublishSlot
    <3> QED BY <3>1 DEF Gone
  <2> QED BY <2>1, <2>2 DEF SourceStep, ReserveArena, MarkWriting, PublishProgress
<1> QED BY <1>2, <1>3, <1>4 DEF Gone

(* Steps of the others leave the source alone.                             *)
LEMMA SourceSame ==
    ASSUME SourceTypes, RingInv, UNCHANGED sourceVars
    PROVE  SourceTypes' /\ RingInv' /\ \A n : Gone(n)' <=> Gone(n)
BY DEF sourceVars, SourceTypes, RingInv, Marked, Gone

(* The producer's steps preserve the invariant.                            *)
LEMMA SourceKeepsInv == IInv /\ SourceStep => IInv'
<1> SUFFICES ASSUME IInv, SourceStep PROVE IInv'
  OBVIOUS
<1>0. /\ SourceTypes /\ SenderTypes /\ ServerTypes /\ MirrorTypes /\ SessionTypes
      /\ RingInv /\ SentInv /\ AskInv /\ SessionInv /\ GapInv /\ StreamInv
  BY TypeSplit DEF IInv
<1>1. SourceTypes' /\ RingInv'
  BY <1>0, SourceKeepsRing
<1>2. UNCHANGED <<transport, cursor, net, beat, spc, scursor, sto, naks, frames, next_seq, pending,
                  nak, mirrored, skipped, connects, connected, resumable>>
  BY DEF SourceStep, senderVars, serverVars, mirrorVars, sessionVars
<1>3. SenderTypes' /\ ServerTypes' /\ MirrorTypes' /\ SessionTypes'
  BY <1>0, <1>2 DEF SenderTypes, ServerTypes, MirrorTypes, SessionTypes
<1>4. SentInv' /\ AskInv' /\ SessionInv'
  BY <1>0, <1>2 DEF SentInv, AskInv, SessionInv, NaksFollowTheSender
<1>5. \A n \in Nat : Gone(n) => Gone(n)'
  BY <1>0, GoneStays
<1>6. GapInv'
  <2>1. \A n \in skipped : n \in Nat
    BY <1>0, Bounds DEF SessionTypes, Seqs
  <2>2. \A k \in 1..Len(frames) : \A n \in 1..(frames[k].seq - 1) : n \in Nat
    OBVIOUS
  <2> QED BY <1>0, <1>2, <1>5, <2>1, <2>2 DEF GapInv, GapMeansGone, GapFrames
<1>7. StreamInv'
  <2>1. \A k : Position(k)' = Position(k)
    BY <1>2 DEF Position
  <2>2. ASSUME NEW a \in Nat, NEW b, GoneBetween(a, b) PROVE \A n \in a..(b - 1) : Gone(n)'
    BY <1>5, <2>2 DEF GoneBetween
  <2>3. next_seq \in Nat /\ \A k \in 1..Len(frames) : frames[k] \in Frames /\ End(frames[k]) \in Nat
    BY <1>0, Bounds, FrameFacts, ElementOfSeq DEF MirrorTypes, ServerTypes
  <2> QED BY <1>0, <1>2, <2>1, <2>2, <2>3 DEF StreamInv, GoneBetween
<1>8. TypeOK'
  BY <1>1, <1>3, TypeSplit, PTL
<1> QED BY <1>1, <1>4, <1>6, <1>7, <1>8 DEF IInv

-----------------------------------------------------------------------------
(* udp_loop *)

(* The sender goes forward, and what it sends and announces is behind it.  *)
LEMMA SenderEffect ==
    ASSUME SourceTypes, RingInv, SenderTypes, SentInv, SenderStep
    PROVE  /\ cursor <= cursor' /\ SenderTypes'
           /\ \A d \in net' : End(d) <= cursor'
           /\ beat' < cursor'
<1>0. /\ cursor \in Nat /\ cursor >= 1 /\ cursor <= MaxSeq + 1 /\ MaxSeq \in Nat
      /\ beat \in Nat /\ beat < cursor /\ cursor \in 1..(MaxSeq + 1)
      /\ transport' = transport
  BY SenderFacts, Bounds DEF SentInv, SenderStep, SenderTypes
<1>1. ASSUME cursor' \in 1..(MaxSeq + 1), cursor <= cursor', net' \subseteq DataFrames,
             \A d \in net' : d \in net \/ End(d) <= cursor', UNCHANGED beat
      PROVE  /\ cursor <= cursor' /\ SenderTypes'
             /\ \A d \in net' : End(d) <= cursor'
             /\ beat' < cursor'
  <2>1. SenderTypes'
    BY <1>0, <1>1 DEF SenderTypes
  <2>2. cursor' \in Nat /\ beat' < cursor'
    BY <1>0, <1>1
  <2>3. \A d \in net : End(d) <= cursor'
    <3> SUFFICES ASSUME NEW d \in net PROVE End(d) <= cursor'
      OBVIOUS
    <3>1. d \in Frames /\ End(d) <= cursor
      BY DEF SenderTypes, SentInv, Frames
    <3>2. End(d) \in Nat
      BY <3>1, FrameFacts
    <3> QED BY <1>0, <1>1, <2>2, <3>1, <3>2
  <2> QED BY <1>1, <2>1, <2>2, <2>3
<1>2. ASSUME NEW n \in 1..Batch, Collected(cursor, n), net' \in {net, net \cup {Data(cursor, n)}},
             cursor' = cursor + n, UNCHANGED beat
      PROVE  /\ cursor <= cursor' /\ SenderTypes'
             /\ \A d \in net' : End(d) <= cursor'
             /\ beat' < cursor'
  <2>1. cursor \in Seqs /\ cursor + n \in 1..(MaxSeq + 1) /\ cursor <= cursor + n
    BY <1>0, <1>2, CollectedFacts, Bounds
  <2>2. Data(cursor, n) \in DataFrames /\ End(Data(cursor, n)) = cursor + n
    BY <2>1, DataFacts
  <2>3. cursor + n <= cursor + n
    BY <1>0, Bounds
  <2>4. net' \subseteq DataFrames /\ \A d \in net' : d \in net \/ End(d) <= cursor'
    BY <1>2, <2>2, <2>3 DEF SenderTypes
  <2> QED BY <1>1, <1>2, <2>1, <2>4
<1>3. CASE SenderLapped
  <2>1. Resync(cursor) \in 1..(MaxSeq + 1)
    BY <1>0, ResyncFacts
  <2>2. /\ cursor' = Max2(cursor, Resync(cursor)) /\ UNCHANGED <<net, beat>>
    BY <1>3 DEF SenderLapped
  <2>3. cursor' \in 1..(MaxSeq + 1) /\ cursor <= cursor'
    BY <1>0, <2>1, <2>2 DEF Max2
  <2> QED BY <1>1, <2>2, <2>3 DEF SenderTypes
<1>4. CASE SenderLost
  <2>1. slotSeq[Index(cursor)] = cursor /\ cursor' = cursor + 1 /\ UNCHANGED <<net, beat>>
    BY <1>4 DEF SenderLost, ReadLost
  <2>2. cursor <= MaxSeq
    <3>1. Index(cursor) \in Slots /\ cursor # SLOT_WRITING
      BY <1>0, IndexInSlots, Bounds
    <3> QED BY <2>1, <3>1, SourceFacts
  <2>3. cursor' \in 1..(MaxSeq + 1) /\ cursor <= cursor'
    BY <1>0, <2>1, <2>2
  <2> QED BY <1>1, <2>1, <2>3 DEF SenderTypes
<1>5. CASE SenderBeat
  <2>1. beat' = cursor - 1 /\ UNCHANGED <<cursor, net>> /\ cursor - 1 \in 0..MaxSeq
        /\ cursor - 1 < cursor
    BY <1>0, <1>5 DEF SenderBeat
  <2> QED BY <1>0, <2>1 DEF SenderTypes, SentInv
<1> QED BY <1>2, <1>3, <1>4, <1>5 DEF SenderStep, SenderSend

(* The sender's steps preserve the invariant.                              *)
LEMMA SenderKeepsInv == IInv /\ SenderStep => IInv'
<1> SUFFICES ASSUME IInv, SenderStep PROVE IInv'
  OBVIOUS
<1>0. /\ SourceTypes /\ SenderTypes /\ ServerTypes /\ MirrorTypes /\ SessionTypes
      /\ RingInv /\ SentInv /\ AskInv /\ SessionInv /\ GapInv /\ StreamInv
  BY TypeSplit DEF IInv
<1>1. /\ transport = "udp"
      /\ UNCHANGED <<slotSeq, write_seq, nseq, arenaLapped, transport, spc, scursor, sto, naks,
                     frames, next_seq, pending, nak, mirrored, skipped, connects, connected, resumable>>
  BY DEF SenderStep, sourceVars, serverVars, mirrorVars, sessionVars
<1>2. SourceTypes' /\ RingInv' /\ \A n : Gone(n)' <=> Gone(n)
  BY <1>0, <1>1, SourceSame DEF sourceVars
<1>3. ServerTypes' /\ MirrorTypes' /\ SessionTypes' /\ SessionInv'
  BY <1>0, <1>1 DEF ServerTypes, MirrorTypes, SessionTypes, SessionInv
<1>4. /\ cursor <= cursor' /\ SenderTypes'
      /\ \A d \in net' : End(d) <= cursor'
      /\ beat' < cursor'
  BY <1>0, SenderEffect
<1>5. cursor \in Nat /\ cursor' \in Nat
  BY <1>0, <1>4, Bounds DEF SenderTypes
<1>6. SentInv'
  <2>1. \A k \in 1..Len(frames) : frames[k].kind = "DATA" => End(frames[k]) <= cursor'
    <3> SUFFICES ASSUME NEW k \in 1..Len(frames), frames[k].kind = "DATA"
                 PROVE  End(frames[k]) <= cursor'
      OBVIOUS
    <3>1. frames[k] \in Frames /\ End(frames[k]) <= cursor
      BY <1>0, <1>1, ElementOfSeq DEF ServerTypes, SentInv
    <3>2. End(frames[k]) \in Nat
      BY <3>1, FrameFacts
    <3> QED BY <1>4, <1>5, <3>1, <3>2
  <2>2. sto \in Nat /\ (spc = "range" => sto < cursor')
    BY <1>0, <1>4, <1>5, Bounds DEF ServerTypes, SentInv
  <2> QED BY <1>1, <1>4, <2>1, <2>2 DEF SentInv
<1>7. AskInv'
  <2>1. \A i \in 1..Len(naks) : naks[i].to < cursor'
    <3> SUFFICES ASSUME NEW i \in 1..Len(naks) PROVE naks[i].to < cursor'
      OBVIOUS
    <3>1. naks[i] \in Naks /\ naks[i].to < cursor
      BY <1>0, ElementOfSeq DEF MirrorTypes, AskInv, NaksFollowTheSender
    <3>2. naks[i].to \in Nat
      BY <3>1, Bounds DEF Naks, Seqs
    <3> QED BY <1>4, <1>5, <3>1, <3>2
  <2>2. nak.to < cursor'
    <3>1. nak.to \in Nat
      BY <1>0, Bounds DEF MirrorTypes, Naks, NoNak, Seqs
    <3>2. nak.to < cursor
      BY <1>0 DEF AskInv, NaksFollowTheSender
    <3> QED BY <1>4, <1>5, <3>1, <3>2
  <2>3. \A p \in pending : End(p) <= cursor'
    <3> SUFFICES ASSUME NEW p \in pending PROVE End(p) <= cursor'
      OBVIOUS
    <3>1. p \in [seq : Seqs, count : 1..Batch] /\ End(p) <= cursor
      BY <1>0 DEF MirrorTypes, AskInv
    <3>2. p.seq \in Nat /\ p.count \in Nat
      BY <3>1, Bounds DEF Seqs
    <3>3. End(p) \in Nat
      BY <3>2 DEF End
    <3> QED BY <1>4, <1>5, <3>1, <3>3
  <2> QED BY <1>0, <1>1, <2>1, <2>2, <2>3 DEF AskInv, NaksFollowTheSender
<1>8. GapInv'
  BY <1>0, <1>1, <1>2 DEF GapInv, GapMeansGone, GapFrames
<1>9. StreamInv'
  BY <1>1 DEF StreamInv
<1>10. TypeOK'
  BY <1>2, <1>3, <1>4, TypeSplit, PTL
<1> QED BY <1>2, <1>3, <1>6, <1>7, <1>8, <1>9, <1>10 DEF IInv

-----------------------------------------------------------------------------
(* serve_client *)

(* A frame that the server writes tells the truth, and by TCP it continues *)
(* the stream.                                                             *)
Truthful(f) ==
    /\ f.kind = "GAP" => \A n \in 1..(f.seq - 1) : Gone(n)
    /\ transport = "udp" /\ f.kind = "DATA" => End(f) <= cursor
    /\ transport = "tcp" =>
          scursor <= f.seq /\ GoneBetween(scursor, f.seq) /\ scursor' = End(f)

(* What serve_range and the stream do at a record.                         *)
LEMMA ServingEffect ==
    ASSUME SourceTypes, RingInv, SenderTypes, ServerTypes, SentInv, SessionInv,
           ServerSend \/ ServerLapped \/ ServerLost
    PROVE  /\ Serving /\ UNCHANGED <<spc, sto, naks>> /\ scursor' \in 1..(MaxSeq + 1)
           /\ Len(frames) < MaxFrames
           /\ \E f \in Frames : frames' = Append(frames, f) /\ Truthful(f)
<1>0. /\ scursor \in Nat /\ scursor >= 1 /\ scursor <= MaxSeq + 1 /\ sto \in Nat /\ sto <= MaxSeq
      /\ MaxSeq \in Nat /\ cursor \in Nat /\ scursor \in 1..(MaxSeq + 1)
      /\ Index(scursor) \in Slots /\ scursor # SLOT_WRITING
      /\ Serving /\ (transport = "udp" => sto < cursor)
  <2>1. Serving
    BY DEF ServerSend, ServerLapped, ServerLost
  <2>2. transport = "udp" => sto < cursor
    BY <2>1 DEF Serving, SessionInv, SentInv
  <2>3. scursor \in Nat /\ scursor <= MaxSeq + 1 /\ MaxSeq \in Nat
    BY Bounds DEF ServerTypes
  <2> QED BY <2>1, <2>2, <2>3, Bounds, SenderFacts, IndexInSlots DEF ServerTypes
<1>1. CASE ServerSend
  <2>1. PICK n \in 1..Batch :
           /\ scursor + n - 1 <= sto /\ Len(frames) < MaxFrames /\ Collected(scursor, n)
           /\ frames' = Append(frames, Data(scursor, n)) /\ scursor' = scursor + n
           /\ UNCHANGED <<spc, sto, naks>>
    BY <1>1 DEF ServerSend, CanWrite, Write
  <2>2. scursor \in Seqs /\ scursor + n \in 1..(MaxSeq + 1) /\ n \in Nat
    BY <1>0, <2>1, CollectedFacts, Bounds
  <2>3. /\ Data(scursor, n) \in Frames /\ Data(scursor, n).seq = scursor
        /\ Data(scursor, n).kind = "DATA" /\ End(Data(scursor, n)) = scursor + n
    BY <2>2, DataFacts
  <2>4. Truthful(Data(scursor, n))
    <3>1. transport = "udp" => scursor + n <= cursor
      BY <1>0, <2>1, <2>2
    <3>2. scursor <= scursor /\ GoneBetween(scursor, scursor)
      BY <1>0 DEF GoneBetween
    <3> QED BY <2>1, <2>3, <3>1, <3>2 DEF Truthful
  <2> QED BY <1>0, <2>1, <2>2, <2>3, <2>4
<1>2. ASSUME NEW g \in 1..(MaxSeq + 1), g > scursor, \A n \in Nat : n >= 1 /\ n < g => Gone(n),
             CanWrite, Write(Gap(g)), scursor' = g, UNCHANGED <<spc, sto, naks>>
      PROVE  /\ Serving /\ UNCHANGED <<spc, sto, naks>> /\ scursor' \in 1..(MaxSeq + 1)
             /\ Len(frames) < MaxFrames
             /\ \E f \in Frames : frames' = Append(frames, f) /\ Truthful(f)
  <2>1. /\ Gap(g) \in Frames /\ Gap(g).seq = g /\ Gap(g).kind = "GAP" /\ End(Gap(g)) = g
    BY <1>2, GapFacts
  <2>2. g \in Nat /\ \A n \in 1..(g - 1) : Gone(n)
    BY <1>0, <1>2
  <2>3. scursor <= g /\ GoneBetween(scursor, g)
    BY <1>0, <1>2, <2>2 DEF GoneBetween
  <2>4. Truthful(Gap(g))
    BY <1>2, <2>1, <2>2, <2>3 DEF Truthful
  <2> QED BY <1>0, <1>2, <2>1, <2>4 DEF CanWrite, Write
<1>3. CASE ServerLapped
  <2>1. /\ Resync(scursor) \in 1..(MaxSeq + 1)
        /\ \A n \in Nat : n >= 1 /\ n < Resync(scursor) => Gone(n)
    BY <1>0, ResyncFacts
  <2> QED BY <1>2, <1>3, <2>1 DEF ServerLapped
<1>4. CASE ServerLost
  <2>1. scursor <= sto /\ scursor <= arenaLapped /\ arenaLapped \in Nat
    BY <1>4, SourceFacts DEF ServerLost, ReadLost
  <2>2. scursor + 1 \in 1..(MaxSeq + 1) /\ scursor + 1 > scursor
    BY <1>0, <2>1
  <2>3. \A n \in Nat : n >= 1 /\ n < scursor + 1 => Gone(n)
    BY <1>0, <2>1 DEF Gone
  <2> QED BY <1>2, <1>4, <2>2, <2>3 DEF ServerLost
<1> QED BY <1>1, <1>3, <1>4

(* A NAK is taken up.                                                      *)
LEMMA TakeNakEffect ==
    ASSUME SourceTypes, RingInv, SenderTypes, ServerTypes, MirrorTypes, AskInv, SessionInv, TakeNak
    PROVE  /\ spc' = "range" /\ transport = "udp" /\ scursor' \in 1..(MaxSeq + 1)
           /\ sto' \in 0..MaxSeq /\ sto' < cursor
           /\ naks' \in Seq(Naks) /\ \A i \in 1..Len(naks') : naks'[i].to < cursor
           /\ \/ frames' = frames
              \/ /\ Len(frames) < MaxFrames
                 /\ \E f \in Frames : frames' = Append(frames, f) /\ Truthful(f)
<1>1. /\ spc = "naks" /\ naks # <<>> /\ naks \in Seq(Naks) /\ transport = "udp"
      /\ Len(frames) < MaxFrames /\ spc' = "range"
  BY DEF TakeNak, SessionInv, MirrorTypes, CanWrite
<1>2. /\ Head(naks) \in Naks /\ Tail(naks) \in Seq(Naks) /\ Len(Tail(naks)) = Len(naks) - 1
      /\ \A i \in 1..Len(Tail(naks)) : Tail(naks)[i] = naks[i + 1]
  BY <1>1, HeadTailProperties
<1>3. Len(naks) \in Nat /\ Len(naks) >= 1 /\ Head(naks) = naks[1]
  BY <1>1, LenProperties, EmptySeq
<1>4. naks' = Tail(naks) /\ sto' = Head(naks).to
  BY DEF TakeNak
<1>5. sto' \in 0..MaxSeq /\ sto' < cursor
  <2>1. naks[1].to < cursor
    BY <1>3 DEF AskInv, NaksFollowTheSender
  <2> QED BY <1>2, <1>3, <1>4, <2>1, Bounds DEF Naks, Seqs
<1>6. \A i \in 1..Len(naks') : naks'[i].to < cursor
  <2> SUFFICES ASSUME NEW i \in 1..Len(naks') PROVE naks'[i].to < cursor
    OBVIOUS
  <2>1. i + 1 \in 1..Len(naks) /\ naks'[i] = naks[i + 1]
    BY <1>2, <1>3, <1>4
  <2> QED BY <2>1 DEF AskInv, NaksFollowTheSender
<1> DEFINE from == Max2(Head(naks).from, 1)
           oldest == OldestRetained(write_seq)
<1>7. /\ scursor' = Max2(from, oldest)
      /\ IF from < oldest THEN Write(Gap(oldest)) ELSE UNCHANGED frames
  BY DEF TakeNak
<1>8. Head(naks).from \in 1..MaxSeq
  BY <1>2 DEF Naks, Seqs
<1>9. from \in 1..MaxSeq
  BY <1>8, Bounds DEF Max2
<1>10. oldest \in 1..(MaxSeq + 1)
  BY SourceFacts, OldestRetainedBounds
<1> HIDE DEF from, oldest
<1>11. scursor' \in 1..(MaxSeq + 1)
  BY <1>7, <1>9, <1>10, Bounds DEF Max2
<1>12. CASE from < oldest
  <2>1. Gap(oldest) \in Frames /\ Gap(oldest).kind = "GAP" /\ Gap(oldest).seq = oldest
    BY <1>10, GapFacts
  <2>2. \A n \in 1..(oldest - 1) : Gone(n)
    <3> SUFFICES ASSUME NEW n \in 1..(oldest - 1) PROVE Gone(n)
      OBVIOUS
    <3>1. n \in Nat /\ n >= 1 /\ n < oldest
      BY <1>10
    <3> QED BY <3>1, BelowOldestIsGone, SourceFacts DEF oldest, RingInv
  <2>3. Truthful(Gap(oldest))
    BY <1>1, <2>1, <2>2 DEF Truthful
  <2>4. frames' = Append(frames, Gap(oldest))
    BY <1>7, <1>12 DEF Write
  <2> QED BY <1>1, <1>4, <1>2, <1>5, <1>6, <1>11, <2>1, <2>3, <2>4
<1>13. CASE ~(from < oldest)
  BY <1>1, <1>2, <1>4, <1>5, <1>6, <1>7, <1>11, <1>13
<1> QED BY <1>12, <1>13

(* Ranges of records that are gone join.                                   *)
LEMMA GoneJoins ==
    ASSUME NEW a \in Nat, NEW b \in Nat, NEW c \in Nat, a <= b, b <= c,
           GoneBetween(a, b), GoneBetween(b, c)
    PROVE  a <= c /\ GoneBetween(a, c)
<1>1. \A n \in a..(c - 1) : n \in a..(b - 1) \/ n \in b..(c - 1)
  OBVIOUS
<1> QED BY <1>1 DEF GoneBetween

(* A frame at the end of the stream.                                       *)
LEMMA AppendKeepsStream ==
    ASSUME ServerTypes, MirrorTypes, StreamInv, transport = "tcp", connected,
           NEW f \in Frames, frames' = Append(frames, f), Truthful(f),
           UNCHANGED <<slotSeq, nseq, arenaLapped, transport, connected, next_seq>>
    PROVE  StreamInv'
<1> DEFINE L == Len(frames)
<1>1. /\ frames \in Seq(Frames) /\ L \in Nat /\ Len(frames') = L + 1
      /\ \A k \in 1..L : frames'[k] = frames[k]
      /\ frames'[L + 1] = f
  BY AppendProperties, LenProperties DEF ServerTypes
<1>2. /\ scursor <= f.seq /\ GoneBetween(scursor, f.seq) /\ scursor' = End(f)
      /\ f.seq \in Nat /\ End(f) \in Nat /\ scursor \in Nat /\ next_seq \in Nat
  BY FrameFacts, Bounds DEF Truthful, ServerTypes, MirrorTypes
<1>3. \A k \in 1..L : /\ frames[k] \in Frames /\ frames[k].seq \in Nat /\ End(frames[k]) \in Nat
  BY <1>1, FrameFacts, ElementOfSeq
<1>4. \A n : Gone(n)' <=> Gone(n)
  BY DEF Gone
<1>5. \A a, b : GoneBetween(a, b)' <=> GoneBetween(a, b)
  BY <1>4 DEF GoneBetween
<1>6. ASSUME NEW a \in Nat, NEW k \in 1..(L + 1), a <= Position(k), GoneBetween(a, Position(k))
      PROVE  a <= Position(k)' /\ GoneBetween(a, Position(k)')
  <2>1. CASE k \in 1..L
    <3>1. Position(k)' = Position(k)
      BY <1>1, <2>1 DEF Position
    <3> QED BY <1>6, <3>1
  <2>2. CASE k = L + 1
    <3>1. Position(k) = scursor /\ Position(k)' = f.seq
      BY <1>1, <2>2 DEF Position
    <3> QED BY <1>2, <1>6, <3>1, GoneJoins
  <2> QED BY <1>1, <2>1, <2>2
<1>7. next_seq <= Position(1)' /\ GoneBetween(next_seq, Position(1)')
  BY <1>1, <1>2, <1>6 DEF StreamInv
<1>8. ASSUME NEW k \in 1..(L + 1)
      PROVE  End(frames'[k]) <= Position(k + 1)' /\ GoneBetween(End(frames'[k]), Position(k + 1)')
  <2>1. CASE k \in 1..L
    <3>1. k + 1 \in 1..(L + 1) /\ frames'[k] = frames[k] /\ End(frames[k]) \in Nat
      BY <1>1, <1>3, <2>1
    <3>2. End(frames[k]) <= Position(k + 1) /\ GoneBetween(End(frames[k]), Position(k + 1))
      BY <2>1 DEF StreamInv
    <3> QED BY <1>6, <3>1, <3>2
  <2>2. CASE k = L + 1
    <3>1. frames'[k] = f /\ Position(k + 1)' = End(f)
      BY <1>1, <1>2, <2>2 DEF Position
    <3>2. End(f) <= End(f) /\ GoneBetween(End(f), End(f))
      BY <1>2 DEF GoneBetween
    <3> QED BY <3>1, <3>2
  <2> QED BY <1>1, <2>1, <2>2
<1> QED BY <1>1, <1>4, <1>7, <1>8 DEF StreamInv, GoneBetween, End

(* The server's steps preserve the invariant.                              *)
LEMMA ServerKeepsInv == IInv /\ ServerStep => IInv'
<1> SUFFICES ASSUME IInv, ServerStep PROVE IInv'
  OBVIOUS
<1>0. /\ SourceTypes /\ SenderTypes /\ ServerTypes /\ MirrorTypes /\ SessionTypes
      /\ RingInv /\ SentInv /\ AskInv /\ SessionInv /\ GapInv /\ StreamInv
  BY TypeSplit DEF IInv
<1>1. UNCHANGED <<slotSeq, write_seq, nseq, arenaLapped, transport, cursor, net, beat,
                  next_seq, pending, nak, mirrored, skipped, connects, connected, resumable>>
  BY DEF ServerStep, sourceVars, senderVars, mirrorVars, sessionVars
<1>2. SourceTypes' /\ RingInv' /\ \A n : Gone(n)' <=> Gone(n)
  BY <1>0, <1>1, SourceSame DEF sourceVars
<1>3. SenderTypes' /\ SessionTypes'
  BY <1>0, <1>1 DEF SenderTypes, SessionTypes
<1>4. /\ spc # "off" /\ connected
      /\ spc' \in {"naks", "range", "stream"} /\ scursor' \in 1..(MaxSeq + 1) /\ sto' \in 0..MaxSeq
      /\ transport = "udp" => spc' \in {"naks", "range"}
      /\ transport = "tcp" => spc' = "stream" /\ naks' = naks
      /\ spc' \in {"naks", "range"} => transport = "udp"
      /\ spc' = "stream" => transport = "tcp"
      /\ spc' = "range" => sto' < cursor
      /\ naks' \in Seq(Naks) /\ \A i \in 1..Len(naks') : naks'[i].to < cursor
      /\ \/ frames' = frames /\ transport = "udp"
         \/ /\ Len(frames) < MaxFrames
            /\ \E f \in Frames : frames' = Append(frames, f) /\ Truthful(f)
  <2>0. naks \in Seq(Naks) /\ \A i \in 1..Len(naks) : naks[i].to < cursor
    BY <1>0 DEF MirrorTypes, AskInv, NaksFollowTheSender
  <2>1. CASE TakeNak
    <3>1. spc = "naks"
      BY <2>1 DEF TakeNak
    <3>2. /\ spc' = "range" /\ transport = "udp" /\ scursor' \in 1..(MaxSeq + 1)
          /\ sto' \in 0..MaxSeq /\ sto' < cursor
          /\ naks' \in Seq(Naks) /\ \A i \in 1..Len(naks') : naks'[i].to < cursor
          /\ \/ frames' = frames
             \/ /\ Len(frames) < MaxFrames
                /\ \E f \in Frames : frames' = Append(frames, f) /\ Truthful(f)
      BY <1>0, <2>1, TakeNakEffect
    <3> QED BY <1>0, <3>1, <3>2 DEF SessionInv
  <2>2. CASE ServerSend \/ ServerLapped \/ ServerLost
    <3>1. /\ Serving /\ UNCHANGED <<spc, sto, naks>> /\ scursor' \in 1..(MaxSeq + 1)
          /\ Len(frames) < MaxFrames
          /\ \E f \in Frames : frames' = Append(frames, f) /\ Truthful(f)
      BY <1>0, <2>2, ServingEffect
    <3>2. spc \in {"range", "stream"} /\ connected
      BY <1>0, <3>1 DEF Serving, SessionInv
    <3>3. /\ transport = "udp" => spc = "range"
          /\ transport = "tcp" => spc = "stream"
          /\ spc = "range" => transport = "udp" /\ sto < cursor
          /\ spc = "stream" => transport = "tcp"
      BY <1>0, <3>2 DEF SessionInv, SentInv
    <3> QED BY <1>0, <2>0, <3>1, <3>2, <3>3 DEF ServerTypes
  <2>3. CASE RangeEnds
    <3>1. /\ spc = "range" /\ spc' = "naks" /\ scursor' = 1 /\ sto' = 0
          /\ UNCHANGED <<naks, frames>>
      BY <2>3 DEF RangeEnds
    <3>2. 1 \in 1..(MaxSeq + 1) /\ 0 \in 0..MaxSeq
      BY Bounds
    <3> QED BY <1>0, <2>0, <3>1, <3>2 DEF SessionInv
  <2> QED BY <2>1, <2>2, <2>3 DEF ServerStep
<1>5. MirrorTypes' /\ AskInv'
  BY <1>0, <1>1, <1>4 DEF MirrorTypes, AskInv, NaksFollowTheSender
<1>6. SessionInv'
  BY <1>0, <1>1, <1>4 DEF SessionInv
<1>7. CASE frames' = frames /\ transport = "udp"
  <2>1. ServerTypes'
    BY <1>0, <1>4, <1>7 DEF ServerTypes
  <2>2. SentInv'
    BY <1>0, <1>1, <1>4, <1>7 DEF SentInv
  <2>3. GapInv'
    BY <1>0, <1>1, <1>2, <1>7 DEF GapInv, GapMeansGone, GapFrames
  <2>4. StreamInv'
    BY <1>1, <1>7 DEF StreamInv
  <2>5. TypeOK'
    BY <1>2, <1>3, <1>5, <2>1, TypeSplit, PTL
  <2> QED BY <1>2, <1>5, <1>6, <2>2, <2>3, <2>4, <2>5 DEF IInv
<1>8. ASSUME Len(frames) < MaxFrames, NEW f \in Frames, frames' = Append(frames, f), Truthful(f)
      PROVE  IInv'
  <2>1. /\ frames' \in Seq(Frames) /\ Len(frames) \in Nat /\ Len(frames') = Len(frames) + 1
        /\ \A k \in 1..Len(frames) : frames'[k] = frames[k]
        /\ frames'[Len(frames) + 1] = f
    BY <1>0, <1>8, AppendProperties, LenProperties DEF ServerTypes
  <2>2. ServerTypes'
    <3>1. Len(frames') <= MaxFrames
      BY <1>8, <2>1, Bounds
    <3> QED BY <1>4, <2>1, <3>1 DEF ServerTypes
  <2>3. \A k \in 1..Len(frames') : k \in 1..Len(frames) \/ k = Len(frames) + 1
    BY <2>1
  <2>4. SentInv'
    <3>1. \A k \in 1..Len(frames') :
             transport = "udp" /\ frames'[k].kind = "DATA" => End(frames'[k]) <= cursor
      BY <1>0, <1>8, <2>1, <2>3 DEF SentInv, Truthful
    <3> QED BY <1>0, <1>1, <1>4, <3>1 DEF SentInv, End
  <2>5. GapInv'
    <3>1. \A k \in 1..Len(frames') :
             frames'[k].kind = "GAP" => \A n \in 1..(frames'[k].seq - 1) : Gone(n)
      BY <1>0, <1>8, <2>1, <2>3 DEF GapInv, GapFrames, Truthful
    <3>2. GapFrames'
      BY <1>2, <3>1 DEF GapFrames
    <3>3. GapMeansGone'
      BY <1>0, <1>1, <1>2 DEF GapInv, GapMeansGone
    <3> QED BY <3>2, <3>3 DEF GapInv
  <2>6. StreamInv'
    <3>1. CASE transport # "tcp"
      BY <1>1, <3>1 DEF StreamInv
    <3>2. CASE transport = "tcp"
      BY <1>0, <1>1, <1>4, <1>8, <3>2, AppendKeepsStream
    <3> QED BY <3>1, <3>2
  <2>7. TypeOK'
    BY <1>2, <1>3, <1>5, <2>2, TypeSplit, PTL
  <2> QED BY <1>2, <1>5, <1>6, <2>4, <2>5, <2>6, <2>7 DEF IInv
<1> QED BY <1>4, <1>7, <1>8

-----------------------------------------------------------------------------
(* The mirror *)

(* The NAKs queued, and the one outstanding.                               *)
NakInv ==
    /\ nak \in Naks \cup {NoNak} /\ nak.to < cursor
    /\ naks \in Seq(Naks) /\ \A i \in 1..Len(naks) : naks[i].to < cursor

(* The datagrams kept aside.                                               *)
PendingInv ==
    /\ pending \subseteq [seq : Seqs, count : 1..Batch] /\ IsFiniteSet(pending)
    /\ Cardinality(pending) <= PENDING_MAX
    /\ \A p \in pending : End(p) <= cursor

PositionTypes == next_seq \in 1..(MaxSeq + 1) /\ mirrored \in 0..MaxSeq

(* The mirror's state in these parts.                                      *)
LEMMA MirrorSplit == MirrorTypes /\ AskInv <=> NakInv /\ PendingInv /\ PositionTypes
BY DEF MirrorTypes, AskInv, NaksFollowTheSender, NakInv, PendingInv, PositionTypes

(* A NAK that goes out asks for what has been sent.                        *)
LEMMA SendNakFacts ==
    ASSUME NakInv, cursor' = cursor, NEW from \in Seqs, NEW to \in Seqs, to < cursor,
           SendNak(from, to)
    PROVE  NakInv'
<1> DEFINE new == [from |-> from, to |-> to]
<1>1. new \in Naks /\ new.to = to
  BY DEF Naks
<1>2. naks' = Append(naks, new) /\ nak' = new
  BY DEF SendNak
<1> HIDE DEF new
<1>3. /\ naks' \in Seq(Naks) /\ Len(naks) \in Nat /\ Len(naks') = Len(naks) + 1
      /\ \A i \in 1..Len(naks) : naks'[i] = naks[i]
      /\ naks'[Len(naks) + 1] = new
  BY <1>1, <1>2, AppendProperties, LenProperties DEF NakInv
<1>4. \A i \in 1..Len(naks') : i \in 1..Len(naks) \/ i = Len(naks) + 1
  BY <1>3
<1>5. \A i \in 1..Len(naks') : naks'[i].to < cursor
  BY <1>1, <1>3, <1>4 DEF NakInv
<1> QED BY <1>1, <1>2, <1>3, <1>5 DEF NakInv

(* request: whatever it decides, the NAKs follow the sender.               *)
LEMMA RequestFacts ==
    ASSUME NakInv, cursor' = cursor, NEW o \in Naks \cup {NoNak}, o.to < cursor,
           NEW from \in Seqs, NEW to \in Seqs, from <= to, to < cursor, cursor \in Nat,
           Request(o, from, to)
    PROVE  NakInv'
<1> DEFINE last == Min({to, from + NAK_MAX - 1})
<1>0. from \in Nat /\ to \in Nat /\ from >= 1 /\ to <= MaxSeq /\ MaxSeq \in Nat /\ NAK_MAX \in Nat \ {0}
  BY Bounds DEF Seqs
<1>1. last \in {to, from + NAK_MAX - 1} /\ last <= to
  <2>1. {to, from + NAK_MAX - 1} \in SUBSET Nat /\ {to, from + NAK_MAX - 1} # {}
    BY <1>0
  <2> QED BY <2>1, MinFacts
<1>2. \/ nak' = o /\ naks' = naks
      \/ SendNak(from, last)
  BY DEF Request
<1> HIDE DEF last
<1>3. last \in Seqs /\ last < cursor
  BY <1>0, <1>1 DEF Seqs
<1>4. CASE nak' = o /\ naks' = naks
  BY <1>4 DEF NakInv
<1> QED BY <1>2, <1>3, <1>4, SendNakFacts

(* The datagrams kept aside are finitely many frames.                      *)
LEMMA PendingFacts ==
    ASSUME PendingInv, NEW p \in pending, cursor \in 1..(MaxSeq + 1)
    PROVE  /\ p.seq \in Nat /\ p.seq >= 1 /\ p.seq <= MaxSeq /\ p.count \in Nat /\ p.count >= 1
           /\ p.seq + p.count <= MaxSeq + 1 /\ p.seq < cursor /\ p.seq \in Seqs
<1>1. p \in [seq : Seqs, count : 1..Batch] /\ End(p) <= cursor
  BY DEF PendingInv
<1>2. p.seq \in Seqs /\ p.count \in 1..Batch
  BY <1>1
<1> QED BY <1>1, <1>2, Bounds DEF Seqs, End

(* Draining goes forward, and no further than the source.                  *)
LEMMA DrainedFacts ==
    ASSUME PendingInv, cursor \in 1..(MaxSeq + 1), NEW n \in 1..(MaxSeq + 1)
    PROVE  Drained(n) \in n..(MaxSeq + 1) /\ Drained(n) \in 1..(MaxSeq + 1)
<1> DEFINE S == {m \in n..(MaxSeq + 1) : \A p \in pending : ~Covers(p, m)}
<1>0. MaxSeq \in Nat /\ n \in Nat /\ n >= 1
  BY Bounds
<1>1. \A p \in pending : ~Covers(p, MaxSeq + 1)
  BY <1>0, PendingFacts DEF Covers
<1>2. MaxSeq + 1 \in S /\ S \subseteq Nat /\ S \subseteq n..(MaxSeq + 1)
  BY <1>0, <1>1
<1>3. Drained(n) = Min(S)
  BY DEF Drained
<1> HIDE DEF S
<1>4. Min(S) \in S
  BY <1>2, MinFacts
<1>5. Drained(n) \in n..(MaxSeq + 1)
  BY <1>2, <1>3, <1>4
<1> QED BY <1>0, <1>5

(* A part of what was kept aside.                                          *)
LEMMA FewerPending ==
    ASSUME PendingInv, cursor' = cursor, pending' \subseteq pending
    PROVE  PendingInv'
<1>1. IsFiniteSet(pending) /\ pending' \in SUBSET pending
  BY DEF PendingInv
<1>2. IsFiniteSet(pending') /\ Cardinality(pending') <= Cardinality(pending)
  BY <1>1, FS_Subset
<1>3. Cardinality(pending) \in Nat /\ Cardinality(pending') \in Nat /\ PENDING_MAX \in Nat
  BY <1>1, <1>2, FS_CardinalityType, Bounds
<1>4. Cardinality(pending') <= PENDING_MAX
  BY <1>2, <1>3 DEF PendingInv
<1> QED BY <1>2, <1>4 DEF PendingInv, End

(* after_advance.                                                          *)
LEMMA AfterAdvanceFacts ==
    ASSUME NakInv, PendingInv, cursor \in 1..(MaxSeq + 1), cursor' = cursor,
           NEW n \in 1..(MaxSeq + 1), NEW published \in 0..MaxSeq, AfterAdvance(n, published)
    PROVE  NakInv' /\ PendingInv' /\ PositionTypes'
<1> DEFINE m == Drained(n)
           rest == {p \in pending : p.seq > m}
           outstanding == IF m > nak.to THEN NoNak ELSE nak
<1>1. /\ next_seq' = m
      /\ mirrored' = IF m > n THEN m - 1 ELSE published
      /\ pending' = rest
      /\ IF rest = {}
         THEN nak' = outstanding /\ UNCHANGED naks
         ELSE Request(outstanding, m, Min({p.seq : p \in rest}) - 1)
  BY DEF AfterAdvance
<1>2. m \in n..(MaxSeq + 1) /\ m \in 1..(MaxSeq + 1)
  BY DrainedFacts
<1>3. \E x \in Naks \cup {NoNak} : x = outstanding /\ x.to < cursor
  <2>1. 0 < cursor /\ NoNak.to = 0
    BY Bounds DEF NoNak
  <2> QED BY <2>1 DEF NakInv
<1>o. PICK o \in Naks \cup {NoNak} : o = outstanding /\ o.to < cursor
  BY <1>3
<1> HIDE DEF m, outstanding
<1>4. PositionTypes'
  <2>1. mirrored' \in 0..MaxSeq
    BY <1>1, <1>2, Bounds
  <2> QED BY <1>1, <1>2, <2>1 DEF PositionTypes
<1>5. PendingInv'
  BY <1>1, FewerPending
<1>6. CASE rest = {}
  <2>1. nak' = o /\ naks' = naks
    BY <1>1, <1>o, <1>6
  <2> QED BY <1>4, <1>5, <1>o, <2>1 DEF NakInv
<1>7. CASE rest # {}
  <2> DEFINE S == {p.seq : p \in rest}
  <2>1. \A p \in rest : /\ p.seq \in Nat /\ p.seq > m /\ p.seq \in Seqs /\ p.seq < cursor
    BY PendingFacts
  <2>2. S # {} /\ S \subseteq Nat
    BY <1>7, <2>1
  <2>3. Request(outstanding, m, Min(S) - 1)
    BY <1>1, <1>7
  <2>4. \A s \in S : s \in Seqs /\ s > m /\ s < cursor
    BY <2>1
  <2> HIDE DEF S
  <2>5. Min(S) \in S
    BY <2>2, MinFacts
  <2> DEFINE q == Min(S)
  <2>6. q \in Seqs /\ q > m /\ q < cursor
    BY <2>4, <2>5
  <2> HIDE DEF q
  <2>7. /\ m \in Seqs /\ q - 1 \in Seqs /\ m <= q - 1 /\ q - 1 < cursor /\ cursor \in Nat
    BY <1>2, <2>6, Bounds DEF Seqs
  <2>8. Request(o, m, q - 1)
    BY <1>o, <2>3 DEF q
  <2> QED BY <1>4, <1>5, <1>o, <2>7, <2>8, RequestFacts
<1> QED BY <1>4, <1>5, <1>6, <1>7

(* apply: a frame that the sender has passed.                              *)
LEMMA ApplyFacts ==
    ASSUME NakInv, PendingInv, PositionTypes, cursor \in 1..(MaxSeq + 1), cursor' = cursor,
           NEW seq \in Seqs, NEW n \in 1..Batch, seq + n <= cursor, Apply(seq, n)
    PROVE  NakInv' /\ PendingInv' /\ PositionTypes' /\ skipped' = skipped
<1>0. /\ seq \in Nat /\ n \in Nat /\ seq >= 1 /\ n >= 1 /\ cursor \in Nat /\ cursor <= MaxSeq + 1
      /\ MaxSeq \in Nat /\ next_seq \in Nat /\ next_seq >= 1 /\ seq <= MaxSeq
  BY Bounds DEF Seqs, PositionTypes
<1>1. skipped' = skipped
  BY DEF Apply
<1>2. CASE UNCHANGED <<next_seq, mirrored, pending, nak, naks>>
  BY <1>1, <1>2 DEF NakInv, PendingInv, PositionTypes, End
<1>3. CASE /\ seq > next_seq
           /\ pending' = IF \/ Cardinality(pending) >= PENDING_MAX
                            \/ \E p \in pending : p.seq = seq
                         THEN pending
                         ELSE pending \cup {[seq |-> seq, count |-> n]}
           /\ Request(nak, next_seq, seq - 1)
           /\ UNCHANGED <<next_seq, mirrored>>
  <2>1. PositionTypes'
    BY <1>3 DEF PositionTypes
  <2>2. NakInv'
    <3>1. next_seq \in Seqs /\ seq - 1 \in Seqs /\ next_seq <= seq - 1 /\ seq - 1 < cursor
      BY <1>0, <1>3 DEF Seqs
    <3>2. nak \in Naks \cup {NoNak} /\ nak.to < cursor
      BY DEF NakInv
    <3> QED BY <1>0, <1>3, <3>1, <3>2, RequestFacts
  <2>3. PendingInv'
    <3>1. CASE pending' = pending
      BY <3>1, FewerPending
    <3>2. CASE /\ pending' = pending \cup {[seq |-> seq, count |-> n]}
               /\ ~(Cardinality(pending) >= PENDING_MAX)
      <4> DEFINE x == [seq |-> seq, count |-> n]
      <4>1. IsFiniteSet(pending) /\ Cardinality(pending) \in Nat
        BY FS_CardinalityType DEF PendingInv
      <4>2. x \in [seq : Seqs, count : 1..Batch] /\ End(x) <= cursor
        BY DEF End
      <4>3. pending' = pending \cup {x}
        BY <3>2
      <4> HIDE DEF x
      <4>4. /\ IsFiniteSet(pending')
            /\ Cardinality(pending') = IF x \in pending THEN Cardinality(pending)
                                       ELSE Cardinality(pending) + 1
        BY <4>1, <4>3, FS_AddElement
      <4>5. Cardinality(pending') <= PENDING_MAX
        BY <3>2, <4>1, <4>4, Bounds
      <4>6. \A p \in pending' : End(p) <= cursor
        BY <4>2, <4>3 DEF PendingInv
      <4>7. pending' \subseteq [seq : Seqs, count : 1..Batch]
        BY <4>2, <4>3 DEF PendingInv
      <4> QED BY <4>4, <4>5, <4>6, <4>7 DEF PendingInv, End
    <3> QED BY <1>3, <3>1, <3>2
  <2> QED BY <1>1, <2>1, <2>2, <2>3
<1>4. CASE AfterAdvance(seq + n, seq + n - 1)
  <2>1. seq + n \in 1..(MaxSeq + 1) /\ seq + n - 1 \in 0..MaxSeq
    BY <1>0
  <2> QED BY <1>1, <1>4, <2>1, AfterAdvanceFacts
<1> QED BY <1>2, <1>3, <1>4 DEF Apply

(* A frame is taken from the connection.                                   *)
LEMMA TailFacts ==
    ASSUME ServerTypes, frames # <<>>, frames' = Tail(frames)
    PROVE  /\ Len(frames) \in Nat /\ Len(frames) >= 1 /\ Len(frames') = Len(frames) - 1
           /\ frames' \in Seq(Frames) /\ Len(frames') <= MaxFrames
           /\ \A k \in 1..Len(frames) : frames[k] \in Frames
           /\ \A k \in 1..Len(frames') : k + 1 \in 1..Len(frames) /\ frames'[k] = frames[k + 1]
           /\ Head(frames) = frames[1] /\ frames[1] \in Frames
<1>1. frames \in Seq(Frames) /\ Len(frames) <= MaxFrames
  BY DEF ServerTypes
<1>2. Len(frames) \in Nat /\ Len(frames) >= 1 /\ Head(frames) = frames[1]
  BY <1>1, LenProperties, EmptySeq
<1>3. /\ frames' \in Seq(Frames) /\ Len(frames') = Len(frames) - 1
      /\ \A k \in 1..Len(frames') : frames'[k] = frames[k + 1]
  BY <1>1, HeadTailProperties
<1>4. \A k \in 1..Len(frames) : frames[k] \in Frames
  BY <1>1, ElementOfSeq
<1>5. Len(frames') <= MaxFrames
  BY <1>1, <1>2, <1>3, Bounds
<1>6. \A k \in 1..Len(frames') : k + 1 \in 1..Len(frames)
  BY <1>2, <1>3
<1>7. 1 \in 1..Len(frames)
  BY <1>2
<1> QED BY <1>2, <1>3, <1>4, <1>5, <1>6, <1>7

(* What is left in the connection is as truthful as before.                *)
LEMMA TailKeepsFrames ==
    ASSUME SourceTypes, RingInv, ServerTypes, SentInv, GapFrames, frames # <<>>,
           frames' = Tail(frames),
           UNCHANGED <<slotSeq, write_seq, nseq, arenaLapped, transport, cursor, net, beat,
                       spc, scursor, sto>>
    PROVE  ServerTypes' /\ SentInv' /\ GapFrames'
<1>1. /\ frames' \in Seq(Frames) /\ Len(frames') <= MaxFrames
      /\ \A k \in 1..Len(frames') : k + 1 \in 1..Len(frames) /\ frames'[k] = frames[k + 1]
  BY TailFacts
<1>2. ServerTypes'
  BY <1>1 DEF ServerTypes
<1>3. \A n : Gone(n)' <=> Gone(n)
  BY SourceSame DEF sourceVars
<1>4. \A k \in 1..Len(frames') :
         transport = "udp" /\ frames'[k].kind = "DATA" => End(frames'[k]) <= cursor
  BY <1>1 DEF SentInv
<1>5. SentInv'
  BY <1>4 DEF SentInv, End
<1>6. \A k \in 1..Len(frames') :
         frames'[k].kind = "GAP" => \A n \in 1..(frames'[k].seq - 1) : Gone(n)
  BY <1>1 DEF GapFrames
<1>7. GapFrames'
  BY <1>3, <1>6 DEF GapFrames
<1> QED BY <1>2, <1>5, <1>7

(* What a mirror does by UDP.                                              *)
LEMMA DatagramEffect ==
    ASSUME SenderTypes, SentInv, NakInv, PendingInv, PositionTypes, cursor' = cursor, Datagram
    PROVE  /\ NakInv' /\ PendingInv' /\ PositionTypes' /\ skipped' = skipped
           /\ transport = "udp" /\ frames' = frames
<1>1. PICK d \in net : Apply(d.seq, d.count)
  BY DEF Datagram
<1>2. d \in DataFrames /\ d \in Frames /\ End(d) <= cursor /\ cursor \in 1..(MaxSeq + 1)
  BY DEF SenderTypes, SentInv, Frames
<1>3. d.seq \in Seqs /\ d.count \in 1..Batch
  <2>1. PICK s \in Seqs, n \in 1..Batch : d = Data(s, n)
    BY <1>2 DEF DataFrames
  <2> QED BY <2>1, DataFacts
<1>4. NakInv' /\ PendingInv' /\ PositionTypes' /\ skipped' = skipped
  BY <1>1, <1>2, <1>3, ApplyFacts DEF End
<1> QED BY <1>4 DEF Datagram

(* on_source_seq asks for what was announced and is missing.               *)
LEMMA HeartbeatEffect ==
    ASSUME SenderTypes, SentInv, NakInv, PendingInv, PositionTypes, cursor' = cursor,
           NEW seq \in 1..beat, Heartbeat(seq)
    PROVE  /\ NakInv' /\ PendingInv' /\ PositionTypes' /\ skipped' = skipped
           /\ transport = "udp" /\ frames' = frames
<1>1. /\ UNCHANGED <<next_seq, mirrored, pending, skipped, frames>> /\ transport = "udp"
      /\ seq >= next_seq /\ Request(nak, next_seq, seq)
  BY DEF Heartbeat, OnSourceSeq
<1>2. PendingInv' /\ PositionTypes'
  BY <1>1 DEF PendingInv, PositionTypes, End
<1>3. /\ next_seq \in Seqs /\ seq \in Seqs /\ next_seq <= seq /\ seq < cursor /\ cursor \in Nat
  BY <1>1, SenderFacts, Bounds DEF Seqs, PositionTypes, SentInv
<1>4. nak \in Naks \cup {NoNak} /\ nak.to < cursor
  BY DEF NakInv
<1>5. NakInv'
  BY <1>1, <1>3, <1>4, RequestFacts
<1> QED BY <1>1, <1>2, <1>5

(* A NAK that is sent again asks for what it asked for before.             *)
LEMMA RepeatNakEffect ==
    ASSUME NakInv, PendingInv, PositionTypes, cursor' = cursor, RepeatNak
    PROVE  /\ NakInv' /\ PendingInv' /\ PositionTypes' /\ skipped' = skipped
           /\ transport = "udp" /\ frames' = frames
<1>1. nak \in Naks /\ nak.to < cursor /\ SendNak(nak.from, nak.to)
  BY DEF RepeatNak, NakInv
<1>2. nak.from \in Seqs /\ nak.to \in Seqs
  BY <1>1 DEF Naks
<1>3. NakInv'
  BY <1>1, <1>2, SendNakFacts
<1> QED BY <1>3 DEF RepeatNak, PendingInv, PositionTypes, End

(* An answer to a NAK: records, or the news that they are gone.            *)
LEMMA ControlEffect ==
    ASSUME SenderTypes, ServerTypes, SentInv, NakInv, PendingInv, PositionTypes,
           GapFrames, SessionTypes, cursor' = cursor, Control
    PROVE  /\ NakInv' /\ PendingInv' /\ PositionTypes' /\ skipped' \subseteq Seqs
           /\ \A n \in skipped' : n \in skipped \/ Gone(n)
           /\ transport = "udp" /\ frames # <<>> /\ frames' = Tail(frames)
<1>1. transport = "udp" /\ frames # <<>> /\ frames' = Tail(frames)
  BY DEF Control
<1> DEFINE f == Head(frames)
<1>2. f = frames[1] /\ f \in Frames /\ Len(frames) \in Nat /\ 1 \in 1..Len(frames)
  BY <1>1, TailFacts
<1>3. /\ cursor \in 1..(MaxSeq + 1) /\ f.seq \in 1..(MaxSeq + 1) /\ MaxSeq \in Nat
      /\ f.kind = "DATA" => f.seq \in Seqs /\ f.count \in 1..Batch /\ f.seq + f.count <= cursor
  BY <1>1, <1>2, FrameFacts, Bounds DEF SenderTypes, SentInv, End
<1>4. skipped \subseteq Seqs
  BY DEF SessionTypes
<1>5. CASE f.kind = "DATA" /\ Apply(f.seq, f.count)
  <2>1. NakInv' /\ PendingInv' /\ PositionTypes' /\ skipped' = skipped
    BY <1>3, <1>5, ApplyFacts
  <2> QED BY <1>1, <1>4, <2>1
<1>6. CASE /\ f.kind = "GAP" /\ f.seq > next_seq
           /\ skipped' = skipped \cup next_seq..(f.seq - 1)
           /\ AfterAdvance(f.seq, mirrored)
  <2>1. NakInv' /\ PendingInv' /\ PositionTypes'
    <3>1. mirrored \in 0..MaxSeq
      BY DEF PositionTypes
    <3> QED BY <1>3, <1>6, <3>1, AfterAdvanceFacts
  <2>2. \A n \in next_seq..(f.seq - 1) : n \in Seqs /\ n \in 1..(f.seq - 1)
    BY <1>3 DEF PositionTypes, Seqs
  <2>3. \A n \in 1..(f.seq - 1) : Gone(n)
    BY <1>2, <1>6 DEF GapFrames
  <2> HIDE DEF f
  <2> QED BY <1>1, <1>4, <1>6, <2>1, <2>2, <2>3
<1>7. CASE f.kind = "GAP" /\ UNCHANGED <<mirrorVars, naks>>
  <2>1. UNCHANGED <<next_seq, pending, nak, mirrored, skipped, naks>>
    BY <1>7 DEF mirrorVars
  <2> QED BY <1>1, <1>4, <2>1 DEF NakInv, PendingInv, PositionTypes, End
<1> QED BY <1>5, <1>6, <1>7 DEF Control

(* What a mirror does by TCP: it follows the stream.                       *)
LEMMA StreamEffect ==
    ASSUME SourceTypes, ServerTypes, NakInv, PendingInv, PositionTypes, SessionTypes, StreamInv,
           connected, Stream,
           UNCHANGED <<slotSeq, nseq, arenaLapped, transport, cursor, scursor, connected>>
    PROVE  /\ NakInv' /\ PendingInv' /\ PositionTypes' /\ skipped' \subseteq Seqs
           /\ \A n \in skipped' : n \in skipped \/ Gone(n)
           /\ transport = "tcp" /\ frames # <<>> /\ frames' = Tail(frames)
           /\ UNCHANGED <<pending, nak, naks>> /\ StreamInv'
<1>1. /\ transport = "tcp" /\ frames # <<>> /\ frames' = Tail(frames)
      /\ UNCHANGED <<pending, nak, naks>>
  BY DEF Stream
<1>2. NakInv' /\ PendingInv'
  BY <1>1 DEF NakInv, PendingInv, End
<1> DEFINE L == Len(frames)
           f == Head(frames)
<1>3. /\ L \in Nat /\ L >= 1 /\ Len(frames') = L - 1 /\ f = frames[1] /\ f \in Frames
      /\ \A k \in 1..L : frames[k] \in Frames
      /\ \A k \in 1..(L - 1) : k + 1 \in 1..L /\ frames'[k] = frames[k + 1]
  BY <1>1, TailFacts
<1>4. \A k \in 1..L : Position(k + 1) = Position(k)'
  <2> SUFFICES ASSUME NEW k \in 1..L PROVE Position(k + 1) = Position(k)'
    OBVIOUS
  <2>1. CASE k <= L - 1
    BY <1>3, <2>1 DEF Position
  <2>2. CASE k = L
    BY <1>3, <2>2 DEF Position
  <2> QED BY <1>3, <2>1, <2>2
<1>5. /\ next_seq <= f.seq /\ GoneBetween(next_seq, f.seq)
      /\ End(f) <= Position(2) /\ GoneBetween(End(f), Position(2))
  <2>1. Position(1) = f.seq /\ 1 \in 1..L /\ 1 + 1 = 2
    BY <1>3 DEF Position
  <2>2. next_seq <= Position(1) /\ GoneBetween(next_seq, Position(1))
    BY <1>1 DEF StreamInv
  <2>3. End(frames[1]) <= Position(1 + 1) /\ GoneBetween(End(frames[1]), Position(1 + 1))
    BY <1>1, <2>1 DEF StreamInv
  <2> QED BY <1>3, <2>1, <2>2, <2>3
<1>6. Position(2) \in 1..(MaxSeq + 1)
  <2>1. CASE L >= 2
    <3>1. 2 \in 1..L /\ frames[2] \in Frames /\ Position(2) = frames[2].seq
      BY <1>3, <2>1 DEF Position
    <3> QED BY <3>1, FrameFacts, Bounds
  <2>2. CASE L < 2
    BY <1>3, <2>2 DEF Position, ServerTypes
  <2> QED BY <1>3, <2>1, <2>2
<1>7. /\ f.seq \in 1..(MaxSeq + 1) /\ f.count \in Nat /\ End(f) = f.seq + f.count /\ MaxSeq \in Nat
      /\ f.kind = "DATA" => f.count >= 1
      /\ f.kind # "DATA" => f.count = 0
      /\ next_seq \in 1..(MaxSeq + 1) /\ mirrored \in 0..MaxSeq
  BY <1>3, FrameFacts, Bounds DEF End, PositionTypes
<1>8. \A n \in next_seq..(f.seq - 1) : n \in Seqs /\ Gone(n)
  BY <1>5, <1>7 DEF GoneBetween, Seqs
<1>9. skipped' = skipped \cup next_seq..(f.seq - 1) /\ next_seq' = End(f)
  <2>1. CASE f.kind = "DATA"
    BY <1>5, <1>7, <2>1 DEF Stream
  <2>2. CASE f.kind # "DATA"
    <3>1. Max2(next_seq, f.seq) = f.seq
      BY <1>5, <1>7 DEF Max2
    <3> QED BY <1>7, <2>2, <3>1 DEF Stream
  <2> QED BY <2>1, <2>2
<1>10. PositionTypes'
  <2>1. End(f) \in 1..(MaxSeq + 1)
    BY <1>5, <1>6, <1>7
  <2>2. mirrored' \in 0..MaxSeq
    <3>1. CASE f.kind = "DATA"
      <4>1. mirrored' = f.seq + f.count - 1
        BY <3>1 DEF Stream
      <4> QED BY <1>7, <2>1, <3>1, <4>1
    <3>2. CASE f.kind # "DATA"
      <4>1. mirrored' = mirrored
        BY <3>2 DEF Stream
      <4> QED BY <1>7, <4>1
    <3> QED BY <3>1, <3>2
  <2> QED BY <1>9, <2>1, <2>2 DEF PositionTypes
<1>11. skipped' \subseteq Seqs /\ \A n \in skipped' : n \in skipped \/ Gone(n)
  BY <1>8, <1>9 DEF SessionTypes
<1>12. \A a, b : GoneBetween(a, b) => \A n \in a..(b - 1) : Gone(n)'
  BY DEF GoneBetween, Gone
<1>13. next_seq' <= Position(1)' /\ \A n \in next_seq'..(Position(1)' - 1) : Gone(n)'
  <2>1. Position(1)' = Position(2)
    BY <1>3, <1>4
  <2> QED BY <1>5, <1>9, <1>12, <2>1
<1>14. ASSUME NEW k \in 1..(L - 1)
       PROVE  /\ End(frames'[k]) <= Position(k + 1)'
              /\ \A n \in End(frames'[k])..(Position(k + 1)' - 1) : Gone(n)'
  <2>1. k + 1 \in 1..L /\ frames'[k] = frames[k + 1] /\ Position(k + 1)' = Position(k + 2)
    <3>1. k + 1 \in 1..L /\ (k + 1) + 1 = k + 2 /\ frames'[k] = frames[k + 1]
      BY <1>3
    <3>2. Position((k + 1) + 1) = Position(k + 1)'
      BY <1>4, <3>1
    <3> QED BY <3>1, <3>2
  <2>2. End(frames[k + 1]) <= Position(k + 2) /\ GoneBetween(End(frames[k + 1]), Position(k + 2))
    <3>1. (k + 1) + 1 = k + 2
      BY <1>3
    <3>2. /\ End(frames[k + 1]) <= Position((k + 1) + 1)
          /\ GoneBetween(End(frames[k + 1]), Position((k + 1) + 1))
      BY <1>1, <2>1 DEF StreamInv
    <3> QED BY <3>1, <3>2
  <2> QED BY <1>12, <2>1, <2>2
<1>15. StreamInv'
  BY <1>3, <1>13, <1>14 DEF StreamInv, GoneBetween, End
<1> QED BY <1>1, <1>2, <1>10, <1>11, <1>15

(* The mirror's steps preserve the invariant.                              *)
LEMMA MirrorKeepsInv == IInv /\ MirrorStep => IInv'
<1> SUFFICES ASSUME IInv, MirrorStep PROVE IInv'
  OBVIOUS
<1>0. /\ SourceTypes /\ SenderTypes /\ ServerTypes /\ SessionTypes
      /\ RingInv /\ SentInv /\ SessionInv /\ GapMeansGone /\ GapFrames /\ StreamInv
      /\ NakInv /\ PendingInv /\ PositionTypes
  BY TypeSplit, MirrorSplit DEF IInv, GapInv
<1>1. /\ UNCHANGED <<slotSeq, write_seq, nseq, arenaLapped, transport, cursor, net, beat,
                     spc, scursor, sto, connects, connected, resumable>>
      /\ connected
  BY DEF MirrorStep, sourceVars, senderVars, serverVars, sessionVars
<1>2. SourceTypes' /\ RingInv' /\ \A n : Gone(n)' <=> Gone(n)
  BY <1>0, <1>1, SourceSame DEF sourceVars
<1>3. /\ NakInv' /\ PendingInv' /\ PositionTypes' /\ skipped' \subseteq Seqs
      /\ \A n \in skipped' : n \in skipped \/ Gone(n)
      /\ \/ frames' = frames
         \/ frames # <<>> /\ frames' = Tail(frames)
      /\ \/ transport = "udp"
         \/ transport = "tcp" /\ UNCHANGED <<pending, nak, naks>> /\ StreamInv'
  <2>0. skipped \subseteq Seqs
    BY <1>0 DEF SessionTypes
  <2>1. CASE Datagram
    BY <1>0, <1>1, <2>0, <2>1, DatagramEffect
  <2>2. CASE \E seq \in 1..beat : Heartbeat(seq)
    <3>1. PICK seq \in 1..beat : Heartbeat(seq)
      BY <2>2
    <3> QED BY <1>0, <1>1, <2>0, <3>1, HeartbeatEffect
  <2>3. CASE Control
    BY <1>0, <1>1, <2>3, ControlEffect
  <2>4. CASE RepeatNak
    BY <1>0, <1>1, <2>0, <2>4, RepeatNakEffect
  <2>5. CASE Stream
    BY <1>0, <1>1, <2>5, StreamEffect
  <2> QED BY <2>1, <2>2, <2>3, <2>4, <2>5 DEF MirrorStep
<1>4. ServerTypes' /\ SentInv' /\ GapFrames'
  <2>1. CASE frames' = frames
    BY <1>0, <1>1, <1>2, <2>1 DEF ServerTypes, SentInv, GapFrames
  <2>2. CASE frames # <<>> /\ frames' = Tail(frames)
    BY <1>0, <1>1, <2>2, TailKeepsFrames
  <2> QED BY <1>3, <2>1, <2>2
<1>5. SenderTypes' /\ SessionTypes'
  BY <1>0, <1>1, <1>3 DEF SenderTypes, SessionTypes
<1>6. MirrorTypes' /\ AskInv'
  BY <1>3, MirrorSplit, PTL
<1>7. SessionInv'
  BY <1>0, <1>1, <1>3 DEF SessionInv
<1>8. StreamInv'
  <2>1. CASE transport = "udp"
    BY <1>1, <2>1 DEF StreamInv
  <2> QED BY <1>3, <2>1
<1>9. GapMeansGone'
  BY <1>0, <1>2, <1>3 DEF GapMeansGone
<1>10. TypeOK'
  BY <1>2, <1>4, <1>5, <1>6, TypeSplit, PTL
<1> QED BY <1>2, <1>4, <1>6, <1>7, <1>8, <1>9, <1>10 DEF IInv, GapInv

-----------------------------------------------------------------------------
(* Connections *)

(* The first record that serve_client sends is within the source, and a    *)
(* mirror that continues its ring misses only what is gone.                *)
LEMMA FirstSeqFacts ==
    ASSUME SourceTypes, RingInv, NEW wanted \in Nat
    PROVE  /\ FirstSeq(wanted) \in 1..(MaxSeq + 1)
           /\ wanted >= 1 /\ wanted <= write_seq + 1 =>
                 wanted <= FirstSeq(wanted) /\ GoneBetween(wanted, FirstSeq(wanted))
<1> DEFINE old == OldestRetained(write_seq)
<1>0. /\ write_seq \in Nat /\ write_seq <= MaxSeq /\ MaxSeq \in Nat /\ write_seq < nseq
      /\ write_seq + 1 # SLOT_WRITING /\ SLOT_WRITING \in Nat /\ SLOT_WRITING > MaxSeq + 1
  BY SourceFacts, Bounds DEF RingInv
<1>1. old \in 1..(MaxSeq + 1) /\ \A n \in Nat : n >= 1 /\ n < old => Gone(n)
  BY <1>0, OldestRetainedBounds, BelowOldestIsGone
<1>2. /\ wanted = 0 => FirstSeq(wanted) = write_seq + 1
      /\ wanted = SLOT_WRITING => FirstSeq(wanted) = old
      /\ wanted # 0 /\ wanted # SLOT_WRITING =>
            FirstSeq(wanted) = IF wanted > write_seq + 1 THEN write_seq + 1 ELSE Max2(wanted, old)
  BY <1>0 DEF FirstSeq, HELLO_LATEST, HELLO_OLDEST
<1> HIDE DEF old
<1>3. FirstSeq(wanted) \in 1..(MaxSeq + 1)
  BY <1>0, <1>1, <1>2 DEF Max2
<1>4. ASSUME wanted >= 1, wanted <= write_seq + 1
      PROVE  wanted <= FirstSeq(wanted) /\ GoneBetween(wanted, FirstSeq(wanted))
  <2>1. FirstSeq(wanted) = Max2(wanted, old)
    BY <1>0, <1>2, <1>4
  <2>2. \A n \in wanted..(Max2(wanted, old) - 1) : n \in Nat /\ n >= 1 /\ n < old
    BY <1>1, <1>4 DEF Max2
  <2> QED BY <1>1, <2>1, <2>2 DEF GoneBetween, Max2
<1> QED BY <1>3, <1>4

(* A handshake, after which the mirror's position is one that the server's *)
(* first record continues.                                                 *)
LEMMA AcceptKeepsInv ==
    ASSUME IInv, NEW wanted \in Nat, Accept(wanted), PositionTypes', resumable' \in BOOLEAN,
           skipped' \subseteq skipped,
           transport = "tcp" => /\ next_seq' <= FirstSeq(wanted)
                                /\ GoneBetween(next_seq', FirstSeq(wanted))
    PROVE  IInv'
<1>0. /\ SourceTypes /\ SenderTypes /\ ServerTypes /\ SessionTypes
      /\ RingInv /\ SentInv /\ SessionInv /\ GapMeansGone
      /\ NakInv /\ PendingInv
  BY TypeSplit, MirrorSplit DEF IInv, GapInv
<1>1. /\ UNCHANGED <<slotSeq, write_seq, nseq, arenaLapped, transport, cursor, net, beat,
                     naks, frames, pending, nak>>
      /\ ~connected /\ connects < MaxConnects /\ connected' /\ connects' = connects + 1
      /\ connected' = TRUE
      /\ IF transport = "udp"
         THEN spc' = "naks" /\ UNCHANGED <<scursor, sto>>
         ELSE spc' = "stream" /\ scursor' = FirstSeq(wanted) /\ sto' = MaxSeq
  BY DEF Accept, sourceVars, senderVars
<1>2. SourceTypes' /\ RingInv' /\ \A n : Gone(n)' <=> Gone(n)
  BY <1>0, <1>1, SourceSame DEF sourceVars
<1>3. frames = <<>> /\ naks = <<>> /\ pending = {} /\ nak = NoNak /\ Len(frames) = 0
  BY <1>0, <1>1, EmptySeq DEF SessionInv
<1>4. transport \in {"udp", "tcp"}
  BY <1>0, ReplicationAssumption DEF SenderTypes
<1>5. NakInv' /\ PendingInv'
  BY <1>0, <1>1 DEF NakInv, PendingInv, End
<1>6. MirrorTypes' /\ AskInv'
  BY <1>5, MirrorSplit, PTL
<1>7. ServerTypes'
  <2>1. FirstSeq(wanted) \in 1..(MaxSeq + 1) /\ MaxSeq \in 0..MaxSeq
    BY <1>0, FirstSeqFacts, Bounds
  <2>2. /\ spc' \in {"off", "naks", "range", "stream"}
        /\ scursor' \in 1..(MaxSeq + 1) /\ sto' \in 0..MaxSeq
    BY <1>0, <1>1, <2>1 DEF ServerTypes
  <2> QED BY <1>0, <1>1, <2>2 DEF ServerTypes
<1>8. SenderTypes' /\ SessionTypes'
  <2>1. connects + 1 \in 0..MaxConnects
    BY <1>0, <1>1, Bounds DEF SessionTypes
  <2>2. skipped' \subseteq Seqs
    BY <1>0 DEF SessionTypes
  <2>3. SenderTypes'
    BY <1>0, <1>1 DEF SenderTypes
  <2> QED BY <1>1, <2>1, <2>2, <2>3 DEF SessionTypes
<1>9. SentInv'
  BY <1>0, <1>1 DEF SentInv, End
<1>10. SessionInv'
  BY <1>1, <1>3, <1>4 DEF SessionInv
<1>11. GapInv'
  <2>1. GapMeansGone'
    BY <1>0, <1>2 DEF GapMeansGone
  <2>2. GapFrames'
    BY <1>1, <1>3 DEF GapFrames
  <2> QED BY <2>1, <2>2 DEF GapInv
<1>12. StreamInv'
  <2>1. CASE transport = "udp"
    BY <1>1, <2>1 DEF StreamInv
  <2>2. CASE transport = "tcp"
    <3>1. Position(1)' = FirstSeq(wanted)
      BY <1>1, <1>3, <2>2 DEF Position
    <3>2. next_seq' <= Position(1)' /\ \A n \in next_seq'..(Position(1)' - 1) : Gone(n)'
      BY <1>2, <2>2, <3>1 DEF GoneBetween
    <3>3. Len(frames') = 0
      BY <1>1, <1>3
    <3> QED BY <3>2, <3>3 DEF StreamInv, GoneBetween
  <2> QED BY <1>4, <2>1, <2>2
<1>13. TypeOK'
  BY <1>2, <1>6, <1>7, <1>8, TypeSplit, PTL
<1> QED BY <1>2, <1>6, <1>9, <1>10, <1>11, <1>12, <1>13 DEF IInv

(* A new mirror ring.                                                      *)
LEMMA ConnectKeepsInv ==
    ASSUME IInv, NEW wanted \in Nat, Connect(wanted)
    PROVE  IInv'
<1>1. SourceTypes /\ RingInv
  BY TypeSplit DEF IInv
<1>2. FirstSeq(wanted) \in 1..(MaxSeq + 1) /\ 0 \in 0..MaxSeq
  BY <1>1, FirstSeqFacts, Bounds
<1>3. /\ Accept(wanted) /\ resumable' = TRUE /\ next_seq' = FirstSeq(wanted) /\ mirrored' = 0
      /\ skipped' = {}
  BY DEF Connect, CreateRing
<1>4. PositionTypes'
  BY <1>2, <1>3 DEF PositionTypes
<1>5. next_seq' <= FirstSeq(wanted) /\ GoneBetween(next_seq', FirstSeq(wanted))
  BY <1>2, <1>3, Bounds DEF GoneBetween
<1> QED BY <1>3, <1>4, <1>5, AcceptKeepsInv

(* A mirror ring that is continued.                                        *)
LEMMA ResumeKeepsInv ==
    ASSUME IInv, Resume
    PROVE  IInv'
<1>1. SourceTypes /\ RingInv /\ MirrorTypes /\ SessionTypes
  BY TypeSplit DEF IInv
<1>2. mirrored + 1 \in Nat /\ mirrored \in 0..MaxSeq /\ mirrored + 1 >= 1 /\ HELLO_OLDEST \in Nat
  BY <1>1, Bounds DEF MirrorTypes, HELLO_OLDEST
<1>3. CASE /\ mirrored <= write_seq /\ Accept(mirrored + 1) /\ next_seq' = mirrored + 1
           /\ UNCHANGED <<mirrored, skipped, resumable>>
  <2>1. mirrored + 1 <= write_seq + 1 /\ mirrored + 1 \in 1..(MaxSeq + 1)
    BY <1>1, <1>2, <1>3, SourceFacts
  <2>2. /\ mirrored + 1 <= FirstSeq(mirrored + 1)
        /\ GoneBetween(mirrored + 1, FirstSeq(mirrored + 1))
    BY <1>1, <1>2, <2>1, FirstSeqFacts
  <2>3. PositionTypes'
    BY <1>2, <1>3, <2>1 DEF PositionTypes
  <2>4. resumable' \in BOOLEAN /\ skipped' \subseteq skipped
    BY <1>1, <1>3 DEF SessionTypes
  <2>5. PICK w \in Nat : w = mirrored + 1
    BY <1>2
  <2>6. /\ Accept(w) /\ next_seq' <= FirstSeq(w) /\ GoneBetween(next_seq', FirstSeq(w))
    BY <1>3, <2>2, <2>5
  <2> QED BY <2>3, <2>4, <2>6, AcceptKeepsInv
<1>4. CASE Connect(mirrored + 1)
  <2>1. PICK w \in Nat : w = mirrored + 1
    BY <1>2
  <2> QED BY <1>4, <2>1, ConnectKeepsInv
<1>5. CASE Connect(HELLO_OLDEST)
  BY <1>2, <1>5, ConnectKeepsInv
<1> QED BY <1>3, <1>4, <1>5 DEF Resume

(* The connection breaks.                                                  *)
LEMMA DisconnectKeepsInv ==
    ASSUME IInv, Disconnect
    PROVE  IInv'
<1>0. /\ SourceTypes /\ SenderTypes /\ ServerTypes /\ SessionTypes
      /\ RingInv /\ SentInv /\ SessionInv /\ GapMeansGone /\ PositionTypes
  BY TypeSplit, MirrorSplit DEF IInv, GapInv
<1>1. /\ UNCHANGED <<slotSeq, write_seq, nseq, arenaLapped, transport, cursor, net, beat,
                     mirrored, skipped, connects, resumable>>
      /\ connected' = FALSE /\ spc' = "off" /\ scursor' = 1 /\ sto' = 0
      /\ naks' = <<>> /\ frames' = <<>> /\ next_seq' = 1 /\ pending' = {} /\ nak' = NoNak
  BY DEF Disconnect, sourceVars, senderVars
<1>2. SourceTypes' /\ RingInv' /\ \A n : Gone(n)' <=> Gone(n)
  BY <1>0, <1>1, SourceSame DEF sourceVars
<1>3. /\ frames' \in Seq(Frames) /\ naks' \in Seq(Naks) /\ Len(frames') = 0 /\ Len(naks') = 0
      /\ 1 \in 1..(MaxSeq + 1) /\ 0 \in 0..MaxSeq /\ 0 <= MaxFrames /\ 0 <= PENDING_MAX
  BY <1>1, EmptySeq, Bounds
<1>4. SenderTypes' /\ ServerTypes' /\ SessionTypes'
  BY <1>0, <1>1, <1>3 DEF SenderTypes, ServerTypes, SessionTypes
<1>5. NakInv' /\ PendingInv' /\ PositionTypes'
  <2>1. 0 < cursor
    BY <1>0, SenderFacts
  <2>2. NakInv'
    BY <1>1, <1>3, <2>1 DEF NakInv, NoNak
  <2>3. PendingInv'
    BY <1>1, <1>3, FS_EmptySet DEF PendingInv
  <2> QED BY <1>0, <1>1, <1>3, <2>2, <2>3 DEF PositionTypes
<1>6. MirrorTypes' /\ AskInv'
  BY <1>5, MirrorSplit, PTL
<1>7. SentInv'
  BY <1>0, <1>1, <1>3 DEF SentInv, End
<1>8. SessionInv'
  BY <1>1 DEF SessionInv
<1>9. GapInv'
  BY <1>0, <1>1, <1>2, <1>3 DEF GapInv, GapMeansGone, GapFrames
<1>10. StreamInv'
  BY <1>1 DEF StreamInv
<1>11. TypeOK'
  BY <1>2, <1>4, <1>6, TypeSplit, PTL
<1> QED BY <1>2, <1>6, <1>7, <1>8, <1>9, <1>10, <1>11 DEF IInv

-----------------------------------------------------------------------------
(* The theorems *)

(* The invariant holds before anything is published or connected.          *)
LEMMA InitInv == Init => IInv
<1> SUFFICES ASSUME Init PROVE IInv
  OBVIOUS
<1>0. /\ MaxSeq \in Nat \ {0} /\ MaxConnects \in Nat /\ Capacity \in Nat \ {0}
      /\ 0 <= MaxFrames /\ 0 <= PENDING_MAX /\ SLOT_WRITING # 0
      /\ 1 \in 1..(MaxSeq + 1) /\ 0 \in 0..MaxSeq /\ 0 \in 0..MaxConnects
  BY Bounds
<1>1. frames = <<>> /\ naks = <<>> /\ pending = {} /\ nak = NoNak /\ Len(frames) = 0 /\ Len(naks) = 0
  BY EmptySeq DEF Init
<1>2. /\ frames \in Seq(Frames) /\ naks \in Seq(Naks) /\ IsFiniteSet(pending)
      /\ Cardinality(pending) = 0
  BY <1>1, EmptySeq, FS_EmptySet
<1>3. SourceTypes
  BY <1>0 DEF Init, SourceTypes
<1>4. SenderTypes /\ ServerTypes /\ SessionTypes
  BY <1>0, <1>1, <1>2 DEF Init, SenderTypes, ServerTypes, SessionTypes
<1>5. NakInv /\ PendingInv /\ PositionTypes
  BY <1>0, <1>1, <1>2 DEF Init, NakInv, PendingInv, PositionTypes, NoNak
<1>6. RingInv
  BY <1>0 DEF Init, RingInv
<1>7. SentInv /\ SessionInv
  BY <1>1 DEF Init, SentInv, SessionInv
<1>8. GapInv /\ StreamInv
  BY <1>1 DEF Init, GapInv, GapMeansGone, GapFrames, StreamInv
<1> QED BY <1>3, <1>4, <1>5, <1>6, <1>7, <1>8, TypeSplit, MirrorSplit DEF IInv

(* Nothing happens.                                                        *)
LEMMA StutterKeepsInv == IInv /\ UNCHANGED vars => IInv'
<1> SUFFICES ASSUME IInv, UNCHANGED vars PROVE IInv'
  OBVIOUS
<1>1. UNCHANGED <<slotSeq, write_seq, nseq, arenaLapped, transport, cursor, net, beat,
                  spc, scursor, sto, naks, frames, next_seq, pending, nak, mirrored, skipped,
                  connects, connected, resumable>>
  BY DEF vars, sourceVars, senderVars, serverVars, mirrorVars, sessionVars
<1>2. TypeOK'
  BY <1>1 DEF IInv, TypeOK
<1>3. RingInv' /\ \A n : Gone(n)' <=> Gone(n)
  BY <1>1 DEF IInv, RingInv, Marked, Gone
<1>4. SentInv' /\ AskInv' /\ SessionInv'
  BY <1>1 DEF IInv, SentInv, AskInv, NaksFollowTheSender, SessionInv, End
<1>5. GapInv'
  BY <1>1, <1>3 DEF IInv, GapInv, GapMeansGone, GapFrames
<1>6. StreamInv'
  BY <1>1, <1>3 DEF IInv, StreamInv, GoneBetween, Position, End
<1> QED BY <1>2, <1>3, <1>4, <1>5, <1>6 DEF IInv

(* Every step preserves the invariant.                                     *)
LEMMA NextKeepsInv == IInv /\ [Next]_vars => IInv'
<1> SUFFICES ASSUME IInv, [Next]_vars PROVE IInv'
  OBVIOUS
<1>1. ASSUME NEW wanted \in Starts, Connect(wanted) PROVE IInv'
  <2>1. wanted \in Nat
    BY ReplicationAssumption
  <2> QED BY <1>1, <2>1, ConnectKeepsInv
<1> QED BY <1>1, SourceKeepsInv, SenderKeepsInv, ServerKeepsInv, MirrorKeepsInv, ResumeKeepsInv,
           DisconnectKeepsInv, StutterKeepsInv DEF Next

(* The invariant holds in every state that replication reaches.            *)
THEOREM Invariance == Spec => []IInv
BY InitInv, NextKeepsInv, PTL DEF Spec

(* No position of sender, server or mirror passes the source's last        *)
(* record, and never more than PENDING_MAX datagrams are kept aside.       *)
THEOREM TypeCorrect == Spec => []TypeOK
<1>1. IInv => TypeOK
  BY DEF IInv
<1> QED BY <1>1, Invariance, PTL

(* A mirror ring lacks only records that the source ring no longer holds,  *)
(* whatever the network loses, doubles or delays, and across               *)
(* reconnections: GAP frames, the resynchronisation after a lap and a      *)
(* resumed connection never pass over a record that is still there.        *)
THEOREM GapsAreGone == Spec => []GapMeansGone
<1>1. IInv => GapMeansGone
  BY DEF IInv, GapInv
<1> QED BY <1>1, Invariance, PTL

(* The mirror never asks for a record that udp_loop has not passed.        *)
THEOREM NaksAreJustified == Spec => []NaksFollowTheSender
<1>1. IInv => NaksFollowTheSender
  BY DEF IInv, AskInv
<1> QED BY <1>1, Invariance, PTL

(* A TCP stream never goes back behind the mirror's position, so that the  *)
(* ring is never thrown away while its source lives.                       *)
THEOREM StreamIsMonotone == Spec => []StreamNeverGoesBack
<1>1. IInv => StreamNeverGoesBack
  <2> SUFFICES ASSUME IInv, transport = "tcp", frames # <<>> PROVE Head(frames).seq >= next_seq
    BY DEF StreamNeverGoesBack
  <2>1. connected /\ StreamInv /\ frames \in Seq(Frames) /\ next_seq \in Nat
    BY Bounds DEF IInv, SessionInv, TypeOK
  <2>2. Len(frames) \in Nat /\ Len(frames) >= 1 /\ Head(frames) = frames[1] /\ frames[1] \in Frames
    BY <2>1, LenProperties, EmptySeq, ElementOfSeq
  <2>3. Position(1) = frames[1].seq /\ frames[1].seq \in Nat
    BY <2>2, FrameFacts DEF Position
  <2> QED BY <2>1, <2>2, <2>3 DEF StreamInv
<1> QED BY <1>1, Invariance, PTL

=============================================================================
