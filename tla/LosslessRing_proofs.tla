------------------------- MODULE LosslessRing_proofs ------------------------
(***************************************************************************)
(* Proofs about lossless flow control and the reader registry, for every   *)
(* capacity, number of readers and registry slots, and every bound.        *)
(***************************************************************************)
EXTENDS LosslessRing, TLAPS

Scanning == ppc \in {"scan", "scan_cursor"}

(* The producer is ahead of all it has shown to anybody, and of its gate   *)
(* by at most a window; it writes below the gate only.                     *)
ProducerInv ==
    /\ write_seq < pseq
    /\ \A i \in Slots : slotSeq[i] # SLOT_WRITING => slotSeq[i] < pseq
    /\ \A r \in Readers : seen[r] < pseq
    /\ gate_limit <= pseq + RescanWindow
    /\ ppc \in {"mark", "copy"} => pseq < gate_limit
    /\ ppc \notin {"idle", "next", "publish"} => pseq <= MaxSeq

(* No active registration has cursor 0, nor one that min_cursor is about   *)
(* to read: 0 would pass for no reader at all.                             *)
RegistryInv ==
    /\ \A i \in RegSlots : regActive[i] => regCursor[i] >= 1
    /\ ppc = "scan" => scanAt >= 1
    /\ ppc = "scan_cursor" => scanAt \in RegSlots /\ regCursor[scanAt] >= 1

(* A live reader between register and drop owns its registry slot.         *)
OwnInv(r) ==
    /\ rpc[r] = "register" => rslot[r] >= 1
    /\ alive[r] /\ rpc[r] \notin {"detached", "register", "left"} =>
          rslot[r] \in RegSlots /\ regPid[rslot[r]] = r
    /\ alive[r] /\ Registered(r, rslot[r]) => regActive[rslot[r]]

(* The registry does not promise the producer more than the reader has     *)
(* read, but after a seek back that is not published yet.                  *)
CursorInv(r) ==
    alive[r] =>
        /\ rpc[r] \in {"activate", "recheck", "idle", "copy", "overwritten", "asleep"} =>
              regCursor[rslot[r]] = cursor[r]
        /\ rpc[r] \in {"got", "copy_batch", "overwritten_batch", "update_batch"} =>
              regCursor[rslot[r]] <= cursor[r]

(* A reader that was observed is heard: by the scan under way once it is   *)
(* past the reader's slot, else by the cached gate.  Whatever was written  *)
(* since it was observed is within a ring of its cursor.                   *)
CoverInv(r) ==
    covered[r] =>
        /\ alive[r] /\ Registered(r, rslot[r]) /\ regCursor[rslot[r]] <= cursor[r]
        /\ Scanning /\ scanAt > rslot[r] => scanMin # 0 /\ scanMin <= cursor[r]
        /\ ~Scanning => gate_limit <= cursor[r] + Capacity
        /\ pseq <= coveredAt[r] \/ pseq <= cursor[r] + Capacity

(* A reader that was not observed yet registered at most a window ago, or  *)
(* behind the scan under way.                                              *)
RescanInv(r) ==
    /\ alive[r] /\ Registered(r, rslot[r]) /\ ~covered[r]
    /\ regCursor[rslot[r]] <= cursor[r]
    => /\ pseq <= registeredAt[r] + RescanWindow
       /\ ~Scanning => gate_limit <= registeredAt[r] + RescanWindow
       /\ Scanning /\ scanAt > rslot[r] => pseq <= registeredAt[r]

ReaderInv(r) == OwnInv(r) /\ CursorInv(r) /\ CoverInv(r) /\ RescanInv(r)

(* The inductive invariant of the lossless ring.                           *)
IInv == TypeOK /\ ProducerInv /\ RegistryInv /\ \A r \in Readers : ReaderInv(r)

-----------------------------------------------------------------------------
(* Arithmetic *)

(* Every sequence addresses a slot.                                        *)
LEMMA IndexInSlots == \A n \in Nat : Index(n) \in Slots
BY CapacityAssumption DEF Index, Slots

(* The window between two scans is positive.                               *)
LEMMA WindowIsNat == RescanWindow \in Nat \ {0}
BY CapacityAssumption DEF RescanWindow, Max2

(* oldest_retained leaves a ring of messages, or all of them.              *)
LEMMA OldestRetainedBounds ==
    \A w \in Nat : /\ OldestRetained(w) \in Nat /\ OldestRetained(w) >= 1
                   /\ OldestRetained(w) <= w + 1
                   /\ OldestRetained(w) > 1 => OldestRetained(w) + Capacity = w + 1
BY CapacityAssumption DEF OldestRetained

-----------------------------------------------------------------------------
(* Types, by who writes them *)

ProducerTypes ==
    /\ slotSeq \in [Slots -> 0..MaxSeq \cup {SLOT_WRITING}]
    /\ write_seq \in 0..MaxSeq
    /\ pseq \in 1..(MaxSeq + 1)
    /\ gate_limit \in Nat
    /\ ppc \in ProducerPcs
    /\ caller \in {"push", "wait", "try", "try_again"}
    /\ scanAt \in 0..(MaxReaders + 1)
    /\ scanMin \in 0..(MaxSeq + 1)
    /\ rounds \in 0..PruneAfter
    /\ blocked \in 0..(PruneEvery - 1)

RegistryTypes ==
    /\ regPid \in [RegSlots -> Readers \cup {NoPid}]
    /\ regActive \in [RegSlots -> BOOLEAN]
    /\ regCursor \in [RegSlots -> 0..(MaxSeq + 1)]

ReaderTypes ==
    /\ alive \in [Readers -> BOOLEAN]
    /\ rpc \in [Readers -> ReaderPcs]
    /\ cursor \in [Readers -> 1..(MaxSeq + 1)]
    /\ lapped \in [Readers -> Nat]
    /\ rslot \in [Readers -> 0..(MaxReaders + 1)]
    /\ seen \in [Readers -> 0..MaxSeq]
    /\ seeks \in [Readers -> 0..MaxSeeks]

HistoryTypes ==
    /\ covered \in [Readers -> BOOLEAN]
    /\ coveredAt \in [Readers -> 0..(MaxSeq + 1)]
    /\ registeredAt \in [Readers -> 0..(MaxSeq + 1)]

(* TypeOK by who writes the variables.                                     *)
LEMMA TypeSplit ==
    TypeOK <=> ProducerTypes /\ RegistryTypes /\ ReaderTypes /\ HistoryTypes
BY DEF TypeOK, ProducerTypes, RegistryTypes, ReaderTypes, HistoryTypes

ProducerAction == ProducerStep \/ (ppc = "idle" /\ (StartItem("push") \/ StartItem("try")))

ReaderAction(r) ==
    \/ AttachStart(r) \/ ReaderStep(r) \/ Sleep(r) \/ DropDeactivate(r) \/ ReaderDies(r)
    \/ \E seq \in 1..MaxSeq : Seek(r, seq)

(* A step by who takes it.                                                 *)
LEMMA NextSplit ==
    Next <=> \/ ProducerAction
             \/ \E r \in Readers : ReaderAction(r)
             \/ \E i \in RegSlots : CmdPrune(i)
BY DEF Next, ProducerAction, ReaderAction

(* The new gate is a full ring past the slowest reader of the scan, and    *)
(* a window ahead.                                                         *)
LEMMA NewLimitBounds ==
    ASSUME ProducerTypes
    PROVE  /\ NewLimit \in Nat
           /\ NewLimit <= pseq + RescanWindow
           /\ scanMin # 0 => NewLimit <= scanMin + Capacity
BY WindowIsNat, CapacityAssumption, LosslessAssumption DEF ProducerTypes, NewLimit, Min2

-----------------------------------------------------------------------------
(* The producer *)

(* The producer leaves readers alone; it takes a registry slot away from a *)
(* dead owner only.                                                        *)
LEMMA ProducerFrame ==
    ASSUME RegistryTypes, ProducerAction
    PROVE  /\ UNCHANGED <<regActive, regCursor, readerVars, registeredAt>>
           /\ regPid' \in [RegSlots -> Readers \cup {NoPid}]
           /\ \A i \in RegSlots : regPid'[i] = regPid[i] \/ Dead(i)
<1> USE DEF RegistryTypes, ProducerAction, ProducerStep, registryVars, historyVars
<1>1. CASE Prune /\ UNCHANGED <<regActive, regCursor, readerVars, registeredAt>>
  BY <1>1 DEF Prune
<1>2. CASE WaitRound
  BY <1>1, <1>2 DEF WaitRound
<1>3. CASE TryPrune
  BY <1>1, <1>3 DEF TryPrune
<1>4. CASE \E who \in {"push", "try"} : StartItem(who)
  BY <1>4 DEF StartItem
<1>5. CASE ScanSlot \/ ScanCursor \/ FinishRefresh
  BY <1>5 DEF ScanSlot, ScanCursor, FinishRefresh
<1>6. CASE MarkWriting \/ PublishSlot \/ PublishProgress
  BY <1>6 DEF MarkWriting, PublishSlot, PublishProgress
<1> QED BY <1>2, <1>3, <1>4, <1>5, <1>6

(* Its steps keep its own types and bounds.                                *)
LEMMA ProducerKeepsItself ==
    ASSUME IInv, ProducerAction
    PROVE  ProducerTypes' /\ ProducerInv'
<1>0. ProducerTypes /\ RegistryTypes /\ ReaderTypes /\ ProducerInv /\ RegistryInv
  BY TypeSplit DEF IInv
<1>w. RescanWindow \in Nat \ {0} /\ Capacity \in Nat \ {0} /\ pseq \in Nat
  BY <1>0, WindowIsNat, CapacityAssumption, LosslessAssumption DEF ProducerTypes
<1>r. UNCHANGED seen
  BY <1>0, ProducerFrame DEF readerVars
<1>n. /\ \A r \in Readers : seen[r] \in Nat
      /\ \A i \in Slots : slotSeq[i] \in Nat
  BY <1>0, LosslessAssumption DEF ProducerTypes, ReaderTypes
<1> USE <1>0, <1>w, <1>r, LosslessAssumption DEF ringVars, ProducerPcs
<1>s. ASSUME UNCHANGED <<slotSeq, pseq>>,
             write_seq' = write_seq \/ write_seq' = pseq - 1,
             gate_limit' = gate_limit \/ gate_limit' = NewLimit,
             ppc' \in {"mark", "copy"} => pseq < gate_limit',
             ppc' \notin {"idle", "next", "publish"} => pseq <= MaxSeq
      PROVE  ProducerInv' /\ write_seq' \in 0..MaxSeq /\ gate_limit' \in Nat
  <2>1. write_seq' < pseq /\ write_seq' \in 0..MaxSeq
    BY <1>s DEF ProducerInv, ProducerTypes
  <2>2. gate_limit' <= pseq + RescanWindow /\ gate_limit' \in Nat
    BY <1>s, NewLimitBounds DEF ProducerInv, ProducerTypes
  <2>3. RescanWindow' = RescanWindow
    BY DEF RescanWindow
  <2> QED BY <1>s, <2>1, <2>2, <2>3 DEF ProducerInv
<1>1. ASSUME NEW who \in {"push", "try"}, StartItem(who) PROVE ProducerTypes' /\ ProducerInv'
  <2>1. ProducerInv'
    BY <1>1, <1>s DEF StartItem, ProducerInv, ProducerTypes
  <2>2. ProducerTypes'
    BY <1>1 DEF StartItem, ProducerTypes
  <2> QED BY <2>1, <2>2
<1>2. CASE ScanSlot
  <2>1. ProducerInv'
    BY <1>2, <1>s DEF ScanSlot, ProducerInv
  <2>2. ProducerTypes'
    BY <1>2 DEF ScanSlot, ProducerTypes, RegistryInv
  <2> QED BY <2>1, <2>2
<1>3. CASE ScanCursor
  <2>1. ProducerInv'
    BY <1>3, <1>s DEF ScanCursor, ProducerInv
  <2>2. regCursor[scanAt] \in 0..(MaxSeq + 1) /\ scanAt + 1 \in 0..(MaxReaders + 1)
    BY <1>3 DEF ScanCursor, RegistryInv, RegistryTypes, RegSlots
  <2>3. ProducerTypes'
    BY <1>3, <2>2 DEF ScanCursor, ProducerTypes, Min2
  <2> QED BY <2>1, <2>3
<1>4. CASE FinishRefresh
  <2>1. /\ ppc = "scan" /\ gate_limit' = NewLimit /\ pseq' = pseq /\ slotSeq' = slotSeq
        /\ scanAt' = 0 /\ scanMin' = 0 /\ caller' = caller
        /\ ppc' \in {"mark", "wait", "try_prune", "idle"}
        /\ ppc' = "mark" => pseq < NewLimit
        /\ write_seq' = write_seq \/ write_seq' = pseq - 1
    BY <1>4 DEF FinishRefresh, Block
  <2>2. ProducerInv' /\ write_seq' \in 0..MaxSeq /\ gate_limit' \in Nat
    BY <2>1, <1>s DEF ProducerInv
  <2>3. rounds' \in 0..PruneAfter /\ blocked' \in 0..(PruneEvery - 1)
    <3>1. (blocked + 1) % PruneEvery \in 0..(PruneEvery - 1)
      BY DEF ProducerTypes
    <3> QED BY <1>4, <3>1 DEF FinishRefresh, Block, ProducerTypes
  <2> QED BY <2>1, <2>2, <2>3 DEF ProducerTypes
<1>5. CASE WaitRound
  <2>1. ProducerInv'
    BY <1>5, <1>s DEF WaitRound, ProducerInv
  <2>2. ProducerTypes'
    BY <1>5 DEF WaitRound, ProducerTypes
  <2> QED BY <2>1, <2>2
<1>6. CASE TryPrune
  <2>1. ProducerInv'
    BY <1>6, <1>s DEF TryPrune, ProducerInv
  <2>2. ProducerTypes'
    BY <1>6 DEF TryPrune, ProducerTypes
  <2> QED BY <2>1, <2>2
<1>7. CASE MarkWriting
  <2>1. slotSeq' \in [Slots -> 0..MaxSeq \cup {SLOT_WRITING}]
    BY <1>7 DEF MarkWriting, ProducerTypes
  <2>2. \A i \in Slots : slotSeq'[i] # SLOT_WRITING => slotSeq'[i] < pseq
    BY <1>7 DEF MarkWriting, ProducerTypes, ProducerInv
  <2>3. RescanWindow' = RescanWindow
    BY DEF RescanWindow
  <2>4. ProducerInv'
    BY <1>7, <2>2, <2>3 DEF MarkWriting, ProducerInv
  <2> QED BY <1>7, <2>1, <2>4 DEF MarkWriting, ProducerTypes
<1>8. CASE PublishSlot
  <2>0. /\ ppc = "copy" /\ pseq' = pseq + 1 /\ ppc' \in {"publish", "next"} /\ pseq <= MaxSeq
        /\ slotSeq' = [slotSeq EXCEPT ![Index(pseq)] = pseq]
        /\ UNCHANGED <<write_seq, gate_limit, caller, scanAt, scanMin, rounds, blocked>>
    BY <1>8 DEF PublishSlot, ProducerInv
  <2>1. slotSeq' \in [Slots -> 0..MaxSeq \cup {SLOT_WRITING}]
    <3>1. pseq \in 0..MaxSeq
      BY <2>0
    <3> QED BY <2>0, <3>1 DEF ProducerTypes
  <2>2. \A i \in Slots : slotSeq'[i] # SLOT_WRITING => slotSeq'[i] < pseq + 1
    BY <2>0, <1>n DEF ProducerTypes, ProducerInv
  <2>3. RescanWindow' = RescanWindow
    BY DEF RescanWindow
  <2>4. /\ write_seq < pseq + 1 /\ gate_limit <= pseq + 1 + RescanWindow
        /\ \A r \in Readers : seen[r] < pseq + 1
    BY <1>n DEF ProducerInv, ProducerTypes
  <2>5. ProducerInv'
    BY <2>0, <2>2, <2>3, <2>4 DEF ProducerInv
  <2> QED BY <2>0, <2>1, <2>5 DEF ProducerTypes
<1>9. CASE PublishProgress
  <2>1. ProducerInv' /\ write_seq' \in 0..MaxSeq
    BY <1>9, <1>s DEF PublishProgress
  <2> QED BY <1>9, <2>1 DEF PublishProgress, ProducerTypes
<1> QED BY <1>1, <1>2, <1>3, <1>4, <1>5, <1>6, <1>7, <1>8, <1>9 DEF ProducerAction, ProducerStep

(* The producer keeps the registry consistent.                             *)
LEMMA ProducerKeepsRegistry ==
    ASSUME IInv, ProducerAction
    PROVE  RegistryTypes' /\ RegistryInv'
<1>0. ProducerTypes /\ RegistryTypes /\ RegistryInv
  BY TypeSplit DEF IInv
<1>1. /\ UNCHANGED <<regActive, regCursor>>
      /\ regPid' \in [RegSlots -> Readers \cup {NoPid}]
  BY <1>0, ProducerFrame
<1>2. RegistryTypes'
  BY <1>0, <1>1 DEF RegistryTypes
<1> USE <1>0, LosslessAssumption DEF ProducerTypes, RegistryInv
<1>3. ppc' = "scan" => scanAt' >= 1
  <2>1. CASE \E who \in {"push", "try"} : StartItem(who)
    BY <2>1 DEF StartItem
  <2>2. CASE ScanSlot \/ WaitRound \/ TryPrune \/ FinishRefresh
    BY <2>2 DEF ScanSlot, WaitRound, TryPrune, FinishRefresh, Block
  <2>3. CASE ScanCursor
    BY <2>3 DEF ScanCursor, RegSlots
  <2>4. CASE MarkWriting \/ PublishSlot \/ PublishProgress
    BY <2>4 DEF MarkWriting, PublishSlot, PublishProgress
  <2> QED BY <2>1, <2>2, <2>3, <2>4 DEF ProducerAction, ProducerStep
<1>4. ppc' = "scan_cursor" => scanAt' \in RegSlots /\ regCursor[scanAt'] >= 1
  <2>1. CASE ScanSlot
    BY <2>1 DEF ScanSlot, RegSlots
  <2>2. CASE ~ScanSlot
    BY <2>2 DEF ProducerAction, ProducerStep, StartItem, ScanCursor, FinishRefresh, Block,
                WaitRound, TryPrune, MarkWriting, PublishSlot, PublishProgress
  <2> QED BY <2>1, <2>2
<1> QED BY <1>1, <1>2, <1>3, <1>4

(* What the producer does between two scans keeps what it has heard and    *)
(* what it has missed.                                                     *)
LEMMA ProducerKeepsReaders ==
    ASSUME IInv, ProducerAction, NEW r \in Readers
    PROVE  ReaderInv(r)'
<1>0. /\ ProducerTypes /\ RegistryTypes /\ ReaderTypes /\ HistoryTypes
      /\ ProducerInv /\ RegistryInv /\ ReaderInv(r)
  BY TypeSplit DEF IInv
<1>1. /\ UNCHANGED <<regActive, regCursor, alive, rpc, cursor, rslot, registeredAt>>
      /\ \A i \in RegSlots : regPid'[i] = regPid[i] \/ Dead(i)
  BY <1>0, ProducerFrame DEF readerVars
<1>2. OwnInv(r)' /\ CursorInv(r)'
  <2>1. alive[r] /\ rpc[r] \notin {"detached", "register", "left"} =>
            rslot[r] \in RegSlots /\ regPid'[rslot[r]] = r
    BY <1>0, <1>1, LosslessAssumption DEF ReaderInv, OwnInv, Dead
  <2> QED BY <1>0, <1>1, <2>1 DEF ReaderInv, OwnInv, CursorInv, Registered
<1> DEFINE rc == regCursor[rslot[r]]
           reg == alive[r] /\ Registered(r, rslot[r])
<1>3. /\ rc' = rc /\ reg' = reg /\ RescanWindow' = RescanWindow /\ Capacity' = Capacity
  BY <1>1 DEF Registered, RescanWindow
<1>4. /\ RescanWindow \in Nat /\ Capacity \in Nat /\ pseq \in Nat /\ gate_limit \in Nat
      /\ scanAt \in Nat /\ scanMin \in Nat /\ cursor[r] \in Nat /\ registeredAt[r] \in Nat
      /\ coveredAt[r] \in Nat /\ rslot[r] \in Nat /\ MaxReaders \in Nat
  BY <1>0, WindowIsNat, CapacityAssumption, LosslessAssumption
     DEF ProducerTypes, ReaderTypes, HistoryTypes
<1>5. reg => /\ rslot[r] \in RegSlots /\ rslot[r] >= 1 /\ rslot[r] <= MaxReaders /\ rc \in Nat
             /\ regActive[rslot[r]] /\ regPid[rslot[r]] # NoPid
  <2>1. reg => rslot[r] \in RegSlots /\ regPid[rslot[r]] = r /\ regActive[rslot[r]]
    BY <1>0 DEF ReaderInv, OwnInv, Registered
  <2> QED BY <2>1, <1>0, LosslessAssumption DEF RegistryTypes, RegSlots
<1> DEFINE Heard == covered[r] =>
               /\ reg /\ rc <= cursor[r]
               /\ Scanning /\ scanAt > rslot[r] => scanMin # 0 /\ scanMin <= cursor[r]
               /\ ~Scanning => gate_limit <= cursor[r] + Capacity
               /\ pseq <= coveredAt[r] \/ pseq <= cursor[r] + Capacity
           Missed == reg /\ ~covered[r] /\ rc <= cursor[r] =>
               /\ pseq <= registeredAt[r] + RescanWindow
               /\ ~Scanning => gate_limit <= registeredAt[r] + RescanWindow
               /\ Scanning /\ scanAt > rslot[r] => pseq <= registeredAt[r]
<1>6. Heard /\ Missed
  BY <1>0 DEF ReaderInv, CoverInv, RescanInv
<1>7. SUFFICES Heard' /\ Missed'
  BY <1>2, <1>7 DEF ReaderInv, CoverInv, RescanInv
<1> HIDE DEF rc, reg
<1>8. UNCHANGED cursor /\ UNCHANGED rslot /\ UNCHANGED registeredAt
  BY <1>1
<1>e. ASSUME UNCHANGED <<covered, coveredAt, pseq>>, Scanning', scanAt' = 1
      PROVE  Heard' /\ Missed'
  BY <1>e, <1>3, <1>4, <1>5, <1>6, <1>8
<1>q. ASSUME UNCHANGED <<covered, coveredAt, pseq, gate_limit>>, ~Scanning, ~Scanning'
      PROVE  Heard' /\ Missed'
  BY <1>q, <1>3, <1>6, <1>8
<1>9. ASSUME NEW who \in {"push", "try"}, StartItem(who) PROVE Heard' /\ Missed'
  BY <1>9, <1>e, <1>q DEF StartItem, Scanning, historyVars
<1>10. CASE ScanSlot
  <2>1. /\ Scanning /\ Scanning' /\ UNCHANGED <<covered, coveredAt, pseq, scanMin>>
        /\ scanAt' = scanAt \/ (scanAt' = scanAt + 1 /\ ~(regActive[scanAt] /\ regPid[scanAt] # NoPid))
    BY <1>10 DEF ScanSlot, Scanning, historyVars
  <2>2. reg /\ scanAt' > rslot[r] => scanAt > rslot[r]
    BY <2>1, <1>4, <1>5
  <2> QED BY <2>1, <2>2, <1>3, <1>6, <1>8
<1>11. CASE ScanCursor
  <2> DEFINE c == regCursor[scanAt]
             obs == /\ Registered(r, scanAt) /\ alive[r] /\ ~covered[r] /\ c <= cursor[r]
  <2>1. /\ ppc = "scan_cursor" /\ ppc' = "scan" /\ pseq' = pseq /\ scanAt' = scanAt + 1
        /\ scanMin' = IF scanMin = 0 THEN c ELSE Min2(scanMin, c)
        /\ covered'[r] <=> covered[r] \/ obs
        /\ coveredAt'[r] = IF obs THEN pseq ELSE coveredAt[r]
    BY <1>11 DEF ScanCursor
  <2>2. c \in Nat /\ c >= 1
    BY <1>0, <2>1 DEF RegistryInv, RegistryTypes
  <2>3. scanMin' # 0 /\ scanMin' <= c /\ (scanMin # 0 => scanMin' <= scanMin)
        /\ scanMin' \in Nat
    BY <2>1, <2>2, <1>4 DEF Min2
  <2>4. Scanning /\ Scanning'
    BY <2>1 DEF Scanning
  <2>5. obs <=> reg /\ scanAt = rslot[r] /\ ~covered[r] /\ rc <= cursor[r]
    BY DEF Registered, rc, reg
  <2>6. scanAt = rslot[r] => c = rc
    BY DEF rc
  <2> HIDE DEF c, obs
  <2>7. Heard'
    BY <2>1, <2>2, <2>3, <2>4, <2>5, <2>6, <1>3, <1>4, <1>5, <1>6, <1>8
  <2>8. Missed'
    BY <2>1, <2>4, <2>5, <1>3, <1>4, <1>5, <1>6, <1>8
  <2> QED BY <2>7, <2>8
<1>12. CASE FinishRefresh
  <2>1. /\ Scanning /\ ~Scanning' /\ scanAt > MaxReaders /\ gate_limit' = NewLimit
        /\ UNCHANGED <<covered, coveredAt, pseq>>
    BY <1>12 DEF FinishRefresh, Block, Scanning, historyVars
  <2>2. /\ NewLimit \in Nat /\ NewLimit <= pseq + RescanWindow
        /\ scanMin # 0 => NewLimit <= scanMin + Capacity
    BY <1>0, NewLimitBounds
  <2>3. reg => scanAt > rslot[r]
    BY <2>1, <1>4, <1>5
  <2> QED BY <2>1, <2>2, <2>3, <1>3, <1>4, <1>6, <1>8
<1>13. CASE WaitRound
  BY <1>13, <1>e DEF WaitRound, Scanning, historyVars
<1>14. CASE TryPrune
  BY <1>14, <1>e, <1>q DEF TryPrune, Scanning, historyVars
<1>15. CASE MarkWriting \/ PublishProgress
  BY <1>15, <1>q DEF MarkWriting, PublishProgress, Scanning, historyVars
<1>16. CASE PublishSlot
  <2>1. /\ ~Scanning /\ ~Scanning' /\ pseq < gate_limit /\ pseq' = pseq + 1
        /\ UNCHANGED <<covered, coveredAt, gate_limit>>
    BY <1>16, <1>0 DEF PublishSlot, Scanning, historyVars, ProducerInv
  <2> QED BY <2>1, <1>3, <1>4, <1>6, <1>8
<1> QED BY <1>9, <1>10, <1>11, <1>12, <1>13, <1>14, <1>15, <1>16 DEF ProducerAction, ProducerStep

-----------------------------------------------------------------------------
(* The readers *)

(* A reader leaves the producer alone, ...                                 *)
LEMMA ReaderFrame ==
    ASSUME NEW r \in Readers, ReaderAction(r)
    PROVE  UNCHANGED <<ringVars, producerVars>>
BY DEF ReaderAction, ReaderStep, AttachStart, RegisterClaim, RegisterHide, RegisterPlace,
       RegisterActivate, SkipOverwritten, RecheckSeq, UpdateCursor, Wake, DropRelease, LoadSeq,
       Sleep, Seek, DropDeactivate, ReaderDies

(* ... it does not touch another reader's locals, ...                      *)
LEMMA OtherLocals ==
    ASSUME ReaderTypes, HistoryTypes, NEW r \in Readers, ReaderAction(r), NEW q \in Readers \ {r}
    PROVE  /\ alive'[q] = alive[q] /\ rpc'[q] = rpc[q] /\ cursor'[q] = cursor[q]
           /\ rslot'[q] = rslot[q] /\ seen'[q] = seen[q] /\ covered'[q] = covered[q]
           /\ coveredAt'[q] = coveredAt[q] /\ registeredAt'[q] = registeredAt[q]
<1> USE DEF ReaderTypes, HistoryTypes, ToPc, historyVars
<1>1. CASE AttachStart(r)
  BY <1>1 DEF AttachStart
<1>2. CASE RegisterClaim(r)
  BY <1>2 DEF RegisterClaim
<1>3. CASE RegisterHide(r) \/ RegisterPlace(r) \/ RegisterActivate(r)
  BY <1>3 DEF RegisterHide, RegisterPlace, RegisterActivate
<1>4. CASE SkipOverwritten(r)
  BY <1>4 DEF SkipOverwritten
<1>5. CASE LoadSeq(r)
  BY <1>5 DEF LoadSeq
<1>6. CASE RecheckSeq(r)
  BY <1>6 DEF RecheckSeq
<1>7. CASE UpdateCursor(r)
  BY <1>7 DEF UpdateCursor
<1>8. CASE Sleep(r) \/ Wake(r)
  BY <1>8 DEF Sleep, Wake
<1>9. CASE \E seq \in 1..MaxSeq : Seek(r, seq)
  BY <1>9 DEF Seek
<1>10. CASE DropDeactivate(r) \/ DropRelease(r)
  BY <1>10 DEF DropDeactivate, DropRelease
<1>11. CASE ReaderDies(r)
  BY <1>11 DEF ReaderDies
<1> QED BY <1>1, <1>2, <1>3, <1>4, <1>5, <1>6, <1>7, <1>8, <1>9, <1>10, <1>11
        DEF ReaderAction, ReaderStep

(* ... and it writes registry slots that are its own; the pid of another   *)
(* one only if the slot is free.                                           *)
LEMMA RegistryWrites ==
    ASSUME RegistryTypes, NEW r \in Readers, ReaderAction(r), OwnInv(r), NEW i \in RegSlots
    PROVE  /\ regPid'[i] = regPid[i] \/ Free(i) \/ regPid[i] = r
           /\ regActive'[i] = regActive[i] \/ regPid[i] = r
           /\ regCursor'[i] = regCursor[i] \/ regPid[i] = r
<1> USE DEF RegistryTypes, OwnInv, registryVars
<1>1. CASE RegisterClaim(r)
  BY <1>1 DEF RegisterClaim
<1>2. CASE RegisterHide(r) \/ RegisterPlace(r) \/ RegisterActivate(r)
  BY <1>2 DEF RegisterHide, RegisterPlace, RegisterActivate
<1>3. CASE UpdateCursor(r)
  BY <1>3 DEF UpdateCursor
<1>4. CASE DropDeactivate(r) \/ DropRelease(r)
  BY <1>4 DEF DropDeactivate, DropRelease
<1>5. CASE UNCHANGED registryVars
  BY <1>5
<1> QED BY <1>1, <1>2, <1>3, <1>4, <1>5 DEF ReaderAction, ReaderStep, AttachStart,
           SkipOverwritten, RecheckSeq, Wake, LoadSeq, Sleep, Seek, ReaderDies

(* So it cannot disturb another reader.                                    *)
LEMMA ReaderSparesOthers ==
    ASSUME IInv, NEW r \in Readers, ReaderAction(r), NEW q \in Readers \ {r}
    PROVE  ReaderInv(q)'
<1>0. /\ RegistryTypes /\ ReaderTypes /\ HistoryTypes /\ OwnInv(r) /\ ReaderInv(q)
  BY TypeSplit DEF IInv, ReaderInv
<1>1. /\ alive'[q] = alive[q] /\ rpc'[q] = rpc[q] /\ cursor'[q] = cursor[q]
      /\ rslot'[q] = rslot[q] /\ covered'[q] = covered[q]
      /\ coveredAt'[q] = coveredAt[q] /\ registeredAt'[q] = registeredAt[q]
  BY <1>0, OtherLocals
<1>2. UNCHANGED <<pseq, gate_limit, ppc, scanAt, scanMin>>
  BY ReaderFrame DEF producerVars
<1> DEFINE Owning == alive[q] /\ rpc[q] \notin {"detached", "register", "left"}
           i == rslot[q]
<1>3. ASSUME Owning
      PROVE  /\ i \in RegSlots /\ regPid[i] = q /\ regPid'[i] = regPid[i]
             /\ regActive'[i] = regActive[i] /\ regCursor'[i] = regCursor[i]
  <2>1. i \in RegSlots /\ regPid[i] = q /\ q # r /\ alive[q]
    BY <1>0, <1>3 DEF ReaderInv, OwnInv
  <2>2. ~Free(i)
    BY <2>1, LosslessAssumption DEF Free, Dead
  <2> QED BY <2>1, <2>2, <1>0, RegistryWrites
<1>4. OwnInv(q)'
  <2>1. /\ rpc'[q] = "register" => rslot'[q] >= 1
    BY <1>0, <1>1 DEF ReaderInv, OwnInv
  <2>2. Owning => regPid'[i] = q /\ i \in RegSlots
    BY <1>3
  <2>3. alive[q] /\ Registered(q, i) => regActive'[i]
    BY <1>0, <1>3 DEF ReaderInv, OwnInv, Registered
  <2> QED BY <1>1, <2>1, <2>2, <2>3 DEF OwnInv, Registered
<1>5. CursorInv(q)'
  BY <1>0, <1>1, <1>3 DEF ReaderInv, CursorInv
<1>6. alive[q] /\ Registered(q, i) => Owning /\ regCursor'[i] = regCursor[i]
  BY <1>3 DEF Registered
<1>7. CoverInv(q)'
  BY <1>0, <1>1, <1>2, <1>6 DEF ReaderInv, CoverInv, Registered, Scanning
<1>8. RescanInv(q)'
  BY <1>0, <1>1, <1>2, <1>6 DEF ReaderInv, RescanInv, Registered, Scanning, RescanWindow
<1> QED BY <1>4, <1>5, <1>7, <1>8 DEF ReaderInv

(* A step of a reader keeps its variables in range.                        *)
LEMMA ReaderKeepsTypes ==
    ASSUME IInv, NEW r \in Readers, ReaderAction(r)
    PROVE  (RegistryTypes /\ ReaderTypes /\ HistoryTypes)'
<1>0. ProducerTypes /\ RegistryTypes /\ ReaderTypes /\ HistoryTypes /\ OwnInv(r)
  BY TypeSplit DEF IInv, ReaderInv
<1> USE <1>0, LosslessAssumption
        DEF RegistryTypes, ReaderTypes, HistoryTypes, ToPc, ReaderPcs, registryVars, historyVars
<1>c. cursor[r] \in 0..(MaxSeq + 1)
  OBVIOUS
<1>1. CASE AttachStart(r)
  <2>1. OldestRetained(write_seq) \in 1..(MaxSeq + 1) /\ write_seq + 1 \in 1..(MaxSeq + 1)
    BY OldestRetainedBounds DEF ProducerTypes
  <2>2. Latest(write_seq) \in 1..(MaxSeq + 1)
    BY DEF ProducerTypes, Latest, Max2
  <2>3. \A seq \in 1..MaxSeq : /\ Max2(seq, OldestRetained(write_seq)) \in 1..(MaxSeq + 1)
                               /\ Max2(seq, OldestRetained(write_seq)) - seq \in Nat
    BY <2>1 DEF Max2
  <2>4. cursor' \in [Readers -> 1..(MaxSeq + 1)] /\ lapped' \in [Readers -> Nat]
    BY <1>1, <2>1, <2>2, <2>3 DEF AttachStart
  <2> QED BY <1>1, <2>4 DEF AttachStart
<1>2. CASE RegisterClaim(r)
  <2>1. CASE rslot[r] > MaxReaders
    BY <1>2, <2>1 DEF RegisterClaim
  <2>2. CASE ~(rslot[r] > MaxReaders) /\ Free(rslot[r])
    <3>1. regPid' = [regPid EXCEPT ![rslot[r]] = r]
      BY <1>2, <2>2 DEF RegisterClaim
    <3> QED BY <1>2, <2>2, <3>1 DEF RegisterClaim
  <2>3. CASE ~(rslot[r] > MaxReaders) /\ ~Free(rslot[r])
    <3>1. rslot[r] + 1 \in 0..(MaxReaders + 1)
      BY <2>3
    <3> QED BY <1>2, <2>3, <3>1 DEF RegisterClaim
  <2> QED BY <2>1, <2>2, <2>3
<1>3. CASE RegisterHide(r) \/ RegisterPlace(r) \/ RegisterActivate(r)
  <2>1. /\ regPid' = regPid /\ regActive' \in [RegSlots -> BOOLEAN]
        /\ regCursor' \in [RegSlots -> 0..(MaxSeq + 1)]
    BY <1>3, <1>c DEF RegisterHide, RegisterPlace, RegisterActivate
  <2>2. rpc' \in [Readers -> ReaderPcs] /\ registeredAt' \in [Readers -> 0..(MaxSeq + 1)]
    BY <1>3 DEF RegisterHide, RegisterPlace, RegisterActivate, ProducerTypes
  <2> QED BY <1>3, <2>1, <2>2 DEF RegisterHide, RegisterPlace, RegisterActivate
<1>4. CASE SkipOverwritten(r)
  <2> DEFINE oldest == OldestRetained(Max2(write_seq, seen[r]))
  <2>1. oldest \in 1..(MaxSeq + 1)
    <3>1. Max2(write_seq, seen[r]) \in 0..MaxSeq
      BY DEF Max2, ProducerTypes
    <3> QED BY <3>1, OldestRetainedBounds
  <2>2. oldest > cursor[r] => lapped[r] + (oldest - cursor[r]) \in Nat
    BY <2>1
  <2> HIDE DEF oldest
  <2>3. cursor' \in [Readers -> 1..(MaxSeq + 1)] /\ lapped' \in [Readers -> Nat]
    BY <1>4, <2>1, <2>2 DEF SkipOverwritten, oldest
  <2>4. rpc' \in [Readers -> ReaderPcs] /\ seen' \in [Readers -> 0..MaxSeq]
    BY <1>4 DEF SkipOverwritten
  <2> QED BY <1>4, <2>3, <2>4 DEF SkipOverwritten
<1>5. CASE LoadSeq(r)
  <2>1. slotSeq[Index(cursor[r])] \in 0..MaxSeq \cup {SLOT_WRITING}
    BY IndexInSlots DEF ProducerTypes
  <2>2. seen' \in [Readers -> 0..MaxSeq]
    BY <1>5, <2>1 DEF LoadSeq
  <2>3. rpc' \in [Readers -> ReaderPcs]
    BY <1>5 DEF LoadSeq
  <2> QED BY <1>5, <2>2, <2>3 DEF LoadSeq
<1>6. CASE RecheckSeq(r)
  <2>1. slotSeq[Index(cursor[r])] \in 0..MaxSeq \cup {SLOT_WRITING}
    BY IndexInSlots DEF ProducerTypes
  <2>2. seen' \in [Readers -> 0..MaxSeq]
    BY <1>6, <2>1 DEF RecheckSeq
  <2>3. cursor' \in [Readers -> 1..(MaxSeq + 1)]
    <3>1. slotSeq[Index(cursor[r])] = cursor[r] => cursor[r] + 1 \in 1..(MaxSeq + 1)
      BY <2>1
    <3> QED BY <1>6, <3>1 DEF RecheckSeq
  <2>4. rpc' \in [Readers -> ReaderPcs]
    BY <1>6 DEF RecheckSeq
  <2> QED BY <1>6, <2>2, <2>3, <2>4 DEF RecheckSeq
<1>7. CASE UpdateCursor(r)
  <2>1. regCursor' \in [RegSlots -> 0..(MaxSeq + 1)]
    BY <1>7, <1>c DEF UpdateCursor
  <2>2. registeredAt' \in [Readers -> 0..(MaxSeq + 1)]
    BY <1>7 DEF UpdateCursor, ProducerTypes
  <2> QED BY <1>7, <2>1, <2>2 DEF UpdateCursor
<1>8. CASE Sleep(r) \/ Wake(r)
  BY <1>8 DEF Sleep, Wake
<1>9. ASSUME NEW seq \in 1..MaxSeq, Seek(r, seq)
      PROVE  (RegistryTypes /\ ReaderTypes /\ HistoryTypes)'
  <2> DEFINE target == Max2(seq, OldestRetained(write_seq))
  <2>1. target \in 1..(MaxSeq + 1) /\ target - seq \in Nat
    BY OldestRetainedBounds DEF ProducerTypes, Max2
  <2>2. lapped[r] + (target - seq) \in Nat
    BY <2>1
  <2> HIDE DEF target
  <2>3. /\ cursor' = [cursor EXCEPT ![r] = target]
        /\ lapped' = [lapped EXCEPT ![r] = @ + (target - seq)]
        /\ seeks[r] < MaxSeeks /\ seeks' = [seeks EXCEPT ![r] = @ + 1]
        /\ covered' = [covered EXCEPT ![r] = @ /\ target >= cursor[r]]
        /\ rpc' = [rpc EXCEPT ![r] = "update"]
        /\ UNCHANGED <<registryVars, alive, rslot, seen, coveredAt, registeredAt>>
    BY <1>9 DEF Seek, target
  <2>4. cursor' \in [Readers -> 1..(MaxSeq + 1)] /\ lapped' \in [Readers -> Nat]
    BY <2>1, <2>2, <2>3
  <2>5. seeks' \in [Readers -> 0..MaxSeeks] /\ covered' \in [Readers -> BOOLEAN]
    BY <2>3
  <2> QED BY <2>3, <2>4, <2>5
<1>10. CASE DropDeactivate(r) \/ DropRelease(r)
  <2>1. regPid' \in [RegSlots -> Readers \cup {NoPid}] /\ regActive' \in [RegSlots -> BOOLEAN]
    BY <1>10 DEF DropDeactivate, DropRelease
  <2> QED BY <1>10, <2>1 DEF DropDeactivate, DropRelease
<1>11. CASE ReaderDies(r)
  BY <1>11 DEF ReaderDies
<1> QED BY <1>1, <1>2, <1>3, <1>4, <1>5, <1>6, <1>7, <1>8, <1>9, <1>10, <1>11
        DEF ReaderAction, ReaderStep

(* A reader shows the producer no cursor of 0, and remembers no sequence   *)
(* that is not written yet.                                                *)
LEMMA ReaderKeepsProducer ==
    ASSUME IInv, NEW r \in Readers, ReaderAction(r)
    PROVE  ProducerInv' /\ RegistryInv'
<1>0. /\ ProducerTypes /\ RegistryTypes /\ ReaderTypes /\ ProducerInv /\ RegistryInv
      /\ OwnInv(r) /\ CursorInv(r)
  BY TypeSplit DEF IInv, ReaderInv
<1>1. UNCHANGED <<slotSeq, write_seq, pseq, gate_limit, ppc, scanAt>>
  BY ReaderFrame DEF ringVars, producerVars
<1>2. \A q \in Readers : seen'[q] < pseq
  <2>1. pseq \in Nat /\ pseq > 0
    BY <1>0, LosslessAssumption DEF ProducerTypes
  <2>2. CASE SkipOverwritten(r)
    BY <2>1, <2>2, <1>0 DEF SkipOverwritten, ReaderTypes, ProducerInv
  <2>3. CASE LoadSeq(r)
    <3>1. Index(cursor[r]) \in Slots
      BY <1>0, IndexInSlots, LosslessAssumption DEF ReaderTypes
    <3> QED BY <2>1, <2>3, <3>1, <1>0 DEF LoadSeq, ReaderTypes, ProducerInv
  <2>4. CASE RecheckSeq(r)
    <3>1. Index(cursor[r]) \in Slots
      BY <1>0, IndexInSlots, LosslessAssumption DEF ReaderTypes
    <3> QED BY <2>1, <2>4, <3>1, <1>0 DEF RecheckSeq, ReaderTypes, ProducerInv
  <2>5. CASE UNCHANGED seen
    BY <2>5, <1>0 DEF ProducerInv
  <2> QED BY <2>2, <2>3, <2>4, <2>5 DEF ReaderAction, ReaderStep, AttachStart, RegisterClaim,
             RegisterHide, RegisterPlace, RegisterActivate, UpdateCursor, Wake, DropRelease,
             Sleep, Seek, DropDeactivate, ReaderDies
<1>3. ProducerInv'
  BY <1>0, <1>1, <1>2 DEF ProducerInv, RescanWindow
<1>4. /\ \A i \in RegSlots : regCursor[i] >= 1 => regCursor'[i] >= 1
      /\ \A i \in RegSlots : regActive'[i] => regCursor'[i] >= 1
  <2>1. cursor[r] \in Nat /\ cursor[r] >= 1 /\ \A i \in RegSlots : regCursor[i] \in Nat
    BY <1>0, LosslessAssumption DEF ReaderTypes, RegistryTypes
  <2> USE <1>0, <2>1 DEF RegistryTypes, RegistryInv, registryVars
  <2>2. CASE RegisterHide(r) \/ RegisterPlace(r)
    BY <2>2 DEF RegisterHide, RegisterPlace
  <2>3. CASE RegisterActivate(r)
    BY <2>3 DEF RegisterActivate, CursorInv
  <2>4. CASE UpdateCursor(r)
    BY <2>4 DEF UpdateCursor
  <2>5. CASE DropDeactivate(r)
    BY <2>5 DEF DropDeactivate
  <2>6. CASE UNCHANGED <<regActive, regCursor>>
    BY <2>6
  <2> QED BY <2>2, <2>3, <2>4, <2>5, <2>6 DEF ReaderAction, ReaderStep, AttachStart,
             RegisterClaim, SkipOverwritten, RecheckSeq, Wake, DropRelease, LoadSeq, Sleep,
             Seek, ReaderDies
<1>5. RegistryInv'
  BY <1>0, <1>1, <1>4 DEF RegistryInv
<1> QED BY <1>3, <1>5

(* A reader's own steps.  Only attaching and seeking back move its         *)
(* registration below what the producer has heard; both start anew.        *)
LEMMA ReaderKeepsItself ==
    ASSUME IInv, NEW r \in Readers, ReaderAction(r)
    PROVE  ReaderInv(r)'
<1>0. /\ ProducerTypes /\ RegistryTypes /\ ReaderTypes /\ HistoryTypes
      /\ ProducerInv /\ OwnInv(r) /\ CursorInv(r) /\ CoverInv(r) /\ RescanInv(r)
  BY TypeSplit DEF IInv, ReaderInv
<1>1. UNCHANGED <<slotSeq, write_seq, pseq, gate_limit, ppc, scanAt, scanMin>>
  BY ReaderFrame DEF ringVars, producerVars
<1>2. /\ RescanWindow \in Nat /\ Capacity \in Nat /\ pseq \in Nat /\ gate_limit \in Nat
      /\ scanAt \in Nat /\ scanMin \in Nat /\ cursor[r] \in Nat /\ registeredAt[r] \in Nat
      /\ coveredAt[r] \in Nat /\ rslot[r] \in Nat /\ MaxReaders \in Nat
      /\ gate_limit <= pseq + RescanWindow
      /\ \A i \in RegSlots : regCursor[i] \in Nat
  BY <1>0, WindowIsNat, CapacityAssumption, LosslessAssumption
     DEF ProducerTypes, ReaderTypes, HistoryTypes, RegistryTypes, ProducerInv
<1>3. RescanWindow' = RescanWindow /\ (Scanning' <=> Scanning)
  BY <1>1 DEF RescanWindow, Scanning
<1> USE <1>0, <1>1 DEF ReaderTypes, HistoryTypes, RegistryTypes, ToPc, registryVars, historyVars
<1>r. ASSUME UNCHANGED <<alive, rslot, regPid, regActive, regCursor, covered, coveredAt, registeredAt>>,
             alive[r], Registered(r, rslot[r]), Registered(r, rslot[r])',
             cursor'[r] \in Nat, regCursor[rslot[r]] <= cursor[r],
             cursor[r] <= cursor'[r]
      PROVE  OwnInv(r)' /\ CoverInv(r)' /\ RescanInv(r)'
  <2>1. regPid[rslot[r]] = r /\ rslot[r] \in RegSlots /\ regActive[rslot[r]]
    BY <1>r DEF OwnInv, Registered
  <2>2. OwnInv(r)'
    BY <1>r, <2>1 DEF OwnInv, Registered
  <2>3. CoverInv(r)'
    BY <1>r, <2>1, <1>2, <1>3 DEF CoverInv
  <2>4. RescanInv(r)'
    BY <1>r, <2>1, <1>2, <1>3 DEF RescanInv
  <2> QED BY <2>2, <2>3, <2>4
<1>4. CASE AttachStart(r)
  <2>1. /\ rpc[r] = "detached" /\ rpc'[r] = "register" /\ rslot'[r] = 1
        /\ UNCHANGED <<alive, covered>>
    BY <1>4 DEF AttachStart
  <2> QED BY <2>1 DEF ReaderInv, OwnInv, CursorInv, CoverInv, RescanInv, Registered
<1>5. CASE RegisterClaim(r)
  <2>1. /\ alive[r] /\ rpc[r] = "register" /\ rslot[r] >= 1 /\ UNCHANGED <<alive, covered>>
        /\ ~covered[r]
    BY <1>5 DEF RegisterClaim, OwnInv, CoverInv, Registered
  <2>2. CASE rslot[r] > MaxReaders
    BY <1>5, <2>1, <2>2 DEF RegisterClaim, ReaderInv, OwnInv, CursorInv, CoverInv, RescanInv,
                            Registered
  <2>3. CASE ~(rslot[r] > MaxReaders) /\ Free(rslot[r])
    <3>1. rslot[r] \in RegSlots
      BY <2>1, <2>3, <1>2 DEF RegSlots
    <3> QED BY <1>5, <2>1, <2>3, <3>1 DEF RegisterClaim, ReaderInv, OwnInv, CursorInv, CoverInv,
                                          RescanInv, Registered
  <2>4. CASE ~(rslot[r] > MaxReaders) /\ ~Free(rslot[r])
    BY <1>5, <2>1, <2>4, <1>2 DEF RegisterClaim, ReaderInv, OwnInv, CursorInv, CoverInv,
                                  RescanInv, Registered
  <2> QED BY <2>2, <2>3, <2>4
<1>6. CASE RegisterHide(r) \/ RegisterPlace(r)
  <2>1. /\ alive[r] /\ rpc[r] \in {"hide", "place"} /\ rslot[r] \in RegSlots /\ ~covered[r]
        /\ regPid[rslot[r]] = r
        /\ UNCHANGED <<alive, covered, rslot, regPid, cursor>>
        /\ \/ rpc'[r] = "place"
           \/ rpc'[r] = "activate" /\ regCursor'[rslot[r]] = cursor[r]
    BY <1>6 DEF RegisterHide, RegisterPlace, OwnInv, CoverInv, Registered
  <2> QED BY <2>1 DEF ReaderInv, OwnInv, CursorInv, CoverInv, RescanInv, Registered
<1>7. CASE RegisterActivate(r)
  <2>1. /\ alive[r] /\ rpc[r] = "activate" /\ rpc'[r] = "recheck" /\ rslot[r] \in RegSlots
        /\ ~covered[r] /\ regPid[rslot[r]] = r /\ regActive'[rslot[r]]
        /\ regCursor[rslot[r]] = cursor[r] /\ registeredAt'[r] = pseq
        /\ UNCHANGED <<alive, covered, rslot, regPid, regCursor, cursor>>
    BY <1>7 DEF RegisterActivate, OwnInv, CoverInv, CursorInv, Registered
  <2>2. OwnInv(r)' /\ CursorInv(r)' /\ CoverInv(r)'
    BY <2>1 DEF OwnInv, CursorInv, CoverInv
  <2>3. RescanInv(r)'
    BY <2>1, <1>2, <1>3 DEF RescanInv
  <2> QED BY <2>2, <2>3 DEF ReaderInv
<1>8. CASE SkipOverwritten(r)
  <2>1. /\ alive[r] /\ rpc[r] \in {"recheck", "overwritten", "overwritten_batch"}
        /\ UNCHANGED <<alive, rslot, regPid, regActive, regCursor, covered, coveredAt, registeredAt>>
        /\ rpc'[r] \in {"update", "update_batch", "idle"}
        /\ rpc'[r] = "idle" => cursor' = cursor /\ rpc[r] # "overwritten_batch"
    BY <1>8 DEF SkipOverwritten
  <2>2. cursor'[r] \in Nat /\ cursor[r] <= cursor'[r]
    <3>1. Max2(write_seq, seen[r]) \in Nat
      BY LosslessAssumption DEF Max2, ProducerTypes
    <3>2. OldestRetained(Max2(write_seq, seen[r])) \in Nat
      BY <3>1, OldestRetainedBounds
    <3> QED BY <1>8, <3>2, <1>2 DEF SkipOverwritten
  <2>3. /\ regCursor[rslot[r]] <= cursor[r] /\ rslot[r] \in RegSlots
        /\ rpc[r] # "overwritten_batch" => regCursor[rslot[r]] = cursor[r]
    BY <2>1, <1>2 DEF CursorInv, OwnInv
  <2>4. Registered(r, rslot[r]) /\ Registered(r, rslot[r])'
    BY <2>1 DEF Registered
  <2>5. OwnInv(r)' /\ CoverInv(r)' /\ RescanInv(r)'
    BY <2>1, <2>2, <2>3, <2>4, <1>r
  <2>6. CursorInv(r)'
    BY <2>1, <2>2, <2>3, <1>2 DEF CursorInv
  <2> QED BY <2>5, <2>6 DEF ReaderInv
<1>9. CASE LoadSeq(r)
  <2>1. /\ alive[r] /\ rpc[r] \in {"idle", "got"}
        /\ UNCHANGED <<alive, rslot, regPid, regActive, regCursor, covered, coveredAt,
                       registeredAt, cursor>>
        /\ rpc[r] = "idle" => rpc'[r] \in {"copy", "idle", "overwritten"}
        /\ rpc[r] = "got" => rpc'[r] \in {"copy_batch", "update", "overwritten_batch"}
    BY <1>9 DEF LoadSeq
  <2>2. /\ regCursor[rslot[r]] <= cursor[r] /\ rslot[r] \in RegSlots
        /\ rpc[r] = "idle" => regCursor[rslot[r]] = cursor[r]
    BY <2>1, <1>2 DEF CursorInv, OwnInv
  <2>3. Registered(r, rslot[r]) /\ Registered(r, rslot[r])'
    BY <2>1 DEF Registered
  <2>4. OwnInv(r)' /\ CoverInv(r)' /\ RescanInv(r)'
    BY <2>1, <2>2, <2>3, <1>2, <1>r
  <2>5. CursorInv(r)'
    BY <2>1, <2>2 DEF CursorInv
  <2> QED BY <2>4, <2>5 DEF ReaderInv
<1>10. CASE RecheckSeq(r)
  <2>1. /\ alive[r] /\ rpc[r] \in {"copy", "copy_batch"}
        /\ UNCHANGED <<alive, rslot, regPid, regActive, regCursor, covered, coveredAt, registeredAt>>
        /\ \/ cursor'[r] = cursor[r] + 1 /\ rpc'[r] = "got"
           \/ cursor'[r] = cursor[r] /\ rpc'[r] \in {"overwritten", "overwritten_batch"}
        /\ rpc'[r] = "overwritten" => rpc[r] = "copy"
    BY <1>10 DEF RecheckSeq
  <2>2. /\ regCursor[rslot[r]] <= cursor[r] /\ rslot[r] \in RegSlots
        /\ rpc[r] = "copy" => regCursor[rslot[r]] = cursor[r]
        /\ regCursor[rslot[r]] \in Nat
    BY <2>1, <1>2 DEF CursorInv, OwnInv
  <2>3. Registered(r, rslot[r]) /\ Registered(r, rslot[r])'
    BY <2>1 DEF Registered
  <2>4. OwnInv(r)' /\ CoverInv(r)' /\ RescanInv(r)'
    BY <2>1, <2>2, <2>3, <1>2, <1>r
  <2>5. CursorInv(r)'
    BY <2>1, <2>2, <1>2 DEF CursorInv
  <2> QED BY <2>4, <2>5 DEF ReaderInv
<1>11. CASE UpdateCursor(r)
  <2>1. /\ alive[r] /\ rpc[r] \in {"got", "update", "update_batch"}
        /\ rslot[r] \in RegSlots /\ regPid[rslot[r]] = r /\ regActive[rslot[r]]
        /\ Registered(r, rslot[r])
    BY <1>11 DEF UpdateCursor, OwnInv, Registered
  <2>2. /\ regCursor'[rslot[r]] = cursor[r] /\ rpc'[r] \in {"got", "idle"}
        /\ UNCHANGED <<alive, rslot, regPid, regActive, covered, coveredAt, cursor>>
        /\ registeredAt'[r] = IF regCursor[rslot[r]] > cursor[r] THEN pseq ELSE registeredAt[r]
    BY <1>11, <2>1 DEF UpdateCursor
  <2>3. OwnInv(r)' /\ CursorInv(r)'
    BY <2>1, <2>2, <1>2 DEF OwnInv, CursorInv, Registered
  <2>4. CoverInv(r)'
    BY <2>1, <2>2, <1>2, <1>3 DEF CoverInv, Registered
  <2>5. RescanInv(r)'
    <3>1. CASE regCursor[rslot[r]] > cursor[r]
      BY <3>1, <2>1, <2>2, <1>2, <1>3 DEF RescanInv
    <3>2. CASE regCursor[rslot[r]] <= cursor[r]
      BY <3>2, <2>1, <2>2, <1>2, <1>3 DEF RescanInv
    <3> QED BY <3>1, <3>2, <2>1, <1>2
  <2> QED BY <2>3, <2>4, <2>5 DEF ReaderInv
<1>12. CASE Sleep(r) \/ Wake(r)
  <2>1. /\ alive[r] /\ rpc[r] \in {"idle", "asleep"} /\ rpc'[r] \in {"idle", "asleep"}
        /\ UNCHANGED <<alive, rslot, regPid, regActive, regCursor, covered, coveredAt,
                       registeredAt, cursor>>
    BY <1>12 DEF Sleep, Wake
  <2>2. regCursor[rslot[r]] = cursor[r]
    BY <2>1 DEF CursorInv
  <2>3. Registered(r, rslot[r]) /\ Registered(r, rslot[r])'
    BY <2>1 DEF Registered
  <2>4. OwnInv(r)' /\ CoverInv(r)' /\ RescanInv(r)'
    BY <2>1, <2>2, <2>3, <1>2, <1>r
  <2>5. CursorInv(r)'
    BY <2>1, <2>2 DEF CursorInv
  <2> QED BY <2>4, <2>5 DEF ReaderInv
<1>13. ASSUME NEW seq \in 1..MaxSeq, Seek(r, seq) PROVE ReaderInv(r)'
  <2> DEFINE target == Max2(seq, OldestRetained(write_seq))
  <2>1. target \in Nat
    BY OldestRetainedBounds, LosslessAssumption DEF ProducerTypes, Max2
  <2> HIDE DEF target
  <2>2. /\ alive[r] /\ rpc[r] = "idle" /\ rpc'[r] = "update" /\ cursor'[r] = target
        /\ covered'[r] <=> covered[r] /\ target >= cursor[r]
        /\ UNCHANGED <<alive, rslot, regPid, regActive, regCursor, coveredAt, registeredAt>>
    BY <1>13 DEF Seek, target
  <2>3. /\ regCursor[rslot[r]] = cursor[r] /\ rslot[r] \in RegSlots /\ regPid[rslot[r]] = r
        /\ regActive[rslot[r]] /\ Registered(r, rslot[r]) /\ Registered(r, rslot[r])'
    BY <2>2 DEF CursorInv, OwnInv, Registered
  <2>4. OwnInv(r)' /\ CursorInv(r)'
    BY <2>2, <2>3 DEF OwnInv, CursorInv
  <2>5. CoverInv(r)'
    BY <2>1, <2>2, <2>3, <1>2, <1>3 DEF CoverInv
  <2>6. RescanInv(r)'
    BY <2>1, <2>2, <2>3, <1>2, <1>3 DEF RescanInv
  <2> QED BY <2>4, <2>5, <2>6 DEF ReaderInv
<1>14. CASE DropDeactivate(r)
  <2>1. /\ alive[r] /\ rpc[r] = "idle" /\ rpc'[r] = "dropping" /\ ~covered'[r]
        /\ UNCHANGED <<alive, rslot, regPid>>
    BY <1>14 DEF DropDeactivate
  <2> QED BY <2>1 DEF ReaderInv, OwnInv, CursorInv, CoverInv, RescanInv, Registered
<1>15. CASE DropRelease(r)
  <2>1. /\ rpc[r] = "dropping" /\ rpc'[r] = "left" /\ ~covered'[r]
    BY <1>15 DEF DropRelease, CoverInv, Registered
  <2> QED BY <2>1 DEF ReaderInv, OwnInv, CursorInv, CoverInv, RescanInv, Registered
<1>16. CASE ReaderDies(r)
  <2>1. ~alive'[r] /\ ~covered'[r] /\ rpc' = rpc /\ rslot' = rslot
    BY <1>16 DEF ReaderDies
  <2> QED BY <2>1 DEF ReaderInv, OwnInv, CursorInv, CoverInv, RescanInv
<1> QED BY <1>4, <1>5, <1>6, <1>7, <1>8, <1>9, <1>10, <1>11, <1>12, <1>13, <1>14, <1>15, <1>16
        DEF ReaderAction, ReaderStep

-----------------------------------------------------------------------------
(* The theorems *)

(* The invariant holds of a new ring.                                      *)
LEMMA InitInv == Init => IInv
<1> SUFFICES ASSUME Init PROVE IInv
  OBVIOUS
<1> USE LosslessAssumption, CapacityAssumption DEF Init
<1>1. ProducerTypes
  BY DEF ProducerTypes, ProducerPcs
<1>2. RegistryTypes /\ ReaderTypes /\ HistoryTypes
  BY DEF RegistryTypes, ReaderTypes, HistoryTypes, ReaderPcs
<1>3. ProducerInv
  BY WindowIsNat DEF ProducerInv
<1>4. RegistryInv
  BY DEF RegistryInv
<1>5. \A r \in Readers : ReaderInv(r)
  BY DEF ReaderInv, OwnInv, CursorInv, CoverInv, RescanInv, Registered
<1> QED BY <1>1, <1>2, <1>3, <1>4, <1>5, TypeSplit DEF IInv

(* `ringfire prune` takes slots from the dead only.                        *)
LEMMA PruneKeepsInv ==
    ASSUME IInv, NEW i \in RegSlots, CmdPrune(i)
    PROVE  IInv'
<1>0. /\ ProducerTypes /\ RegistryTypes /\ ReaderTypes /\ HistoryTypes
      /\ ProducerInv /\ RegistryInv /\ \A r \in Readers : ReaderInv(r)
  BY TypeSplit DEF IInv
<1>1. /\ Dead(i) /\ regPid' = [regPid EXCEPT ![i] = NoPid]
      /\ UNCHANGED <<ringVars, regActive, regCursor, producerVars, readerVars, historyVars>>
  BY DEF CmdPrune
<1> USE <1>0, <1>1 DEF ringVars, producerVars, readerVars, historyVars
<1>2. (ProducerTypes /\ ReaderTypes /\ HistoryTypes)'
  BY DEF ProducerTypes, ReaderTypes, HistoryTypes
<1>3. RegistryTypes'
  BY DEF RegistryTypes
<1>4. ProducerInv' /\ RegistryInv'
  BY DEF ProducerInv, RegistryInv, RescanWindow
<1>5. ASSUME NEW r \in Readers PROVE ReaderInv(r)'
  <2>1. alive[r] /\ rpc[r] \notin {"detached", "register", "left"} =>
            rslot[r] \in RegSlots /\ regPid'[rslot[r]] = r
    BY LosslessAssumption DEF ReaderInv, OwnInv, Dead, RegistryTypes
  <2>2. OwnInv(r)' /\ CursorInv(r)'
    BY <2>1 DEF ReaderInv, OwnInv, CursorInv, Registered
  <2>3. CoverInv(r)' /\ RescanInv(r)'
    BY DEF ReaderInv, CoverInv, RescanInv, Registered, Scanning, RescanWindow
  <2> QED BY <2>2, <2>3 DEF ReaderInv
<1>6. TypeOK'
  BY <1>2, <1>3, TypeSplit, PTL
<1> QED BY <1>4, <1>5, <1>6 DEF IInv

(* The invariant is inductive.                                             *)
LEMMA NextKeepsInv == IInv /\ [Next]_vars => IInv'
<1> SUFFICES ASSUME IInv, [Next]_vars PROVE IInv'
  OBVIOUS
<1>0. ProducerTypes /\ RegistryTypes /\ ReaderTypes /\ HistoryTypes
  BY TypeSplit DEF IInv
<1>1. CASE ProducerAction
  <2>1. ReaderTypes'
    BY <1>0, <1>1, ProducerFrame DEF ReaderTypes, readerVars
  <2>2. HistoryTypes'
    <3>1. UNCHANGED registeredAt
      BY <1>0, <1>1, ProducerFrame
    <3>2. CASE ScanCursor
      <4>1. pseq \in 0..(MaxSeq + 1)
        BY <1>0, LosslessAssumption DEF ProducerTypes
      <4>2. covered' \in [Readers -> BOOLEAN]
        BY <1>0, <3>2 DEF HistoryTypes, ScanCursor
      <4>3. coveredAt' \in [Readers -> 0..(MaxSeq + 1)]
        BY <1>0, <3>2, <4>1 DEF HistoryTypes, ScanCursor
      <4> QED BY <1>0, <3>1, <4>2, <4>3 DEF HistoryTypes
    <3>3. CASE ~ScanCursor
      <4>1. UNCHANGED <<covered, coveredAt>>
        BY <1>1, <3>3 DEF ProducerAction, ProducerStep, StartItem, ScanSlot, FinishRefresh,
                          WaitRound, TryPrune, MarkWriting, PublishSlot, PublishProgress,
                          historyVars
      <4> QED BY <1>0, <3>1, <4>1 DEF HistoryTypes
    <3> QED BY <3>2, <3>3
  <2>3. TypeOK'
    BY <1>1, <2>1, <2>2, ProducerKeepsItself, ProducerKeepsRegistry, TypeSplit, PTL
  <2> QED BY <1>1, <2>3, ProducerKeepsItself, ProducerKeepsRegistry, ProducerKeepsReaders
          DEF IInv
<1>2. ASSUME NEW r \in Readers, ReaderAction(r) PROVE IInv'
  <2>1. ProducerTypes'
    BY <1>0, <1>2, ReaderFrame DEF ProducerTypes, ringVars, producerVars
  <2>2. TypeOK'
    BY <1>2, <2>1, ReaderKeepsTypes, TypeSplit, PTL
  <2>3. ASSUME NEW q \in Readers PROVE ReaderInv(q)'
    BY <1>2, ReaderKeepsItself, ReaderSparesOthers
  <2> QED BY <1>2, <2>2, <2>3, ReaderKeepsProducer DEF IInv
<1>3. CASE UNCHANGED vars
  <2> USE <1>3 DEF vars, ringVars, registryVars, producerVars, readerVars, historyVars
  <2>1. TypeOK'
    BY DEF IInv, TypeOK
  <2>2. ProducerInv' /\ RegistryInv'
    BY DEF IInv, ProducerInv, RegistryInv, RescanWindow
  <2>3. ASSUME NEW r \in Readers PROVE ReaderInv(r)'
    <3>1. OwnInv(r)' /\ CursorInv(r)'
      BY DEF IInv, ReaderInv, OwnInv, CursorInv, Registered
    <3>2. CoverInv(r)' /\ RescanInv(r)'
      BY DEF IInv, ReaderInv, CoverInv, RescanInv, Registered, Scanning, RescanWindow
    <3> QED BY <3>1, <3>2 DEF ReaderInv
  <2> QED BY <2>1, <2>2, <2>3 DEF IInv
<1> QED BY <1>1, <1>2, <1>3, PruneKeepsInv, NextSplit

(* The invariant holds in every reachable state of the lossless ring.      *)
THEOREM Invariance == Spec => []IInv
BY InitInv, NextKeepsInv, PTL DEF Spec

(* Slots, registry and program counters stay in range.                     *)
THEOREM TypeCorrect == Spec => []TypeOK
<1>1. IInv => TypeOK
  BY DEF IInv
<1> QED BY <1>1, Invariance, PTL

(* The gate that refresh_gate caches is as good as a scan: push overwrites *)
(* no message that an observed reader has yet to read.                     *)
THEOREM GateProtects == Spec => []BackpressureProtects
<1>1. IInv => BackpressureProtects
  <2> SUFFICES ASSUME IInv, NEW r \in Readers, covered[r], ppc \in {"mark", "copy"}
               PROVE  pseq < cursor[r] + Capacity
    BY DEF BackpressureProtects
  <2>1. pseq < gate_limit /\ gate_limit <= cursor[r] + Capacity
    BY DEF IInv, ProducerInv, ReaderInv, CoverInv, Scanning
  <2>2. pseq \in Nat /\ gate_limit \in Nat /\ cursor[r] \in Nat /\ Capacity \in Nat
    BY CapacityAssumption, LosslessAssumption DEF IInv, TypeOK
  <2> QED BY <2>1, <2>2
<1> QED BY <1>1, Invariance, PTL

(* min_cursor observes a registration after at most half a ring of pushes. *)
THEOREM RegistrationsAreSeen == Spec => []RescanWithinHalfRing
<1>1. IInv => RescanWithinHalfRing
  BY DEF IInv, ReaderInv, RescanInv, RescanWithinHalfRing
<1> QED BY <1>1, Invariance, PTL

(* register, drop and the prunes give a registry slot to one live reader.  *)
THEOREM SlotsHaveOneOwner == Spec => []OneOwner
<1>1. IInv => OneOwner
  BY DEF IInv, ReaderInv, OwnInv, OneOwner, Registered
<1> QED BY <1>1, Invariance, PTL

(* An observed reader's next_item passes over nothing that was still there *)
(* when it was observed.                                                   *)
THEOREM DeliveryIsLossless == Spec => LosslessDelivery
<1> DEFINE Kept == \A r \in Readers :
                       covered[r] /\ PassesOver(r) => cursor'[r] + Capacity <= coveredAt[r]
<1>1. ASSUME IInv, [Next]_vars PROVE [Kept]_vars
  <2>1. ASSUME Next, NEW r \in Readers, covered[r], PassesOver(r)
        PROVE  cursor'[r] + Capacity <= coveredAt[r]
    <3>0. ProducerTypes /\ RegistryTypes /\ ReaderTypes /\ HistoryTypes /\ CoverInv(r)
      BY <1>1, TypeSplit DEF IInv, ReaderInv
    <3>1. /\ write_seq \in Nat /\ seen[r] \in Nat /\ pseq \in Nat /\ coveredAt[r] \in Nat
          /\ cursor[r] \in Nat /\ cursor[r] >= 1 /\ Capacity \in Nat
          /\ write_seq < pseq /\ seen[r] < pseq
      BY <1>1, <3>0, LosslessAssumption, CapacityAssumption
         DEF ProducerTypes, ReaderTypes, HistoryTypes, IInv, ProducerInv
    <3>2. rpc[r] \in {"overwritten", "overwritten_batch"} /\ cursor'[r] > cursor[r]
      BY <2>1 DEF PassesOver
    <3>3. cursor'[r] # cursor[r]
      BY <3>1, <3>2
    <3>4. SkipOverwritten(r)
      <4>1. CASE ProducerAction
        BY <4>1, <3>0, <3>3, ProducerFrame DEF readerVars
      <4>2. CASE \E i \in RegSlots : CmdPrune(i)
        BY <4>2, <3>3 DEF CmdPrune, readerVars
      <4>3. ASSUME NEW q \in Readers, ReaderAction(q) PROVE SkipOverwritten(r)
        <5>1. q = r
          BY <4>3, <3>0, <3>3, OtherLocals
        <5> QED BY <4>3, <5>1, <3>2, <3>3 DEF ReaderAction, ReaderStep, AttachStart,
                   RegisterClaim, RegisterHide, RegisterPlace, RegisterActivate, RecheckSeq,
                   UpdateCursor, Wake, DropRelease, LoadSeq, Sleep, Seek, DropDeactivate,
                   ReaderDies
      <4> QED BY <2>1, <4>1, <4>2, <4>3, NextSplit
    <3> DEFINE w == Max2(write_seq, seen[r])
    <3>5. w \in Nat /\ w < pseq
      BY <3>1 DEF Max2
    <3>6. cursor'[r] = OldestRetained(w)
      BY <3>0, <3>3, <3>4 DEF SkipOverwritten, ReaderTypes
    <3> HIDE DEF w
    <3>7. /\ OldestRetained(w) \in Nat
          /\ OldestRetained(w) > 1 => OldestRetained(w) + Capacity = w + 1
      BY <3>5, OldestRetainedBounds
    <3>8. OldestRetained(w) + Capacity = w + 1 /\ OldestRetained(w) > cursor[r]
      BY <3>1, <3>2, <3>6, <3>7
    <3>9. pseq <= coveredAt[r] \/ pseq <= cursor[r] + Capacity
      BY <2>1, <3>0 DEF CoverInv
    <3> QED BY <3>1, <3>5, <3>6, <3>7, <3>8, <3>9
  <2> QED BY <1>1, <2>1
<1>2. IInv /\ [Next]_vars => [Kept]_vars
  BY <1>1
<1> QED BY <1>2, Invariance, PTL DEF Spec, LosslessDelivery

=============================================================================
