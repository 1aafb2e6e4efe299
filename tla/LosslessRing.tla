---------------------------- MODULE LosslessRing ----------------------------
(***************************************************************************)
(* FlowControl::LosslessBackpressure: the producer of spmc.rs paced by the *)
(* reader registry of registry.rs.                                         *)
(*                                                                         *)
(* A reader attaching to the ring loads write_seq, picks its cursor,       *)
(* claims a registry slot by a compare-exchange on the slot's pid, stores  *)
(* its cursor there and checks once whether it was overtaken meanwhile.    *)
(* The producer does not look at the registry on every push: refresh_gate  *)
(* scans it, slot by slot, and caches gate_limit, the first sequence it    *)
(* may not write without scanning again.  A blocked producer publishes its *)
(* progress, rescans and, after a while, prunes the slots of dead readers. *)
(*                                                                         *)
(* SpmcRing shows that a slot read between two loads of its sequence word  *)
(* is intact, so a slot is its sequence word here.  Process ids are not    *)
(* reused: a reader is its own pid.                                        *)
(***************************************************************************)
EXTENDS RingSlots

CONSTANTS
    Readers,        \* reader processes; each attaches at most once
    NoPid,          \* pid 0 of a free registry slot
    MaxReaders,     \* slots of the reader registry
    MaxSeq,         \* bound: last sequence the producer writes
    SLOT_WRITING,   \* u64::MAX
    PruneAfter,     \* idle rounds of wait_for_headroom before it prunes (1000)
    PruneEvery,     \* refused try_push calls between two prunes (1024)
    MaxSeeks        \* bound: seeks of one reader

ASSUME LosslessAssumption ==
    /\ NoPid \notin Readers
    /\ MaxReaders \in Nat \ {0}
    /\ MaxSeq \in Nat
    /\ SLOT_WRITING \in Nat /\ SLOT_WRITING > MaxSeq + 1
    /\ PruneAfter \in Nat
    /\ PruneEvery \in Nat \ {0}
    /\ MaxSeeks \in Nat

VARIABLES
    slotSeq, write_seq,         \* the ring
    regPid, regActive, regCursor,  \* the registry slots
    \* the producer
    pseq,       \* RingProducer.seq
    gate_limit, \* RingProducer.gate_limit
    ppc,        \* where it is in push, push_batch, try_push
    caller,     \* who refreshes the gate: "push", "wait" or "try"
    scanAt,     \* min_cursor: the registry slot it looks at
    scanMin,    \* min_cursor: the minimum so far, 0 for None
    rounds,     \* wait_for_headroom's spins, capped at PruneAfter
    blocked,    \* RingProducer.blocked_polls modulo PruneEvery
    \* the readers
    alive,      \* the process exists
    rpc,        \* where it is in attach, recv_status, recv_batch, drop
    cursor, lapped,
    rslot,      \* registry slot it looks at, then owns
    seen,       \* SlotRead::Overwritten's sequence
    seeks,      \* how often it moved itself
    \* history
    covered,    \* the producer has observed this registration in a scan
    coveredAt,  \* pseq at that scan
    registeredAt \* pseq when the registration became active

ringVars == <<slotSeq, write_seq>>
registryVars == <<regPid, regActive, regCursor>>
producerVars == <<pseq, gate_limit, ppc, caller, scanAt, scanMin, rounds, blocked>>
readerVars == <<alive, rpc, cursor, lapped, rslot, seen, seeks>>
historyVars == <<covered, coveredAt, registeredAt>>
vars == <<ringVars, registryVars, producerVars, readerVars, historyVars>>

RegSlots == 1..MaxReaders
Min2(a, b) == IF a <= b THEN a ELSE b

(* How far ahead of a scan the producer may run without another one.       *)
RescanWindow == Max2(Capacity \div 2, 1)

Init ==
    /\ slotSeq = [i \in Slots |-> 0]
    /\ write_seq = 0
    /\ regPid = [i \in RegSlots |-> NoPid]
    /\ regActive = [i \in RegSlots |-> FALSE]
    /\ regCursor = [i \in RegSlots |-> 0]
    /\ pseq = 1
    /\ gate_limit = 0
    /\ ppc = "idle"
    /\ caller = "push"
    /\ scanAt = 0
    /\ scanMin = 0
    /\ rounds = 0
    /\ blocked = 0
    /\ alive = [r \in Readers |-> TRUE]
    /\ rpc = [r \in Readers |-> "detached"]
    /\ cursor = [r \in Readers |-> 1]
    /\ lapped = [r \in Readers |-> 0]
    /\ rslot = [r \in Readers |-> 0]
    /\ seen = [r \in Readers |-> 0]
    /\ seeks = [r \in Readers |-> 0]
    /\ covered = [r \in Readers |-> FALSE]
    /\ coveredAt = [r \in Readers |-> 0]
    /\ registeredAt = [r \in Readers |-> 0]

-----------------------------------------------------------------------------
(* Producer *)

(* push and push_batch check the cached gate before every item ("idle"     *)
(* starts a call, "next" goes on with a batch); so does try_push.          *)
StartItem(who) ==
    /\ \/ ppc = "idle"
       \/ ppc = "next" /\ who = "push"
    /\ pseq <= MaxSeq
    /\ IF pseq >= gate_limit
       THEN /\ ppc' = "scan"
            /\ caller' = who
            /\ scanAt' = 1
            /\ scanMin' = 0
       ELSE /\ ppc' = "mark"
            /\ UNCHANGED <<caller, scanAt, scanMin>>
    /\ UNCHANGED <<ringVars, registryVars, pseq, gate_limit, rounds, blocked,
                   readerVars, historyVars>>

(* min_cursor, one registry slot: the loads of active and pid.             *)
ScanSlot ==
    /\ ppc = "scan"
    /\ scanAt <= MaxReaders
    /\ IF regActive[scanAt] /\ regPid[scanAt] # NoPid
       THEN ppc' = "scan_cursor" /\ UNCHANGED scanAt
       ELSE scanAt' = scanAt + 1 /\ UNCHANGED ppc
    /\ UNCHANGED <<ringVars, registryVars, pseq, gate_limit, caller, scanMin, rounds,
                   blocked, readerVars, historyVars>>

(* Reader r is registered in slot i: its attach has activated the slot and  *)
(* its drop has not begun.                                                 *)
Registered(r, i) ==
    /\ rslot[r] = i
    /\ rpc[r] \notin {"detached", "register", "hide", "place", "activate", "dropping", "left"}

(* min_cursor: the load of cursor_seq.  A registration whose cursor is     *)
(* read is observed.                                                       *)
ScanCursor ==
    LET observed(r) == /\ Registered(r, scanAt) /\ alive[r] /\ ~covered[r]
                       /\ regCursor[scanAt] <= cursor[r]
    IN  /\ ppc = "scan_cursor"
        /\ scanMin' = IF scanMin = 0 THEN regCursor[scanAt]
                      ELSE Min2(scanMin, regCursor[scanAt])
        /\ scanAt' = scanAt + 1
        /\ ppc' = "scan"
        /\ covered' = [r \in Readers |-> covered[r] \/ observed(r)]
        /\ coveredAt' = [r \in Readers |-> IF observed(r) THEN pseq ELSE coveredAt[r]]
        /\ UNCHANGED <<ringVars, registryVars, pseq, gate_limit, caller, rounds, blocked,
                       readerVars, registeredAt>>

(* Mutants of NewLimit: the registry is not consulted; one slot too many;  *)
(* the registry is looked at once per lap only.                            *)
LimitWithoutReaders == pseq + RescanWindow

LimitOneTooHigh ==
    IF scanMin = 0 THEN pseq + RescanWindow
    ELSE Min2(scanMin + Capacity + 1, pseq + RescanWindow)

LimitOncePerLap ==
    IF scanMin = 0 THEN pseq + Capacity
    ELSE Min2(scanMin + Capacity, pseq + Capacity)

(* refresh_gate's new limit: a full ring past the slowest reader, and at    *)
(* most a window ahead so that later registrations are picked up.          *)
NewLimit ==
    IF scanMin = 0 THEN pseq + RescanWindow
    ELSE Min2(scanMin + Capacity, pseq + RescanWindow)

(* wait_for_headroom finds no room: what a batch wrote so far is published *)
(* before the producer waits.  The mutant leaves that out.                 *)
BlockSilently ==
    /\ caller = "push"
    /\ ppc' = "wait"
    /\ UNCHANGED <<write_seq, rounds, blocked>>

Block ==
    /\ caller = "push"
    /\ ppc' = "wait"
    /\ write_seq' = pseq - 1
    /\ UNCHANGED <<rounds, blocked>>

(* The end of refresh_gate, and what its caller does with the verdict:     *)
(* push blocks, the waiting loop goes round again, try_push gives up or    *)
(* prunes.                                                                 *)
FinishRefresh ==
    /\ ppc = "scan"
    /\ scanAt > MaxReaders
    /\ gate_limit' = NewLimit
    /\ IF pseq < NewLimit
       THEN /\ ppc' = "mark"
            /\ rounds' = 0
            /\ UNCHANGED <<write_seq, blocked>>
       ELSE \/ Block
            \/ /\ caller = "wait"
               /\ ppc' = "wait"
               /\ UNCHANGED <<write_seq, rounds, blocked>>
            \/ /\ caller = "try"
               /\ blocked' = (blocked + 1) % PruneEvery
               /\ ppc' = IF blocked' = 0 THEN "try_prune" ELSE "idle"
               /\ UNCHANGED <<write_seq, rounds>>
            \/ /\ caller = "try_again"
               /\ ppc' = "idle"
               /\ UNCHANGED <<write_seq, rounds, blocked>>
    /\ scanAt' = 0
    /\ scanMin' = 0
    /\ UNCHANGED <<slotSeq, registryVars, pseq, caller, readerVars, historyVars>>

Dead(i) == regPid[i] # NoPid /\ ~alive[regPid[i]]

(* prune_dead_readers: the pid of every dead owner is exchanged for 0; the *)
(* slot's active flag and cursor stay behind.                              *)
Prune == regPid' = [i \in RegSlots |-> IF Dead(i) THEN NoPid ELSE regPid[i]]

(* One round of wait_for_headroom's loop: spin or yield, later prune, then *)
(* refresh the gate.                                                       *)
WaitRound ==
    /\ ppc = "wait"
    /\ IF rounds < PruneAfter
       THEN rounds' = rounds + 1 /\ UNCHANGED regPid
       ELSE Prune /\ UNCHANGED rounds
    /\ ppc' = "scan"
    /\ caller' = "wait"
    /\ scanAt' = 1
    /\ UNCHANGED <<ringVars, regActive, regCursor, pseq, gate_limit, scanMin, blocked,
                   readerVars, historyVars>>

(* try_push's occasional prune: it scans again only if something was       *)
(* reclaimed, else the call returns BackpressureBufferFull.                *)
TryPrune ==
    /\ ppc = "try_prune"
    /\ Prune
    /\ IF \E i \in RegSlots : Dead(i)
       THEN ppc' = "scan" /\ caller' = "try_again" /\ scanAt' = 1
       ELSE ppc' = "idle" /\ UNCHANGED <<caller, scanAt>>
    /\ UNCHANGED <<ringVars, regActive, regCursor, pseq, gate_limit, scanMin, rounds,
                   blocked, readerVars, historyVars>>

(* write_slot, first and last store.  A push publishes the header after    *)
(* its item, a batch after its last.                                       *)
MarkWriting ==
    /\ ppc = "mark"
    /\ slotSeq' = [slotSeq EXCEPT ![Index(pseq)] = SLOT_WRITING]
    /\ ppc' = "copy"
    /\ UNCHANGED <<write_seq, registryVars, pseq, gate_limit, caller, scanAt, scanMin,
                   rounds, blocked, readerVars, historyVars>>

PublishSlot ==
    /\ ppc = "copy"
    /\ slotSeq' = [slotSeq EXCEPT ![Index(pseq)] = pseq]
    /\ pseq' = pseq + 1
    /\ \/ ppc' = "publish"
       \/ pseq < MaxSeq /\ ppc' = "next"
    /\ UNCHANGED <<write_seq, registryVars, gate_limit, caller, scanAt, scanMin, rounds,
                   blocked, readerVars, historyVars>>

PublishProgress ==
    /\ ppc = "publish"
    /\ write_seq' = pseq - 1
    /\ ppc' = "idle"
    /\ UNCHANGED <<slotSeq, registryVars, pseq, gate_limit, caller, scanAt, scanMin,
                   rounds, blocked, readerVars, historyVars>>

(* The steps inside a push that has begun.                                 *)
ProducerStep ==
    \/ ScanSlot \/ ScanCursor \/ FinishRefresh \/ WaitRound \/ TryPrune
    \/ MarkWriting \/ PublishSlot \/ PublishProgress
    \/ ppc = "next" /\ StartItem("push")

-----------------------------------------------------------------------------
(* Readers *)

ToPc(r, pc) == rpc' = [rpc EXCEPT ![r] = pc]

(* ConsumerStartMode::Latest: the newest message, or the first one of an   *)
(* empty ring.                                                             *)
Latest(w) == Max2(w, 1)

(* attach_with_options: one load of write_seq decides the start position.  *)
AttachStart(r) ==
    LET oldest == OldestRetained(write_seq)
    IN  /\ alive[r] /\ rpc[r] = "detached"
        /\ \/ /\ cursor' = [cursor EXCEPT ![r] = Latest(write_seq)]
              /\ UNCHANGED lapped
           \/ /\ cursor' = [cursor EXCEPT ![r] = write_seq + 1]
              /\ UNCHANGED lapped
           \/ \E seq \in 1..MaxSeq :
                 /\ cursor' = [cursor EXCEPT ![r] = Max2(seq, oldest)]
                 /\ lapped' = [lapped EXCEPT ![r] = Max2(seq, oldest) - seq]
        /\ ToPc(r, "register")
        /\ rslot' = [rslot EXCEPT ![r] = 1]
        /\ UNCHANGED <<ringVars, registryVars, producerVars, alive, seen, seeks, historyVars>>

(* register: a slot is free when it has no owner or a dead one.  The       *)
(* mutant goes by the active flag.                                         *)
FreeIfInactive(i) == ~regActive[i] \/ Dead(i)

Free(i) == regPid[i] = NoPid \/ Dead(i)

(* register: the compare-exchange on a free slot's pid wins; else the next *)
(* slot; a lossless attach fails when there is none.                       *)
RegisterClaim(r) ==
    /\ alive[r] /\ rpc[r] = "register"
    /\ IF rslot[r] > MaxReaders
       THEN ToPc(r, "left") /\ UNCHANGED <<regPid, rslot>>
       ELSE IF Free(rslot[r])
       THEN /\ regPid' = [regPid EXCEPT ![rslot[r]] = r]
            /\ ToPc(r, "hide")
            /\ UNCHANGED rslot
       ELSE rslot' = [rslot EXCEPT ![r] = @ + 1] /\ UNCHANGED <<regPid, rpc>>
    /\ UNCHANGED <<ringVars, regActive, regCursor, producerVars, alive, cursor, lapped,
                   seen, seeks, historyVars>>

(* register: the previous owner's active flag is hidden, the cursor stored *)
(* and the slot activated, in that order.                                  *)
RegisterHide(r) ==
    /\ alive[r] /\ rpc[r] = "hide"
    /\ regActive' = [regActive EXCEPT ![rslot[r]] = FALSE]
    /\ ToPc(r, "place")
    /\ UNCHANGED <<ringVars, regPid, regCursor, producerVars, alive, cursor, lapped,
                   rslot, seen, seeks, historyVars>>

RegisterPlace(r) ==
    /\ alive[r] /\ rpc[r] = "place"
    /\ regCursor' = [regCursor EXCEPT ![rslot[r]] = cursor[r]]
    /\ ToPc(r, "activate")
    /\ UNCHANGED <<ringVars, regPid, regActive, producerVars, alive, cursor, lapped,
                   rslot, seen, seeks, historyVars>>

RegisterActivate(r) ==
    /\ alive[r] /\ rpc[r] = "activate"
    /\ regActive' = [regActive EXCEPT ![rslot[r]] = TRUE]
    /\ ToPc(r, "recheck")
    /\ registeredAt' = [registeredAt EXCEPT ![r] = pseq]
    /\ UNCHANGED <<ringVars, regPid, regCursor, producerVars, alive, cursor, lapped,
                   rslot, seen, seeks, covered, coveredAt>>

(* skip_overwritten: after registering ("recheck", seen = 0) and when a    *)
(* slot turns out to be overwritten.  A skip is published to the registry; *)
(* inside a batch, next_item then tries its new slot.                      *)
SkipOverwritten(r) ==
    LET oldest == OldestRetained(Max2(write_seq, seen[r]))
        batch == rpc[r] = "overwritten_batch"
    IN  /\ alive[r] /\ rpc[r] \in {"recheck", "overwritten", "overwritten_batch"}
        /\ IF oldest > cursor[r]
           THEN /\ cursor' = [cursor EXCEPT ![r] = oldest]
                /\ lapped' = [lapped EXCEPT ![r] = @ + (oldest - cursor[r])]
                /\ ToPc(r, IF batch THEN "update_batch" ELSE "update")
           ELSE /\ ToPc(r, IF batch THEN "update" ELSE "idle")
                /\ UNCHANGED <<cursor, lapped>>
        /\ seen' = [seen EXCEPT ![r] = 0]
        /\ UNCHANGED <<ringVars, registryVars, producerVars, alive, rslot, seeks,
                       historyVars>>

(* read_slot, s1.  "idle" starts a receive; "got" is recv_batch, which has *)
(* items whose reading it has not published to the registry yet.           *)
LoadSeq(r) ==
    LET s1 == slotSeq[Index(cursor[r])]
    IN  /\ alive[r] /\ rpc[r] \in {"idle", "got"}
        /\ \/ /\ s1 = cursor[r]
              /\ ToPc(r, IF rpc[r] = "got" THEN "copy_batch" ELSE "copy")
              /\ UNCHANGED seen
           \/ /\ s1 = SLOT_WRITING \/ s1 < cursor[r]
              /\ ToPc(r, IF rpc[r] = "got" THEN "update" ELSE "idle")
              /\ UNCHANGED seen
           \/ /\ s1 # SLOT_WRITING /\ s1 > cursor[r]
              /\ ToPc(r, IF rpc[r] = "got" THEN "overwritten_batch" ELSE "overwritten")
              /\ seen' = [seen EXCEPT ![r] = s1]
        /\ UNCHANGED <<ringVars, registryVars, producerVars, alive, cursor, lapped, rslot,
                       seeks, historyVars>>

(* read_slot, s2: the item is taken, or the copy discarded.                *)
RecheckSeq(r) ==
    LET s2 == slotSeq[Index(cursor[r])]
    IN  /\ alive[r] /\ rpc[r] \in {"copy", "copy_batch"}
        /\ IF s2 = cursor[r]
           THEN /\ cursor' = [cursor EXCEPT ![r] = @ + 1]
                /\ ToPc(r, "got")
                /\ UNCHANGED seen
           ELSE /\ seen' = [seen EXCEPT ![r] = IF s2 = SLOT_WRITING THEN 0 ELSE s2]
                /\ ToPc(r, IF rpc[r] = "copy_batch" THEN "overwritten_batch"
                                                    ELSE "overwritten")
                /\ UNCHANGED cursor
        /\ UNCHANGED <<ringVars, registryVars, producerVars, alive, lapped, rslot,
                       seeks, historyVars>>

(* update_cursor: recv_status after its item, recv_batch at its end, and   *)
(* every skip or seek.  The producer may overwrite what is below the       *)
(* stored cursor as soon as it observes the store.                         *)
UpdateCursor(r) ==
    /\ alive[r] /\ rpc[r] \in {"got", "update", "update_batch"}
    /\ regCursor' = [regCursor EXCEPT ![rslot[r]] = cursor[r]]
    /\ registeredAt' = IF regCursor[rslot[r]] > cursor[r]
                       THEN [registeredAt EXCEPT ![r] = pseq] ELSE registeredAt
    /\ ToPc(r, IF rpc[r] = "update_batch" THEN "got" ELSE "idle")
    /\ UNCHANGED <<ringVars, regPid, regActive, producerVars, alive, cursor, lapped, rslot,
                   seen, seeks, covered, coveredAt>>

(* recv_blocking: nothing to read, so the reader sleeps until the header   *)
(* passes its cursor.  The timeout of FutexWait is left out: no progress   *)
(* may depend on it.                                                       *)
Sleep(r) ==
    LET s1 == slotSeq[Index(cursor[r])]
    IN  /\ alive[r] /\ rpc[r] = "idle"
        /\ s1 = SLOT_WRITING \/ s1 < cursor[r]
        /\ write_seq < cursor[r]
        /\ ToPc(r, "asleep")
        /\ UNCHANGED <<ringVars, registryVars, producerVars, alive, cursor, lapped, rslot,
                       seen, seeks, historyVars>>

Wake(r) ==
    /\ alive[r] /\ rpc[r] = "asleep"
    /\ write_seq >= cursor[r]
    /\ ToPc(r, "idle")
    /\ UNCHANGED <<ringVars, registryVars, producerVars, alive, cursor, lapped, rslot,
                   seen, seeks, historyVars>>

(* seek: a reader that moves back asks for messages the producer's cached  *)
(* gate does not protect; it has to be observed anew.                      *)
Seek(r, seq) ==
    LET target == Max2(seq, OldestRetained(write_seq))
    IN  /\ alive[r] /\ rpc[r] = "idle"
        /\ seeks[r] < MaxSeeks
        /\ seeks' = [seeks EXCEPT ![r] = @ + 1]
        /\ cursor' = [cursor EXCEPT ![r] = target]
        /\ lapped' = [lapped EXCEPT ![r] = @ + (target - seq)]
        /\ ToPc(r, "update")
        /\ covered' = [covered EXCEPT ![r] = @ /\ target >= cursor[r]]
        /\ UNCHANGED <<ringVars, registryVars, producerVars, alive, rslot, seen, coveredAt,
                       registeredAt>>

(* Drop for ReaderRegistration: deactivate the slot, then give it up if it *)
(* is still ours.                                                          *)
DropDeactivate(r) ==
    /\ alive[r] /\ rpc[r] = "idle"
    /\ regActive' = [regActive EXCEPT ![rslot[r]] = FALSE]
    /\ ToPc(r, "dropping")
    /\ covered' = [covered EXCEPT ![r] = FALSE]
    /\ UNCHANGED <<ringVars, regPid, regCursor, producerVars, alive, cursor, lapped, rslot,
                   seen, seeks, coveredAt, registeredAt>>

DropRelease(r) ==
    /\ alive[r] /\ rpc[r] = "dropping"
    /\ regPid' = IF regPid[rslot[r]] = r THEN [regPid EXCEPT ![rslot[r]] = NoPid]
                 ELSE regPid
    /\ ToPc(r, "left")
    /\ UNCHANGED <<ringVars, regActive, regCursor, producerVars, alive, cursor, lapped,
                   rslot, seen, seeks, historyVars>>

(* A reader process dies anywhere; its registration stays behind.          *)
ReaderDies(r) ==
    /\ alive[r] /\ rpc[r] # "left"
    /\ alive' = [alive EXCEPT ![r] = FALSE]
    /\ covered' = [covered EXCEPT ![r] = FALSE]
    /\ UNCHANGED <<ringVars, registryVars, producerVars, rpc, cursor, lapped, rslot, seen,
                   seeks, coveredAt, registeredAt>>

(* `ringfire prune`, a process of its own, at registry slot i: the pid of a  *)
(* dead owner is exchanged for 0.                                          *)
CmdPrune(i) ==
    /\ Dead(i)
    /\ regPid' = [regPid EXCEPT ![i] = NoPid]
    /\ UNCHANGED <<ringVars, regActive, regCursor, producerVars, readerVars, historyVars>>

(* The steps of calls that a live reader carries through.                  *)
ReaderStep(r) ==
    \/ RegisterClaim(r) \/ RegisterHide(r) \/ RegisterPlace(r) \/ RegisterActivate(r)
    \/ SkipOverwritten(r) \/ RecheckSeq(r) \/ UpdateCursor(r) \/ Wake(r) \/ DropRelease(r)
    \/ LoadSeq(r)

-----------------------------------------------------------------------------

Next ==
    \/ ProducerStep
    \/ ppc = "idle" /\ (StartItem("push") \/ StartItem("try"))
    \/ \E r \in Readers :
          \/ AttachStart(r)
          \/ ReaderStep(r)
          \/ Sleep(r)
          \/ \E seq \in 1..MaxSeq : Seek(r, seq)
          \/ DropDeactivate(r)
          \/ ReaderDies(r)
    \/ \E i \in RegSlots : CmdPrune(i)

Spec == Init /\ [][Next]_vars

-----------------------------------------------------------------------------
(* Properties *)

ProducerPcs == {"idle", "next", "scan", "scan_cursor", "wait", "try_prune", "mark", "copy",
                "publish"}
ReaderPcs == {"detached", "register", "hide", "place", "activate", "recheck", "idle", "copy",
              "copy_batch", "overwritten", "overwritten_batch", "got", "update",
              "update_batch", "asleep", "dropping", "left"}

(* Slots, registry and program counters of push, min_cursor, register and   *)
(* recv_batch stay in range; in particular no cursor is ever 0.            *)
TypeOK ==
    /\ slotSeq \in [Slots -> 0..MaxSeq \cup {SLOT_WRITING}]
    /\ write_seq \in 0..MaxSeq
    /\ regPid \in [RegSlots -> Readers \cup {NoPid}]
    /\ regActive \in [RegSlots -> BOOLEAN]
    /\ regCursor \in [RegSlots -> 0..(MaxSeq + 1)]
    /\ pseq \in 1..(MaxSeq + 1)
    /\ gate_limit \in Nat
    /\ ppc \in ProducerPcs
    /\ caller \in {"push", "wait", "try", "try_again"}
    /\ scanAt \in 0..(MaxReaders + 1)
    /\ scanMin \in 0..(MaxSeq + 1)
    /\ rounds \in 0..PruneAfter
    /\ blocked \in 0..(PruneEvery - 1)
    /\ alive \in [Readers -> BOOLEAN]
    /\ rpc \in [Readers -> ReaderPcs]
    /\ cursor \in [Readers -> 1..(MaxSeq + 1)]
    /\ lapped \in [Readers -> Nat]
    /\ rslot \in [Readers -> 0..(MaxReaders + 1)]
    /\ seen \in [Readers -> 0..MaxSeq]
    /\ seeks \in [Readers -> 0..MaxSeeks]
    /\ covered \in [Readers -> BOOLEAN]
    /\ coveredAt \in [Readers -> 0..(MaxSeq + 1)]
    /\ registeredAt \in [Readers -> 0..(MaxSeq + 1)]

(* The cached gate_limit is as good as a scan: while the producer writes a  *)
(* slot, no reader it has observed still wants the message it overwrites.  *)
BackpressureProtects ==
    \A r \in Readers :
        covered[r] /\ ppc \in {"mark", "copy"} => pseq < cursor[r] + Capacity

(* A registered reader is missed by the producer for at most half a ring of *)
(* messages (refresh_gate caps gate_limit for this; README "the producer   *)
(* rescans at least every half ring").                                     *)
RescanWithinHalfRing ==
    \A r \in Readers :
        /\ alive[r] /\ Registered(r, rslot[r]) /\ ~covered[r]
        /\ regCursor[rslot[r]] <= cursor[r]
        => pseq <= registeredAt[r] + RescanWindow

(* Reader r's next_item passes over overwritten messages.                   *)
PassesOver(r) == rpc[r] \in {"overwritten", "overwritten_batch"} /\ cursor'[r] > cursor[r]

(* Lossless delivery: once the producer has observed a reader, next_item    *)
(* passes over nothing but messages overwritten before that scan.          *)
LosslessDelivery ==
    [][\A r \in Readers :
          covered[r] /\ PassesOver(r) => cursor'[r] + Capacity <= coveredAt[r]]_vars

(* Two readers never share a registry slot: a slot reclaimed from a dead    *)
(* process, by prune_dead_readers or by another register, has one owner.   *)
OneOwner ==
    \A r \in Readers :
        alive[r] /\ Registered(r, rslot[r]) =>
            regPid[rslot[r]] = r /\ regActive[rslot[r]]

(* A producer blocked in wait_for_headroom gets going again: the readers it *)
(* waits for read on, leave or die, a dead one is pruned, and a sleeping   *)
(* one has been shown everything published so far.                         *)
BlockedProducerResumes == ppc = "wait" ~> ppc = "mark"

(* Live readers go on receiving, and a call that has begun goes on.         *)
Fairness ==
    /\ \A r \in Readers : WF_vars(ReaderStep(r))
    /\ WF_vars(ProducerStep)

FairSpec == Spec /\ Fairness

=============================================================================
