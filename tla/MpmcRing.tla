------------------------------ MODULE MpmcRing ------------------------------
(***************************************************************************)
(* The multi-producer ring of mpmc.rs with its two kinds of readers: the   *)
(* queue consumers, which compete for tickets, and the broadcast readers   *)
(* of spmc.rs, which follow the sequence on their own.                     *)
(*                                                                         *)
(* A producer claims a ticket, waits for the previous lap of its slot and  *)
(* owns the slot by a compare-exchange of the sequence word to             *)
(* SLOT_WRITING.  It gives up waiting after a deadline: it takes over a    *)
(* slot left at an older lap, and drops its message when the slot stays    *)
(* mid-write.  The deadline may pass at any time.                          *)
(*                                                                         *)
(* A message's payload is its ticket in every word.  A queue consumer      *)
(* claims a ticket of its own from read_seq and keeps it as `pending`      *)
(* until the ticket's message is read or lost.                             *)
(***************************************************************************)
EXTENDS RingSlots, FiniteSets

CONSTANTS
    Producers, Consumers, Watchers,  \* producers, queue and broadcast readers
    Mortal,         \* bound: the producers and consumers that may die
    Words,          \* the machine words of a payload
    MaxSeq,         \* bound: tickets that are claimed
    SLOT_WRITING    \* u64::MAX

ASSUME MpmcAssumption ==
    /\ MaxSeq \in Nat
    /\ SLOT_WRITING \in Nat /\ SLOT_WRITING > MaxSeq + 1

VARIABLES
    slotSeq, slotData,              \* the slots
    claim_seq, read_seq, write_seq, \* the header
    \* producers
    ppc,        \* where it is in push
    ticket,     \* push's local seq
    cur,        \* push's local cur
    stalled,    \* push's local stalled
    pwords,     \* words not copied into the slot yet
    \* queue consumers
    cpc,        \* where it is in try_recv
    pending,    \* MpmcQueueConsumer.pending, 0 for None
    readAt,     \* try_recv's local read_seq
    floor,      \* try_recv's local floor
    rwords, buf, \* words not copied out yet, and the copy
    \* broadcast readers
    wpc, cursor, seen,
    \* history
    log,        \* tickets whose message was published
    taken,      \* tickets delivered to a queue consumer
    lost,       \* tickets queue consumers counted in dropped_count
    item        \* last ticket and payload each queue consumer was given

slotVars == <<slotSeq, slotData>>
headerVars == <<claim_seq, read_seq, write_seq>>
producerVars == <<ppc, ticket, cur, stalled, pwords>>
consumerVars == <<cpc, pending, readAt, floor, rwords, buf>>
watcherVars == <<wpc, cursor, seen>>
queueHistory == <<taken, lost, item>>
vars == <<slotVars, headerVars, producerVars, consumerVars, watcherVars, log, queueHistory>>

Seqs == 1..MaxSeq
Monus(a, b) == IF a >= b THEN a - b ELSE 0
NoWords == [w \in Words |-> 0]

Init ==
    /\ slotSeq = [i \in Slots |-> 0]
    /\ slotData = [i \in Slots |-> NoWords]
    /\ claim_seq = 1 /\ read_seq = 1 /\ write_seq = 0
    /\ ppc = [p \in Producers |-> "idle"]
    /\ ticket = [p \in Producers |-> 0]
    /\ cur = [p \in Producers |-> 0]
    /\ stalled = [p \in Producers |-> FALSE]
    /\ pwords = [p \in Producers |-> {}]
    /\ cpc = [c \in Consumers |-> "idle"]
    /\ pending = [c \in Consumers |-> 0]
    /\ readAt = [c \in Consumers |-> 0]
    /\ floor = [c \in Consumers |-> 0]
    /\ rwords = [c \in Consumers |-> {}]
    /\ buf = [c \in Consumers |-> NoWords]
    /\ wpc = [v \in Watchers |-> "idle"]
    /\ cursor = [v \in Watchers |-> 1]
    /\ seen = [v \in Watchers |-> 0]
    /\ log = {} /\ taken = {} /\ lost = {}
    /\ item = [c \in Consumers |-> [seq |-> 0, data |-> NoWords]]

-----------------------------------------------------------------------------
(* Producers *)

(* push: the ticket is claimed.                                            *)
Claim(p) ==
    /\ ppc[p] = "idle"
    /\ claim_seq <= MaxSeq
    /\ ticket' = [ticket EXCEPT ![p] = claim_seq]
    /\ claim_seq' = claim_seq + 1
    /\ ppc' = [ppc EXCEPT ![p] = "load"]
    /\ UNCHANGED <<slotVars, read_seq, write_seq, cur, stalled, pwords, consumerVars,
                   watcherVars, log, queueHistory>>

(* push returns, with or without having published.                         *)
Return(p) ==
    /\ ppc' = [ppc EXCEPT ![p] = "idle"]
    /\ ticket' = [ticket EXCEPT ![p] = 0]
    /\ stalled' = [stalled EXCEPT ![p] = FALSE]

(* The slot may be taken: the previous lap is published, or the deadline   *)
(* has passed and nobody is writing.  Mutants: a slot that is mid-write is *)
(* taken over too; an older lap is never taken over.                       *)
TakesOverWriter(p, s) == s = Monus(ticket[p], Capacity) \/ stalled[p]

NeverTakesOver(p, s) == s = Monus(ticket[p], Capacity)

MayTake(p, s) ==
    \/ s = Monus(ticket[p], Capacity)
    \/ stalled[p] /\ s # SLOT_WRITING

(* A later lap already owns the slot; the mutant does not look.            *)
NotObsolete(p, s) == FALSE

Obsolete(p, s) == s # SLOT_WRITING /\ s > ticket[p]

(* The deadline passes while the slot held s: the message is dropped, or   *)
(* the slot is taken over from now on.                                     *)
DeadlinePasses(p, s) ==
    IF s = SLOT_WRITING
    THEN Return(p)
    ELSE /\ stalled' = [stalled EXCEPT ![p] = TRUE]
         /\ ppc' = [ppc EXCEPT ![p] = "load"]
         /\ UNCHANGED ticket

(* push, one round of its loop: the load of the slot's sequence word.      *)
LoadSlot(p) ==
    LET s == slotSeq[Index(ticket[p])]
    IN  /\ ppc[p] = "load"
        /\ \/ /\ Obsolete(p, s)
              /\ Return(p)
              /\ UNCHANGED cur
           \/ /\ ~Obsolete(p, s) /\ MayTake(p, s)
              /\ cur' = [cur EXCEPT ![p] = s]
              /\ ppc' = [ppc EXCEPT ![p] = "cas"]
              /\ UNCHANGED <<ticket, stalled>>
           \/ /\ ~Obsolete(p, s) /\ ~MayTake(p, s)
              /\ DeadlinePasses(p, s)
              /\ UNCHANGED cur
        /\ UNCHANGED <<slotVars, headerVars, pwords, consumerVars, watcherVars, log,
                       queueHistory>>

(* push: the compare-exchange to SLOT_WRITING wins the slot or not.        *)
TakeSlot(p) ==
    LET i == Index(ticket[p])
    IN  /\ ppc[p] = "cas"
        /\ cur' = [cur EXCEPT ![p] = 0]
        /\ IF slotSeq[i] = cur[p]
           THEN /\ slotSeq' = [slotSeq EXCEPT ![i] = SLOT_WRITING]
                /\ pwords' = [pwords EXCEPT ![p] = Words]
                /\ ppc' = [ppc EXCEPT ![p] = "copy"]
                /\ UNCHANGED <<ticket, stalled>>
           ELSE /\ \/ DeadlinePasses(p, cur[p])
                   \/ /\ ppc' = [ppc EXCEPT ![p] = "load"]
                      /\ UNCHANGED <<ticket, stalled>>
                /\ UNCHANGED <<slotSeq, pwords>>
        /\ UNCHANGED <<slotData, headerVars, consumerVars, watcherVars, log, queueHistory>>

(* push: one word of the payload.                                          *)
CopyWordIn(p, w) ==
    /\ ppc[p] = "copy"
    /\ w \in pwords[p]
    /\ slotData' = [slotData EXCEPT ![Index(ticket[p])][w] = ticket[p]]
    /\ pwords' = [pwords EXCEPT ![p] = @ \ {w}]
    /\ UNCHANGED <<slotSeq, headerVars, ppc, ticket, cur, stalled, consumerVars,
                   watcherVars, log, queueHistory>>

(* push: the sequence word is stored.                                      *)
PublishSlot(p) ==
    /\ ppc[p] = "copy"
    /\ pwords[p] = {}
    /\ slotSeq' = [slotSeq EXCEPT ![Index(ticket[p])] = ticket[p]]
    /\ log' = log \cup {ticket[p]}
    /\ ppc' = [ppc EXCEPT ![p] = "raise"]
    /\ UNCHANGED <<slotData, headerVars, ticket, cur, stalled, pwords, consumerVars,
                   watcherVars, queueHistory>>

(* push: write_seq.fetch_max.                                              *)
RaiseWriteSeq(p) ==
    /\ ppc[p] = "raise"
    /\ write_seq' = Max2(write_seq, ticket[p])
    /\ Return(p)
    /\ UNCHANGED <<slotVars, claim_seq, read_seq, cur, pwords, consumerVars, watcherVars,
                   log, queueHistory>>

(* A producer process dies inside push, wherever it is.                    *)
ProducerDies(p) ==
    /\ p \in Mortal
    /\ ppc[p] \notin {"idle", "dead"}
    /\ ppc' = [ppc EXCEPT ![p] = "dead"]
    /\ UNCHANGED <<slotVars, headerVars, ticket, cur, stalled, pwords, consumerVars,
                   watcherVars, log, queueHistory>>

ProducerStep(p) ==
    \/ LoadSlot(p)
    \/ TakeSlot(p)
    \/ \E w \in Words : CopyWordIn(p, w)
    \/ PublishSlot(p)
    \/ RaiseWriteSeq(p)

-----------------------------------------------------------------------------
(* Queue consumers *)

CToPc(c, pc) == cpc' = [cpc EXCEPT ![c] = pc]

(* try_recv: a ticket kept from an earlier call is looked at first.        *)
TryRecv(c) ==
    /\ cpc[c] = "idle"
    /\ CToPc(c, IF pending[c] # 0 THEN "slot" ELSE "counters")
    /\ UNCHANGED <<slotVars, headerVars, producerVars, pending, readAt, floor, rwords, buf,
                   watcherVars, log, queueHistory>>

(* Ticket::Lost: the ticket is counted and try_recv goes on.               *)
Lose(c) ==
    /\ lost' = lost \cup {pending[c]}
    /\ pending' = [pending EXCEPT ![c] = 0]
    /\ CToPc(c, "counters")

(* read_ticket, first load of the sequence word.                           *)
TicketLoad(c) ==
    LET s1 == slotSeq[Index(pending[c])]
    IN  /\ cpc[c] = "slot"
        /\ \/ /\ s1 = pending[c]
              /\ CToPc(c, "copy")
              /\ rwords' = [rwords EXCEPT ![c] = Words]
              /\ UNCHANGED <<pending, lost>>
           \/ /\ s1 # SLOT_WRITING /\ s1 > pending[c]
              /\ Lose(c)
              /\ UNCHANGED rwords
           \/ /\ s1 = SLOT_WRITING \/ s1 < pending[c]
              /\ CToPc(c, "claims")
              /\ UNCHANGED <<pending, lost, rwords>>
        /\ UNCHANGED <<slotVars, headerVars, producerVars, readAt, floor, buf, watcherVars,
                       log, taken, item>>

(* The producers are a full lap past ticket t.  Mutant: the claims are not  *)
(* looked at.                                                              *)
LappedNever(t) == FALSE

Lapped(t) == claim_seq > t + Capacity

(* read_ticket: nothing published yet, so the producers' claims decide     *)
(* whether the ticket is lost or the call returns without an item.         *)
TicketClaims(c) ==
    /\ cpc[c] = "claims"
    /\ IF Lapped(pending[c])
       THEN Lose(c)
       ELSE CToPc(c, "idle") /\ UNCHANGED <<pending, lost>>
    /\ UNCHANGED <<slotVars, headerVars, producerVars, readAt, floor, rwords, buf,
                   watcherVars, log, taken, item>>

CopyWordOut(c, w) ==
    /\ cpc[c] = "copy"
    /\ w \in rwords[c]
    /\ buf' = [buf EXCEPT ![c][w] = slotData[Index(pending[c])][w]]
    /\ rwords' = [rwords EXCEPT ![c] = @ \ {w}]
    /\ UNCHANGED <<slotVars, headerVars, producerVars, cpc, pending, readAt, floor,
                   watcherVars, log, queueHistory>>

(* read_ticket, second load: the item is delivered, or lost.               *)
TicketRecheck(c) ==
    /\ cpc[c] = "copy"
    /\ rwords[c] = {}
    /\ IF slotSeq[Index(pending[c])] = pending[c]
       THEN /\ item' = [item EXCEPT ![c] = [seq |-> pending[c], data |-> buf[c]]]
            /\ taken' = taken \cup {pending[c]}
            /\ pending' = [pending EXCEPT ![c] = 0]
            /\ CToPc(c, "idle")
            /\ UNCHANGED lost
       ELSE Lose(c) /\ UNCHANGED <<item, taken>>
    /\ buf' = [buf EXCEPT ![c] = NoWords]
    /\ UNCHANGED <<slotVars, headerVars, producerVars, readAt, floor, rwords, watcherVars,
                   log>>

(* try_recv: the loads of read_seq and claim_seq.                          *)
LoadReadSeq(c) ==
    /\ cpc[c] = "counters"
    /\ readAt' = [readAt EXCEPT ![c] = read_seq]
    /\ CToPc(c, "claim_seq")
    /\ UNCHANGED <<slotVars, headerVars, producerVars, pending, floor, rwords, buf,
                   watcherVars, log, queueHistory>>

(* Nothing is claimed by a producer that a consumer has not taken.         *)
Empty(c) == readAt[c] >= claim_seq

LoadClaimSeq(c) ==
    /\ cpc[c] = "claim_seq"
    /\ IF Empty(c)
       THEN /\ CToPc(c, "idle")
            /\ readAt' = [readAt EXCEPT ![c] = 0]
            /\ UNCHANGED floor
       ELSE /\ CToPc(c, "next")
            /\ floor' = [floor EXCEPT ![c] = Monus(claim_seq, Capacity)]
            /\ UNCHANGED readAt
    /\ UNCHANGED <<slotVars, headerVars, producerVars, pending, rwords, buf, watcherVars,
                   log, queueHistory>>

(* The ticket counter is still what was loaded: the compare-exchange on    *)
(* read_seq wins.  The mutant stores without comparing.                    *)
NoCompare(c) == TRUE

Unclaimed(c) == read_seq = readAt[c]

(* try_recv: tickets that are gone are skipped in one step; else the next  *)
(* one is claimed.  Both are compare-exchanges on read_seq.                *)
ClaimTicket(c) ==
    /\ cpc[c] = "next"
    /\ readAt' = [readAt EXCEPT ![c] = 0]
    /\ floor' = [floor EXCEPT ![c] = 0]
    /\ \/ /\ Unclaimed(c) /\ readAt[c] < floor[c]
          /\ read_seq' = floor[c]
          /\ lost' = lost \cup readAt[c]..(floor[c] - 1)
          /\ CToPc(c, "counters")
          /\ UNCHANGED pending
       \/ /\ Unclaimed(c) /\ readAt[c] >= floor[c]
          /\ read_seq' = readAt[c] + 1
          /\ pending' = [pending EXCEPT ![c] = readAt[c]]
          /\ CToPc(c, "slot")
          /\ UNCHANGED lost
       \/ /\ ~Unclaimed(c)
          /\ CToPc(c, "counters")
          /\ UNCHANGED <<read_seq, lost, pending>>
    /\ UNCHANGED <<slotVars, claim_seq, write_seq, producerVars, rwords, buf, watcherVars,
                   log, taken, item>>

(* A queue consumer dies; the ticket it holds goes with it.                *)
ConsumerDies(c) ==
    /\ c \in Mortal
    /\ cpc[c] # "dead"
    /\ CToPc(c, "dead")
    /\ UNCHANGED <<slotVars, headerVars, producerVars, pending, readAt, floor, rwords, buf,
                   watcherVars, log, queueHistory>>

ConsumerStep(c) ==
    \/ TryRecv(c)
    \/ TicketLoad(c)
    \/ TicketClaims(c)
    \/ \E w \in Words : CopyWordOut(c, w)
    \/ TicketRecheck(c)
    \/ LoadReadSeq(c)
    \/ LoadClaimSeq(c)
    \/ ClaimTicket(c)

-----------------------------------------------------------------------------
(* Broadcast readers: spmc.rs next_item on a ring with FLAG_MODE_MPMC.     *)

WToPc(v, pc) == wpc' = [wpc EXCEPT ![v] = pc]

(* read_slot, both loads of the sequence word: SpmcRing shows what they    *)
(* are for, and the slot is its sequence word here.                        *)
WatchLoad(v) ==
    LET s1 == slotSeq[Index(cursor[v])]
    IN  /\ wpc[v] = "idle"
        /\ \/ /\ s1 = cursor[v]
              /\ WToPc(v, "copy")
              /\ UNCHANGED seen
           \/ /\ s1 = SLOT_WRITING \/ s1 < cursor[v]
              /\ WToPc(v, "pending")
              /\ UNCHANGED seen
           \/ /\ s1 # SLOT_WRITING /\ s1 > cursor[v]
              /\ WToPc(v, "overwritten")
              /\ seen' = [seen EXCEPT ![v] = s1]
        /\ UNCHANGED <<slotVars, headerVars, producerVars, consumerVars, cursor, log,
                       queueHistory>>

WatchRecheck(v) ==
    LET s2 == slotSeq[Index(cursor[v])]
    IN  /\ wpc[v] = "copy"
        /\ IF s2 = cursor[v]
           THEN /\ cursor' = [cursor EXCEPT ![v] = @ + 1]
                /\ WToPc(v, "idle")
                /\ UNCHANGED seen
           ELSE /\ WToPc(v, "overwritten")
                /\ seen' = [seen EXCEPT ![v] = IF s2 = SLOT_WRITING THEN 0 ELSE s2]
                /\ UNCHANGED cursor
        /\ UNCHANGED <<slotVars, headerVars, producerVars, consumerVars, log, queueHistory>>

(* next_item, Pending: once the writers are a full ring ahead the message  *)
(* is gone either way; the mutant never gives it up.                       *)
NeverAhead(v) == FALSE

RingAhead(v) == write_seq >= cursor[v] + Capacity

WatchPending(v) ==
    /\ wpc[v] = "pending"
    /\ WToPc(v, IF RingAhead(v) THEN "overwritten" ELSE "idle")
    /\ UNCHANGED <<slotVars, headerVars, producerVars, consumerVars, cursor, seen, log,
                   queueHistory>>

(* skip_overwritten.                                                       *)
WatchSkip(v) ==
    LET oldest == OldestRetained(Max2(write_seq, seen[v]))
    IN  /\ wpc[v] = "overwritten"
        /\ cursor' = [cursor EXCEPT ![v] = Max2(@, oldest)]
        /\ seen' = [seen EXCEPT ![v] = 0]
        /\ WToPc(v, "idle")
        /\ UNCHANGED <<slotVars, headerVars, producerVars, consumerVars, log, queueHistory>>

WatcherStep(v) == WatchLoad(v) \/ WatchRecheck(v) \/ WatchPending(v) \/ WatchSkip(v)

-----------------------------------------------------------------------------

Next ==
    \/ \E p \in Producers : Claim(p) \/ ProducerStep(p) \/ ProducerDies(p)
    \/ \E c \in Consumers : ConsumerStep(c) \/ ConsumerDies(c)
    \/ \E v \in Watchers : WatcherStep(v)

Spec == Init /\ [][Next]_vars

(* A producer inside push goes on unless it dies, its deadline passes some  *)
(* time, and readers keep polling.                                         *)
FairSpec ==
    /\ Spec
    /\ \A p \in Producers : WF_vars(ProducerStep(p))
    /\ \A c \in Consumers : WF_vars(ConsumerStep(c))
    /\ \A v \in Watchers : WF_vars(WatcherStep(v))

-----------------------------------------------------------------------------
(* Properties *)

Payloads == [Words -> 0..MaxSeq]

(* The state stays within the shapes of mpmc.rs; tickets are numbered from  *)
(* 1 and no ticket is beyond claim_seq.                                    *)
TypeOK ==
    /\ slotSeq \in [Slots -> 0..MaxSeq \cup {SLOT_WRITING}]
    /\ slotData \in [Slots -> Payloads]
    /\ claim_seq \in 1..(MaxSeq + 1)
    /\ read_seq \in 1..(MaxSeq + 1)
    /\ write_seq \in 0..MaxSeq
    /\ ppc \in [Producers -> {"idle", "load", "cas", "copy", "raise", "dead"}]
    /\ ticket \in [Producers -> 0..MaxSeq]
    /\ cur \in [Producers -> 0..MaxSeq \cup {SLOT_WRITING}]
    /\ stalled \in [Producers -> BOOLEAN]
    /\ pwords \in [Producers -> SUBSET Words]
    /\ cpc \in [Consumers -> {"idle", "slot", "claims", "copy", "counters", "claim_seq",
                              "next", "dead"}]
    /\ pending \in [Consumers -> 0..MaxSeq]
    /\ readAt \in [Consumers -> 0..(MaxSeq + 1)]
    /\ floor \in [Consumers -> 0..(MaxSeq + 1)]
    /\ rwords \in [Consumers -> SUBSET Words]
    /\ buf \in [Consumers -> Payloads]
    /\ wpc \in [Watchers -> {"idle", "copy", "pending", "overwritten"}]
    /\ cursor \in [Watchers -> 1..(MaxSeq + 1)]
    /\ seen \in [Watchers -> 0..MaxSeq]
    /\ log \in SUBSET Seqs
    /\ taken \in SUBSET Seqs
    /\ lost \in SUBSET Seqs
    /\ item \in [Consumers -> [seq : 0..MaxSeq, data : Payloads]]

(* Two producers a lap apart never mix their payloads: what a queue         *)
(* consumer is given is the message of its ticket, word for word.          *)
NoTornItem ==
    \A c \in Consumers : \A w \in Words : item[c].data[w] = item[c].seq

HeldBy(t) == {c \in Consumers : pending[c] = t}

(* Every ticket below read_seq is accounted for exactly once: delivered,    *)
(* counted as dropped, or held by one consumer.  It is dropped only when   *)
(* the producers have claimed the slot's next lap ("When producers run a   *)
(* full ring ahead of the queue consumers, the oldest unconsumed items are *)
(* dropped").                                                              *)
TicketAccounting ==
    \A t \in Seqs :
        IF t < read_seq
        THEN \/ t \in taken /\ t \notin lost /\ HeldBy(t) = {}
             \/ t \in lost /\ t \notin taken /\ HeldBy(t) = {} /\ claim_seq > t + Capacity
             \/ t \notin taken \cup lost /\ Cardinality(HeldBy(t)) = 1
        ELSE t \notin taken \cup lost /\ HeldBy(t) = {}

(* A slot never goes back to an older lap, whoever takes it over from whom. *)
LapsOnlyGrow ==
    [][\A t \in log' \ log : \A u \in log : Index(u) = Index(t) => u < t]_vars

(* A push returns, even when the producer of the previous lap is dead.      *)
PushReturns ==
    \A p \in Producers : ppc[p] = "load" ~> ppc[p] \in {"idle", "dead"}

(* The tickets that can be a full ring behind.                             *)
Lappable == 1..(MaxSeq - Capacity)

(* A queue consumer does not hang on a ticket that was overwritten or never *)
(* published: once the producers are a lap past it, it lets go.            *)
LappedTicketResolves ==
    \A c \in Consumers : \A t \in Lappable :
        pending[c] = t /\ claim_seq > t + Capacity ~> pending[c] # t \/ cpc[c] = "dead"

(* A broadcast reader crosses the holes that dead and stalled producers     *)
(* leave, once the ring is a lap ahead.                                    *)
WatcherMoves ==
    \A v \in Watchers : \A n \in Lappable :
        cursor[v] = n /\ write_seq >= n + Capacity ~> cursor[v] # n

=============================================================================
