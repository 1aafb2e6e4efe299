-------------------------- MODULE MpmcRing_proofs ---------------------------
(***************************************************************************)
(* Proofs about the multi-producer ring and its queue consumers, for every *)
(* capacity, number of producers, consumers and broadcast readers, payload *)
(* size and bound on the tickets.                                          *)
(***************************************************************************)
EXTENDS MpmcRing, FiniteSetTheorems, TLAPS

(* Tickets are claimed once, below claim_seq; one that is still being      *)
(* pushed is not published.                                                *)
TicketInv ==
    /\ \A p \in Producers :
          /\ ticket[p] < claim_seq
          /\ ppc[p] \in {"load", "cas", "copy", "raise"} => ticket[p] # 0
          /\ ppc[p] \in {"load", "cas", "copy"} => ticket[p] \notin log
    /\ \A p, q \in Producers : ticket[p] = ticket[q] /\ ticket[p] # 0 => p = q
    /\ \A t \in log : t < claim_seq

(* A compare-exchange expects an older lap, and never a slot mid-write.    *)
CasInv ==
    \A p \in Producers :
        ppc[p] = "cas" => cur[p] # SLOT_WRITING /\ cur[p] < ticket[p]

(* Producer p, alive or dead, has taken slot i for a later lap than any    *)
(* that was published there, and no other producer copies into it.         *)
Owns(p, i) ==
    /\ ppc[p] \in {"copy", "dead"} /\ ticket[p] # 0 /\ Index(ticket[p]) = i
    /\ \A t \in log : Index(t) = i => t < ticket[p]
    /\ \A q \in Producers : ppc[q] = "copy" /\ Index(ticket[q]) = i => q = p

(* A slot holds the latest message published in it, whole, or is owned by  *)
(* one producer.                                                           *)
SlotInv ==
    \A i \in Slots :
        /\ slotSeq[i] # SLOT_WRITING =>
              /\ slotSeq[i] # 0 => slotSeq[i] \in log /\ Index(slotSeq[i]) = i
              /\ \A t \in log : Index(t) = i => t <= slotSeq[i]
              /\ \A w \in Words : slotData[i][w] = slotSeq[i]
        /\ slotSeq[i] = SLOT_WRITING => \E p \in Producers : Owns(p, i)

(* A producer that copies has marked its slot, and the words copied so far *)
(* are its own.                                                            *)
CopyInInv ==
    \A p \in Producers : ppc[p] = "copy" =>
        LET i == Index(ticket[p]) IN
        /\ slotSeq[i] = SLOT_WRITING
        /\ \A w \in Words \ pwords[p] : slotData[i][w] = ticket[p]

(* The ring, which only producers write.                                   *)
RingInv == TicketInv /\ CasInv /\ SlotInv /\ CopyInInv

(* A consumer copies a published message; as long as the slot has not left *)
(* it, the words copied so far are the message's.                          *)
CopyOutInv ==
    \A c \in Consumers : cpc[c] = "copy" =>
        /\ pending[c] \in log
        /\ slotSeq[Index(pending[c])] = pending[c] =>
              \A w \in Words \ rwords[c] : buf[c][w] = pending[c]

(* A consumer holds a ticket while it looks at a slot and none while it    *)
(* looks for one; what it has loaded of the counters is still a bound.     *)
CounterInv ==
    \A c \in Consumers :
        /\ cpc[c] \in {"slot", "claims", "copy"} => pending[c] # 0
        /\ cpc[c] \in {"counters", "claim_seq", "next"} => pending[c] = 0
        /\ cpc[c] \in {"claim_seq", "next"} => readAt[c] > 0
        /\ cpc[c] = "next" => /\ readAt[c] < claim_seq
                              /\ floor[c] <= Monus(claim_seq, Capacity)

(* A ticket below read_seq is delivered, lost or held, and no two of them; *)
(* a lost one is a full ring behind the producers.                         *)
QueueInv ==
    /\ read_seq <= claim_seq
    /\ \A c \in Consumers : pending[c] # 0 =>
          pending[c] < read_seq /\ pending[c] \notin taken \cup lost
    /\ \A c, d \in Consumers : pending[c] = pending[d] /\ pending[c] # 0 => c = d
    /\ \A t \in taken : t < read_seq /\ t \notin lost
    /\ \A t \in lost : t < read_seq /\ claim_seq > t + Capacity
    /\ \A t \in Seqs : t < read_seq =>
          t \in taken \/ t \in lost \/ \E c \in Consumers : pending[c] = t

ReadInv == CopyOutInv /\ CounterInv /\ QueueInv /\ NoTornItem

(* The inductive invariant of the ring.                                    *)
IInv == TypeOK /\ RingInv /\ ReadInv

-----------------------------------------------------------------------------
(* Arithmetic of slots *)

(* Every ticket addresses a slot.                                          *)
LEMMA IndexInSlots == \A n \in Nat : Index(n) \in Slots
BY CapacityAssumption DEF Index, Slots

(* Two different tickets that share a slot are at least a ring apart.      *)
LEMMA SameSlot ==
    ASSUME NEW m \in Nat, NEW n \in Nat, m < n, Index(m) = Index(n)
    PROVE  m + Capacity <= n
<1> DEFINE q(x) == x \div Capacity
<1>1. /\ Capacity \in Nat \ {0} /\ q(m) \in Int /\ q(n) \in Int
      /\ m = Capacity * q(m) + Index(m) /\ n = Capacity * q(n) + Index(n)
      /\ Index(m) \in Int
  BY CapacityAssumption DEF Index
<1> HIDE DEF q
<1>2. n - m = Capacity * (q(n) - q(m))
  BY <1>1
<1>3. q(n) - q(m) >= 1
  <2>1. Capacity * (q(n) - q(m)) > 0
    BY <1>2
  <2> QED BY <2>1, <1>1
<1>4. Capacity * (q(n) - q(m)) >= Capacity
  BY <1>1, <1>3
<1> QED BY <1>1, <1>2, <1>4

(* A marked slot is not one that carries a ticket.                         *)
LEMMA WritingIsNoSeq == \A n \in 0..(MaxSeq + 1) : n # SLOT_WRITING
BY MpmcAssumption

(* Nothing copied yet is a payload, too.                                   *)
LEMMA NoWordsPayload == NoWords \in Payloads
BY MpmcAssumption DEF NoWords, Payloads

(* Subtraction that stops at 0.                                            *)
LEMMA MonusFacts ==
    \A n \in Nat : Monus(n, Capacity) \in 0..n /\ (n >= 1 => Monus(n, Capacity) < n)
BY CapacityAssumption DEF Monus

(* It grows with its first argument.                                       *)
LEMMA MonusMonotone ==
    ASSUME NEW m \in Nat, NEW n \in Nat, m <= n
    PROVE  Monus(m, Capacity) <= Monus(n, Capacity)
BY CapacityAssumption DEF Monus

-----------------------------------------------------------------------------
(* Who writes what *)

ProducerAction(p) == Claim(p) \/ ProducerStep(p) \/ ProducerDies(p)

ConsumerAction(c) == ConsumerStep(c) \/ ConsumerDies(c)

(* A step by the kind of process that takes it.                            *)
LEMMA NextSplit ==
    Next <=> \/ \E p \in Producers : ProducerAction(p)
             \/ \E c \in Consumers : ConsumerAction(c)
             \/ \E v \in Watchers : WatcherStep(v)
BY DEF Next, ProducerAction, ConsumerAction

(* A producer leaves the readers alone, ...                                *)
LEMMA ProducerFrame ==
    ASSUME NEW p \in Producers, ProducerAction(p)
    PROVE  UNCHANGED <<read_seq, consumerVars, watcherVars, queueHistory>>
BY DEF ProducerAction, ProducerStep, Claim, LoadSlot, TakeSlot, CopyWordIn, PublishSlot,
       RaiseWriteSeq, ProducerDies, headerVars

(* ... a queue consumer the ring, ...                                      *)
LEMMA ConsumerFrame ==
    ASSUME NEW c \in Consumers, ConsumerAction(c)
    PROVE  UNCHANGED <<slotVars, claim_seq, write_seq, producerVars, watcherVars, log>>
BY DEF ConsumerAction, ConsumerStep, TryRecv, TicketLoad, TicketClaims, CopyWordOut,
       TicketRecheck, LoadReadSeq, LoadClaimSeq, ClaimTicket, ConsumerDies, headerVars

(* ... and a broadcast reader everybody.                                   *)
LEMMA WatcherFrame ==
    ASSUME NEW v \in Watchers, WatcherStep(v)
    PROVE  UNCHANGED <<slotVars, headerVars, producerVars, consumerVars, log, queueHistory>>
BY DEF WatcherStep, WatchLoad, WatchRecheck, WatchPending, WatchSkip

-----------------------------------------------------------------------------
(* Types *)

ProducerTypes ==
    /\ slotSeq \in [Slots -> 0..MaxSeq \cup {SLOT_WRITING}]
    /\ slotData \in [Slots -> Payloads]
    /\ claim_seq \in 1..(MaxSeq + 1)
    /\ write_seq \in 0..MaxSeq
    /\ ppc \in [Producers -> {"idle", "load", "cas", "copy", "raise", "dead"}]
    /\ ticket \in [Producers -> 0..MaxSeq]
    /\ cur \in [Producers -> 0..MaxSeq \cup {SLOT_WRITING}]
    /\ stalled \in [Producers -> BOOLEAN]
    /\ pwords \in [Producers -> SUBSET Words]
    /\ log \in SUBSET Seqs

ConsumerTypes ==
    /\ read_seq \in 1..(MaxSeq + 1)
    /\ cpc \in [Consumers -> {"idle", "slot", "claims", "copy", "counters", "claim_seq",
                              "next", "dead"}]
    /\ pending \in [Consumers -> 0..MaxSeq]
    /\ readAt \in [Consumers -> 0..(MaxSeq + 1)]
    /\ floor \in [Consumers -> 0..(MaxSeq + 1)]
    /\ rwords \in [Consumers -> SUBSET Words]
    /\ buf \in [Consumers -> Payloads]
    /\ taken \in SUBSET Seqs
    /\ lost \in SUBSET Seqs
    /\ item \in [Consumers -> [seq : 0..MaxSeq, data : Payloads]]

WatcherTypes ==
    /\ wpc \in [Watchers -> {"idle", "copy", "pending", "overwritten"}]
    /\ cursor \in [Watchers -> 1..(MaxSeq + 1)]
    /\ seen \in [Watchers -> 0..MaxSeq]

(* TypeOK by who writes the variables.                                     *)
LEMMA TypeSplit == TypeOK <=> ProducerTypes /\ ConsumerTypes /\ WatcherTypes
BY DEF TypeOK, ProducerTypes, ConsumerTypes, WatcherTypes

(* A step of a producer keeps its variables in range.                      *)
LEMMA ProducerKeepsTypes ==
    ASSUME ProducerTypes, TicketInv, NEW p \in Producers, ProducerAction(p)
    PROVE  ProducerTypes'
<1> USE MpmcAssumption, CapacityAssumption DEF ProducerTypes, slotVars, headerVars
<1>0. ticket[p] \in 0..MaxSeq /\ Index(ticket[p]) \in Slots
  BY IndexInSlots
<1> DEFINE PushTypes == /\ ppc \in [Producers -> {"idle", "load", "cas", "copy", "raise", "dead"}]
                        /\ ticket \in [Producers -> 0..MaxSeq]
                        /\ stalled \in [Producers -> BOOLEAN]
<1>r. ASSUME Return(p) PROVE PushTypes'
  BY <1>r DEF Return
<1>d. ASSUME NEW s, DeadlinePasses(p, s) PROVE PushTypes'
  BY <1>d, <1>r DEF DeadlinePasses
<1>1. CASE Claim(p)
  BY <1>1 DEF Claim
<1>2. CASE LoadSlot(p)
  <2>1. slotSeq[Index(ticket[p])] \in 0..MaxSeq \cup {SLOT_WRITING}
    BY <1>0
  <2>2. PushTypes' /\ cur' \in [Producers -> 0..MaxSeq \cup {SLOT_WRITING}]
    BY <1>2, <2>1, <1>r, <1>d DEF LoadSlot
  <2> QED BY <1>2, <2>2 DEF LoadSlot
<1>3. CASE TakeSlot(p)
  <2>1. cur' \in [Producers -> 0..MaxSeq \cup {SLOT_WRITING}]
    BY <1>3 DEF TakeSlot
  <2>2. CASE slotSeq[Index(ticket[p])] = cur[p]
    BY <1>3, <1>0, <2>1, <2>2 DEF TakeSlot
  <2>3. CASE slotSeq[Index(ticket[p])] # cur[p]
    <3>1. PushTypes'
      BY <1>3, <2>3, <1>d DEF TakeSlot
    <3> QED BY <1>3, <2>1, <2>3, <3>1 DEF TakeSlot
  <2> QED BY <2>2, <2>3
<1>4. ASSUME NEW w \in Words, CopyWordIn(p, w) PROVE ProducerTypes'
  <2>1. slotData[Index(ticket[p])] \in Payloads
    BY <1>0
  <2>2. [slotData[Index(ticket[p])] EXCEPT ![w] = ticket[p]] \in Payloads
    BY <1>0, <2>1 DEF Payloads
  <2>3. slotData' \in [Slots -> Payloads]
    BY <1>4, <1>0, <2>2 DEF CopyWordIn
  <2> QED BY <1>4, <2>3 DEF CopyWordIn
<1>5. CASE PublishSlot(p)
  <2>1. ticket[p] \in Seqs
    BY <1>0, <1>5 DEF PublishSlot, TicketInv, Seqs
  <2> QED BY <1>5, <1>0, <2>1 DEF PublishSlot
<1>6. CASE RaiseWriteSeq(p)
  BY <1>6, <1>0 DEF RaiseWriteSeq, Return, Max2
<1>7. CASE ProducerDies(p)
  BY <1>7 DEF ProducerDies
<1> QED BY <1>1, <1>2, <1>3, <1>4, <1>5, <1>6, <1>7 DEF ProducerAction, ProducerStep

(* A step of a broadcast reader keeps its variables in range.              *)
LEMMA WatcherKeepsTypes ==
    ASSUME ProducerTypes, WatcherTypes, NEW v \in Watchers, WatcherStep(v)
    PROVE  WatcherTypes'
<1> USE MpmcAssumption, CapacityAssumption DEF ProducerTypes, WatcherTypes, WToPc
<1>0. slotSeq[Index(cursor[v])] \in 0..MaxSeq \cup {SLOT_WRITING}
  BY IndexInSlots
<1>1. CASE WatchLoad(v)
  BY <1>0, <1>1 DEF WatchLoad
<1>2. CASE WatchRecheck(v)
  BY <1>0, <1>2 DEF WatchRecheck
<1>3. CASE WatchPending(v)
  BY <1>3 DEF WatchPending
<1>4. CASE WatchSkip(v)
  <2>1. Max2(cursor[v], OldestRetained(Max2(write_seq, seen[v]))) \in 1..(MaxSeq + 1)
    BY DEF Max2, OldestRetained
  <2> QED BY <1>4, <2>1 DEF WatchSkip
<1> QED BY <1>1, <1>2, <1>3, <1>4 DEF WatcherStep

-----------------------------------------------------------------------------
(* The ring *)

(* The tickets: only Claim hands one out, only PublishSlot publishes one.  *)
LEMMA ProducerKeepsTickets ==
    ASSUME ProducerTypes, RingInv, NEW p \in Producers, ProducerAction(p)
    PROVE  TicketInv'
<1> USE MpmcAssumption DEF ProducerTypes, RingInv, TicketInv, Seqs, headerVars
<1>0. claim_seq \in Nat /\ (\A q \in Producers : ticket[q] \in Nat) /\ \A t \in log : t \in Nat
  OBVIOUS
<1>r. ASSUME Return(p), UNCHANGED <<claim_seq, log>> PROVE TicketInv'
  BY <1>r, <1>0 DEF Return
<1>s. ASSUME UNCHANGED <<ticket, claim_seq, log>>,
             \A q \in Producers : ppc'[q] = ppc[q] \/ ppc[q] \in {"load", "cas"} \/ ppc'[q] = "dead"
      PROVE  TicketInv'
  BY <1>s
<1>1. CASE Claim(p)
  <2>1. /\ ticket'[p] = claim_seq /\ claim_seq' = claim_seq + 1 /\ log' = log
        /\ \A q \in Producers \ {p} : ticket'[q] = ticket[q] /\ ppc'[q] = ppc[q]
    BY <1>1 DEF Claim
  <2> QED BY <2>1, <1>0
<1>2. CASE LoadSlot(p)
  BY <1>2, <1>r, <1>s DEF LoadSlot, DeadlinePasses
<1>3. CASE TakeSlot(p)
  BY <1>3, <1>r, <1>s DEF TakeSlot, DeadlinePasses
<1>4. CASE \E w \in Words : CopyWordIn(p, w)
  BY <1>4, <1>s DEF CopyWordIn
<1>5. CASE PublishSlot(p)
  <2>1. /\ ppc[p] = "copy" /\ ticket' = ticket /\ claim_seq' = claim_seq
        /\ log' = log \cup {ticket[p]} /\ ppc'[p] = "raise"
        /\ \A q \in Producers \ {p} : ppc'[q] = ppc[q]
    BY <1>5 DEF PublishSlot
  <2> QED BY <2>1, <1>0
<1>6. CASE RaiseWriteSeq(p)
  BY <1>6, <1>r DEF RaiseWriteSeq
<1>7. CASE ProducerDies(p)
  BY <1>7, <1>s DEF ProducerDies
<1> QED BY <1>1, <1>2, <1>3, <1>4, <1>5, <1>6, <1>7 DEF ProducerAction, ProducerStep

(* What push loads before it decides to take the slot is an older lap.     *)
LEMMA ProducerKeepsCas ==
    ASSUME ProducerTypes, RingInv, NEW p \in Producers, ProducerAction(p)
    PROVE  CasInv'
<1> USE DEF ProducerTypes, RingInv, CasInv
<1>s. ASSUME \A q \in Producers : ppc'[q] = "cas" =>
                 ppc[q] = "cas" /\ cur'[q] = cur[q] /\ ticket'[q] = ticket[q]
      PROVE  CasInv'
  BY <1>s
<1>1. CASE Claim(p)
  BY <1>1, <1>s DEF Claim
<1>2. CASE LoadSlot(p)
  <2> DEFINE s == slotSeq[Index(ticket[p])]
  <2>1. CASE Return(p) /\ UNCHANGED cur
    BY <1>2, <2>1, <1>s DEF Return
  <2>2. CASE DeadlinePasses(p, s) /\ UNCHANGED cur
    BY <1>2, <2>2, <1>s DEF DeadlinePasses, Return
  <2>3. CASE /\ ~Obsolete(p, s) /\ MayTake(p, s)
             /\ cur' = [cur EXCEPT ![p] = s]
             /\ ppc' = [ppc EXCEPT ![p] = "cas"]
             /\ UNCHANGED <<ticket, stalled>>
    <3>1. ppc[p] = "load" /\ ticket[p] \in 1..MaxSeq /\ ticket[p] \notin log
      BY <1>2 DEF LoadSlot, TicketInv
    <3>2. Index(ticket[p]) \in Slots /\ s \in 0..MaxSeq \cup {SLOT_WRITING}
      BY <3>1, IndexInSlots, MpmcAssumption
    <3>3. s # SLOT_WRITING
      <4>1. Monus(ticket[p], Capacity) \in 0..MaxSeq
        BY <3>1, MonusFacts, MpmcAssumption
      <4> QED BY <2>3, <4>1, WritingIsNoSeq, MpmcAssumption DEF MayTake
    <3>4. s <= ticket[p]
      BY <2>3, <3>1, <3>2, <3>3, MpmcAssumption DEF Obsolete
    <3>5. s # ticket[p]
      BY <3>1, <3>2, <3>3 DEF SlotInv
    <3>6. s < ticket[p]
      BY <3>1, <3>2, <3>3, <3>4, <3>5, MpmcAssumption
    <3> HIDE DEF s
    <3> QED BY <2>3, <3>3, <3>6
  <2> QED BY <1>2, <2>1, <2>2, <2>3 DEF LoadSlot
<1>3. CASE TakeSlot(p)
  <2>1. ppc'[p] # "cas"
    BY <1>3 DEF TakeSlot, DeadlinePasses, Return
  <2>2. \A q \in Producers \ {p} : ppc'[q] = ppc[q] /\ cur'[q] = cur[q] /\ ticket'[q] = ticket[q]
    BY <1>3 DEF TakeSlot, DeadlinePasses, Return
  <2> QED BY <2>1, <2>2, <1>s
<1>4. CASE \E w \in Words : CopyWordIn(p, w)
  BY <1>4, <1>s DEF CopyWordIn
<1>5. CASE PublishSlot(p)
  BY <1>5, <1>s DEF PublishSlot
<1>6. CASE RaiseWriteSeq(p)
  BY <1>6, <1>s DEF RaiseWriteSeq, Return
<1>7. CASE ProducerDies(p)
  BY <1>7, <1>s DEF ProducerDies
<1> QED BY <1>1, <1>2, <1>3, <1>4, <1>5, <1>6, <1>7 DEF ProducerAction, ProducerStep

(* A producer that copies owns its slot.                                   *)
LEMMA CopierOwns ==
    ASSUME ProducerTypes, RingInv, NEW p \in Producers, ppc[p] = "copy"
    PROVE  /\ ticket[p] \in 1..MaxSeq /\ Index(ticket[p]) \in Slots
           /\ slotSeq[Index(ticket[p])] = SLOT_WRITING
           /\ Owns(p, Index(ticket[p]))
<1>1. ticket[p] \in 1..MaxSeq /\ Index(ticket[p]) \in Slots
  BY IndexInSlots, MpmcAssumption DEF ProducerTypes, RingInv, TicketInv
<1>2. slotSeq[Index(ticket[p])] = SLOT_WRITING
  BY DEF RingInv, CopyInInv
<1>3. PICK o \in Producers : Owns(o, Index(ticket[p]))
  BY <1>1, <1>2 DEF RingInv, SlotInv
<1>4. o = p
  BY <1>3 DEF Owns
<1> QED BY <1>1, <1>2, <1>3, <1>4

(* Steps that neither store to a slot nor begin or end a copy.             *)
LEMMA QuietStep ==
    ASSUME ProducerTypes, RingInv, UNCHANGED <<slotVars, log, pwords>>,
           \A q \in Producers : ppc'[q] = "copy" => ppc[q] = "copy" /\ ticket'[q] = ticket[q],
           \A q \in Producers : ppc[q] \in {"copy", "dead"} =>
               ppc'[q] \in {"copy", "dead"} /\ ticket'[q] = ticket[q]
    PROVE  (SlotInv /\ CopyInInv)'
<1>1. ASSUME NEW o \in Producers, NEW i \in Slots, Owns(o, i) PROVE Owns(o, i)'
  BY <1>1 DEF Owns
<1>2. SlotInv'
  BY <1>1 DEF RingInv, SlotInv, slotVars
<1>3. CopyInInv'
  BY DEF RingInv, CopyInInv, slotVars
<1> QED BY <1>2, <1>3

(* The compare-exchange wins a slot that holds an older lap.               *)
LEMMA TakeKeepsSlots ==
    ASSUME ProducerTypes, RingInv, NEW p \in Producers, TakeSlot(p),
           slotSeq[Index(ticket[p])] = cur[p]
    PROVE  (SlotInv /\ CopyInInv)'
<1> DEFINE i == Index(ticket[p])
<1>1. /\ ppc[p] = "cas" /\ ticket[p] \in 1..MaxSeq /\ i \in Slots
      /\ slotSeq[i] # SLOT_WRITING /\ slotSeq[i] < ticket[p] /\ slotSeq[i] \in Nat
  <2>1. ppc[p] = "cas"
    BY DEF TakeSlot
  <2>2. ticket[p] \in 1..MaxSeq
    BY <2>1, MpmcAssumption DEF ProducerTypes, RingInv, TicketInv
  <2>3. i \in Slots
    BY <2>2, IndexInSlots, MpmcAssumption
  <2> QED BY <2>1, <2>2, <2>3, MpmcAssumption DEF ProducerTypes, RingInv, CasInv
<1>2. /\ slotSeq' = [slotSeq EXCEPT ![i] = SLOT_WRITING] /\ slotData' = slotData
      /\ log' = log /\ ticket' = ticket
      /\ pwords' = [pwords EXCEPT ![p] = Words] /\ ppc' = [ppc EXCEPT ![p] = "copy"]
  BY DEF TakeSlot
<1>3. ASSUME NEW q \in Producers, ppc[q] = "copy" PROVE Index(ticket[q]) # i
  BY <1>1, <1>3, CopierOwns
<1>4. ASSUME NEW j \in Slots, j = i PROVE Owns(p, j)'
  <2>1. ASSUME NEW t \in log, Index(t) = i PROVE t < ticket[p]
    <3>1. t \in Nat /\ t <= slotSeq[i]
      BY <1>1, <2>1 DEF RingInv, SlotInv, ProducerTypes, Seqs
    <3> QED BY <3>1, <1>1
  <2>2. ASSUME NEW q \in Producers, ppc'[q] = "copy", Index(ticket[q]) = i PROVE q = p
    BY <2>2, <1>2, <1>3 DEF ProducerTypes
  <2> QED BY <1>1, <1>2, <1>4, <2>1, <2>2 DEF Owns, ProducerTypes
<1>5. ASSUME NEW j \in Slots \ {i}, NEW o \in Producers, Owns(o, j) PROVE Owns(o, j)'
  BY <1>1, <1>2, <1>5 DEF Owns, ProducerTypes
<1> HIDE DEF i
<1>6. SlotInv'
  <2> SUFFICES ASSUME NEW j \in Slots
               PROVE  /\ slotSeq'[j] # SLOT_WRITING =>
                            /\ slotSeq'[j] # 0 => slotSeq'[j] \in log' /\ Index(slotSeq'[j]) = j
                            /\ \A t \in log' : Index(t) = j => t <= slotSeq'[j]
                            /\ \A w \in Words : slotData'[j][w] = slotSeq'[j]
                      /\ slotSeq'[j] = SLOT_WRITING => \E o \in Producers : Owns(o, j)'
    BY DEF SlotInv
  <2>1. CASE j = i
    BY <2>1, <1>1, <1>2, <1>4 DEF ProducerTypes
  <2>2. CASE j # i
    <3>1. slotSeq'[j] = slotSeq[j]
      BY <2>2, <1>2 DEF ProducerTypes
    <3> QED BY <2>2, <3>1, <1>2, <1>5 DEF RingInv, SlotInv
  <2> QED BY <2>1, <2>2
<1>7. CopyInInv'
  <2> SUFFICES ASSUME NEW q \in Producers, ppc'[q] = "copy"
               PROVE  /\ slotSeq'[Index(ticket[q])] = SLOT_WRITING
                      /\ \A w \in Words \ pwords'[q] : slotData[Index(ticket[q])][w] = ticket[q]
    BY <1>2 DEF CopyInInv
  <2>1. CASE q = p
    BY <2>1, <1>1, <1>2 DEF ProducerTypes, i
  <2>2. CASE q # p
    <3>1. ppc[q] = "copy" /\ pwords'[q] = pwords[q]
      BY <2>2, <1>2 DEF ProducerTypes
    <3>2. Index(ticket[q]) \in Slots /\ Index(ticket[q]) # i
      BY <3>1, <1>3, CopierOwns
    <3>3. slotSeq'[Index(ticket[q])] = slotSeq[Index(ticket[q])]
      BY <3>2, <1>2 DEF ProducerTypes
    <3> QED BY <3>1, <3>3 DEF RingInv, CopyInInv
  <2> QED BY <2>1, <2>2
<1> QED BY <1>6, <1>7

(* A producer copies into a slot of its own.                               *)
LEMMA CopyKeepsSlots ==
    ASSUME ProducerTypes, RingInv, NEW p \in Producers, NEW w \in Words, CopyWordIn(p, w)
    PROVE  (SlotInv /\ CopyInInv)'
<1> DEFINE i == Index(ticket[p])
<1>1. /\ ppc[p] = "copy" /\ slotSeq' = slotSeq /\ log' = log /\ ticket' = ticket /\ ppc' = ppc
      /\ slotData' = [slotData EXCEPT ![i][w] = ticket[p]]
      /\ pwords' = [pwords EXCEPT ![p] = pwords[p] \ {w}]
  BY DEF CopyWordIn
<1>2. /\ i \in Slots /\ slotSeq[i] = SLOT_WRITING /\ Owns(p, i)
  BY <1>1, CopierOwns
<1>3. \A o \in Producers, j \in Slots : Owns(o, j) => Owns(o, j)'
  BY <1>1 DEF Owns
<1>4. \A j \in Slots \ {i} : slotData'[j] = slotData[j]
  BY <1>1 DEF ProducerTypes
<1>5. \A x \in Words : slotData'[i][x] = IF x = w THEN ticket[p] ELSE slotData[i][x]
  <2>1. slotData[i] \in Payloads
    BY <1>2 DEF ProducerTypes
  <2> QED BY <2>1, <1>1, <1>2 DEF ProducerTypes, Payloads
<1> HIDE DEF i
<1>6. SlotInv'
  BY <1>1, <1>2, <1>3, <1>4 DEF RingInv, SlotInv
<1>7. CopyInInv'
  <2> SUFFICES ASSUME NEW q \in Producers, ppc[q] = "copy"
               PROVE  \A x \in Words \ pwords'[q] : slotData'[Index(ticket[q])][x] = ticket[q]
    BY <1>1 DEF RingInv, CopyInInv
  <2>1. CASE q = p
    BY <2>1, <1>1, <1>5 DEF RingInv, CopyInInv, ProducerTypes, i
  <2>2. CASE q # p
    <3>1. Index(ticket[q]) \in Slots \ {i}
      BY <2>2, <1>2, CopierOwns DEF Owns
    <3> QED BY <2>2, <3>1, <1>1, <1>4 DEF RingInv, CopyInInv, ProducerTypes
  <2> QED BY <2>1, <2>2
<1> QED BY <1>6, <1>7

(* A message is published in a slot of the producer's own.                 *)
LEMMA PublishKeepsSlots ==
    ASSUME ProducerTypes, RingInv, NEW p \in Producers, PublishSlot(p)
    PROVE  (SlotInv /\ CopyInInv)'
<1> DEFINE i == Index(ticket[p])
<1>1. /\ ppc[p] = "copy" /\ pwords[p] = {} /\ slotSeq' = [slotSeq EXCEPT ![i] = ticket[p]]
      /\ log' = log \cup {ticket[p]} /\ ppc' = [ppc EXCEPT ![p] = "raise"]
      /\ slotData' = slotData /\ ticket' = ticket /\ pwords' = pwords
  BY DEF PublishSlot
<1>2. /\ ticket[p] \in 1..MaxSeq /\ i \in Slots /\ slotSeq[i] = SLOT_WRITING /\ Owns(p, i)
  BY <1>1, CopierOwns
<1>3. ticket[p] # SLOT_WRITING /\ slotSeq'[i] = ticket[p]
  BY <1>1, <1>2, WritingIsNoSeq, MpmcAssumption DEF ProducerTypes
<1>4. ASSUME NEW j \in Slots \ {i}, NEW o \in Producers, Owns(o, j) PROVE Owns(o, j)'
  BY <1>1, <1>4 DEF Owns, ProducerTypes
<1>5. SlotInv'
  <2> SUFFICES ASSUME NEW j \in Slots
               PROVE  /\ slotSeq'[j] # SLOT_WRITING =>
                            /\ slotSeq'[j] # 0 => slotSeq'[j] \in log' /\ Index(slotSeq'[j]) = j
                            /\ \A t \in log' : Index(t) = j => t <= slotSeq'[j]
                            /\ \A w \in Words : slotData'[j][w] = slotSeq'[j]
                      /\ slotSeq'[j] = SLOT_WRITING => \E o \in Producers : Owns(o, j)'
    BY DEF SlotInv
  <2>1. CASE j = i
    <3>1. \A t \in log' : Index(t) = i => t <= ticket[p]
      BY <1>1, <1>2, MpmcAssumption DEF Owns, ProducerTypes, Seqs
    <3>2. \A w \in Words : slotData[i][w] = ticket[p]
      BY <1>1 DEF RingInv, CopyInInv
    <3> QED BY <2>1, <3>1, <3>2, <1>1, <1>3
  <2>2. CASE j # i
    <3>1. slotSeq'[j] = slotSeq[j]
      BY <2>2, <1>1 DEF ProducerTypes
    <3> QED BY <2>2, <3>1, <1>1, <1>4 DEF RingInv, SlotInv
  <2> QED BY <2>1, <2>2
<1>6. CopyInInv'
  <2> SUFFICES ASSUME NEW q \in Producers \ {p}, ppc[q] = "copy"
               PROVE  slotSeq'[Index(ticket[q])] = SLOT_WRITING
    BY <1>1 DEF RingInv, CopyInInv, ProducerTypes
  <2>1. Index(ticket[q]) \in Slots \ {i} /\ slotSeq[Index(ticket[q])] = SLOT_WRITING
    BY <1>2, CopierOwns DEF Owns
  <2> QED BY <2>1, <1>1 DEF ProducerTypes
<1> QED BY <1>5, <1>6

(* A producer's step keeps the ring.                                       *)
LEMMA ProducerKeepsRing ==
    ASSUME ProducerTypes, RingInv, NEW p \in Producers, ProducerAction(p)
    PROVE  RingInv'
<1>1. CASE Claim(p)
  <2>1. (SlotInv /\ CopyInInv)'
    BY <1>1, QuietStep DEF Claim, ProducerTypes
  <2> QED BY <2>1, ProducerKeepsTickets, ProducerKeepsCas DEF RingInv
<1>2. CASE LoadSlot(p)
  <2>1. /\ ppc[p] = "load" /\ ppc'[p] # "copy"
        /\ \A q \in Producers \ {p} : ppc'[q] = ppc[q] /\ ticket'[q] = ticket[q]
    BY <1>2 DEF LoadSlot, DeadlinePasses, Return, ProducerTypes
  <2>2. (SlotInv /\ CopyInInv)'
    BY <1>2, <2>1, QuietStep DEF LoadSlot
  <2> QED BY <2>2, ProducerKeepsTickets, ProducerKeepsCas DEF RingInv
<1>3. CASE TakeSlot(p)
  <2>1. CASE slotSeq[Index(ticket[p])] # cur[p]
    <3>1. /\ ppc[p] = "cas" /\ ppc'[p] # "copy"
          /\ \A q \in Producers \ {p} : ppc'[q] = ppc[q] /\ ticket'[q] = ticket[q]
          /\ UNCHANGED <<slotVars, log, pwords>>
      BY <1>3, <2>1 DEF TakeSlot, DeadlinePasses, Return, ProducerTypes, slotVars
    <3>2. (SlotInv /\ CopyInInv)'
      BY <3>1, QuietStep
    <3> QED BY <3>2, ProducerKeepsTickets, ProducerKeepsCas DEF RingInv
  <2> QED BY <1>3, <2>1, TakeKeepsSlots, ProducerKeepsTickets, ProducerKeepsCas DEF RingInv
<1>4. CASE \E w \in Words : CopyWordIn(p, w)
  BY <1>4, CopyKeepsSlots, ProducerKeepsTickets, ProducerKeepsCas DEF RingInv
<1>5. CASE PublishSlot(p)
  BY <1>5, PublishKeepsSlots, ProducerKeepsTickets, ProducerKeepsCas DEF RingInv
<1>6. CASE RaiseWriteSeq(p)
  <2>1. (SlotInv /\ CopyInInv)'
    BY <1>6, QuietStep DEF RaiseWriteSeq, Return, ProducerTypes
  <2> QED BY <2>1, ProducerKeepsTickets, ProducerKeepsCas DEF RingInv
<1>7. CASE ProducerDies(p)
  <2>1. (SlotInv /\ CopyInInv)'
    BY <1>7, QuietStep DEF ProducerDies, ProducerTypes
  <2> QED BY <2>1, ProducerKeepsTickets, ProducerKeepsCas DEF RingInv
<1> QED BY <1>1, <1>2, <1>3, <1>4, <1>5, <1>6, <1>7 DEF ProducerAction, ProducerStep

-----------------------------------------------------------------------------
(* The queue consumers *)

(* A slot that has left message t, or carries a later one, means that the  *)
(* producers have claimed the slot's next lap.                             *)
LEMMA LaterLapClaimed ==
    ASSUME ProducerTypes, RingInv, NEW t \in Seqs,
           \/ slotSeq[Index(t)] # SLOT_WRITING /\ slotSeq[Index(t)] > t
           \/ t \in log /\ slotSeq[Index(t)] # t
    PROVE  claim_seq > t + Capacity
<1> DEFINE i == Index(t)
<1>0. t \in Nat /\ t > 0 /\ i \in Slots /\ claim_seq \in Nat /\ Capacity \in Nat
  BY IndexInSlots, MpmcAssumption, CapacityAssumption DEF Seqs, ProducerTypes
<1>1. CASE slotSeq[i] # SLOT_WRITING
  <2>1. slotSeq[i] \in Nat /\ slotSeq[i] > t /\ slotSeq[i] \in log /\ Index(slotSeq[i]) = i
    BY <1>0, <1>1, MpmcAssumption DEF ProducerTypes, RingInv, SlotInv
  <2>2. t + Capacity <= slotSeq[i]
    BY <1>0, <2>1, SameSlot
  <2> QED BY <1>0, <2>1, <2>2 DEF RingInv, TicketInv
<1>2. CASE slotSeq[i] = SLOT_WRITING
  <2>1. PICK p \in Producers : Owns(p, i)
    BY <1>0, <1>2 DEF RingInv, SlotInv
  <2>2. ticket[p] \in Nat /\ t < ticket[p] /\ Index(ticket[p]) = i
    BY <1>2, <2>1, MpmcAssumption DEF Owns, ProducerTypes
  <2>3. t + Capacity <= ticket[p]
    BY <1>0, <2>2, SameSlot
  <2> QED BY <1>0, <2>2, <2>3 DEF RingInv, TicketInv
<1> QED BY <1>1, <1>2

(* What producers do to readers: they claim and publish more, and a slot   *)
(* does not come back to a message that it has left.                       *)
LEMMA ProducerEffect ==
    ASSUME ProducerTypes, RingInv, NEW p \in Producers, ProducerAction(p)
    PROVE  /\ claim_seq <= claim_seq'
           /\ log \subseteq log'
           /\ \A t \in log : slotSeq'[Index(t)] = t => slotSeq[Index(t)] = t
<1> USE DEF slotVars, headerVars
<1>0. claim_seq \in Nat
  BY MpmcAssumption DEF ProducerTypes
<1>1. CASE Claim(p)
  BY <1>0, <1>1 DEF Claim
<1>2. CASE LoadSlot(p)
  BY <1>0, <1>2 DEF LoadSlot
<1>3. CASE TakeSlot(p)
  <2>1. \A t \in log : t # SLOT_WRITING /\ Index(t) \in Slots
    BY WritingIsNoSeq, IndexInSlots, MpmcAssumption DEF ProducerTypes, Seqs
  <2> QED BY <1>0, <1>3, <2>1 DEF TakeSlot, ProducerTypes
<1>4. CASE \E w \in Words : CopyWordIn(p, w)
  BY <1>0, <1>4 DEF CopyWordIn
<1>5. CASE PublishSlot(p)
  <2>1. \A t \in log : Index(t) \in Slots
    BY IndexInSlots, MpmcAssumption DEF ProducerTypes, Seqs
  <2>2. ticket[p] \notin log
    BY <1>5 DEF PublishSlot, RingInv, TicketInv
  <2> QED BY <1>0, <1>5, <2>1, <2>2 DEF PublishSlot, ProducerTypes
<1>6. CASE RaiseWriteSeq(p)
  BY <1>0, <1>6 DEF RaiseWriteSeq
<1>7. CASE ProducerDies(p)
  BY <1>0, <1>7 DEF ProducerDies
<1> QED BY <1>1, <1>2, <1>3, <1>4, <1>5, <1>6, <1>7 DEF ProducerAction, ProducerStep

(* A producer's step keeps what the readers rely on.                       *)
LEMMA ProducerSparesReaders ==
    ASSUME IInv, NEW p \in Producers, ProducerAction(p)
    PROVE  ReadInv'
<1>1. ProducerTypes /\ ConsumerTypes /\ RingInv /\ ReadInv /\ ProducerTypes'
  BY TypeSplit, ProducerKeepsTypes DEF IInv, RingInv
<1>2. UNCHANGED <<read_seq, cpc, pending, readAt, floor, rwords, buf, taken, lost, item>>
  BY ProducerFrame DEF consumerVars, queueHistory
<1>3. /\ claim_seq <= claim_seq' /\ log \subseteq log'
      /\ \A t \in log : slotSeq'[Index(t)] = t => slotSeq[Index(t)] = t
  BY <1>1, ProducerEffect
<1>4. CopyOutInv'
  BY <1>1, <1>2, <1>3 DEF ReadInv, CopyOutInv
<1>5. claim_seq \in Nat /\ claim_seq' \in Nat /\ read_seq \in Nat /\ Capacity \in Nat
  BY <1>1, CapacityAssumption, MpmcAssumption DEF ProducerTypes, ConsumerTypes
<1>6. CounterInv'
  <2>1. Monus(claim_seq, Capacity) \in Nat /\ Monus(claim_seq', Capacity) \in Nat
    BY <1>5, MonusFacts
  <2>2. Monus(claim_seq, Capacity) <= Monus(claim_seq', Capacity)
    BY <1>5, <1>3, MonusMonotone
  <2>3. \A c \in Consumers : readAt[c] \in Nat /\ floor[c] \in Nat
    BY <1>1, MpmcAssumption DEF ConsumerTypes
  <2>4. ASSUME NEW c \in Consumers, cpc[c] = "next"
        PROVE  readAt[c] < claim_seq' /\ floor[c] <= Monus(claim_seq', Capacity)
    <3>1. readAt[c] < claim_seq /\ floor[c] <= Monus(claim_seq, Capacity)
      BY <1>1, <2>4 DEF ReadInv, CounterInv
    <3>2. readAt[c] \in Nat /\ floor[c] \in Nat /\ Monus(claim_seq', Capacity) \in Nat
      BY <2>1, <2>3, <1>5, MonusFacts
    <3> QED BY <1>3, <1>5, <2>1, <2>2, <3>1, <3>2
  <2> QED BY <1>1, <1>2, <2>4 DEF ReadInv, CounterInv
<1>7. QueueInv'
  <2>1. \A t \in lost : claim_seq' > t + Capacity
    BY <1>1, <1>3, <1>5, MpmcAssumption DEF ReadInv, QueueInv, ConsumerTypes, Seqs
  <2>2. read_seq <= claim_seq'
    BY <1>1, <1>3, <1>5 DEF ReadInv, QueueInv
  <2> QED BY <1>1, <1>2, <2>1, <2>2 DEF ReadInv, QueueInv
<1>8. NoTornItem'
  BY <1>1, <1>2 DEF ReadInv, NoTornItem
<1> QED BY <1>4, <1>6, <1>7, <1>8 DEF ReadInv

(* A consumer keeps its types.                                             *)
LEMMA ConsumerKeepsTypes ==
    ASSUME IInv, NEW c \in Consumers, ConsumerAction(c)
    PROVE  ConsumerTypes'
<1>0. ProducerTypes /\ ConsumerTypes /\ CounterInv
  BY TypeSplit DEF IInv, ReadInv
<1> USE <1>0, MpmcAssumption, CapacityAssumption DEF ConsumerTypes, CToPc
<1>l. ASSUME Lose(c), pending[c] # 0
      PROVE  /\ lost' \in SUBSET Seqs
             /\ pending' \in [Consumers -> 0..MaxSeq]
             /\ cpc' \in [Consumers -> {"idle", "slot", "claims", "copy", "counters", "claim_seq",
                                        "next", "dead"}]
  <2>1. pending[c] \in Seqs
    BY <1>l DEF Seqs
  <2>2. lost' = lost \cup {pending[c]} /\ pending' = [pending EXCEPT ![c] = 0]
        /\ cpc' = [cpc EXCEPT ![c] = "counters"]
    BY <1>l DEF Lose
  <2>3. lost' \in SUBSET Seqs
    BY <2>1, <2>2
  <2>4. pending' \in [Consumers -> 0..MaxSeq]
    BY <2>2
  <2> QED BY <2>2, <2>3, <2>4
<1>1. CASE TryRecv(c)
  BY <1>1 DEF TryRecv, headerVars, queueHistory
<1>2. CASE TicketLoad(c)
  <2>1. pending[c] # 0
    BY <1>2 DEF TicketLoad, CounterInv
  <2>2. CASE Lose(c) /\ UNCHANGED rwords
    BY <1>2, <2>1, <2>2, <1>l DEF TicketLoad, headerVars
  <2>3. CASE /\ cpc' = [cpc EXCEPT ![c] = "copy"]
             /\ rwords' = [rwords EXCEPT ![c] = Words]
             /\ UNCHANGED <<pending, lost>>
    BY <1>2, <2>3 DEF TicketLoad, headerVars
  <2>4. CASE cpc' = [cpc EXCEPT ![c] = "claims"] /\ UNCHANGED <<pending, lost, rwords>>
    BY <1>2, <2>4 DEF TicketLoad, headerVars
  <2> QED BY <1>2, <2>2, <2>3, <2>4 DEF TicketLoad
<1>3. CASE TicketClaims(c)
  <2>1. pending[c] # 0
    BY <1>3 DEF TicketClaims, CounterInv
  <2>2. CASE Lose(c)
    BY <1>3, <2>1, <2>2, <1>l DEF TicketClaims, headerVars
  <2>3. CASE cpc' = [cpc EXCEPT ![c] = "idle"] /\ UNCHANGED <<pending, lost>>
    BY <1>3, <2>3 DEF TicketClaims, headerVars
  <2> QED BY <1>3, <2>2, <2>3 DEF TicketClaims
<1>4. ASSUME NEW w \in Words, CopyWordOut(c, w) PROVE ConsumerTypes'
  <2>1. pending[c] \in Nat /\ buf[c] \in Payloads
    OBVIOUS
  <2>2. slotData[Index(pending[c])] \in Payloads
    BY <2>1, IndexInSlots DEF ProducerTypes
  <2>3. [buf[c] EXCEPT ![w] = slotData[Index(pending[c])][w]] \in Payloads
    BY <2>1, <2>2 DEF Payloads
  <2>4. buf' \in [Consumers -> Payloads]
    BY <1>4, <2>3 DEF CopyWordOut
  <2> QED BY <1>4, <2>4 DEF CopyWordOut, headerVars, queueHistory
<1>5. CASE TicketRecheck(c)
  <2>1. pending[c] # 0 /\ pending[c] \in Seqs
    BY <1>5 DEF TicketRecheck, CounterInv, Seqs
  <2>2. buf' \in [Consumers -> Payloads]
    BY <1>5, NoWordsPayload DEF TicketRecheck
  <2>3. CASE Lose(c) /\ UNCHANGED <<item, taken>>
    BY <1>5, <2>1, <2>2, <2>3, <1>l DEF TicketRecheck, headerVars
  <2>4. CASE /\ item' = [item EXCEPT ![c] = [seq |-> pending[c], data |-> buf[c]]]
             /\ taken' = taken \cup {pending[c]}
             /\ pending' = [pending EXCEPT ![c] = 0]
             /\ cpc' = [cpc EXCEPT ![c] = "idle"]
             /\ UNCHANGED lost
    <3>1. [seq |-> pending[c], data |-> buf[c]] \in [seq : 0..MaxSeq, data : Payloads]
      OBVIOUS
    <3>2. item' \in [Consumers -> [seq : 0..MaxSeq, data : Payloads]]
      BY <2>4, <3>1
    <3> QED BY <1>5, <2>1, <2>2, <2>4, <3>2 DEF TicketRecheck, headerVars
  <2> QED BY <1>5, <2>3, <2>4 DEF TicketRecheck
<1>6. CASE LoadReadSeq(c)
  BY <1>6 DEF LoadReadSeq, headerVars, queueHistory
<1>7. CASE LoadClaimSeq(c)
  <2>1. Monus(claim_seq, Capacity) \in 0..(MaxSeq + 1)
    BY MonusFacts DEF ProducerTypes
  <2>2. CASE Empty(c)
    BY <1>7, <2>2 DEF LoadClaimSeq, headerVars, queueHistory
  <2>3. CASE ~Empty(c)
    BY <1>7, <2>1, <2>3 DEF LoadClaimSeq, headerVars, queueHistory
  <2> QED BY <2>2, <2>3
<1>8. CASE ClaimTicket(c)
  <2>1. /\ readAt[c] \in 1..MaxSeq /\ floor[c] \in 0..(MaxSeq + 1)
        /\ readAt[c]..(floor[c] - 1) \subseteq Seqs
    BY <1>8 DEF ClaimTicket, CounterInv, ProducerTypes, Seqs
  <2>2. /\ readAt' \in [Consumers -> 0..(MaxSeq + 1)]
        /\ floor' \in [Consumers -> 0..(MaxSeq + 1)]
    BY <1>8 DEF ClaimTicket
  <2>3. CASE /\ readAt[c] < floor[c] /\ read_seq' = floor[c]
             /\ lost' = lost \cup readAt[c]..(floor[c] - 1)
             /\ cpc' = [cpc EXCEPT ![c] = "counters"]
             /\ UNCHANGED pending
    BY <1>8, <2>1, <2>2, <2>3 DEF ClaimTicket
  <2>4. CASE /\ read_seq' = readAt[c] + 1
             /\ pending' = [pending EXCEPT ![c] = readAt[c]]
             /\ cpc' = [cpc EXCEPT ![c] = "slot"]
             /\ UNCHANGED lost
    BY <1>8, <2>1, <2>2, <2>4 DEF ClaimTicket
  <2>5. CASE cpc' = [cpc EXCEPT ![c] = "counters"] /\ UNCHANGED <<read_seq, lost, pending>>
    BY <1>8, <2>2, <2>5 DEF ClaimTicket
  <2> QED BY <1>8, <2>3, <2>4, <2>5 DEF ClaimTicket
<1>9. CASE ConsumerDies(c)
  BY <1>9 DEF ConsumerDies, headerVars, queueHistory
<1> QED BY <1>1, <1>2, <1>3, <1>4, <1>5, <1>6, <1>7, <1>8, <1>9 DEF ConsumerAction, ConsumerStep

(* One consumer does not touch the locals of another.                      *)
LEMMA OtherConsumers ==
    ASSUME ConsumerTypes, NEW c \in Consumers, ConsumerAction(c), NEW d \in Consumers \ {c}
    PROVE  /\ cpc'[d] = cpc[d] /\ pending'[d] = pending[d] /\ readAt'[d] = readAt[d]
           /\ floor'[d] = floor[d] /\ rwords'[d] = rwords[d] /\ buf'[d] = buf[d]
           /\ item'[d] = item[d]
<1> USE DEF ConsumerTypes, CToPc, queueHistory
<1>1. CASE TryRecv(c)
  BY <1>1 DEF TryRecv
<1>2. CASE TicketLoad(c)
  BY <1>2 DEF TicketLoad, Lose
<1>3. CASE TicketClaims(c)
  BY <1>3 DEF TicketClaims, Lose
<1>4. CASE \E w \in Words : CopyWordOut(c, w)
  BY <1>4 DEF CopyWordOut
<1>5. CASE TicketRecheck(c)
  BY <1>5 DEF TicketRecheck, Lose
<1>6. CASE LoadReadSeq(c)
  BY <1>6 DEF LoadReadSeq
<1>7. CASE LoadClaimSeq(c)
  BY <1>7 DEF LoadClaimSeq
<1>8. CASE ClaimTicket(c)
  BY <1>8 DEF ClaimTicket
<1>9. CASE ConsumerDies(c)
  BY <1>9 DEF ConsumerDies
<1> QED BY <1>1, <1>2, <1>3, <1>4, <1>5, <1>6, <1>7, <1>8, <1>9 DEF ConsumerAction, ConsumerStep

(* The copy out of a slot.                                                 *)
LEMMA ConsumerKeepsCopyOut ==
    ASSUME IInv, NEW c \in Consumers, ConsumerAction(c)
    PROVE  CopyOutInv'
<1>0. ProducerTypes /\ ConsumerTypes /\ RingInv /\ CopyOutInv /\ CounterInv
  BY TypeSplit DEF IInv, ReadInv
<1>1. UNCHANGED <<slotSeq, slotData, log>>
  BY ConsumerFrame DEF slotVars
<1> DEFINE Goal == cpc'[c] = "copy" =>
              /\ pending'[c] \in log
              /\ slotSeq[Index(pending'[c])] = pending'[c] =>
                    \A w \in Words \ rwords'[c] : buf'[c][w] = pending'[c]
<1>2. SUFFICES Goal
  BY <1>0, <1>1, <1>2, OtherConsumers DEF CopyOutInv
<1>s. ASSUME cpc'[c] # "copy" PROVE Goal
  BY <1>s
<1> USE DEF CToPc, ConsumerTypes
<1>3. CASE TryRecv(c)
  BY <1>0, <1>3, <1>s DEF TryRecv
<1>4. CASE TicketLoad(c)
  <2>1. CASE /\ slotSeq[Index(pending[c])] = pending[c]
             /\ cpc' = [cpc EXCEPT ![c] = "copy"] /\ rwords' = [rwords EXCEPT ![c] = Words]
             /\ UNCHANGED <<pending, lost>>
    <3>1. pending[c] \in 0..MaxSeq /\ pending[c] # 0 /\ Index(pending[c]) \in Slots
      BY <1>0, <1>4, IndexInSlots, MpmcAssumption DEF TicketLoad, CounterInv
    <3>2. pending[c] # SLOT_WRITING
      BY <3>1, WritingIsNoSeq, MpmcAssumption
    <3>3. pending[c] \in log
      BY <2>1, <3>1, <3>2, <1>0 DEF RingInv, SlotInv
    <3> QED BY <1>0, <2>1, <3>3
  <2>2. CASE Lose(c) \/ cpc' = [cpc EXCEPT ![c] = "claims"]
    BY <1>0, <2>2, <1>s DEF Lose
  <2> QED BY <1>4, <2>1, <2>2 DEF TicketLoad
<1>5. CASE TicketClaims(c)
  BY <1>0, <1>5, <1>s DEF TicketClaims, Lose
<1>6. ASSUME NEW w \in Words, CopyWordOut(c, w) PROVE Goal
  <2>1. /\ cpc[c] = "copy" /\ pending' = pending
        /\ buf' = [buf EXCEPT ![c][w] = slotData[Index(pending[c])][w]]
        /\ rwords' = [rwords EXCEPT ![c] = @ \ {w}]
    BY <1>6 DEF CopyWordOut
  <2>2. pending[c] \in log
    BY <1>0, <2>1 DEF CopyOutInv
  <2>3. ASSUME slotSeq[Index(pending[c])] = pending[c], NEW x \in Words \ rwords'[c]
        PROVE  buf'[c][x] = pending[c]
    <3>1. pending[c] \in 0..MaxSeq /\ Index(pending[c]) \in Slots
      BY <1>0, IndexInSlots, MpmcAssumption
    <3>2. pending[c] # SLOT_WRITING
      BY <3>1, WritingIsNoSeq, MpmcAssumption
    <3>3. slotData[Index(pending[c])][w] = pending[c]
      BY <2>3, <3>1, <3>2, <1>0 DEF RingInv, SlotInv
    <3>4. buf[c] \in Payloads
      BY <1>0
    <3>5. CASE x = w
      BY <3>5, <3>3, <3>4, <2>1, <1>0 DEF Payloads
    <3>6. CASE x # w
      <4>1. buf[c][x] = pending[c]
        BY <3>6, <2>1, <2>3, <1>0 DEF CopyOutInv
      <4> QED BY <3>6, <4>1, <3>4, <2>1, <1>0 DEF Payloads
    <3> QED BY <3>5, <3>6
  <2> QED BY <2>1, <2>2, <2>3
<1>7. CASE TicketRecheck(c)
  BY <1>0, <1>7, <1>s DEF TicketRecheck, Lose
<1>8. CASE LoadReadSeq(c)
  BY <1>0, <1>8, <1>s DEF LoadReadSeq
<1>9. CASE LoadClaimSeq(c)
  BY <1>0, <1>9, <1>s DEF LoadClaimSeq
<1>10. CASE ClaimTicket(c)
  BY <1>0, <1>10, <1>s DEF ClaimTicket
<1>11. CASE ConsumerDies(c)
  BY <1>0, <1>11, <1>s DEF ConsumerDies
<1> QED BY <1>3, <1>4, <1>5, <1>6, <1>7, <1>8, <1>9, <1>10, <1>11 DEF ConsumerAction, ConsumerStep

(* The counters a consumer has loaded.                                     *)
LEMMA ConsumerKeepsCounters ==
    ASSUME IInv, NEW c \in Consumers, ConsumerAction(c)
    PROVE  CounterInv'
<1>0. ProducerTypes /\ ConsumerTypes /\ CounterInv
  BY TypeSplit DEF IInv, ReadInv
<1>1. UNCHANGED claim_seq
  BY ConsumerFrame
<1> DEFINE Goal == /\ cpc'[c] \in {"slot", "claims", "copy"} => pending'[c] # 0
                   /\ cpc'[c] \in {"counters", "claim_seq", "next"} => pending'[c] = 0
                   /\ cpc'[c] \in {"claim_seq", "next"} => readAt'[c] > 0
                   /\ cpc'[c] = "next" => /\ readAt'[c] < claim_seq
                                          /\ floor'[c] <= Monus(claim_seq, Capacity)
<1>2. SUFFICES Goal
  BY <1>0, <1>1, <1>2, OtherConsumers DEF CounterInv
<1> USE <1>0 DEF CToPc, ConsumerTypes, CounterInv
<1>l. ASSUME Lose(c) PROVE Goal
  BY <1>l DEF Lose
<1>3. CASE TryRecv(c)
  BY <1>3 DEF TryRecv
<1>4. CASE TicketLoad(c)
  BY <1>4, <1>l DEF TicketLoad
<1>5. CASE TicketClaims(c)
  BY <1>5, <1>l DEF TicketClaims
<1>6. CASE \E w \in Words : CopyWordOut(c, w)
  BY <1>6 DEF CopyWordOut
<1>7. CASE TicketRecheck(c)
  BY <1>7, <1>l DEF TicketRecheck
<1>8. CASE LoadReadSeq(c)
  BY <1>8 DEF LoadReadSeq
<1>9. CASE LoadClaimSeq(c)
  <2>1. Monus(claim_seq, Capacity) \in Nat /\ claim_seq \in Nat /\ readAt[c] \in Nat
    BY MonusFacts, MpmcAssumption DEF ProducerTypes
  <2>2. CASE Empty(c)
    BY <1>9, <2>2 DEF LoadClaimSeq
  <2>3. CASE ~Empty(c)
    <3>1. cpc'[c] = "next" /\ floor'[c] = Monus(claim_seq, Capacity) /\ readAt' = readAt
          /\ pending' = pending /\ cpc[c] = "claim_seq"
      BY <1>9, <2>3 DEF LoadClaimSeq
    <3>2. readAt[c] < claim_seq
      BY <2>1, <2>3 DEF Empty
    <3> QED BY <2>1, <3>1, <3>2
  <2> QED BY <2>2, <2>3
<1>10. CASE ClaimTicket(c)
  BY <1>10 DEF ClaimTicket
<1>11. CASE ConsumerDies(c)
  BY <1>11 DEF ConsumerDies
<1> QED BY <1>3, <1>4, <1>5, <1>6, <1>7, <1>8, <1>9, <1>10, <1>11 DEF ConsumerAction, ConsumerStep

(* A ticket that is given up is a full ring behind, and it was held by     *)
(* nobody else.                                                            *)
LEMMA LoseKeepsQueue ==
    ASSUME IInv, NEW c \in Consumers, Lose(c), pending[c] # 0,
           claim_seq > pending[c] + Capacity,
           UNCHANGED <<claim_seq, read_seq, taken>>
    PROVE  QueueInv'
<1>0. ConsumerTypes /\ QueueInv
  BY TypeSplit DEF IInv, ReadInv
<1>1. /\ lost' = lost \cup {pending[c]} /\ pending'[c] = 0
      /\ \A d \in Consumers \ {c} : pending'[d] = pending[d]
  BY <1>0 DEF Lose, ConsumerTypes
<1>2. \A d \in Consumers : pending'[d] # 0 => d # c /\ pending'[d] = pending[d]
  BY <1>1
<1>3. \A d \in Consumers : pending'[d] # 0 =>
          pending'[d] < read_seq /\ pending'[d] \notin taken \cup lost'
  BY <1>0, <1>1, <1>2 DEF QueueInv
<1>4. \A d, e \in Consumers : pending'[d] = pending'[e] /\ pending'[d] # 0 => d = e
  BY <1>0, <1>2 DEF QueueInv
<1>5. \A t \in taken : t < read_seq /\ t \notin lost'
  BY <1>0, <1>1 DEF QueueInv
<1>6. \A t \in lost' : t < read_seq /\ claim_seq > t + Capacity
  BY <1>0, <1>1 DEF QueueInv
<1>7. \A t \in Seqs : t < read_seq =>
          t \in taken \/ t \in lost' \/ \E d \in Consumers : pending'[d] = t
  BY <1>0, <1>1 DEF QueueInv
<1> QED BY <1>0, <1>3, <1>4, <1>5, <1>6, <1>7 DEF QueueInv

(* A held ticket is delivered.                                             *)
LEMMA DeliveryKeepsQueue ==
    ASSUME IInv, NEW c \in Consumers, pending[c] # 0,
           taken' = taken \cup {pending[c]},
           pending' = [pending EXCEPT ![c] = 0],
           UNCHANGED <<claim_seq, read_seq, lost>>
    PROVE  QueueInv'
<1>0. ConsumerTypes /\ QueueInv
  BY TypeSplit DEF IInv, ReadInv
<1>1. pending'[c] = 0 /\ \A d \in Consumers \ {c} : pending'[d] = pending[d]
  BY <1>0 DEF ConsumerTypes
<1>2. \A d \in Consumers : pending'[d] # 0 => d # c /\ pending'[d] = pending[d]
  BY <1>1
<1>3. \A d \in Consumers : pending'[d] # 0 =>
          pending'[d] < read_seq /\ pending'[d] \notin taken' \cup lost
  BY <1>0, <1>1, <1>2 DEF QueueInv
<1>4. \A d, e \in Consumers : pending'[d] = pending'[e] /\ pending'[d] # 0 => d = e
  BY <1>0, <1>2 DEF QueueInv
<1>5. \A t \in taken' : t < read_seq /\ t \notin lost
  BY <1>0 DEF QueueInv
<1>7. \A t \in Seqs : t < read_seq =>
          t \in taken' \/ t \in lost \/ \E d \in Consumers : pending'[d] = t
  BY <1>0, <1>1 DEF QueueInv
<1> QED BY <1>0, <1>3, <1>4, <1>5, <1>7 DEF QueueInv

(* read_seq moves by compare-exchange: what it passes over is counted as   *)
(* lost, or becomes the consumer's ticket.                                 *)
LEMMA ClaimKeepsQueue ==
    ASSUME IInv, NEW c \in Consumers, ClaimTicket(c)
    PROVE  QueueInv'
<1>0. ProducerTypes /\ ConsumerTypes /\ QueueInv /\ CounterInv
  BY TypeSplit DEF IInv, ReadInv
<1>1. /\ claim_seq \in Nat /\ read_seq \in Nat /\ readAt[c] \in Nat /\ floor[c] \in Nat
      /\ Capacity \in Nat /\ \A t \in Seqs : t \in Nat /\ t > 0
  BY <1>0, MpmcAssumption, CapacityAssumption DEF ProducerTypes, ConsumerTypes, Seqs
<1>2. /\ pending[c] = 0 /\ readAt[c] > 0 /\ readAt[c] < claim_seq
      /\ floor[c] <= Monus(claim_seq, Capacity)
      /\ taken' = taken /\ claim_seq' = claim_seq
  BY <1>0 DEF ClaimTicket, CounterInv
<1>3. \A t \in taken : t \in Nat
  BY <1>0, <1>1 DEF ConsumerTypes
<1>4. \A t \in lost : t \in Nat
  BY <1>0, <1>1 DEF ConsumerTypes
<1>5. \A d \in Consumers : pending[d] \in Nat
  BY <1>0, MpmcAssumption DEF ConsumerTypes
<1>6. CASE /\ Unclaimed(c) /\ readAt[c] < floor[c] /\ read_seq' = floor[c]
           /\ lost' = lost \cup readAt[c]..(floor[c] - 1) /\ pending' = pending
  <2>1. read_seq = readAt[c] /\ floor[c] + Capacity <= claim_seq /\ floor[c] <= claim_seq
    BY <1>1, <1>2, <1>6 DEF Unclaimed, Monus
  <2>2. \A d \in Consumers : pending[d] # 0 =>
            pending[d] < floor[c] /\ pending[d] \notin taken \cup lost'
    BY <1>0, <1>1, <1>5, <1>6, <2>1 DEF QueueInv
  <2>3. \A t \in taken : t < floor[c] /\ t \notin lost'
    BY <1>0, <1>1, <1>3, <1>6, <2>1 DEF QueueInv
  <2>4. \A t \in lost' : t < floor[c] /\ claim_seq > t + Capacity
    BY <1>0, <1>1, <1>4, <1>6, <2>1 DEF QueueInv
  <2>5. \A t \in Seqs : t < floor[c] =>
            t \in taken \/ t \in lost' \/ \E d \in Consumers : pending[d] = t
    <3> SUFFICES ASSUME NEW t \in Seqs, t < floor[c], t \notin lost'
                 PROVE  t \in taken \/ \E d \in Consumers : pending[d] = t
      OBVIOUS
    <3>1. t < read_seq
      BY <1>1, <1>6, <2>1
    <3> QED BY <3>1, <1>0, <1>6 DEF QueueInv
  <2> QED BY <1>0, <1>2, <1>6, <2>1, <2>2, <2>3, <2>4, <2>5 DEF QueueInv
<1>7. CASE /\ Unclaimed(c) /\ readAt[c] >= floor[c] /\ read_seq' = readAt[c] + 1
           /\ pending' = [pending EXCEPT ![c] = readAt[c]] /\ lost' = lost
  <2>1. read_seq = readAt[c] /\ readAt[c] + 1 <= claim_seq
    BY <1>1, <1>2, <1>7 DEF Unclaimed
  <2>2. pending'[c] = readAt[c] /\ \A d \in Consumers \ {c} : pending'[d] = pending[d]
    BY <1>0, <1>7 DEF ConsumerTypes
  <2>3. \A d \in Consumers : pending'[d] # 0 =>
            pending'[d] < readAt[c] + 1 /\ pending'[d] \notin taken \cup lost
    <3>1. readAt[c] \notin taken \cup lost
      BY <1>0, <1>1, <1>3, <1>4, <2>1 DEF QueueInv
    <3> QED BY <3>1, <1>0, <1>1, <1>5, <2>1, <2>2 DEF QueueInv
  <2>4. \A d, e \in Consumers : pending'[d] = pending'[e] /\ pending'[d] # 0 => d = e
    <3>1. \A d \in Consumers \ {c} : pending'[d] # 0 => pending'[d] < readAt[c]
      BY <1>0, <2>1, <2>2 DEF QueueInv
    <3>2. \A d \in Consumers \ {c} : pending'[d] # pending'[c]
      BY <3>1, <1>1, <1>2, <1>5, <2>2
    <3> QED BY <3>2, <1>0, <2>2 DEF QueueInv
  <2>5. \A t \in taken : t < readAt[c] + 1 /\ t \notin lost
    BY <1>0, <1>1, <1>3, <2>1 DEF QueueInv
  <2>6. \A t \in lost : t < readAt[c] + 1 /\ claim_seq > t + Capacity
    BY <1>0, <1>1, <1>4, <2>1 DEF QueueInv
  <2>7. \A t \in Seqs : t < readAt[c] + 1 =>
            t \in taken \/ t \in lost \/ \E d \in Consumers : pending'[d] = t
    <3> SUFFICES ASSUME NEW t \in Seqs, t < readAt[c] + 1, t \notin taken \cup lost
                 PROVE  \E d \in Consumers : pending'[d] = t
      OBVIOUS
    <3>1. CASE t = readAt[c]
      BY <3>1, <2>2
    <3>2. CASE t # readAt[c]
      <4>1. t < read_seq /\ t # 0
        BY <3>2, <1>1, <2>1
      <4>2. PICK d \in Consumers : pending[d] = t
        BY <4>1, <1>0 DEF QueueInv
      <4> QED BY <4>1, <4>2, <2>2, <1>2
    <3> QED BY <3>1, <3>2
  <2> QED BY <1>2, <1>7, <2>1, <2>3, <2>4, <2>5, <2>6, <2>7 DEF QueueInv
<1>8. CASE UNCHANGED <<read_seq, lost, pending>>
  BY <1>0, <1>2, <1>8 DEF QueueInv
<1> QED BY <1>6, <1>7, <1>8 DEF ClaimTicket

(* The tickets.                                                            *)
LEMMA ConsumerKeepsQueue ==
    ASSUME IInv, NEW c \in Consumers, ConsumerAction(c)
    PROVE  QueueInv'
<1>0. ProducerTypes /\ ConsumerTypes /\ RingInv /\ CopyOutInv /\ CounterInv /\ QueueInv
  BY TypeSplit DEF IInv, ReadInv
<1>1. UNCHANGED claim_seq
  BY ConsumerFrame
<1>2. pending[c] # 0 => pending[c] \in Seqs
  BY <1>0, MpmcAssumption DEF ConsumerTypes, Seqs
<1>s. ASSUME UNCHANGED <<read_seq, pending, taken, lost>> PROVE QueueInv'
  BY <1>0, <1>1, <1>s DEF QueueInv
<1>3. CASE TryRecv(c)
  BY <1>3, <1>s DEF TryRecv, headerVars, queueHistory
<1>4. CASE TicketLoad(c)
  <2>1. pending[c] # 0 /\ UNCHANGED <<claim_seq, read_seq, taken>>
    BY <1>0, <1>4 DEF TicketLoad, CounterInv, headerVars
  <2>2. CASE /\ slotSeq[Index(pending[c])] # SLOT_WRITING
             /\ slotSeq[Index(pending[c])] > pending[c] /\ Lose(c)
    BY <1>0, <1>2, <2>1, <2>2, LaterLapClaimed, LoseKeepsQueue
  <2>3. CASE UNCHANGED <<pending, lost>>
    BY <2>1, <2>3, <1>s
  <2> QED BY <1>4, <2>2, <2>3 DEF TicketLoad
<1>5. CASE TicketClaims(c)
  <2>1. pending[c] # 0 /\ UNCHANGED <<claim_seq, read_seq, taken>>
    BY <1>0, <1>5 DEF TicketClaims, CounterInv, headerVars
  <2>2. CASE Lapped(pending[c]) /\ Lose(c)
    BY <2>1, <2>2, LoseKeepsQueue DEF Lapped
  <2>3. CASE UNCHANGED <<pending, lost>>
    BY <2>1, <2>3, <1>s
  <2> QED BY <1>5, <2>2, <2>3 DEF TicketClaims
<1>6. CASE \E w \in Words : CopyWordOut(c, w)
  BY <1>6, <1>s DEF CopyWordOut, headerVars, queueHistory
<1>7. CASE TicketRecheck(c)
  <2>1. pending[c] # 0 /\ pending[c] \in log /\ UNCHANGED <<claim_seq, read_seq>>
    BY <1>0, <1>7 DEF TicketRecheck, CounterInv, CopyOutInv, headerVars
  <2>2. CASE slotSeq[Index(pending[c])] = pending[c]
    BY <1>7, <2>1, <2>2, DeliveryKeepsQueue DEF TicketRecheck
  <2>3. CASE slotSeq[Index(pending[c])] # pending[c]
    <3>1. Lose(c) /\ UNCHANGED taken
      BY <1>7, <2>3 DEF TicketRecheck
    <3>2. claim_seq > pending[c] + Capacity
      BY <1>0, <1>2, <2>1, <2>3, LaterLapClaimed
    <3> QED BY <2>1, <3>1, <3>2, LoseKeepsQueue
  <2> QED BY <2>2, <2>3
<1>8. CASE LoadReadSeq(c)
  BY <1>8, <1>s DEF LoadReadSeq, headerVars, queueHistory
<1>9. CASE LoadClaimSeq(c)
  BY <1>9, <1>s DEF LoadClaimSeq, headerVars, queueHistory
<1>10. CASE ClaimTicket(c)
  BY <1>10, ClaimKeepsQueue
<1>11. CASE ConsumerDies(c)
  BY <1>11, <1>s DEF ConsumerDies, headerVars, queueHistory
<1> QED BY <1>3, <1>4, <1>5, <1>6, <1>7, <1>8, <1>9, <1>10, <1>11 DEF ConsumerAction, ConsumerStep

(* What is delivered was copied while the slot held the ticket's message.  *)
LEMMA ConsumerKeepsItems ==
    ASSUME IInv, NEW c \in Consumers, ConsumerAction(c)
    PROVE  NoTornItem'
<1>0. ConsumerTypes /\ CopyOutInv /\ NoTornItem
  BY TypeSplit DEF IInv, ReadInv
<1>s. ASSUME UNCHANGED item PROVE NoTornItem'
  BY <1>0, <1>s DEF NoTornItem
<1>1. CASE TicketRecheck(c) /\ slotSeq[Index(pending[c])] = pending[c]
  <2>1. /\ cpc[c] = "copy" /\ rwords[c] = {}
        /\ item' = [item EXCEPT ![c] = [seq |-> pending[c], data |-> buf[c]]]
    BY <1>1 DEF TicketRecheck
  <2>2. \A w \in Words : buf[c][w] = pending[c]
    BY <1>0, <1>1, <2>1 DEF CopyOutInv
  <2> QED BY <1>0, <2>1, <2>2 DEF NoTornItem, ConsumerTypes
<1>2. CASE TicketRecheck(c) /\ slotSeq[Index(pending[c])] # pending[c]
  BY <1>2, <1>s DEF TicketRecheck
<1>3. CASE ~TicketRecheck(c)
  BY <1>3, <1>s DEF ConsumerAction, ConsumerStep, TryRecv, TicketLoad, TicketClaims,
                    CopyWordOut, LoadReadSeq, LoadClaimSeq, ClaimTicket, ConsumerDies,
                    queueHistory
<1> QED BY <1>1, <1>2, <1>3

-----------------------------------------------------------------------------
(* The theorems *)

(* The invariant holds of a new ring.                                      *)
LEMMA InitInv == Init => IInv
<1> SUFFICES ASSUME Init PROVE IInv
  OBVIOUS
<1>1. TypeOK
  <2> USE MpmcAssumption, CapacityAssumption, NoWordsPayload DEF Init
  <2>1. ProducerTypes
    BY DEF ProducerTypes
  <2>2. ConsumerTypes
    BY DEF ConsumerTypes
  <2>3. WatcherTypes
    BY DEF WatcherTypes
  <2> QED BY <2>1, <2>2, <2>3, TypeSplit
<1>2. 0 # SLOT_WRITING
  BY WritingIsNoSeq, MpmcAssumption
<1>3. RingInv
  BY <1>2 DEF Init, RingInv, TicketInv, CasInv, SlotInv, CopyInInv, NoWords
<1>4. ReadInv
  BY DEF Init, ReadInv, CopyOutInv, CounterInv, QueueInv, NoTornItem, NoWords, Seqs
<1> QED BY <1>1, <1>3, <1>4 DEF IInv

(* A step that changes nothing preserves the invariant.                    *)
LEMMA StutterKeepsInv ==
    ASSUME IInv, UNCHANGED <<slotVars, headerVars, producerVars, consumerVars, log, queueHistory>>
    PROVE  RingInv' /\ ReadInv'
<1> USE DEF slotVars, headerVars, producerVars, consumerVars, queueHistory
<1>1. TicketInv' /\ CasInv' /\ CopyInInv'
  BY DEF IInv, RingInv, TicketInv, CasInv, CopyInInv
<1>2. SlotInv'
  BY DEF IInv, RingInv, SlotInv, Owns
<1>3. CopyOutInv' /\ CounterInv' /\ NoTornItem'
  BY DEF IInv, ReadInv, CopyOutInv, CounterInv, NoTornItem
<1>4. QueueInv'
  BY DEF IInv, ReadInv, QueueInv
<1> QED BY <1>1, <1>2, <1>3, <1>4 DEF RingInv, ReadInv

(* The invariant is inductive.                                             *)
LEMMA NextKeepsInv == IInv /\ [Next]_vars => IInv'
<1> SUFFICES ASSUME IInv, [Next]_vars PROVE IInv'
  OBVIOUS
<1>0. ProducerTypes /\ ConsumerTypes /\ WatcherTypes /\ RingInv /\ TicketInv
  BY TypeSplit DEF IInv, RingInv
<1>1. ASSUME NEW p \in Producers, ProducerAction(p) PROVE IInv'
  <2>1. ConsumerTypes' /\ WatcherTypes'
    BY <1>0, <1>1, ProducerFrame DEF ConsumerTypes, WatcherTypes, consumerVars, watcherVars,
                                     queueHistory
  <2>2. ProducerTypes'
    BY <1>0, <1>1, ProducerKeepsTypes
  <2>3. TypeOK'
    BY <2>1, <2>2, TypeSplit, PTL
  <2> QED BY <1>0, <1>1, <2>3, ProducerKeepsRing, ProducerSparesReaders DEF IInv
<1>2. ASSUME NEW c \in Consumers, ConsumerAction(c) PROVE IInv'
  <2>0. UNCHANGED <<slotVars, claim_seq, write_seq, producerVars, watcherVars, log>>
    BY <1>2, ConsumerFrame
  <2>1. ProducerTypes' /\ WatcherTypes'
    BY <1>0, <2>0 DEF ProducerTypes, WatcherTypes, slotVars, producerVars, watcherVars
  <2>2. ConsumerTypes'
    BY <1>2, ConsumerKeepsTypes
  <2>3. TypeOK'
    BY <2>1, <2>2, TypeSplit, PTL
  <2>4. RingInv'
    <3> USE <1>0, <2>0 DEF slotVars, producerVars
    <3>1. TicketInv' /\ CasInv' /\ CopyInInv'
      BY DEF RingInv, TicketInv, CasInv, CopyInInv
    <3>2. SlotInv'
      BY DEF RingInv, SlotInv, Owns
    <3> QED BY <3>1, <3>2 DEF RingInv
  <2>5. ReadInv'
    BY <1>2, ConsumerKeepsCopyOut, ConsumerKeepsCounters, ConsumerKeepsQueue,
       ConsumerKeepsItems DEF ReadInv
  <2> QED BY <2>3, <2>4, <2>5 DEF IInv
<1>3. ASSUME NEW v \in Watchers, WatcherStep(v) PROVE IInv'
  <2>1. ProducerTypes' /\ ConsumerTypes'
    BY <1>0, <1>3, WatcherFrame DEF ProducerTypes, ConsumerTypes, slotVars, headerVars,
                                    producerVars, consumerVars, queueHistory
  <2>2. WatcherTypes'
    BY <1>0, <1>3, WatcherKeepsTypes
  <2>3. TypeOK'
    BY <2>1, <2>2, TypeSplit, PTL
  <2> QED BY <1>3, <2>3, WatcherFrame, StutterKeepsInv DEF IInv
<1>4. CASE UNCHANGED vars
  <2>1. TypeOK'
    BY <1>4 DEF IInv, TypeOK, vars, slotVars, headerVars, producerVars, consumerVars,
                watcherVars, queueHistory
  <2>2. RingInv' /\ ReadInv'
    BY <1>4, StutterKeepsInv DEF vars
  <2> QED BY <2>1, <2>2 DEF IInv
<1> QED BY <1>1, <1>2, <1>3, <1>4, NextSplit

(* The invariant holds in every reachable state of mpmc.rs's ring.         *)
THEOREM Invariance == Spec => []IInv
BY InitInv, NextKeepsInv, PTL DEF Spec

(* The state stays within the shapes of mpmc.rs.                           *)
THEOREM TypeCorrect == Spec => []TypeOK
<1>1. IInv => TypeOK
  BY DEF IInv
<1> QED BY <1>1, Invariance, PTL

(* A queue consumer is never given a mixture of two producers' payloads,   *)
(* whoever takes a slot over from whom in push.                            *)
THEOREM ItemsAreWhole == Spec => []NoTornItem
<1>1. IInv => NoTornItem
  BY DEF IInv, ReadInv
<1> QED BY <1>1, Invariance, PTL

(* Every ticket that try_recv takes from read_seq is delivered once,       *)
(* counted as dropped once, or held by one consumer; one that is dropped   *)
(* was a full ring behind the producers.                                   *)
THEOREM TicketsAreAccounted == Spec => []TicketAccounting
<1>1. IInv => TicketAccounting
  <2> SUFFICES ASSUME IInv PROVE TicketAccounting
    OBVIOUS
  <2>0. ConsumerTypes /\ QueueInv
    BY TypeSplit DEF IInv, ReadInv
  <2> SUFFICES ASSUME NEW t \in Seqs
               PROVE  IF t < read_seq
                      THEN \/ t \in taken /\ t \notin lost /\ HeldBy(t) = {}
                           \/ /\ t \in lost /\ t \notin taken /\ HeldBy(t) = {}
                              /\ claim_seq > t + Capacity
                           \/ t \notin taken \cup lost /\ Cardinality(HeldBy(t)) = 1
                      ELSE t \notin taken \cup lost /\ HeldBy(t) = {}
    BY DEF TicketAccounting
  <2>1. t \in Nat /\ t # 0 /\ read_seq \in Nat
    BY <2>0, MpmcAssumption DEF Seqs, ConsumerTypes
  <2>2. t \in taken \cup lost \/ ~(t < read_seq) => HeldBy(t) = {}
    BY <2>0, <2>1 DEF QueueInv, HeldBy
  <2>3. CASE ~(t < read_seq)
    BY <2>0, <2>2, <2>3 DEF QueueInv
  <2>4. CASE t < read_seq /\ t \in taken
    BY <2>0, <2>2, <2>4 DEF QueueInv
  <2>5. CASE t < read_seq /\ t \in lost
    BY <2>0, <2>2, <2>5 DEF QueueInv
  <2>6. CASE t < read_seq /\ t \notin taken \cup lost
    <3>1. PICK c \in Consumers : pending[c] = t
      BY <2>0, <2>6 DEF QueueInv
    <3>2. HeldBy(t) = {c}
      BY <2>0, <2>1, <3>1 DEF QueueInv, HeldBy
    <3>3. Cardinality(HeldBy(t)) = 1
      BY <3>2, FS_Singleton
    <3> QED BY <2>6, <3>3
  <2> QED BY <2>3, <2>4, <2>5, <2>6
<1> QED BY <1>1, Invariance, PTL

(* A published message is of a later lap than all that were published in   *)
(* its slot, also when push took the slot over after its deadline.         *)
THEOREM LapsGrow == Spec => LapsOnlyGrow
<1> DEFINE Later == \A t \in log' \ log : \A u \in log : Index(u) = Index(t) => u < t
<1>1. ASSUME IInv, [Next]_vars PROVE [Later]_vars
  <2>0. ProducerTypes /\ RingInv
    BY <1>1, TypeSplit DEF IInv
  <2>s. ASSUME UNCHANGED log PROVE Later
    BY <2>s
  <2>1. ASSUME NEW p \in Producers, PublishSlot(p) PROVE Later
    <3>1. ppc[p] = "copy" /\ log' = log \cup {ticket[p]}
      BY <2>1 DEF PublishSlot
    <3>2. Owns(p, Index(ticket[p]))
      BY <2>0, <3>1, CopierOwns
    <3> QED BY <3>1, <3>2 DEF Owns
  <2>2. ASSUME NEW p \in Producers, ProducerAction(p), ~PublishSlot(p) PROVE Later
    BY <2>2, <2>s DEF ProducerAction, ProducerStep, Claim, LoadSlot, TakeSlot, CopyWordIn,
                      RaiseWriteSeq, ProducerDies
  <2>3. ASSUME NEW c \in Consumers, ConsumerAction(c) PROVE Later
    BY <2>3, <2>s, ConsumerFrame
  <2>4. ASSUME NEW v \in Watchers, WatcherStep(v) PROVE Later
    BY <2>4, <2>s, WatcherFrame
  <2> QED BY <1>1, <2>1, <2>2, <2>3, <2>4, NextSplit
<1>2. IInv /\ [Next]_vars => [Later]_vars
  BY <1>1
<1> QED BY <1>2, Invariance, PTL DEF Spec, LapsOnlyGrow

=============================================================================
