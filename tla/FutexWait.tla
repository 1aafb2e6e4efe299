----------------------------- MODULE FutexWait ------------------------------
(***************************************************************************)
(* The asymmetric wake-up protocol of wait.rs: FutexWait::wait on the      *)
(* consumers' side, publish_progress and wake_futex on the producer's.     *)
(*                                                                         *)
(* The producer stores write_seq and then loads waiting_consumers with no  *)
(* barrier in between, so its store may become visible later than its load *)
(* is done: `published` is what the producer has stored, write_seq what    *)
(* the others see.  A consumer about to sleep counts itself in             *)
(* waiting_consumers and forces the producer's stores out with membarrier, *)
(* which works when the producer process has registered for it.            *)
(*                                                                         *)
(* waiting_consumers counts the members of `waiting`.                      *)
(***************************************************************************)
EXTENDS Integers

CONSTANTS
    Consumers,
    MaxSeq          \* bound: last sequence published

ASSUME FutexAssumption == MaxSeq \in Nat

VARIABLES
    write_seq, futex_word, waiting,     \* the header
    ppc, published,                     \* the producer
    registered, \* the producer registered for GLOBAL_EXPEDITED membarriers
    cpc,        \* where the consumer is in recv_blocking
    cursor,     \* the message it waits for
    futex_val   \* wait's local futex_val

headerVars == <<write_seq, futex_word, waiting>>
producerVars == <<ppc, published, registered>>
consumerVars == <<cpc, cursor, futex_val>>
waitVars == <<headerVars, producerVars, consumerVars>>

WaitInit ==
    /\ write_seq = 0
    /\ futex_word = 0
    /\ waiting = {}
    /\ ppc = "idle"
    /\ published = 0
    /\ registered \in BOOLEAN     \* register_producer_barrier may fail
    /\ cpc = [c \in Consumers |-> "idle"]
    /\ cursor = [c \in Consumers |-> 1]
    /\ futex_val = [c \in Consumers |-> 0]

-----------------------------------------------------------------------------
(* Producer *)

(* publish_progress: the store of write_seq, of one message or a batch.    *)
Publish(seq) ==
    /\ ppc = "idle"
    /\ seq > published
    /\ published' = seq
    /\ ppc' = "check"
    /\ UNCHANGED <<headerVars, registered, consumerVars>>

(* A store of the producer becomes visible.                                *)
Drain(seq) ==
    /\ write_seq < seq /\ seq <= published
    /\ write_seq' = seq
    /\ UNCHANGED <<futex_word, waiting, producerVars, consumerVars>>

(* wake_futex: the load of waiting_consumers.                              *)
CheckWaiting ==
    /\ ppc = "check"
    /\ ppc' = IF waiting # {} THEN "bump" ELSE "idle"
    /\ UNCHANGED <<headerVars, published, registered, consumerVars>>

(* Mutant of BumpFutex: the word is left as it is.                         *)
WakeOnly ==
    /\ ppc = "bump"
    /\ write_seq' = published
    /\ ppc' = "wake"
    /\ UNCHANGED <<futex_word, waiting, published, registered, consumerVars>>

(* wake_futex: the fetch_add releases the producer's earlier stores.       *)
BumpFutex ==
    /\ ppc = "bump"
    /\ futex_word' = futex_word + 1
    /\ write_seq' = published
    /\ ppc' = "wake"
    /\ UNCHANGED <<waiting, published, registered, consumerVars>>

(* wake_futex: FUTEX_WAKE of every sleeper.                                *)
WakeAll ==
    /\ ppc = "wake"
    /\ cpc' = [c \in Consumers |-> IF cpc[c] = "asleep" THEN "leave" ELSE cpc[c]]
    /\ ppc' = "idle"
    /\ UNCHANGED <<headerVars, published, registered, cursor, futex_val>>

ProducerDies ==
    /\ ppc # "dead"
    /\ ppc' = "dead"
    /\ UNCHANGED <<headerVars, published, registered, consumerVars>>

ProducerStep == CheckWaiting \/ BumpFutex \/ WakeAll

-----------------------------------------------------------------------------
(* Consumers *)

ToPc(c, pc) == cpc' = [cpc EXCEPT ![c] = pc]

(* The message is out; off by one in the mutant.                           *)
AvailableEarly(c) == write_seq + 1 >= cursor[c]

Available(c) == write_seq >= cursor[c]

(* recv_blocking's try_recv returns an item.                               *)
Receive(c) ==
    /\ cpc[c] = "idle"
    /\ Available(c)
    /\ cursor' = [cursor EXCEPT ![c] = @ + 1]
    /\ UNCHANGED <<headerVars, producerVars, cpc, futex_val>>

(* wait: the fast check, after the spins.                                  *)
FastCheck(c) ==
    /\ cpc[c] = "idle"
    /\ ~Available(c)
    /\ ToPc(c, "value")
    /\ UNCHANGED <<headerVars, producerVars, cursor, futex_val>>

LoadFutexWord(c) ==
    /\ cpc[c] = "value"
    /\ futex_val' = [futex_val EXCEPT ![c] = futex_word]
    /\ ToPc(c, "enter")
    /\ UNCHANGED <<headerVars, producerVars, cursor>>

(* wait: waiting_consumers.fetch_add.                                      *)
Enter(c) ==
    /\ cpc[c] = "enter"
    /\ waiting' = waiting \cup {c}
    /\ ToPc(c, "barrier")
    /\ UNCHANGED <<write_seq, futex_word, producerVars, cursor, futex_val>>

(* producer_barrier: a full barrier in the producer, if it registered.  In  *)
(* the mutant nobody is.                                                   *)
NoBarrier == write_seq

BarrierEffect == IF registered THEN published ELSE write_seq

Barrier(c) ==
    /\ cpc[c] = "barrier"
    /\ write_seq' = BarrierEffect
    /\ ToPc(c, "recheck")
    /\ UNCHANGED <<futex_word, waiting, producerVars, cursor, futex_val>>

CheckAgain(c) ==
    /\ cpc[c] = "recheck"
    /\ ToPc(c, IF Available(c) THEN "leave" ELSE "sleep")
    /\ UNCHANGED <<headerVars, producerVars, cursor, futex_val>>

(* FUTEX_WAIT: the kernel puts the thread to sleep only if the word still   *)
(* has the value loaded before.                                            *)
WordUnchanged(c) == futex_word = futex_val[c]

Sleep(c) ==
    /\ cpc[c] = "sleep"
    /\ ToPc(c, IF WordUnchanged(c) THEN "asleep" ELSE "leave")
    /\ UNCHANGED <<headerVars, producerVars, cursor, futex_val>>

(* The sleep is bounded, by SAFETY_TIMEOUT at most.                         *)
Timeout(c) ==
    /\ cpc[c] = "asleep"
    /\ ToPc(c, "leave")
    /\ UNCHANGED <<headerVars, producerVars, cursor, futex_val>>

(* wait: waiting_consumers.fetch_sub.                                      *)
Leave(c) ==
    /\ cpc[c] = "leave"
    /\ waiting' = waiting \ {c}
    /\ ToPc(c, "idle")
    /\ UNCHANGED <<write_seq, futex_word, producerVars, cursor, futex_val>>

(* A consumer that dies inside wait stays counted.                         *)
ConsumerDies(c) ==
    /\ cpc[c] # "dead"
    /\ ToPc(c, "dead")
    /\ UNCHANGED <<headerVars, producerVars, cursor, futex_val>>

ConsumerStep(c) ==
    \/ Receive(c) \/ FastCheck(c) \/ LoadFutexWord(c) \/ Enter(c) \/ Barrier(c)
    \/ CheckAgain(c) \/ Sleep(c) \/ Leave(c)

-----------------------------------------------------------------------------

WaitNext ==
    \/ \E seq \in 1..MaxSeq : Publish(seq)
    \/ \E seq \in 1..MaxSeq : Drain(seq)
    \/ ProducerStep
    \/ ProducerDies
    \/ \E c \in Consumers : ConsumerStep(c) \/ Timeout(c) \/ ConsumerDies(c)

WaitSpec == WaitInit /\ [][WaitNext]_waitVars

(* Stores become visible some time, a publish goes on to its wake-up unless *)
(* the producer dies, consumers stay in recv_blocking.  Timeouts are relied *)
(* on only where wait.rs says so: when the producer could not register, or  *)
(* died.                                                                    *)
WaitFairSpec ==
    /\ WaitSpec
    /\ WF_waitVars(Drain(published))
    /\ WF_waitVars(ProducerStep)
    /\ \A c \in Consumers :
          /\ WF_waitVars(ConsumerStep(c))
          /\ WF_waitVars((~registered \/ ppc = "dead") /\ Timeout(c))

-----------------------------------------------------------------------------
(* Properties *)

(* The header never runs ahead of the producer, and the program counters    *)
(* are those of wake_futex and wait.                                       *)
WaitTypeOK ==
    /\ published \in 0..MaxSeq
    /\ write_seq \in 0..published
    /\ futex_word \in Nat
    /\ waiting \in SUBSET Consumers
    /\ ppc \in {"idle", "check", "bump", "wake", "dead"}
    /\ registered \in BOOLEAN
    /\ cpc \in [Consumers -> {"idle", "value", "enter", "barrier", "recheck", "sleep",
                              "asleep", "leave", "dead"}]
    /\ cursor \in [Consumers -> 1..(MaxSeq + 1)]
    /\ futex_val \in [Consumers -> Nat]

(* No lost wake-up: a consumer sleeps on a message that is out only while   *)
(* the producer is still on its way to waking it ("Either the producer's   *)
(* last publish is visible after this barrier, or its next check of        *)
(* waiting_consumers sees our registration and wakes us").  A producer     *)
(* that died on its way leaves it to the timeout.                          *)
NoLostWakeup ==
    \A c \in Consumers :
        registered /\ cpc[c] = "asleep" /\ published >= cursor[c]
            => ppc \in {"check", "bump", "wake", "dead"}

(* Every consumer gets every message: without timeouts as long as a         *)
(* registered producer lives, with them in any case.                       *)
MessageArrives ==
    \A c \in Consumers : \A n \in 1..MaxSeq :
        published >= n ~> cursor[c] > n \/ cpc[c] = "dead"

=============================================================================
