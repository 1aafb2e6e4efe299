---------------------------- MODULE Multiplexer -----------------------------
(***************************************************************************)
(* How a process polls its channels and how it waits for them: the          *)
(* scheduling of RingMultiplexer and AsyncRingMultiplexer (multiplexer.rs) *)
(* and the backoff of AsyncRingConsumer (async_ring.rs), whose recv polls  *)
(* the one channel it has.                                                 *)
(*                                                                         *)
(* A pass polls the channels one after the other; the producers go on       *)
(* between two polls.  An asynchronous call repeats passes: some at once,   *)
(* some after a yield to the executor, then one after a timer.  Stream's    *)
(* poll_next does the same without a future of its own: its yields and its  *)
(* timer stay in the consumer when the caller drops the wait.              *)
(***************************************************************************)
EXTENDS Integers

CONSTANTS
    Tasks,          \* one process or task each, the owner of a multiplexer
    MaxChannels,    \* of every task: the channels it adds
    MaxBatch,       \* max_items of recv_batch_any, buf.len() of recv_batch
    MaxSpins,       \* 32, and 64 in recv_any
    MaxYields       \* 8, and 16 in recv_any

ASSUME MultiplexerAssumption ==
    /\ MaxChannels \in [Tasks -> Nat \ {0}]
    /\ MaxBatch \in Nat \ {0}
    /\ MaxSpins \in Nat
    /\ MaxYields \in Nat

VARIABLES
    len,        \* consumers.len()
    nextIdx,    \* next_idx
    call,       \* the call that the task is in
    at,         \* where it is: see States
    start, i,   \* the pass: its first channel and the channels polled
    batch,      \* items of the batch so far
    spins, yields,
    timer,      \* the idle timer: "none", "created", "armed" or "elapsed"
    due,        \* history: channels with a message when the pass began, not yet polled
    waited      \* history: passes in a row that ended before they polled the channel

passVars == <<start, i, due>>
backoffVars == <<spins, yields, timer>>
muxVars == <<len, nextIdx, call, at, batch, passVars, backoffVars, waited>>

Channels == UNION {0..(MaxChannels[t] - 1) : t \in Tasks}

SyncCalls == {"any", "priority", "batch"}
AsyncCalls == {"recv", "recv_batch", "stream"}

(* "out": between calls; "poll": in a pass; "loop": at the head of          *)
(* poll_next's loop; "woken": it returned Pending and will be polled again; *)
(* "asleep": it returned Pending and waits for its timer.                  *)
States == {"out", "poll", "loop", "woken", "asleep"}

MuxInit ==
    /\ len = [t \in Tasks |-> 0]
    /\ nextIdx = [t \in Tasks |-> 0]
    /\ call = [t \in Tasks |-> "none"]
    /\ at = [t \in Tasks |-> "out"]
    /\ start = [t \in Tasks |-> 0]
    /\ i = [t \in Tasks |-> 0]
    /\ batch = [t \in Tasks |-> 0]
    /\ spins = [t \in Tasks |-> 0]
    /\ yields = [t \in Tasks |-> 0]
    /\ timer = [t \in Tasks |-> "none"]
    /\ due = [t \in Tasks |-> {}]
    /\ waited = [t \in Tasks |-> [c \in Channels |-> 0]]

-----------------------------------------------------------------------------

Set(f, t, v) == [f EXCEPT ![t] = v]

(* add                                                                     *)
Add(t) ==
    /\ at[t] = "out" /\ len[t] < MaxChannels[t]
    /\ len' = Set(len, t, len[t] + 1)
    /\ UNCHANGED <<nextIdx, call, at, batch, passVars, backoffVars, waited>>

(* A pass is over: its locals are gone.                                    *)
EndPass(t) ==
    /\ start' = Set(start, t, 0)
    /\ i' = Set(i, t, 0)
    /\ due' = Set(due, t, {})

(* The call returns, or its future is dropped.                             *)
Return(t) ==
    /\ at' = Set(at, t, "out")
    /\ call' = Set(call, t, "none")
    /\ batch' = Set(batch, t, 0)
    /\ spins' = Set(spins, t, 0)
    /\ EndPass(t)

(* A pass begins; `ready` is the set of channels that have a message now.  *)
BeginPass(t, ready) ==
    /\ at' = Set(at, t, "poll")
    /\ start' = Set(start, t, nextIdx[t])
    /\ i' = Set(i, t, 0)
    /\ due' = Set(due, t, ready)

(* try_recv_any, try_recv_priority, recv_batch_any, recv_any, recv and the  *)
(* recv_batch of a single consumer: the call and its first pass.           *)
Call(t, c, ready) ==
    /\ at[t] = "out" /\ len[t] > 0
    /\ c = "recv_batch" => len[t] = 1
    /\ call' = Set(call, t, c)
    /\ BeginPass(t, ready)
    /\ UNCHANGED <<len, nextIdx, batch, backoffVars, waited>>

(* StreamExt::next: the executor polls the stream of a single consumer.    *)
StreamNext(t) ==
    /\ at[t] = "out" /\ len[t] = 1
    /\ call' = Set(call, t, "stream")
    /\ at' = Set(at, t, "loop")
    /\ UNCHANGED <<len, nextIdx, batch, passVars, backoffVars, waited>>

(* The head of poll_next's loop.  Polling a timer that has not elapsed      *)
(* registers the task with it.  In the mutant the wait returns without     *)
(* polling the timer it made.                                              *)
StreamLoopUnregistered(t, ready) ==
    /\ at[t] = "loop"
    /\ IF timer[t] \in {"created", "armed"}
       THEN at' = Set(at, t, "asleep") /\ UNCHANGED <<spins, yields, timer, passVars>>
       ELSE /\ yields' = Set(yields, t, IF timer[t] = "elapsed" THEN 0 ELSE yields[t])
            /\ timer' = Set(timer, t, "none")
            /\ spins' = Set(spins, t, 0)
            /\ BeginPass(t, ready)
    /\ UNCHANGED <<len, nextIdx, call, batch, waited>>

StreamLoop(t, ready) ==
    /\ at[t] = "loop"
    /\ IF timer[t] \in {"created", "armed"}
       THEN /\ timer' = Set(timer, t, "armed")
            /\ at' = Set(at, t, "asleep")
            /\ UNCHANGED <<spins, yields, passVars>>
       ELSE /\ yields' = Set(yields, t, IF timer[t] = "elapsed" THEN 0 ELSE yields[t])
            /\ timer' = Set(timer, t, "none")
            /\ spins' = Set(spins, t, 0)
            /\ BeginPass(t, ready)
    /\ UNCHANGED <<len, nextIdx, call, batch, waited>>

(* The channel that the pass polls now.                                    *)
Polled(t) ==
    IF call[t] = "priority" THEN i[t] ELSE (start[t] + i[t]) % len[t]

(* next_idx after a message from channel c; the mutant stays on c.         *)
SameChannel(t, c) == c

AfterChannel(t, c) == (c + 1) % len[t]

(* History: the channels that were passed over.                            *)
Waited(t, c) ==
    [d \in Channels |->
        IF d = c THEN 0
        ELSE IF call[t] # "priority" /\ d \in due[t] THEN waited[t][d] + 1
        ELSE waited[t][d]]

(* The poll found a message: the call returns it, or goes on with its       *)
(* batch.                                                                  *)
Found(t, ready) ==
    LET c == Polled(t) IN
    /\ at[t] = "poll"
    /\ nextIdx' = Set(nextIdx, t, IF call[t] = "priority" THEN nextIdx[t] ELSE AfterChannel(t, c))
    /\ waited' = Set(waited, t, Waited(t, c))
    /\ IF call[t] \in {"batch", "recv_batch"} /\ batch[t] + 1 < MaxBatch
       THEN /\ batch' = Set(batch, t, batch[t] + 1)
            /\ start' = Set(start, t, nextIdx'[t])
            /\ i' = Set(i, t, 0)
            /\ due' = Set(due, t, ready)
            /\ UNCHANGED <<at, call, spins>>
       ELSE Return(t)
    /\ yields' = Set(yields, t, IF call[t] \in AsyncCalls THEN 0 ELSE yields[t])
    /\ UNCHANGED <<len, timer>>

(* More channels to poll in this pass.  The mutant leaves the last one out. *)
OneChannelLess(t) == i[t] + 2 < len[t]

MoreChannels(t) == i[t] + 1 < len[t]

(* An asynchronous call after a pass without a message: spin, yield to the  *)
(* executor, or wait for the timer.  The mutant keeps on spinning.         *)
BackoffSpinning(t, ready) ==
    /\ BeginPass(t, ready)
    /\ UNCHANGED backoffVars

Backoff(t, ready) ==
    \/ /\ spins[t] < MaxSpins
       /\ spins' = Set(spins, t, spins[t] + 1)
       /\ BeginPass(t, ready)
       /\ UNCHANGED <<yields, timer>>
    \/ /\ spins[t] >= MaxSpins /\ yields[t] < MaxYields
       /\ yields' = Set(yields, t, yields[t] + 1)
       /\ at' = Set(at, t, "woken")
       /\ EndPass(t)
       /\ UNCHANGED <<spins, timer>>
    \/ /\ spins[t] >= MaxSpins /\ yields[t] >= MaxYields
       /\ IF call[t] = "stream"
          THEN timer' = Set(timer, t, "created") /\ at' = Set(at, t, "loop")
          ELSE timer' = Set(timer, t, "armed") /\ at' = Set(at, t, "asleep")
       /\ EndPass(t)
       /\ UNCHANGED <<spins, yields>>

(* The poll found the channel empty: on to the next one, or the call         *)
(* returns (None, or what a batch has so far), or backs off.               *)
Empty(t, ready) ==
    /\ at[t] = "poll"
    /\ \/ /\ MoreChannels(t)
          /\ i' = Set(i, t, i[t] + 1)
          /\ due' = Set(due, t, due[t] \ {Polled(t)})
          /\ UNCHANGED <<at, call, batch, start, backoffVars>>
       \/ /\ ~MoreChannels(t) /\ (call[t] \in SyncCalls \/ batch[t] > 0)
          /\ Return(t)
          /\ UNCHANGED <<yields, timer>>
       \/ /\ ~MoreChannels(t) /\ call[t] \in AsyncCalls /\ batch[t] = 0
          /\ Backoff(t, ready)
          /\ UNCHANGED <<call, batch>>
    /\ waited' = [waited EXCEPT ![t][Polled(t)] = 0]
    /\ UNCHANGED <<len, nextIdx>>

(* The executor polls a woken task.  A future continues after its await: in *)
(* recv the timer's wait has reset the counters; a stream starts poll_next *)
(* again.                                                                  *)
Resume(t, ready) ==
    /\ at[t] = "woken"
    /\ IF call[t] = "stream"
       THEN at' = Set(at, t, "loop") /\ UNCHANGED <<backoffVars, passVars>>
       ELSE /\ BeginPass(t, ready)
            /\ IF timer[t] = "elapsed"
               THEN /\ spins' = Set(spins, t, 0)
                    /\ yields' = Set(yields, t, 0)
                    /\ timer' = Set(timer, t, "none")
               ELSE UNCHANGED backoffVars
    /\ UNCHANGED <<len, nextIdx, call, batch, waited>>

(* tokio's timer elapses and wakes the task that registered with it.        *)
Elapse(t) ==
    /\ timer[t] \in {"created", "armed"}
    /\ timer' = Set(timer, t, "elapsed")
    /\ at' = Set(at, t, IF at[t] = "asleep" /\ timer[t] = "armed" THEN "woken" ELSE at[t])
    /\ UNCHANGED <<len, nextIdx, call, batch, spins, yields, passVars, waited>>

(* The caller drops the future while it waits (select!, timeout).  The      *)
(* stream keeps its timer and its count of yields.                         *)
Cancel(t) ==
    /\ at[t] \in {"woken", "asleep"}
    /\ Return(t)
    /\ IF call[t] = "stream"
       THEN UNCHANGED <<yields, timer>>
       ELSE yields' = Set(yields, t, 0) /\ timer' = Set(timer, t, "none")
    /\ UNCHANGED <<len, nextIdx, waited>>

(* The process ends.                                                       *)
DropMux(t) ==
    /\ len' = Set(len, t, 0)
    /\ nextIdx' = Set(nextIdx, t, 0)
    /\ Return(t)
    /\ yields' = Set(yields, t, 0)
    /\ timer' = Set(timer, t, "none")
    /\ waited' = Set(waited, t, [c \in Channels |-> 0])

-----------------------------------------------------------------------------

MuxTypeOK ==
    /\ len \in [Tasks -> Nat] /\ \A t \in Tasks : len[t] <= MaxChannels[t]
    /\ nextIdx \in [Tasks -> Nat] /\ \A t \in Tasks : nextIdx[t] <= len[t]
    /\ call \in [Tasks -> SyncCalls \cup AsyncCalls \cup {"none"}]
    /\ at \in [Tasks -> States]
    /\ start \in [Tasks -> Nat] /\ i \in [Tasks -> Nat]
    /\ batch \in [Tasks -> 0..MaxBatch]
    /\ spins \in [Tasks -> 0..MaxSpins]
    /\ yields \in [Tasks -> 0..MaxYields]
    /\ timer \in [Tasks -> {"none", "created", "armed", "elapsed"}]
    /\ due \in [Tasks -> SUBSET Channels]
    /\ waited \in [Tasks -> [Channels -> Nat]]

=============================================================================
