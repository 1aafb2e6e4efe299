---------------------------- MODULE ConsumerApp -----------------------------
(***************************************************************************)
(* Consumer processes that poll several rings through a multiplexer and     *)
(* keep their place in offset files: Multiplexer, Checkpoint and the attach *)
(* and commit of spmc.rs over lossy rings.                                 *)
(*                                                                         *)
(* A ring is what Broadcast promises of it, with the one state in which a   *)
(* poll finds nothing although there are messages: the producer is writing *)
(* the slot that the reader wants.  A producer that comes back makes a new *)
(* ring at the path; attached readers keep the old one.  A process dies at *)
(* any moment and starts over, and two processes may use one offset file.  *)
(***************************************************************************)
EXTENDS Checkpoint, Multiplexer, RingSlots

CONSTANTS
    Gens,       \* bound: the rings that a channel's path names one after the other
    MaxSeq,     \* bound: messages of every channel's rings
    Deployments \* which program every process runs, one of these

(* "plain": one RingConsumer; "sync": a RingMultiplexer of them; "async":     *)
(* an AsyncRingMultiplexer, or one AsyncRingConsumer, with recv;            *)
(* "stream": one AsyncRingConsumer used as a Stream; "off": none.           *)
Programs == {"plain", "sync", "async", "stream", "off"}

ASSUME ConsumerAppAssumption ==
    /\ Tasks = Procs
    /\ Files \subseteq Channels
    /\ Gens \subseteq Nat /\ 0 \in Gens
    /\ MaxSeq \in [Channels -> [Gens -> Nat]]
    /\ Deployments \subseteq [Procs -> Programs]

VARIABLES
    gen,            \* of every channel: the ring that the path names
    head,           \* of every ring: write_seq
    writing,        \* of every ring: message head + 1 is being written
    kind,           \* the program that a process runs, over all its restarts
    attaching,      \* it is inside attach_with_options
    seen, seenGen,  \* the write_seq, and the ring, that attach looked at
    cursor, view,   \* of every consumer: its position and its ring
    from,           \* history: where the consumer, or the ones it resumes, began
    origin,         \* history: `from` and ring of an offset file's last commit
    covered         \* history: messages received or reported as lapped

ringVars == <<gen, head, writing>>
attachVars == <<kind, attaching, seen, seenGen>>
consumerVars == <<cursor, view>>
historyVars == <<from, origin, covered>>
vars == <<checkpointVars, muxVars, ringVars, attachVars, consumerVars, historyVars>>

Init ==
    /\ CheckpointInit
    /\ MuxInit
    /\ gen = [c \in Channels |-> 0]
    /\ head = [c \in Channels |-> [g \in Gens |-> 0]]
    /\ writing = [c \in Channels |-> [g \in Gens |-> FALSE]]
    /\ kind \in Deployments
    /\ attaching = [p \in Procs |-> FALSE]
    /\ seen = [p \in Procs |-> 0]
    /\ seenGen = [p \in Procs |-> 0]
    /\ cursor = [p \in Procs |-> [c \in Channels |-> 1]]
    /\ view = [p \in Procs |-> [c \in Channels |-> 0]]
    /\ from = [p \in Procs |-> [c \in Channels |-> 1]]
    /\ origin = [f \in Files |-> [from |-> 0, gen |-> 0]]
    /\ covered = [f \in Files |-> [g \in Gens |-> {}]]

-----------------------------------------------------------------------------
(* Producers *)

(* The channels that a program reads.                                      *)
ChannelsOf(p) ==
    CASE kind[p] = "off" -> {}
      [] kind[p] \in {"sync", "async"} -> 0..(MaxChannels[p] - 1)
      [] OTHER -> {0}

Read(c) == \E p \in Procs : c \in ChannelsOf(p)

BeginPush(c) ==
    /\ Read(c)
    /\ ~writing[c][gen[c]] /\ head[c][gen[c]] < MaxSeq[c][gen[c]]
    /\ writing' = [writing EXCEPT ![c][gen[c]] = TRUE]
    /\ UNCHANGED <<checkpointVars, muxVars, gen, head, attachVars, consumerVars, historyVars>>

EndPush(c) ==
    /\ writing[c][gen[c]]
    /\ writing' = [writing EXCEPT ![c][gen[c]] = FALSE]
    /\ head' = [head EXCEPT ![c][gen[c]] = @ + 1]
    /\ UNCHANGED <<checkpointVars, muxVars, gen, attachVars, consumerVars, historyVars>>

(* The producer, perhaps dead in the middle of a push, is replaced by one   *)
(* that makes a new ring at the path.                                      *)
Recreate(c) ==
    /\ Read(c) /\ gen[c] + 1 \in Gens /\ MaxSeq[c][gen[c] + 1] > 0
    /\ gen' = [gen EXCEPT ![c] = @ + 1]
    /\ UNCHANGED <<checkpointVars, muxVars, head, writing, attachVars, consumerVars, historyVars>>

-----------------------------------------------------------------------------
(* attach_with_options and RingMultiplexer::add *)

Adding(p) == len[p]

Retained(p) == OldestRetained(seen[p])

(* The ring is opened and its write_seq loaded.                            *)
AttachLoad(p) ==
    LET c == Adding(p) IN
    /\ ~attaching[p] /\ at[p] = "out" /\ c \in ChannelsOf(p)
    /\ attaching' = [attaching EXCEPT ![p] = TRUE]
    /\ seenGen' = [seenGen EXCEPT ![p] = gen[c]]
    /\ seen' = [seen EXCEPT ![p] = head[c][gen[c]]]
    /\ UNCHANGED <<kind, checkpointVars, muxVars, ringVars, consumerVars, historyVars>>

(* The steps of open_or_create.                                            *)
OpenCheckpoint(p) ==
    /\ attaching[p] /\ Adding(p) \in Files
    /\ \/ cp[p] = "closed" /\ OpenFile(p, Adding(p))
       \/ Grow(p)
       \/ WriteWord(p)
       \/ Validate(p)
    /\ UNCHANGED <<muxVars, ringVars, attachVars, consumerVars, historyVars>>

(* ConsumerStartMode, where a reader without a saved offset starts: Latest,  *)
(* Head, Oldest, or any Sequence up to the bound, also one that is yet to   *)
(* be written.                                                             *)
StartModes(p) ==
    {Max2(seen[p], 1), seen[p] + 1, Retained(p)} \cup 1..MaxSeq[Adding(p)][seenGen[p]]

(* The first message that the reader asks for: the one after the saved      *)
(* offset.  The mutant starts one further on.                              *)
AfterNext(saved) == saved + 2

ResumeAt(saved) == saved + 1

Wanted(p) ==
    IF Adding(p) \in Files /\ Load(Adding(p)) # NotCommitted
    THEN {ResumeAt(Load(Adding(p)))}
    ELSE StartModes(p)

(* History: a reader that resumes answers for what its predecessors began. *)
BeganAt(p, wanted) ==
    LET c == Adding(p) IN
    IF c \in Files /\ origin[c].from # 0 /\ origin[c].gen = seenGen[p]
    THEN origin[c].from ELSE wanted

(* Messages a..b-1 of a channel's ring were received or reported lapped.   *)
Cover(c, g, a, b) ==
    covered' = IF c \in Files THEN [covered EXCEPT ![c][g] = @ \cup a..(b - 1)] ELSE covered

(* The cursor, clamped to the oldest message of the write_seq loaded        *)
(* before, and what was lost on the way; the consumer joins the             *)
(* multiplexer.                                                            *)
Place(p) ==
    LET c == Adding(p) IN
    /\ attaching[p] /\ (c \in Files => cp[p] = "open")
    /\ \E wanted \in Wanted(p) :
          LET first == Max2(wanted, Retained(p)) IN
          /\ cursor' = [cursor EXCEPT ![p][c] = first]
          /\ from' = [from EXCEPT ![p][c] = BeganAt(p, wanted)]
          /\ Cover(c, seenGen[p], wanted, first)
    /\ view' = [view EXCEPT ![p][c] = seenGen[p]]
    /\ attaching' = [attaching EXCEPT ![p] = FALSE]
    /\ seen' = [seen EXCEPT ![p] = 0]
    /\ seenGen' = [seenGen EXCEPT ![p] = 0]
    /\ Add(p)
    /\ cp' = [cp EXCEPT ![p] = "closed"]
    /\ UNCHANGED <<slotVars, cpFile, words, abandoned, reset, ringVars, kind, origin>>

(* open_or_create failed, and with it attach.                              *)
AttachFail(p) ==
    /\ cp[p] = "invalid"
    /\ attaching' = [attaching EXCEPT ![p] = FALSE]
    /\ seen' = [seen EXCEPT ![p] = 0]
    /\ seenGen' = [seenGen EXCEPT ![p] = 0]
    /\ CloseFiles(p)
    /\ UNCHANGED <<muxVars, ringVars, kind, consumerVars, historyVars>>

-----------------------------------------------------------------------------
(* Receiving *)

(* The slot of message n is in the middle of a write.                      *)
InWrite(c, g, n) == writing[c][g] /\ Index(n) = Index(head[c][g] + 1)

(* Where a poll leaves its cursor before it takes a message: past what was  *)
(* overwritten, unless the slot it wants is in the middle of a write.      *)
Skipped(p, c) ==
    LET g == view[p][c] IN
    IF InWrite(c, g, cursor[p][c]) THEN cursor[p][c]
    ELSE Max2(cursor[p][c], OldestRetained(head[c][g]))

HasMessage(p, c) ==
    LET g == view[p][c] IN
    /\ Skipped(p, c) <= head[c][g]
    /\ ~InWrite(c, g, Skipped(p, c))

Ready(p) == {c \in 0..(len[p] - 1) : HasMessage(p, c)}

CallsOf(k) == CASE k = "sync" -> SyncCalls
                [] k = "async" -> {"any", "recv", "recv_batch"}
                [] OTHER -> {"any"}

StartCall(p) ==
    /\ ~attaching[p]
    /\ \/ \E c \in CallsOf(kind[p]) : Call(p, c, Ready(p))
       \/ kind[p] = "stream" /\ StreamNext(p)
    /\ UNCHANGED <<checkpointVars, ringVars, attachVars, consumerVars, historyVars>>

(* One try_recv of a pass.                                                 *)
Poll(p) ==
    LET c == Polled(p)
        g == view[p][c]
        next == Skipped(p, c) + (IF HasMessage(p, c) THEN 1 ELSE 0)
    IN
    /\ at[p] = "poll"
    /\ cursor' = [cursor EXCEPT ![p][c] = next]
    /\ Cover(c, g, cursor[p][c], next)
    /\ UNCHANGED <<checkpointVars, ringVars, attachVars, view, from, origin>>
    /\ LET ready == {d \in 0..(len[p] - 1) : HasMessage(p, d)'} IN
       IF HasMessage(p, c) THEN Found(p, ready) ELSE Empty(p, ready)

LoopHead(p) ==
    /\ StreamLoop(p, Ready(p))
    /\ UNCHANGED <<checkpointVars, ringVars, attachVars, consumerVars, historyVars>>

Continue(p) ==
    /\ Resume(p, Ready(p))
    /\ UNCHANGED <<checkpointVars, ringVars, attachVars, consumerVars, historyVars>>

TimerElapses(p) ==
    /\ Elapse(p)
    /\ UNCHANGED <<checkpointVars, ringVars, attachVars, consumerVars, historyVars>>

DropFuture(p) ==
    /\ Cancel(p)
    /\ UNCHANGED <<checkpointVars, ringVars, attachVars, consumerVars, historyVars>>

(* commit_offset of a consumer of the multiplexer: last_processed_sequence  *)
(* is saved.  The mutant saves the cursor itself.                          *)
CursorItself(p, c) == cursor[p][c]

LastProcessed(p, c) == cursor[p][c] - 1

Commit(p, c) ==
    /\ kind[p] \in {"plain", "sync"} /\ at[p] = "out" /\ c < len[p]
    /\ Save(c, LastProcessed(p, c))
    /\ origin' = [origin EXCEPT ![c] =
          [from |-> IF offset'[c] = NotCommitted THEN 0 ELSE from[p][c], gen |-> view[p][c]]]
    /\ UNCHANGED <<cp, cpFile, words, abandoned, reset, muxVars, ringVars, attachVars,
                   consumerVars, from, covered>>

(* The process dies, or ends.                                              *)
Die(p) ==
    /\ len[p] > 0 \/ attaching[p]
    /\ CloseFiles(p)
    /\ DropMux(p)
    /\ attaching' = [attaching EXCEPT ![p] = FALSE]
    /\ seen' = [seen EXCEPT ![p] = 0]
    /\ seenGen' = [seenGen EXCEPT ![p] = 0]
    /\ cursor' = [cursor EXCEPT ![p] = [c \in Channels |-> 1]]
    /\ view' = [view EXCEPT ![p] = [c \in Channels |-> 0]]
    /\ from' = [from EXCEPT ![p] = [c \in Channels |-> 1]]
    /\ UNCHANGED <<ringVars, kind, origin, covered>>

-----------------------------------------------------------------------------

TaskStep(p) == Poll(p) \/ LoopHead(p) \/ Continue(p)

Next ==
    \/ \E c \in Channels : BeginPush(c) \/ EndPush(c) \/ Recreate(c)
    \/ \E p \in Procs :
          \/ AttachLoad(p) \/ OpenCheckpoint(p) \/ Place(p) \/ AttachFail(p)
          \/ StartCall(p) \/ TaskStep(p) \/ TimerElapses(p) \/ DropFuture(p)
          \/ \E c \in Files : Commit(p, c)
          \/ Die(p)

Spec == Init /\ [][Next]_vars

(* The processes that some deployment runs as an asynchronous program.     *)
AsyncProcs == {p \in Procs : \E d \in Deployments : d[p] \in {"async", "stream"}}

(* The executor goes on with a task that it polls or that was woken, and a  *)
(* timer elapses.  Nothing is assumed of the producers.                    *)
FairSpec ==
    /\ Spec
    /\ \A p \in AsyncProcs :
          /\ WF_vars(kind[p] \in {"async", "stream"} /\ TaskStep(p))
          /\ WF_vars(TimerElapses(p))

-----------------------------------------------------------------------------
(* Properties *)

TypeOK ==
    /\ CheckpointTypeOK
    /\ MuxTypeOK
    /\ gen \in [Channels -> Gens]
    /\ head \in [Channels -> [Gens -> Nat]]
    /\ writing \in [Channels -> [Gens -> BOOLEAN]]
    /\ kind \in [Procs -> Programs]
    /\ attaching \in [Procs -> BOOLEAN]
    /\ seen \in [Procs -> Nat]
    /\ seenGen \in [Procs -> Gens]
    /\ cursor \in [Procs -> [Channels -> Nat \ {0}]]
    /\ view \in [Procs -> [Channels -> Gens]]
    /\ from \in [Procs -> [Channels -> Nat]]
    /\ origin \in [Files -> [from : Nat, gen : Gens]]
    /\ covered \in [Files -> [Gens -> SUBSET Nat]]

(* A consumer that keeps its place in an offset file misses nothing         *)
(* silently, over any number of restarts ("Automatic consumer crash         *)
(* recovery"): every message from where its first predecessor began up to   *)
(* its cursor was received, or reported as lapped, by one of them.  Except  *)
(* where two processes created the file at once and the slower one wiped a  *)
(* committed offset.  It follows one ring, not an offset that is applied to *)
(* a re-created one, and commits other than 0, which load takes for an      *)
(* offset that was never committed.                                        *)
NoSilentLoss ==
    \A p \in Procs, f \in Files :
        f < len[p] /\ ~reset[f] =>
            from[p][f]..(cursor[p][f] - 1) \subseteq covered[f][view[p][f]]

(* open_or_create refuses an offset file as invalid only while another       *)
(* process is still creating it, or because one died doing so: the file is   *)
(* never spoilt by processes that live.                                    *)
RefusalExplained ==
    \A p \in Procs :
        cp[p] = "validate" /\ ~magic[cpFile[p]] =>
            \/ abandoned[cpFile[p]]
            \/ \E q \in Procs \ {p} :
                  cp[q] = "write" /\ cpFile[q] = cpFile[p] /\ "magic" \in words[q]

(* Round-robin is fair: with n channels, at most n - 1 passes in a row       *)
(* return another channel's message before they come to poll a channel      *)
(* that had one when they began.                                           *)
NoChannelStarves ==
    \A p \in Procs : \A c \in 0..(len[p] - 1) : waited[p][c] < len[p]

(* A pass that returns nothing has polled every channel that had a message  *)
(* when it began, wherever it began and however many channels were added    *)
(* since.                                                                  *)
NothingMeansNothing ==
    [][\A p \in Procs : Poll(p) /\ ~HasMessage(p, Polled(p)) /\ ~MoreChannels(p) =>
          due[p] \subseteq {Polled(p)}]_vars

(* An awaited message arrives: a task that waits in recv, recv_any or a     *)
(* stream does not wait for ever while one of its channels has a message.  *)
Awaiting(p) == at[p] # "out" /\ call[p] \in AsyncCalls /\ Ready(p) # {}

AwaitedMessageArrives == \A p \in AsyncProcs : Awaiting(p) ~> ~Awaiting(p)

(* "so other Tokio tasks are never starved": a task that finds nothing      *)
(* returns to its executor.                                                *)
Running(p) == at[p] \in {"poll", "loop"} /\ call[p] \in AsyncCalls

ExecutorGetsItsTurn == \A p \in AsyncProcs : Running(p) ~> ~Running(p)

=============================================================================
