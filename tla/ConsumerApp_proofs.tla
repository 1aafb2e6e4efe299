------------------------ MODULE ConsumerApp_proofs --------------------------
(***************************************************************************)
(* Proofs about consumers that multiplex rings and keep their place in      *)
(* offset files, for every number of processes, channels, offset files and *)
(* rings, every capacity, every limit of the backoff and every mixture of  *)
(* programs, whatever dies when.                                           *)
(***************************************************************************)
EXTENDS ConsumerApp, TLAPS

(* How many polls of a round-robin pass that starts at s come before the    *)
(* one of channel c, with n channels.                                      *)
Dist(s, c, n) == IF c >= s THEN c - s ELSE c + n - s

Turn(t, c) == IF call[t] = "priority" THEN c ELSE Dist(start[t], c, len[t])

(* Where the rounds are: next_idx names a channel, and a channel that       *)
(* waited for k passes is at least k places nearer than the last one.      *)
RoundInvOf(t) ==
    /\ nextIdx[t] < len[t] \/ (nextIdx[t] = 0 /\ len[t] = 0)
    /\ \A c \in Channels :
          /\ c >= len[t] => waited[t][c] = 0
          /\ c < len[t] => waited[t][c] + Dist(nextIdx[t], c, len[t]) < len[t]

(* Where a pass is: it started at next_idx, what is due in it is still to   *)
(* be polled, and what it polled waits for nothing.                        *)
PassInvOf(t) ==
    /\ at[t] # "out" => len[t] > 0
    /\ at[t] # "poll" => due[t] = {}
    /\ at[t] = "poll" => i[t] < len[t] /\ start[t] = nextIdx[t]
    /\ \A c \in due[t] : c < len[t] /\ Turn(t, c) >= i[t]
    /\ at[t] = "poll" /\ call[t] # "priority" =>
          \A c \in Channels : c < len[t] /\ Dist(start[t], c, len[t]) < i[t] => waited[t][c] = 0

MuxInvOf(t) == RoundInvOf(t) /\ PassInvOf(t)

MuxInv == \A t \in Tasks : MuxInvOf(t)

(* The process that will make the slot of file f valid.                    *)
Creates(q, f) == cp[q] = "write" /\ cpFile[q] = f /\ "magic" \in words[q]

(* A file of full length without a magic word has someone who writes it,    *)
(* or lost the one who did; only files of full length are validated.       *)
SlotInv ==
    /\ \A f \in Files : sized[f] /\ ~magic[f] => abandoned[f] \/ \E q \in Procs : Creates(q, f)
    /\ \A p \in Procs : cp[p] = "validate" => sized[cpFile[p]]

(* A process is inside open_or_create only for the channel that it attaches. *)
OpenInv ==
    \A p \in Procs : cp[p] # "closed" => attaching[p] /\ Adding(p) \in Files

(* What an offset file promises to the reader that resumes from it: all     *)
(* messages from the first predecessor's first one up to the saved offset   *)
(* are accounted for.                                                      *)
OffsetInv ==
    \A f \in Files : ~reset[f] /\ origin[f].from # 0 =>
        /\ offset[f] # NotCommitted
        /\ origin[f].from..offset[f] \subseteq covered[f][origin[f].gen]

(* The inductive invariant.                                                *)
IInv == TypeOK /\ MuxInv /\ SlotInv /\ OpenInv /\ OffsetInv /\ NoSilentLoss

-----------------------------------------------------------------------------
(* Channels and turns *)

(* The channels are numbers, and a process's own are among them.           *)
LEMMA ChannelFacts ==
    /\ Channels \subseteq Nat
    /\ \A t \in Tasks : /\ MaxChannels[t] \in Nat \ {0}
                        /\ \A c \in 0..(MaxChannels[t] - 1) : c \in Channels
BY MultiplexerAssumption DEF Channels

(* The remainder of a number below 2n.                                     *)
LEMMA ModFacts ==
    ASSUME NEW n \in Nat \ {0}, NEW a \in 0..(2 * n - 1)
    PROVE  a % n = IF a < n THEN a ELSE a - n
<1>1. CASE a < n
  BY <1>1
<1>2. CASE a >= n
  BY <1>2
<1> QED BY <1>1, <1>2

(* Poll number k of a pass that starts at s asks the channel whose distance *)
(* from s is k, and no other.                                              *)
LEMMA TurnFacts ==
    ASSUME NEW n \in Nat \ {0}, NEW s \in 0..(n - 1), NEW k \in 0..(n - 1)
    PROVE  /\ (s + k) % n \in 0..(n - 1)
           /\ \A c \in 0..(n - 1) : Dist(s, c, n) \in 0..(n - 1)
           /\ \A c \in 0..(n - 1) : Dist(s, c, n) = k <=> c = (s + k) % n
<1>1. PICK a \in 0..(2 * n - 1) : a = s + k
  OBVIOUS
<1>2. (s + k) % n = IF s + k < n THEN s + k ELSE s + k - n
  <2>1. a % n = IF a < n THEN a ELSE a - n
    BY ModFacts
  <2> QED BY <1>1, <2>1
<1>3. (s + k) % n \in 0..(n - 1)
  BY <1>2
<1>4. \A c \in 0..(n - 1) : Dist(s, c, n) \in 0..(n - 1)
  BY DEF Dist
<1>5. \A c \in 0..(n - 1) : Dist(s, c, n) = k <=> c = (s + k) % n
  BY <1>2 DEF Dist
<1> QED BY <1>3, <1>4, <1>5

(* The pass after one that ended with channel c: what was behind c moves    *)
(* nearer, c and what was before it go to the end.                         *)
LEMMA NextTurnFacts ==
    ASSUME NEW n \in Nat \ {0}, NEW s \in 0..(n - 1), NEW k \in 0..(n - 1),
           NEW c \in 0..(n - 1), Dist(s, c, n) = k
    PROVE  /\ (c + 1) % n \in 0..(n - 1)
           /\ \A d \in 0..(n - 1) :
                 Dist((c + 1) % n, d, n) =
                     IF Dist(s, d, n) > k THEN Dist(s, d, n) - k - 1 ELSE Dist(s, d, n) + n - k - 1
<1>1. PICK a \in 0..(2 * n - 1) : a = c + 1
  OBVIOUS
<1>2. (c + 1) % n = IF c + 1 < n THEN c + 1 ELSE 0
  <2>1. a % n = IF a < n THEN a ELSE a - n
    BY ModFacts
  <2> QED BY <1>1, <2>1
<1> QED BY <1>2 DEF Dist

-----------------------------------------------------------------------------
(* The multiplexer *)

(* What a step of another task leaves alone.                               *)
SameMux(t) ==
    /\ len'[t] = len[t] /\ nextIdx'[t] = nextIdx[t] /\ waited'[t] = waited[t]
    /\ call'[t] = call[t] /\ at'[t] = at[t]
    /\ start'[t] = start[t] /\ i'[t] = i[t] /\ due'[t] = due[t]

(* The task's channels and their turns stay as they are.                   *)
Quiet(t) == len'[t] = len[t] /\ nextIdx'[t] = nextIdx[t] /\ waited'[t] = waited[t]

(* The task is in no pass.                                                 *)
Rests(t) == at'[t] # "poll" /\ due'[t] = {} /\ (at'[t] # "out" => len'[t] > 0)

(* The task begins a pass.                                                 *)
Begins(t) ==
    /\ at'[t] = "poll" /\ len'[t] > 0
    /\ start'[t] = nextIdx'[t] /\ i'[t] = 0
    /\ due'[t] \subseteq 0..(len'[t] - 1)

(* What concerns one task depends on its own variables only.               *)
LEMMA SameKeeps ==
    ASSUME NEW t \in Tasks, MuxInvOf(t), SameMux(t)
    PROVE  MuxInvOf(t)'
BY DEF MuxInvOf, RoundInvOf, PassInvOf, Turn, SameMux, Dist

(* When no pass is under way, or one begins, only the rounds matter.       *)
LEMMA PassKeeps ==
    ASSUME NEW t \in Tasks, MuxTypeOK', RoundInvOf(t)', Rests(t) \/ Begins(t)
    PROVE  MuxInvOf(t)'
<1>1. len'[t] \in Nat /\ nextIdx'[t] \in Nat
  BY DEF MuxTypeOK
<1>2. CASE Rests(t)
  BY <1>2 DEF MuxInvOf, PassInvOf, Rests
<1>3. CASE Begins(t)
  <2>1. nextIdx'[t] < len'[t]
    BY <1>1, <1>3 DEF RoundInvOf, Begins
  <2>2. \A c \in Nat : c < len'[t] => Dist(nextIdx'[t], c, len'[t]) \in Nat
    BY <1>1, <2>1 DEF Dist
  <2>3. \A c \in due'[t] : c < len'[t] /\ Turn(t, c)' >= i'[t]
    <3> SUFFICES ASSUME NEW c \in due'[t]
                 PROVE  c < len'[t] /\ Turn(t, c)' >= i'[t]
      OBVIOUS
    <3>1. c \in Nat /\ c < len'[t]
      BY <1>1, <1>3 DEF Begins
    <3>2. Turn(t, c)' = IF call'[t] = "priority" THEN c ELSE Dist(nextIdx'[t], c, len'[t])
      BY <1>3 DEF Turn, Begins, Dist
    <3> QED BY <1>3, <2>2, <3>1, <3>2 DEF Begins
  <2>4. \A c \in Channels : c < len'[t] => ~(Dist(start'[t], c, len'[t]) < i'[t])
    BY <1>3, <2>2, ChannelFacts DEF Begins
  <2>5. PassInvOf(t)'
    <3>1. (\A c \in Channels : c < len[t] /\ Dist(start[t], c, len[t]) < i[t] => waited[t][c] = 0)'
      BY <2>4 DEF Dist
    <3> QED BY <1>1, <1>3, <2>1, <2>3, <3>1 DEF PassInvOf, Begins
  <2> QED BY <2>5 DEF MuxInvOf
<1> QED BY <1>2, <1>3

(* Between passes, and when a pass begins, nobody's turn changes.          *)
LEMMA QuietKeeps ==
    ASSUME NEW t \in Tasks, MuxTypeOK', MuxInvOf(t), Quiet(t), Rests(t) \/ Begins(t)
    PROVE  MuxInvOf(t)'
<1>1. RoundInvOf(t)'
  BY DEF MuxInvOf, RoundInvOf, Quiet, Dist
<1> QED BY <1>1, PassKeeps

(* Channels that are ready are channels.                                   *)
LEMMA ReadyFacts ==
    ASSUME NEW t \in Tasks, MuxTypeOK, NEW ready \in SUBSET (0..(len[t] - 1))
    PROVE  ready \in SUBSET Channels
BY ChannelFacts DEF MuxTypeOK

(* An assignment to one task's variable.                                   *)
LEMMA SetFacts ==
    ASSUME NEW S, NEW f \in [Tasks -> S], NEW t \in Tasks, NEW v \in S
    PROVE  /\ Set(f, t, v) \in [Tasks -> S]
           /\ Set(f, t, v)[t] = v
           /\ \A u \in Tasks \ {t} : Set(f, t, v)[u] = f[u]
BY DEF Set

Timers == {"none", "created", "armed", "elapsed"}

(* The counters of a call stay within their limits when they are set within *)
(* them.                                                                   *)
LEMMA CounterFacts ==
    ASSUME MuxTypeOK, NEW t \in Tasks
    PROVE  /\ 0 \in 0..MaxBatch /\ 0 \in 0..MaxSpins /\ 0 \in 0..MaxYields
           /\ batch[t] \in 0..MaxBatch /\ spins[t] \in 0..MaxSpins /\ yields[t] \in 0..MaxYields
           /\ batch \in [Tasks -> 0..MaxBatch] /\ spins \in [Tasks -> 0..MaxSpins]
           /\ yields \in [Tasks -> 0..MaxYields] /\ timer \in [Tasks -> Timers]
           /\ \A n \in 0..MaxBatch : Set(batch, t, n) \in [Tasks -> 0..MaxBatch]
           /\ \A n \in 0..MaxSpins : Set(spins, t, n) \in [Tasks -> 0..MaxSpins]
           /\ \A n \in 0..MaxYields : Set(yields, t, n) \in [Tasks -> 0..MaxYields]
           /\ \A x \in Timers : Set(timer, t, x) \in [Tasks -> Timers]
<1>1. 0 \in 0..MaxBatch /\ 0 \in 0..MaxSpins /\ 0 \in 0..MaxYields
  BY MultiplexerAssumption
<1>2. \A n \in 0..MaxBatch : Set(batch, t, n) \in [Tasks -> 0..MaxBatch]
  BY SetFacts DEF MuxTypeOK
<1>3. \A n \in 0..MaxSpins : Set(spins, t, n) \in [Tasks -> 0..MaxSpins]
  BY SetFacts DEF MuxTypeOK
<1>4. \A n \in 0..MaxYields : Set(yields, t, n) \in [Tasks -> 0..MaxYields]
  BY SetFacts DEF MuxTypeOK
<1>5. \A x \in Timers : Set(timer, t, x) \in [Tasks -> Timers]
  BY SetFacts DEF MuxTypeOK, Timers
<1>6. /\ batch \in [Tasks -> 0..MaxBatch] /\ spins \in [Tasks -> 0..MaxSpins]
      /\ yields \in [Tasks -> 0..MaxYields] /\ timer \in [Tasks -> Timers]
  BY DEF MuxTypeOK, Timers
<1>7. batch[t] \in 0..MaxBatch /\ spins[t] \in 0..MaxSpins /\ yields[t] \in 0..MaxYields
  BY <1>6
<1> QED BY <1>1, <1>2, <1>3, <1>4, <1>5, <1>6, <1>7

PassTypeOK ==
    /\ at \in [Tasks -> States]
    /\ start \in [Tasks -> Nat] /\ i \in [Tasks -> Nat]
    /\ due \in [Tasks -> SUBSET Channels]

(* The variables of a pass when one begins.                                *)
LEMMA BeginPassFacts ==
    ASSUME MuxTypeOK, NEW t \in Tasks, NEW ready \in SUBSET Channels, BeginPass(t, ready)
    PROVE  /\ PassTypeOK'
           /\ at'[t] = "poll" /\ start'[t] = nextIdx[t] /\ i'[t] = 0 /\ due'[t] = ready
           /\ \A u \in Tasks \ {t} : /\ at'[u] = at[u] /\ start'[u] = start[u]
                                     /\ i'[u] = i[u] /\ due'[u] = due[u]
<1> USE DEF MuxTypeOK, BeginPass, Set, PassTypeOK
<1>1. /\ at' \in [Tasks -> States] /\ at'[t] = "poll"
      /\ \A u \in Tasks \ {t} : at'[u] = at[u]
  BY DEF States
<1>2. /\ start' \in [Tasks -> Nat] /\ i' \in [Tasks -> Nat]
      /\ start'[t] = nextIdx[t] /\ i'[t] = 0
      /\ \A u \in Tasks \ {t} : start'[u] = start[u] /\ i'[u] = i[u]
  OBVIOUS
<1>3. /\ due' \in [Tasks -> SUBSET Channels] /\ due'[t] = ready
      /\ \A u \in Tasks \ {t} : due'[u] = due[u]
  OBVIOUS
<1> QED BY <1>1, <1>2, <1>3

(* And when it ends.                                                       *)
LEMMA EndPassFacts ==
    ASSUME MuxTypeOK, NEW t \in Tasks, EndPass(t)
    PROVE  /\ start' \in [Tasks -> Nat] /\ i' \in [Tasks -> Nat]
           /\ due' \in [Tasks -> SUBSET Channels] /\ due'[t] = {}
           /\ \A u \in Tasks \ {t} : start'[u] = start[u] /\ i'[u] = i[u] /\ due'[u] = due[u]
BY DEF MuxTypeOK, EndPass, Set

(* The variables of a call when it returns.                                *)
LEMMA ReturnFacts ==
    ASSUME MuxTypeOK, NEW t \in Tasks, Return(t)
    PROVE  /\ PassTypeOK'
           /\ call' \in [Tasks -> SyncCalls \cup AsyncCalls \cup {"none"}]
           /\ batch' \in [Tasks -> 0..MaxBatch] /\ spins' \in [Tasks -> 0..MaxSpins]
           /\ at'[t] = "out" /\ due'[t] = {}
           /\ \A u \in Tasks \ {t} : /\ at'[u] = at[u] /\ call'[u] = call[u]
                                     /\ start'[u] = start[u] /\ i'[u] = i[u] /\ due'[u] = due[u]
<1>1. /\ at' \in [Tasks -> States] /\ at'[t] = "out"
      /\ \A u \in Tasks \ {t} : at'[u] = at[u]
  BY DEF MuxTypeOK, Return, Set, States
<1>2. /\ call' \in [Tasks -> SyncCalls \cup AsyncCalls \cup {"none"}]
      /\ \A u \in Tasks \ {t} : call'[u] = call[u]
  BY DEF MuxTypeOK, Return, Set
<1>3. batch' \in [Tasks -> 0..MaxBatch] /\ spins' \in [Tasks -> 0..MaxSpins]
  BY CounterFacts DEF Return
<1> QED BY <1>1, <1>2, <1>3, EndPassFacts DEF Return, PassTypeOK

(* add: the new channel goes to the end of the round, and has waited for    *)
(* nothing.                                                                *)
LEMMA AddKeeps ==
    ASSUME MuxTypeOK, MuxInv, NEW t \in Tasks, Add(t)
    PROVE  MuxTypeOK' /\ MuxInv'
<1>1. len[t] \in Nat /\ nextIdx[t] \in Nat /\ len'[t] = len[t] + 1
  BY DEF MuxTypeOK, Add, Set
<1>2. MuxTypeOK'
  <2>1. len' \in [Tasks -> Nat] /\ \A u \in Tasks \ {t} : len'[u] = len[u]
    BY DEF MuxTypeOK, Add, Set
  <2>2. \A u \in Tasks : len'[u] <= MaxChannels[u] /\ nextIdx[u] <= len'[u]
    <3>1. len[t] + 1 <= MaxChannels[t]
      BY <1>1, ChannelFacts DEF Add
    <3>2. nextIdx[t] <= len[t] + 1
      BY <1>1 DEF MuxTypeOK
    <3> QED BY <1>1, <2>1, <3>1, <3>2 DEF MuxTypeOK
  <2> QED BY <2>1, <2>2 DEF MuxTypeOK, Add, passVars, backoffVars
<1>3. RoundInvOf(t)'
  <2> SUFFICES ASSUME NEW c \in Channels
               PROVE  /\ nextIdx[t] < len'[t]
                      /\ c >= len'[t] => waited[t][c] = 0
                      /\ c < len'[t] => waited[t][c] + Dist(nextIdx[t], c, len'[t]) < len'[t]
    <3>1. 0 \in Channels
      BY ChannelFacts
    <3> QED BY <3>1 DEF RoundInvOf, Add, Dist
  <2>1. c \in Nat /\ waited[t][c] \in Nat
    BY ChannelFacts DEF MuxTypeOK
  <2>2. /\ c >= len[t] => waited[t][c] = 0
        /\ c < len[t] => waited[t][c] + Dist(nextIdx[t], c, len[t]) < len[t]
    BY DEF MuxInv, MuxInvOf, RoundInvOf
  <2>3. nextIdx[t] <= len[t]
    BY DEF MuxTypeOK
  <2> QED BY <1>1, <2>1, <2>2, <2>3 DEF Dist
<1>4. Rests(t)
  BY DEF Rests, Add, passVars, MuxInv, MuxInvOf, PassInvOf
<1>5. \A u \in Tasks \ {t} : SameMux(u)
  BY DEF SameMux, Add, Set, MuxTypeOK, passVars
<1> QED BY <1>2, <1>3, <1>4, <1>5, PassKeeps, SameKeeps DEF MuxInv

(* A call and its first pass, and a stream that is polled.                 *)
LEMMA CallKeeps ==
    ASSUME MuxTypeOK, MuxInv, NEW t \in Tasks, NEW ready \in SUBSET (0..(len[t] - 1)),
           \/ \E c \in SyncCalls \cup AsyncCalls : Call(t, c, ready)
           \/ StreamNext(t)
    PROVE  MuxTypeOK' /\ MuxInv'
<1>1. ready \in SUBSET Channels
  BY ReadyFacts
<1>2. CASE \E c \in SyncCalls \cup AsyncCalls : Call(t, c, ready)
  <2> USE <1>1, <1>2, BeginPassFacts
  <2>1. /\ call' \in [Tasks -> SyncCalls \cup AsyncCalls \cup {"none"}]
        /\ \A u \in Tasks \ {t} : call'[u] = call[u]
    BY DEF MuxTypeOK, Call, Set
  <2>2. MuxTypeOK'
    BY <2>1 DEF MuxTypeOK, PassTypeOK, Call, backoffVars
  <2>3. Quiet(t) /\ Begins(t)
    BY DEF Quiet, Begins, Call
  <2>4. \A u \in Tasks \ {t} : SameMux(u)
    BY <2>1 DEF SameMux, Call
  <2> QED BY <2>2, <2>3, <2>4, QuietKeeps, SameKeeps DEF MuxInv
<1>3. CASE StreamNext(t)
  <2>1. MuxTypeOK'
    BY <1>3 DEF MuxTypeOK, StreamNext, Set, passVars, backoffVars, States, AsyncCalls
  <2>2. Quiet(t) /\ Rests(t)
    <3>1. due[t] = {}
      BY <1>3 DEF StreamNext, MuxInv, MuxInvOf, PassInvOf
    <3>2. at'[t] = "loop"
      BY <1>3 DEF MuxTypeOK, StreamNext, Set
    <3> QED BY <1>3, <3>1, <3>2 DEF Quiet, Rests, StreamNext, passVars
  <2>3. \A u \in Tasks \ {t} : SameMux(u)
    BY <1>3 DEF SameMux, MuxTypeOK, StreamNext, Set, passVars
  <2> QED BY <2>1, <2>2, <2>3, QuietKeeps, SameKeeps DEF MuxInv
<1> QED BY <1>2, <1>3

(* The head of poll_next's loop.                                           *)
LEMMA StreamLoopKeeps ==
    ASSUME MuxTypeOK, MuxInv, NEW t \in Tasks, NEW ready \in SUBSET (0..(len[t] - 1)),
           StreamLoop(t, ready)
    PROVE  MuxTypeOK' /\ MuxInv'
<1>1. ready \in SUBSET Channels
  BY ReadyFacts
<1>2. len[t] > 0 /\ due[t] = {}
  BY DEF MuxInv, MuxInvOf, PassInvOf, StreamLoop
<1>3. MuxTypeOK'
  <2>1. CASE timer[t] \in {"created", "armed"}
    BY <2>1 DEF MuxTypeOK, StreamLoop, Set, passVars, States
  <2>2. CASE timer[t] \notin {"created", "armed"}
    <3>1. PICK n \in 0..MaxYields : yields' = Set(yields, t, n)
      BY <2>2, CounterFacts DEF StreamLoop
    <3>2. spins' \in [Tasks -> 0..MaxSpins] /\ yields' \in [Tasks -> 0..MaxYields]
      BY <2>2, <3>1, CounterFacts DEF StreamLoop
    <3>3. timer' \in [Tasks -> Timers]
      BY <2>2, CounterFacts DEF StreamLoop, Timers
    <3> QED BY <1>1, <2>2, <3>2, <3>3, BeginPassFacts DEF MuxTypeOK, PassTypeOK, StreamLoop, Timers
  <2> QED BY <2>1, <2>2
<1>4. Quiet(t) /\ (Begins(t) \/ Rests(t))
  BY <1>2 DEF Quiet, Begins, Rests, MuxTypeOK, StreamLoop, BeginPass, Set, passVars
<1>5. \A u \in Tasks \ {t} : SameMux(u)
  BY DEF SameMux, MuxTypeOK, StreamLoop, BeginPass, Set, passVars
<1> QED BY <1>3, <1>4, <1>5, QuietKeeps, SameKeeps DEF MuxInv

(* A woken task is polled.                                                 *)
LEMMA ResumeKeeps ==
    ASSUME MuxTypeOK, MuxInv, NEW t \in Tasks, NEW ready \in SUBSET (0..(len[t] - 1)),
           Resume(t, ready)
    PROVE  MuxTypeOK' /\ MuxInv'
<1>1. ready \in SUBSET Channels
  BY ReadyFacts
<1>2. len[t] > 0 /\ due[t] = {}
  BY DEF MuxInv, MuxInvOf, PassInvOf, Resume
<1>3. Quiet(t)
  BY DEF Quiet, Resume
<1>4. CASE call[t] = "stream"
  <2>1. MuxTypeOK'
    BY <1>4 DEF MuxTypeOK, Resume, Set, States, passVars, backoffVars
  <2>2. Rests(t)
    BY <1>2, <1>4 DEF Rests, MuxTypeOK, Resume, Set, passVars
  <2>3. \A u \in Tasks \ {t} : SameMux(u)
    BY <1>4 DEF SameMux, MuxTypeOK, Resume, Set, passVars
  <2> QED BY <1>3, <2>1, <2>2, <2>3, QuietKeeps, SameKeeps DEF MuxInv
<1>5. CASE call[t] # "stream"
  <2>1. /\ spins' \in [Tasks -> 0..MaxSpins] /\ yields' \in [Tasks -> 0..MaxYields]
        /\ timer' \in [Tasks -> Timers]
    <3>1. CASE timer[t] = "elapsed"
      BY <1>5, <3>1, CounterFacts DEF Resume, Timers
    <3>2. CASE timer[t] # "elapsed"
      BY <1>5, <3>2, CounterFacts DEF Resume, backoffVars
    <3> QED BY <3>1, <3>2
  <2>2. MuxTypeOK'
    BY <1>1, <1>5, <2>1, BeginPassFacts DEF MuxTypeOK, PassTypeOK, Resume, Timers
  <2>3. Begins(t)
    BY <1>1, <1>2, <1>5, BeginPassFacts DEF Begins, Resume
  <2>4. \A u \in Tasks \ {t} : SameMux(u)
    BY <1>1, <1>5, BeginPassFacts DEF SameMux, Resume
  <2> QED BY <1>3, <2>2, <2>3, <2>4, QuietKeeps, SameKeeps DEF MuxInv
<1> QED BY <1>4, <1>5

(* The timer elapses, while the task waits for it or not.                  *)
LEMMA ElapseKeeps ==
    ASSUME MuxTypeOK, MuxInv, NEW t \in Tasks, Elapse(t)
    PROVE  MuxTypeOK' /\ MuxInv'
<1>1. timer' \in [Tasks -> Timers]
  BY CounterFacts DEF Elapse, Timers
<1>2. /\ at' \in [Tasks -> States]
      /\ at'[t] = IF at[t] = "asleep" /\ timer[t] = "armed" THEN "woken" ELSE at[t]
      /\ \A u \in Tasks \ {t} : at'[u] = at[u]
  BY DEF MuxTypeOK, Elapse, Set, States
<1>3. MuxTypeOK'
  BY <1>1, <1>2 DEF MuxTypeOK, Elapse, passVars, Timers
<1>4. \A u \in Tasks \ {t} : SameMux(u)
  BY <1>2 DEF SameMux, Elapse, passVars
<1>5. CASE at'[t] = at[t]
  BY <1>2, <1>3, <1>4, <1>5, SameKeeps DEF SameMux, Elapse, passVars, MuxInv
<1>6. CASE at'[t] # at[t]
  <2>1. at[t] = "asleep" /\ at'[t] = "woken"
    BY <1>2, <1>6
  <2>2. Quiet(t) /\ Rests(t)
    BY <2>1 DEF Quiet, Rests, Elapse, passVars, MuxInv, MuxInvOf, PassInvOf
  <2> QED BY <1>3, <1>4, <2>2, QuietKeeps, SameKeeps DEF MuxInv
<1> QED BY <1>5, <1>6

(* The caller drops the future.                                            *)
LEMMA CancelKeeps ==
    ASSUME MuxTypeOK, MuxInv, NEW t \in Tasks, Cancel(t)
    PROVE  MuxTypeOK' /\ MuxInv'
<1>1. yields' \in [Tasks -> 0..MaxYields] /\ timer' \in [Tasks -> Timers]
  <2>1. CASE call[t] = "stream"
    BY <2>1, CounterFacts DEF Cancel
  <2>2. CASE call[t] # "stream"
    BY <2>2, CounterFacts DEF Cancel, Timers
  <2> QED BY <2>1, <2>2
<1>2. MuxTypeOK'
  BY <1>1, ReturnFacts DEF MuxTypeOK, PassTypeOK, Cancel, Timers
<1>3. Quiet(t) /\ Rests(t)
  BY ReturnFacts DEF Quiet, Rests, Cancel
<1>4. \A u \in Tasks \ {t} : SameMux(u)
  BY ReturnFacts DEF SameMux, Cancel
<1> QED BY <1>2, <1>3, <1>4, QuietKeeps, SameKeeps DEF MuxInv

(* The process ends.                                                       *)
LEMMA DropMuxKeeps ==
    ASSUME MuxTypeOK, MuxInv, NEW t \in Tasks, DropMux(t)
    PROVE  MuxTypeOK' /\ MuxInv'
<1>1. yields' \in [Tasks -> 0..MaxYields] /\ timer' \in [Tasks -> Timers]
  BY CounterFacts DEF DropMux, Timers
<1>2. /\ len' \in [Tasks -> Nat] /\ len'[t] = 0 /\ nextIdx' \in [Tasks -> Nat] /\ nextIdx'[t] = 0
      /\ \A u \in Tasks \ {t} : len'[u] = len[u] /\ nextIdx'[u] = nextIdx[u]
  BY DEF MuxTypeOK, DropMux, Set
<1>3. /\ waited' \in [Tasks -> [Channels -> Nat]] /\ waited'[t] = [c \in Channels |-> 0]
      /\ \A u \in Tasks \ {t} : waited'[u] = waited[u]
  BY DEF MuxTypeOK, DropMux, Set
<1>4. \A u \in Tasks : len'[u] <= MaxChannels[u] /\ nextIdx'[u] <= len'[u]
  <2>1. 0 <= MaxChannels[t]
    BY ChannelFacts
  <2>2. \A u \in Tasks : len[u] <= MaxChannels[u] /\ nextIdx[u] <= len[u]
    BY DEF MuxTypeOK
  <2> QED BY <1>2, <2>1, <2>2
<1>5. MuxTypeOK'
  BY <1>1, <1>2, <1>3, <1>4, ReturnFacts DEF MuxTypeOK, PassTypeOK, DropMux, Timers
<1>6. \A u \in Tasks \ {t} : SameMux(u)
  BY <1>2, <1>3, ReturnFacts DEF SameMux, DropMux
<1>7. RoundInvOf(t)'
  <2>1. \A c \in Channels : waited'[t][c] = 0
    BY <1>3
  <2>2. \A c \in Channels : c \in Nat
    BY ChannelFacts
  <2> QED BY <1>2, <2>1, <2>2 DEF RoundInvOf
<1>8. Rests(t)
  BY ReturnFacts DEF Rests, DropMux
<1> QED BY <1>5, <1>6, <1>7, <1>8, PassKeeps, SameKeeps DEF MuxInv

(* The channel that a pass polls.                                          *)
LEMMA PolledFacts ==
    ASSUME MuxTypeOK, NEW t \in Tasks, MuxInvOf(t), at[t] = "poll"
    PROVE  /\ len[t] \in Nat \ {0} /\ i[t] \in 0..(len[t] - 1)
           /\ start[t] \in 0..(len[t] - 1) /\ start[t] = nextIdx[t]
           /\ Polled(t) \in 0..(len[t] - 1) /\ Polled(t) \in Channels
           /\ call[t] = "priority" => Polled(t) = i[t]
           /\ call[t] # "priority" =>
                 \A c \in 0..(len[t] - 1) : Dist(start[t], c, len[t]) = i[t] <=> c = Polled(t)
           /\ \A c \in 0..(len[t] - 1) : c \in Nat /\ Dist(start[t], c, len[t]) \in Nat
<1>1. /\ len[t] \in Nat \ {0} /\ i[t] \in 0..(len[t] - 1)
      /\ start[t] \in 0..(len[t] - 1) /\ start[t] = nextIdx[t]
  BY DEF MuxTypeOK, MuxInvOf, RoundInvOf, PassInvOf
<1>2. /\ (start[t] + i[t]) % len[t] \in 0..(len[t] - 1)
      /\ \A c \in 0..(len[t] - 1) : Dist(start[t], c, len[t]) \in 0..(len[t] - 1)
      /\ \A c \in 0..(len[t] - 1) :
            Dist(start[t], c, len[t]) = i[t] <=> c = (start[t] + i[t]) % len[t]
  BY <1>1, TurnFacts
<1>3. Polled(t) \in 0..(len[t] - 1)
  BY <1>1, <1>2 DEF Polled
<1>4. Polled(t) \in Channels
  <2>1. len[t] <= MaxChannels[t] /\ MaxChannels[t] \in Nat
    BY ChannelFacts DEF MuxTypeOK
  <2>2. Polled(t) \in 0..(MaxChannels[t] - 1)
    BY <1>1, <1>3, <2>1
  <2> QED BY <2>2, ChannelFacts
<1>5. \A c \in 0..(len[t] - 1) : c \in Nat /\ Dist(start[t], c, len[t]) \in Nat
  BY <1>1, <1>2
<1>6. /\ call[t] = "priority" => Polled(t) = i[t]
      /\ call[t] # "priority" =>
            \A c \in 0..(len[t] - 1) : Dist(start[t], c, len[t]) = i[t] <=> c = Polled(t)
  BY <1>2 DEF Polled
<1> QED BY <1>1, <1>3, <1>4, <1>5, <1>6

(* A channel that is due and not the polled one has a later turn.          *)
LEMMA DueFacts ==
    ASSUME MuxTypeOK, NEW t \in Tasks, MuxInvOf(t), at[t] = "poll", NEW d \in due[t]
    PROVE  /\ d \in 0..(len[t] - 1)
           /\ d # Polled(t) => Turn(t, d) \in Nat /\ Turn(t, d) > i[t]
<1>1. d < len[t] /\ Turn(t, d) >= i[t]
  BY DEF MuxInvOf, PassInvOf
<1>2. d \in Nat
  BY ChannelFacts DEF MuxTypeOK
<1>3. d \in 0..(len[t] - 1)
  BY <1>1, <1>2, PolledFacts
<1>4. Turn(t, d) \in Nat
  BY <1>3, PolledFacts DEF Turn
<1>5. d # Polled(t) => Turn(t, d) # i[t]
  BY <1>3, PolledFacts DEF Turn
<1>6. i[t] \in Nat
  BY PolledFacts
<1> QED BY <1>1, <1>3, <1>4, <1>5, <1>6

(* A pass that ends with a message: the channels behind the polled one gain  *)
(* what they waited, the polled one and those before it start over.        *)
LEMMA FoundRound ==
    ASSUME MuxTypeOK, NEW t \in Tasks, MuxInvOf(t), NEW ready, Found(t, ready)
    PROVE  RoundInvOf(t)' /\ nextIdx'[t] \in 0..(len[t] - 1)
<1> DEFINE c == Polled(t)
           n == len[t]
           s == start[t]
<1>1. /\ at[t] = "poll" /\ len'[t] = n
      /\ nextIdx'[t] = IF call[t] = "priority" THEN nextIdx[t] ELSE (c + 1) % n
      /\ waited'[t] = Waited(t, c)
  BY DEF Found, MuxTypeOK, Set, AfterChannel
<1>2. /\ n \in Nat \ {0} /\ i[t] \in 0..(n - 1) /\ s \in 0..(n - 1) /\ s = nextIdx[t]
      /\ c \in 0..(n - 1)
  BY <1>1, PolledFacts
<1>3. call[t] # "priority" => Dist(s, c, n) = i[t]
  BY <1>1, <1>2, PolledFacts
<1>4. call[t] # "priority" =>
         /\ (c + 1) % n \in 0..(n - 1)
         /\ \A d \in 0..(n - 1) :
               Dist((c + 1) % n, d, n) =
                  IF Dist(s, d, n) > i[t] THEN Dist(s, d, n) - i[t] - 1
                                          ELSE Dist(s, d, n) + n - i[t] - 1
  BY <1>2, <1>3, NextTurnFacts
<1>5. nextIdx'[t] \in 0..(n - 1)
  BY <1>1, <1>2, <1>4
<1>6. ASSUME NEW d \in Channels
      PROVE  /\ d >= n => waited'[t][d] = 0
             /\ d < n => waited'[t][d] + Dist(nextIdx'[t], d, n) < n
  <2>1. d \in Nat /\ waited[t][d] \in Nat
    BY ChannelFacts DEF MuxTypeOK
  <2>2. /\ d >= n => waited[t][d] = 0
        /\ d < n => waited[t][d] + Dist(s, d, n) < n
    BY <1>2 DEF MuxInvOf, RoundInvOf
  <2>3. waited'[t][d] = IF d = c THEN 0
                        ELSE IF call[t] # "priority" /\ d \in due[t] THEN waited[t][d] + 1
                        ELSE waited[t][d]
    BY <1>1 DEF Waited
  <2>4. CASE d >= n
    <3>1. d \notin due[t]
      BY <1>1, <1>2, <2>1, <2>4, DueFacts
    <3> QED BY <1>2, <2>1, <2>2, <2>3, <2>4, <3>1
  <2>5. CASE d < n
    <3>1. d \in 0..(n - 1) /\ Dist(s, d, n) \in 0..(n - 1)
      BY <1>2, <2>1, <2>5 DEF Dist
    <3>2. CASE call[t] = "priority"
      BY <1>1, <1>2, <2>1, <2>2, <2>3, <2>5, <3>1, <3>2
    <3>3. CASE call[t] # "priority" /\ d = c
      BY <1>1, <1>2, <1>3, <1>4, <2>1, <2>3, <2>5, <3>1, <3>3
    <3>4. CASE call[t] # "priority" /\ d # c
      <4>1. Dist(s, d, n) # i[t]
        BY <1>1, <3>1, <3>4, PolledFacts
      <4>2. CASE Dist(s, d, n) > i[t]
        <5>1. nextIdx'[t] = (c + 1) % n /\ Dist((c + 1) % n, d, n) = Dist(s, d, n) - i[t] - 1
          BY <1>1, <1>4, <3>1, <3>4, <4>2
        <5>2. waited'[t][d] \in Nat /\ waited'[t][d] <= waited[t][d] + 1
          BY <2>1, <2>3, <3>4
        <5> QED BY <1>2, <2>1, <2>2, <2>5, <3>1, <4>2, <5>1, <5>2
      <4>3. CASE Dist(s, d, n) < i[t]
        <5>1. d \notin due[t]
          BY <1>1, <1>2, <3>1, <3>4, <4>3, DueFacts DEF Turn
        <5>2. waited[t][d] = 0
          BY <1>1, <2>5, <3>4, <4>3 DEF MuxInvOf, PassInvOf
        <5>3. nextIdx'[t] = (c + 1) % n /\ Dist((c + 1) % n, d, n) = Dist(s, d, n) + n - i[t] - 1
          BY <1>1, <1>2, <1>4, <3>1, <3>4, <4>3
        <5> QED BY <1>2, <2>3, <2>5, <3>1, <3>4, <4>3, <5>1, <5>2, <5>3
      <4> QED BY <1>2, <3>1, <4>1, <4>2, <4>3
    <3> QED BY <3>2, <3>3, <3>4
  <2> QED BY <1>2, <2>1, <2>4, <2>5
<1>7. RoundInvOf(t)'
  BY <1>1, <1>2, <1>5, <1>6 DEF RoundInvOf
<1> QED BY <1>5, <1>7

(* A poll that finds a message.                                            *)
LEMMA FoundKeeps ==
    ASSUME MuxTypeOK, MuxInv, NEW t \in Tasks, NEW ready \in SUBSET (0..(len[t] - 1)),
           Found(t, ready)
    PROVE  MuxTypeOK' /\ MuxInv'
<1>1. ready \in SUBSET Channels
  BY ReadyFacts
<1>2. MuxInvOf(t) /\ at[t] = "poll"
  BY DEF MuxInv, Found
<1>3. RoundInvOf(t)' /\ nextIdx'[t] \in 0..(len[t] - 1)
  BY <1>2, FoundRound
<1>4. len[t] \in Nat \ {0} /\ Polled(t) \in Channels /\ len' = len
  BY <1>2, PolledFacts DEF Found
<1>5. /\ nextIdx' \in [Tasks -> Nat] /\ \A u \in Tasks : nextIdx'[u] <= len[u]
      /\ \A u \in Tasks \ {t} : nextIdx'[u] = nextIdx[u]
  <2>1. PICK v \in 0..(len[t] - 1) : nextIdx' = Set(nextIdx, t, v) /\ nextIdx'[t] = v
    BY <1>3 DEF Found, MuxTypeOK, Set
  <2>2. v \in Nat /\ v <= len[t]
    BY <1>4, <2>1
  <2>3. nextIdx' \in [Tasks -> Nat] /\ \A u \in Tasks \ {t} : nextIdx'[u] = nextIdx[u]
    BY <2>1, <2>2 DEF MuxTypeOK, Set
  <2> QED BY <2>1, <2>2, <2>3 DEF MuxTypeOK
<1>6. /\ waited' \in [Tasks -> [Channels -> Nat]]
      /\ \A u \in Tasks \ {t} : waited'[u] = waited[u]
  <2>1. waited[t] \in [Channels -> Nat]
    BY DEF MuxTypeOK
  <2>2. Waited(t, Polled(t)) \in [Channels -> Nat]
    BY <2>1 DEF Waited
  <2> QED BY <2>2 DEF Found, MuxTypeOK, Set
<1>7. yields' \in [Tasks -> 0..MaxYields] /\ timer' \in [Tasks -> Timers]
  <2>1. PICK n \in 0..MaxYields : yields' = Set(yields, t, n)
    BY CounterFacts DEF Found
  <2> QED BY <2>1, CounterFacts DEF Found
<1>8. CASE call[t] \in {"batch", "recv_batch"} /\ batch[t] + 1 < MaxBatch
  <2>1. batch' \in [Tasks -> 0..MaxBatch]
    <3>1. batch[t] + 1 \in 0..MaxBatch
      BY <1>8, CounterFacts, MultiplexerAssumption
    <3> QED BY <1>8, <3>1, CounterFacts DEF Found
  <2>3. /\ call' = call /\ spins' = spins /\ at' = at
        /\ start' = Set(start, t, nextIdx'[t]) /\ i' = Set(i, t, 0) /\ due' = Set(due, t, ready)
    BY <1>8 DEF Found
  <2>4. nextIdx'[t] \in Nat
    BY <1>3, <1>4
  <2>5. /\ start' \in [Tasks -> Nat] /\ start'[t] = nextIdx'[t]
        /\ i' \in [Tasks -> Nat] /\ i'[t] = 0
        /\ \A u \in Tasks \ {t} : start'[u] = start[u] /\ i'[u] = i[u]
    BY <2>3, <2>4 DEF MuxTypeOK, Set
  <2>6. /\ due' \in [Tasks -> SUBSET Channels] /\ due'[t] = ready
        /\ \A u \in Tasks \ {t} : due'[u] = due[u]
    BY <1>1, <2>3 DEF MuxTypeOK, Set
  <2>7. MuxTypeOK'
    BY <1>4, <1>5, <1>6, <1>7, <2>1, <2>3, <2>5, <2>6 DEF MuxTypeOK, Timers
  <2>8. Begins(t)
    BY <1>2, <1>4, <2>3, <2>5, <2>6 DEF Begins
  <2>9. \A u \in Tasks \ {t} : SameMux(u)
    BY <1>4, <1>5, <1>6, <2>3, <2>5, <2>6 DEF SameMux
  <2> QED BY <1>3, <2>7, <2>8, <2>9, PassKeeps, SameKeeps DEF MuxInv
<1>9. CASE ~(call[t] \in {"batch", "recv_batch"} /\ batch[t] + 1 < MaxBatch)
  <2>1. Return(t)
    BY <1>9 DEF Found
  <2>2. MuxTypeOK'
    BY <1>4, <1>5, <1>6, <1>7, <2>1, ReturnFacts DEF MuxTypeOK, PassTypeOK, Timers
  <2>3. Rests(t)
    BY <2>1, ReturnFacts DEF Rests
  <2>4. \A u \in Tasks \ {t} : SameMux(u)
    BY <1>4, <1>5, <1>6, <2>1, ReturnFacts DEF SameMux
  <2> QED BY <1>3, <2>2, <2>3, <2>4, PassKeeps, SameKeeps DEF MuxInv
<1> QED BY <1>8, <1>9

(* What a task does after a pass without a message: the next pass, or a wait. *)
LEMMA BackoffFacts ==
    ASSUME MuxTypeOK, NEW t \in Tasks, NEW ready \in SUBSET (0..(len[t] - 1)), len[t] > 0,
           Backoff(t, ready), UNCHANGED <<len, nextIdx, call>>
    PROVE  /\ PassTypeOK'
           /\ spins' \in [Tasks -> 0..MaxSpins] /\ yields' \in [Tasks -> 0..MaxYields]
           /\ timer' \in [Tasks -> Timers]
           /\ Rests(t) \/ Begins(t)
           /\ \A u \in Tasks \ {t} : /\ at'[u] = at[u] /\ start'[u] = start[u]
                                     /\ i'[u] = i[u] /\ due'[u] = due[u]
<1>1. ready \in SUBSET Channels
  BY ReadyFacts
<1>2. CASE spins[t] < MaxSpins /\ spins' = Set(spins, t, spins[t] + 1) /\ BeginPass(t, ready)
           /\ UNCHANGED <<yields, timer>>
  <2>1. spins[t] + 1 \in 0..MaxSpins
    BY <1>2, CounterFacts, MultiplexerAssumption
  <2>2. Begins(t)
    BY <1>1, <1>2, BeginPassFacts DEF Begins
  <2> QED BY <1>1, <1>2, <2>1, <2>2, CounterFacts, BeginPassFacts
<1>3. CASE yields[t] < MaxYields /\ yields' = Set(yields, t, yields[t] + 1)
           /\ at' = Set(at, t, "woken") /\ EndPass(t) /\ UNCHANGED <<spins, timer>>
  <2>1. yields[t] + 1 \in 0..MaxYields
    BY <1>3, CounterFacts, MultiplexerAssumption
  <2>2. /\ at' \in [Tasks -> States] /\ at'[t] = "woken"
        /\ \A u \in Tasks \ {t} : at'[u] = at[u]
    BY <1>3 DEF MuxTypeOK, Set, States
  <2>3. Rests(t)
    BY <1>3, <2>2, EndPassFacts DEF Rests
  <2> QED BY <1>3, <2>1, <2>2, <2>3, CounterFacts, EndPassFacts DEF PassTypeOK
<1>4. CASE /\ IF call[t] = "stream"
              THEN timer' = Set(timer, t, "created") /\ at' = Set(at, t, "loop")
              ELSE timer' = Set(timer, t, "armed") /\ at' = Set(at, t, "asleep")
           /\ EndPass(t) /\ UNCHANGED <<spins, yields>>
  <2>1. timer' \in [Tasks -> Timers]
    BY <1>4, CounterFacts DEF Timers
  <2>2. /\ at' \in [Tasks -> States] /\ at'[t] \in {"loop", "asleep"}
        /\ \A u \in Tasks \ {t} : at'[u] = at[u]
    BY <1>4 DEF MuxTypeOK, Set, States
  <2>3. Rests(t)
    BY <1>4, <2>2, EndPassFacts DEF Rests
  <2> QED BY <1>4, <2>1, <2>2, <2>3, CounterFacts, EndPassFacts DEF PassTypeOK
<1> QED BY <1>2, <1>3, <1>4 DEF Backoff

(* A poll that finds nothing.                                              *)
LEMMA EmptyKeeps ==
    ASSUME MuxTypeOK, MuxInv, NEW t \in Tasks, NEW ready \in SUBSET (0..(len[t] - 1)),
           Empty(t, ready)
    PROVE  MuxTypeOK' /\ MuxInv'
<1> DEFINE c == Polled(t)
<1>1. MuxInvOf(t) /\ at[t] = "poll" /\ len' = len /\ nextIdx' = nextIdx
  BY DEF MuxInv, Empty
<1>2. /\ len[t] \in Nat \ {0} /\ c \in 0..(len[t] - 1) /\ c \in Channels
      /\ i[t] \in 0..(len[t] - 1) /\ start[t] = nextIdx[t]
  BY <1>1, PolledFacts
<1>3. /\ waited' \in [Tasks -> [Channels -> Nat]]
      /\ waited'[t] = [waited[t] EXCEPT ![c] = 0]
      /\ \A u \in Tasks \ {t} : waited'[u] = waited[u]
  BY DEF Empty, MuxTypeOK
<1>4. \A d \in Channels : waited'[t][d] = IF d = c THEN 0 ELSE waited[t][d]
  BY <1>3 DEF MuxTypeOK
<1>5. RoundInvOf(t)'
  <2> SUFFICES ASSUME NEW d \in Channels
               PROVE  /\ d >= len[t] => waited'[t][d] = 0
                      /\ d < len[t] => waited'[t][d] + Dist(nextIdx[t], d, len[t]) < len[t]
    BY <1>1 DEF MuxInvOf, RoundInvOf, Dist
  <2>1. d \in Nat /\ waited[t][d] \in Nat
    BY ChannelFacts DEF MuxTypeOK
  <2>2. /\ d >= len[t] => waited[t][d] = 0
        /\ d < len[t] => waited[t][d] + Dist(nextIdx[t], d, len[t]) < len[t]
    BY <1>1 DEF MuxInvOf, RoundInvOf
  <2>3. d < len[t] => Dist(nextIdx[t], d, len[t]) \in Nat
    <3>1. d < len[t] => d \in 0..(len[t] - 1)
      BY <1>2, <2>1
    <3> QED BY <1>1, <1>2, <3>1, PolledFacts
  <2> QED BY <1>2, <1>4, <2>1, <2>2, <2>3
<1>6. CASE /\ MoreChannels(t)
           /\ i' = Set(i, t, i[t] + 1) /\ due' = Set(due, t, due[t] \ {Polled(t)})
           /\ UNCHANGED <<at, call, batch, start, backoffVars>>
  <2>1. /\ i' \in [Tasks -> Nat] /\ i'[t] = i[t] + 1
        /\ \A u \in Tasks \ {t} : i'[u] = i[u]
    BY <1>2, <1>6 DEF MuxTypeOK, Set
  <2>2. /\ due' \in [Tasks -> SUBSET Channels] /\ due'[t] = due[t] \ {c}
        /\ \A u \in Tasks \ {t} : due'[u] = due[u]
    BY <1>6 DEF MuxTypeOK, Set
  <2>3. MuxTypeOK'
    BY <1>1, <1>3, <1>6, <2>1, <2>2 DEF MuxTypeOK, backoffVars
  <2>4. \A u \in Tasks \ {t} : SameMux(u)
    BY <1>1, <1>3, <1>6, <2>1, <2>2 DEF SameMux
  <2>5. \A d \in due'[t] : d < len[t] /\ Turn(t, d) >= i'[t]
    <3> SUFFICES ASSUME NEW d \in due[t], d # c
                 PROVE  d < len[t] /\ Turn(t, d) >= i[t] + 1
      BY <2>1, <2>2
    <3>1. d \in 0..(len[t] - 1) /\ Turn(t, d) \in Nat /\ Turn(t, d) > i[t]
      BY <1>1, DueFacts
    <3> QED BY <1>2, <3>1
  <2>6. \A d \in due'[t] : d < len'[t] /\ Turn(t, d)' >= i'[t]
    BY <1>1, <1>6, <2>5 DEF Turn, Dist
  <2>7. call[t] # "priority" =>
           \A d \in Channels : d < len[t] /\ Dist(start[t], d, len[t]) < i'[t] => waited'[t][d] = 0
    <3> SUFFICES ASSUME call[t] # "priority", NEW d \in Channels, d < len[t],
                        Dist(start[t], d, len[t]) < i[t] + 1, d # c
                 PROVE  waited[t][d] = 0
      BY <1>4, <2>1
    <3>1. d \in 0..(len[t] - 1)
      BY <1>2, ChannelFacts
    <3>2. Dist(start[t], d, len[t]) \in Nat /\ Dist(start[t], d, len[t]) # i[t]
      BY <1>1, <3>1, PolledFacts
    <3>3. Dist(start[t], d, len[t]) < i[t]
      BY <1>2, <3>2
    <3> QED BY <1>1, <3>3 DEF MuxInvOf, PassInvOf
  <2>8. i'[t] < len'[t]
    BY <1>1, <1>6, <2>1 DEF MoreChannels
  <2>9. (call[t] # "priority" =>
            \A d \in Channels : d < len[t] /\ Dist(start[t], d, len[t]) < i[t] => waited[t][d] = 0)'
    BY <1>1, <1>6, <2>7 DEF Dist
  <2>10. PassInvOf(t)'
    <3>1. at'[t] = "poll" /\ start'[t] = nextIdx'[t] /\ len'[t] > 0
      BY <1>1, <1>2, <1>6
    <3> QED BY <2>6, <2>8, <2>9, <3>1 DEF PassInvOf
  <2> QED BY <1>5, <2>3, <2>4, <2>10, SameKeeps DEF MuxInv, MuxInvOf
<1>7. CASE Return(t) /\ UNCHANGED <<yields, timer>>
  <2>1. MuxTypeOK'
    BY <1>1, <1>3, <1>7, ReturnFacts DEF MuxTypeOK, PassTypeOK
  <2>2. Rests(t)
    BY <1>7, ReturnFacts DEF Rests
  <2>3. \A u \in Tasks \ {t} : SameMux(u)
    BY <1>1, <1>3, <1>7, ReturnFacts DEF SameMux
  <2> QED BY <1>5, <2>1, <2>2, <2>3, PassKeeps, SameKeeps DEF MuxInv
<1>8. CASE Backoff(t, ready) /\ UNCHANGED <<call, batch>>
  <2>1. /\ PassTypeOK'
        /\ spins' \in [Tasks -> 0..MaxSpins] /\ yields' \in [Tasks -> 0..MaxYields]
        /\ timer' \in [Tasks -> Timers]
        /\ Rests(t) \/ Begins(t)
        /\ \A u \in Tasks \ {t} : /\ at'[u] = at[u] /\ start'[u] = start[u]
                                  /\ i'[u] = i[u] /\ due'[u] = due[u]
    <3>1. len[t] > 0 /\ UNCHANGED <<len, nextIdx, call>>
      BY <1>1, <1>2, <1>8
    <3> QED BY <1>8, <3>1, BackoffFacts
  <2>2. MuxTypeOK'
    BY <1>1, <1>3, <1>8, <2>1 DEF MuxTypeOK, PassTypeOK, Timers
  <2>3. \A u \in Tasks \ {t} : SameMux(u)
    BY <1>1, <1>3, <1>8, <2>1 DEF SameMux
  <2> QED BY <1>5, <2>1, <2>2, <2>3, PassKeeps, SameKeeps DEF MuxInv
<1> QED BY <1>6, <1>7, <1>8 DEF Empty

(* A step that leaves the multiplexers alone.                              *)
LEMMA MuxFrame == MuxTypeOK /\ MuxInv /\ UNCHANGED muxVars => (MuxTypeOK /\ MuxInv)'
BY DEF MuxTypeOK, MuxInv, MuxInvOf, RoundInvOf, PassInvOf, Turn, Dist, muxVars, passVars,
       backoffVars

(* The initial state of the multiplexers.                                  *)
LEMMA MuxInitInv == MuxInit => MuxTypeOK /\ MuxInv
<1> SUFFICES ASSUME MuxInit PROVE MuxTypeOK /\ MuxInv
  OBVIOUS
<1>1. 0 \in 0..MaxBatch /\ 0 \in 0..MaxSpins /\ 0 \in 0..MaxYields
  BY MultiplexerAssumption
<1>2. \A t \in Tasks : 0 <= MaxChannels[t]
  BY ChannelFacts
<1>3. MuxTypeOK
  BY <1>1, <1>2 DEF MuxInit, MuxTypeOK, States
<1>4. ASSUME NEW t \in Tasks PROVE MuxInvOf(t)
  <2>1. \A c \in Channels : c \in Nat
    BY ChannelFacts
  <2> QED BY <2>1 DEF MuxInit, MuxInvOf, RoundInvOf, PassInvOf
<1> QED BY <1>3, <1>4 DEF MuxInv

-----------------------------------------------------------------------------
(* The offset files *)

(* The initial state of the offset files.                                  *)
LEMMA CheckpointInitInv == CheckpointInit => CheckpointTypeOK /\ SlotInv
<1> SUFFICES ASSUME CheckpointInit PROVE CheckpointTypeOK /\ SlotInv
  OBVIOUS
<1>1. PICK f \in Files : cpFile = [p \in Procs |-> f]
  <2>1. (CHOOSE f \in Files : TRUE) \in Files
    BY CheckpointAssumption
  <2> QED BY <2>1 DEF CheckpointInit
<1>2. cpFile \in [Procs -> Files]
  BY <1>1
<1>3. /\ sized \in [Files -> BOOLEAN] /\ magic \in [Files -> BOOLEAN]
      /\ abandoned \in [Files -> BOOLEAN] /\ reset \in [Files -> BOOLEAN]
      /\ offset \in [Files -> Nat] /\ words \in [Procs -> SUBSET Words]
  BY DEF CheckpointInit
<1>4. cp \in [Procs -> {"closed", "grow", "write", "validate", "open", "invalid"}]
  BY DEF CheckpointInit
<1>5. CheckpointTypeOK
  BY <1>2, <1>3, <1>4 DEF CheckpointTypeOK
<1>6. SlotInv
  BY DEF SlotInv, CheckpointInit
<1> QED BY <1>5, <1>6

(* A step that leaves the offset files and their openers alone.            *)
LEMMA CheckpointFrame ==
    CheckpointTypeOK /\ SlotInv /\ UNCHANGED checkpointVars => (CheckpointTypeOK /\ SlotInv)'
BY DEF CheckpointTypeOK, SlotInv, Creates, checkpointVars, slotVars

Places == {"closed", "grow", "write", "validate", "open", "invalid"}

(* Where the processes are when one of them moves.                         *)
LEMMA MoveFacts ==
    ASSUME CheckpointTypeOK, NEW p \in Procs, NEW x \in Places, cp' = [cp EXCEPT ![p] = x]
    PROVE  /\ cp' \in [Procs -> Places] /\ cp'[p] = x
           /\ \A q \in Procs \ {p} : cp'[q] = cp[q]
BY DEF CheckpointTypeOK, Places

(* open and metadata.                                                      *)
LEMMA OpenFileKeeps ==
    ASSUME CheckpointTypeOK, SlotInv, NEW p \in Procs, NEW f \in Files, OpenFile(p, f)
    PROVE  (CheckpointTypeOK /\ SlotInv)' /\ UNCHANGED <<offset, reset>>
<1>1. PICK x \in Places : cp' = [cp EXCEPT ![p] = x] /\ x = IF sized[f] THEN "validate" ELSE "grow"
  BY DEF OpenFile, Places
<1>2. /\ cp' \in [Procs -> Places] /\ cp'[p] = x
      /\ \A q \in Procs \ {p} : cp'[q] = cp[q]
  BY <1>1, MoveFacts
<1>3. /\ cpFile' \in [Procs -> Files] /\ cpFile'[p] = f
      /\ \A q \in Procs \ {p} : cpFile'[q] = cpFile[q]
  BY DEF CheckpointTypeOK, OpenFile
<1>4. CheckpointTypeOK'
  BY <1>2, <1>3 DEF CheckpointTypeOK, OpenFile, slotVars, Places
<1>5. \A q \in Procs : cp'[q] = "validate" => sized'[cpFile'[q]]
  BY <1>1, <1>2, <1>3 DEF SlotInv, OpenFile, slotVars
<1>6. \A g \in Files : sized'[g] /\ ~magic'[g] => abandoned'[g] \/ \E q \in Procs : Creates(q, g)'
  <2> SUFFICES ASSUME NEW g \in Files, sized[g], ~magic[g], ~abandoned[g]
               PROVE  \E q \in Procs : Creates(q, g)'
    BY DEF OpenFile, slotVars
  <2>1. PICK q \in Procs : Creates(q, g)
    BY DEF SlotInv
  <2>2. q # p
    BY <2>1 DEF Creates, OpenFile
  <2> QED BY <1>2, <1>3, <2>1, <2>2 DEF Creates, OpenFile
<1> QED BY <1>4, <1>5, <1>6 DEF SlotInv, OpenFile, slotVars

(* set_len.                                                                *)
LEMMA GrowKeeps ==
    ASSUME CheckpointTypeOK, SlotInv, NEW p \in Procs, Grow(p)
    PROVE  (CheckpointTypeOK /\ SlotInv)' /\ UNCHANGED <<offset, reset>>
<1>1. /\ cp' \in [Procs -> Places] /\ cp'[p] = "write"
      /\ \A q \in Procs \ {p} : cp'[q] = cp[q]
  BY MoveFacts DEF Grow, Places
<1>2. /\ words' \in [Procs -> SUBSET Words] /\ words'[p] = Words
      /\ \A q \in Procs \ {p} : words'[q] = words[q]
  BY DEF CheckpointTypeOK, Grow
<1>3. /\ sized' \in [Files -> BOOLEAN] /\ sized'[cpFile[p]]
      /\ \A g \in Files \ {cpFile[p]} : sized'[g] = sized[g]
  BY DEF CheckpointTypeOK, Grow
<1>4. CheckpointTypeOK'
  BY <1>1, <1>2, <1>3 DEF CheckpointTypeOK, Grow, Places
<1>5. \A q \in Procs : cp'[q] = "validate" => sized'[cpFile'[q]]
  BY <1>1, <1>3 DEF SlotInv, Grow, CheckpointTypeOK
<1>6. \A g \in Files : sized'[g] /\ ~magic'[g] => abandoned'[g] \/ \E q \in Procs : Creates(q, g)'
  <2> SUFFICES ASSUME NEW g \in Files, sized'[g], ~magic[g], ~abandoned[g]
               PROVE  \E q \in Procs : Creates(q, g)'
    BY DEF Grow
  <2>1. CASE g = cpFile[p]
    BY <1>1, <1>2, <2>1 DEF Creates, Grow, Words
  <2>2. CASE g # cpFile[p]
    <3>1. PICK q \in Procs : Creates(q, g)
      BY <1>3, <2>2 DEF SlotInv
    <3>2. q # p
      BY <3>1 DEF Creates, Grow
    <3> QED BY <1>1, <1>2, <3>1, <3>2 DEF Creates, Grow
  <2> QED BY <2>1, <2>2
<1> QED BY <1>4, <1>5, <1>6 DEF SlotInv, Grow

(* One word of the slot.                                                   *)
LEMMA WriteWordKeeps ==
    ASSUME CheckpointTypeOK, SlotInv, NEW p \in Procs, WriteWord(p)
    PROVE  /\ (CheckpointTypeOK /\ SlotInv)'
           /\ \A f \in Files : ~reset'[f] => ~reset[f] /\ offset'[f] = offset[f]
<1> DEFINE f == cpFile[p]
<1>1. f \in Files
  BY DEF CheckpointTypeOK
<1>2. PICK w \in words[p] :
         /\ words' = [words EXCEPT ![p] = @ \ {w}]
         /\ magic' = IF w = "magic" THEN [magic EXCEPT ![f] = TRUE] ELSE magic
         /\ offset' = IF w = "offset" THEN [offset EXCEPT ![f] = 0] ELSE offset
         /\ reset' = [reset EXCEPT ![f] = @ \/ (w = "offset" /\ offset[f] # 0)]
  BY DEF WriteWord
<1>3. PICK x \in Places :
         cp' = [cp EXCEPT ![p] = x] /\ x = IF words'[p] = {} THEN "open" ELSE "write"
  BY DEF WriteWord, Places
<1>4. /\ cp' \in [Procs -> Places] /\ cp'[p] = x
      /\ \A q \in Procs \ {p} : cp'[q] = cp[q]
  BY <1>3, MoveFacts
<1>5. /\ words' \in [Procs -> SUBSET Words] /\ words'[p] = words[p] \ {w}
      /\ \A q \in Procs \ {p} : words'[q] = words[q]
  BY <1>2 DEF CheckpointTypeOK
<1>6. /\ magic' \in [Files -> BOOLEAN]
      /\ \A g \in Files : magic[g] => magic'[g]
      /\ w = "magic" => magic'[f]
  BY <1>1, <1>2 DEF CheckpointTypeOK
<1>7. offset' \in [Files -> Nat]
  BY <1>2 DEF CheckpointTypeOK
<1>8. reset' \in [Files -> BOOLEAN]
  BY <1>1, <1>2 DEF CheckpointTypeOK
<1>9. CheckpointTypeOK'
  BY <1>4, <1>5, <1>6, <1>7, <1>8 DEF CheckpointTypeOK, WriteWord, Places
<1>10. \A q \in Procs : cp'[q] = "validate" => sized'[cpFile'[q]]
  BY <1>3, <1>4 DEF SlotInv, WriteWord
<1>11. \A g \in Files : sized'[g] /\ ~magic'[g] => abandoned'[g] \/ \E q \in Procs : Creates(q, g)'
  <2> SUFFICES ASSUME NEW g \in Files, sized[g], ~magic'[g], ~abandoned[g]
               PROVE  \E q \in Procs : Creates(q, g)'
    BY DEF WriteWord
  <2>1. PICK q \in Procs : Creates(q, g)
    BY <1>6 DEF SlotInv
  <2>2. CASE q # p
    BY <1>4, <1>5, <2>1, <2>2 DEF Creates, WriteWord
  <2>3. CASE q = p
    <3>1. g = f /\ "magic" \in words[p]
      BY <2>1, <2>3 DEF Creates
    <3>2. w # "magic"
      BY <1>6, <3>1
    <3>3. "magic" \in words'[p]
      BY <1>5, <3>1, <3>2
    <3>4. cp'[p] = "write"
      BY <1>3, <1>4, <3>3
    <3> QED BY <2>3, <3>1, <3>3, <3>4 DEF Creates, WriteWord
  <2> QED BY <2>2, <2>3
<1>12. ASSUME NEW g \in Files, ~reset'[g] PROVE ~reset[g] /\ offset'[g] = offset[g]
  <2>1. CASE g = f
    <3>1. ~(reset[f] \/ (w = "offset" /\ offset[f] # 0))
      BY <1>1, <1>2, <1>12, <2>1 DEF CheckpointTypeOK
    <3> QED BY <1>1, <1>2, <2>1, <3>1 DEF CheckpointTypeOK
  <2>2. CASE g # f
    BY <1>1, <1>2, <1>12, <2>2 DEF CheckpointTypeOK
  <2> QED BY <2>1, <2>2
<1> QED BY <1>9, <1>10, <1>11, <1>12 DEF SlotInv

(* The validation of an existing slot.                                     *)
LEMMA ValidateKeeps ==
    ASSUME CheckpointTypeOK, SlotInv, NEW p \in Procs, Validate(p)
    PROVE  (CheckpointTypeOK /\ SlotInv)' /\ UNCHANGED <<offset, reset>>
<1>1. PICK x \in Places : cp' = [cp EXCEPT ![p] = x] /\ x \in {"open", "invalid"}
  BY DEF Validate, Places
<1>2. /\ cp' \in [Procs -> Places] /\ cp'[p] = x
      /\ \A q \in Procs \ {p} : cp'[q] = cp[q]
  BY <1>1, MoveFacts
<1>3. CheckpointTypeOK'
  BY <1>2 DEF CheckpointTypeOK, Validate, slotVars, Places
<1>4. \A q \in Procs : cp'[q] = "validate" => sized'[cpFile'[q]]
  BY <1>1, <1>2 DEF SlotInv, Validate, slotVars
<1>5. \A q \in Procs : \A g \in Files : Creates(q, g) => Creates(q, g)'
  BY <1>2 DEF Creates, Validate
<1>6. \A g \in Files : sized'[g] /\ ~magic'[g] => abandoned'[g] \/ \E q \in Procs : Creates(q, g)'
  BY <1>5 DEF SlotInv, Validate, slotVars
<1> QED BY <1>3, <1>4, <1>6 DEF SlotInv, Validate, slotVars

(* A process closes its files, in the middle of creating one or not.       *)
LEMMA CloseFilesKeeps ==
    ASSUME CheckpointTypeOK, SlotInv, NEW p \in Procs, CloseFiles(p)
    PROVE  /\ (CheckpointTypeOK /\ SlotInv)' /\ UNCHANGED <<offset, reset>>
           /\ cp'[p] = "closed" /\ \A q \in Procs \ {p} : cp'[q] = cp[q]
<1>1. /\ cp' \in [Procs -> Places] /\ cp'[p] = "closed"
      /\ \A q \in Procs \ {p} : cp'[q] = cp[q]
  BY MoveFacts DEF CloseFiles, Places
<1>2. /\ words' \in [Procs -> SUBSET Words]
      /\ \A q \in Procs \ {p} : words'[q] = words[q]
  BY DEF CheckpointTypeOK, CloseFiles
<1>3. abandoned' \in [Files -> BOOLEAN]
  BY DEF CheckpointTypeOK, CloseFiles
<1>4. CheckpointTypeOK'
  BY <1>1, <1>2, <1>3 DEF CheckpointTypeOK, CloseFiles, slotVars, Places
<1>5. \A q \in Procs : cp'[q] = "validate" => sized'[cpFile'[q]]
  BY <1>1 DEF SlotInv, CloseFiles, slotVars
<1>6. \A g \in Files : sized'[g] /\ ~magic'[g] => abandoned'[g] \/ \E q \in Procs : Creates(q, g)'
  <2> SUFFICES ASSUME NEW g \in Files, sized[g], ~magic[g], ~abandoned'[g]
               PROVE  \E q \in Procs : Creates(q, g)'
    BY DEF CloseFiles, slotVars
  <2>1. ~abandoned[g] /\ ~Creates(p, g)
    BY DEF CloseFiles, Creates
  <2>2. PICK q \in Procs : Creates(q, g)
    BY <2>1 DEF SlotInv
  <2> QED BY <1>1, <1>2, <2>1, <2>2 DEF Creates, CloseFiles
<1> QED BY <1>1, <1>4, <1>5, <1>6 DEF SlotInv, CloseFiles, slotVars

-----------------------------------------------------------------------------
(* The rings, the consumers and their history *)

RingTypeOK ==
    /\ gen \in [Channels -> Gens]
    /\ head \in [Channels -> [Gens -> Nat]]
    /\ writing \in [Channels -> [Gens -> BOOLEAN]]

AttachTypeOK ==
    /\ kind \in [Procs -> Programs]
    /\ attaching \in [Procs -> BOOLEAN]
    /\ seen \in [Procs -> Nat]
    /\ seenGen \in [Procs -> Gens]

ReaderTypeOK ==
    /\ cursor \in [Procs -> [Channels -> Nat \ {0}]]
    /\ view \in [Procs -> [Channels -> Gens]]
    /\ from \in [Procs -> [Channels -> Nat]]

HistoryTypeOK ==
    /\ origin \in [Files -> [from : Nat, gen : Gens]]
    /\ covered \in [Files -> [Gens -> SUBSET Nat]]

(* The parts of the inductive invariant: the multiplexers, the offset      *)
(* files, the types of the rest, and what the readers answer for.          *)
MuxPart == MuxTypeOK /\ MuxInv
FilePart == CheckpointTypeOK /\ SlotInv
RestTypeOK == RingTypeOK /\ AttachTypeOK /\ ReaderTypeOK /\ HistoryTypeOK
LossPart == OffsetInv /\ NoSilentLoss

(* The invariant is its parts.                                             *)
LEMMA Parts == IInv <=> MuxPart /\ FilePart /\ RestTypeOK /\ OpenInv /\ LossPart
BY DEF IInv, TypeOK, MuxPart, FilePart, RestTypeOK, RingTypeOK, AttachTypeOK, ReaderTypeOK,
       HistoryTypeOK, LossPart

(* Processes are the tasks of the multiplexers, and files are channels.    *)
LEMMA ProcFacts ==
    /\ Tasks = Procs
    /\ \A f \in Files : f \in Channels /\ f \in Nat
    /\ 0 \in Gens
BY ConsumerAppAssumption, ChannelFacts

(* A program reads channels.                                               *)
LEMMA ChannelsOfFacts ==
    ASSUME NEW p \in Procs, NEW c \in ChannelsOf(p)
    PROVE  c \in Channels
<1>1. \A d \in 0..(MaxChannels[p] - 1) : d \in Channels
  BY ProcFacts, ChannelFacts
<1>2. 0 \in 0..(MaxChannels[p] - 1)
  BY ProcFacts, ChannelFacts
<1> QED BY <1>1, <1>2 DEF ChannelsOf

(* A step that touches neither offsets nor readers, except that the offset  *)
(* of a file may be wiped, and a reader lost, is no loss.                  *)
LEMMA LossFrame ==
    ASSUME LossPart, UNCHANGED <<cursor, view, from, origin, covered, len>>,
           \A f \in Files : ~reset'[f] => ~reset[f] /\ offset'[f] = offset[f]
    PROVE  LossPart'
<1>1. OffsetInv'
  BY DEF LossPart, OffsetInv
<1>2. NoSilentLoss'
  BY DEF LossPart, NoSilentLoss
<1> QED BY <1>1, <1>2 DEF LossPart

(* Initially nobody has read anything.                                     *)
LEMMA InitInv == Init => IInv
<1> SUFFICES ASSUME Init PROVE IInv
  OBVIOUS
<1>1. MuxPart
  BY MuxInitInv DEF Init, MuxPart
<1>2. FilePart
  BY CheckpointInitInv DEF Init, FilePart
<1>3. RingTypeOK
  BY ProcFacts DEF Init, RingTypeOK
<1>4. AttachTypeOK
  BY ProcFacts, ConsumerAppAssumption DEF Init, AttachTypeOK
<1>5. ReaderTypeOK
  BY ProcFacts DEF Init, ReaderTypeOK
<1>6. HistoryTypeOK
  BY ProcFacts DEF Init, HistoryTypeOK
<1>7. OpenInv
  BY DEF Init, OpenInv, CheckpointInit
<1>8. OffsetInv
  BY DEF Init, OffsetInv
<1>9. NoSilentLoss
  <2>1. \A p \in Procs, f \in Files : ~(f < len[p])
    BY ProcFacts DEF Init, MuxInit
  <2> QED BY <2>1 DEF NoSilentLoss
<1> QED BY <1>1, <1>2, <1>3, <1>4, <1>5, <1>6, <1>7, <1>8, <1>9, Parts DEF RestTypeOK, LossPart

(* The producers' steps change nothing but the rings.                      *)
LEMMA ProducerKeeps ==
    ASSUME IInv, NEW c \in Channels, BeginPush(c) \/ EndPush(c) \/ Recreate(c)
    PROVE  IInv'
<1>1. UNCHANGED <<checkpointVars, muxVars, attachVars, consumerVars, historyVars>>
  BY DEF BeginPush, EndPush, Recreate
<1>2. MuxPart'
  BY <1>1, Parts, MuxFrame DEF MuxPart
<1>3. FilePart'
  BY <1>1, Parts, CheckpointFrame DEF FilePart
<1>4. RingTypeOK'
  <2>1. RingTypeOK /\ gen[c] \in Gens
    BY Parts DEF RestTypeOK, RingTypeOK
  <2>2. CASE BeginPush(c)
    BY <2>1, <2>2 DEF RingTypeOK, BeginPush
  <2>3. CASE EndPush(c)
    BY <2>1, <2>3 DEF RingTypeOK, EndPush
  <2>4. CASE Recreate(c)
    BY <2>1, <2>4 DEF RingTypeOK, Recreate
  <2> QED BY <2>2, <2>3, <2>4
<1>5. (AttachTypeOK /\ ReaderTypeOK /\ HistoryTypeOK)'
  BY <1>1, Parts DEF RestTypeOK, AttachTypeOK, ReaderTypeOK, HistoryTypeOK, attachVars,
                     consumerVars, historyVars
<1>6. OpenInv'
  BY <1>1, Parts DEF OpenInv, Adding, checkpointVars, attachVars, muxVars
<1>7. LossPart'
  BY <1>1, Parts, LossFrame DEF checkpointVars, slotVars, muxVars, consumerVars, historyVars
<1> QED BY <1>2, <1>3, <1>4, <1>5, <1>6, <1>7, Parts, PTL DEF RestTypeOK

(* attach opens the ring.                                                  *)
LEMMA AttachLoadKeeps ==
    ASSUME IInv, NEW p \in Procs, AttachLoad(p)
    PROVE  IInv'
<1>1. UNCHANGED <<checkpointVars, muxVars, ringVars, consumerVars, historyVars>>
  BY DEF AttachLoad
<1>2. MuxPart'
  BY <1>1, Parts, MuxFrame DEF MuxPart
<1>3. FilePart'
  BY <1>1, Parts, CheckpointFrame DEF FilePart
<1>4. AttachTypeOK'
  <2>1. AttachTypeOK /\ RingTypeOK
    BY Parts DEF RestTypeOK
  <2>2. len[p] \in Channels
    BY ChannelsOfFacts DEF AttachLoad, Adding
  <2>3. gen[len[p]] \in Gens /\ head[len[p]][gen[len[p]]] \in Nat
    BY <2>1, <2>2 DEF RingTypeOK
  <2> QED BY <2>1, <2>3 DEF AttachTypeOK, AttachLoad, Adding
<1>5. (RingTypeOK /\ ReaderTypeOK /\ HistoryTypeOK)'
  BY <1>1, Parts DEF RestTypeOK, RingTypeOK, ReaderTypeOK, HistoryTypeOK, ringVars,
                     consumerVars, historyVars
<1>6. OpenInv'
  <2>1. \A q \in Procs : attaching[q] => attaching'[q]
    BY Parts DEF AttachLoad, RestTypeOK, AttachTypeOK
  <2> QED BY <1>1, <2>1, Parts DEF OpenInv, Adding, checkpointVars, muxVars
<1>7. LossPart'
  BY <1>1, Parts, LossFrame DEF checkpointVars, slotVars, muxVars, consumerVars, historyVars
<1> QED BY <1>2, <1>3, <1>4, <1>5, <1>6, <1>7, Parts, PTL DEF RestTypeOK

(* The steps of open_or_create.  A committed offset that they wipe is       *)
(* remembered in `reset`.                                                  *)
LEMMA OpenCheckpointKeeps ==
    ASSUME IInv, NEW p \in Procs, OpenCheckpoint(p)
    PROVE  IInv'
<1>1. UNCHANGED <<muxVars, ringVars, attachVars, consumerVars, historyVars>>
  BY DEF OpenCheckpoint
<1>2. MuxPart'
  BY <1>1, Parts, MuxFrame DEF MuxPart
<1>3. /\ FilePart'
      /\ \A f \in Files : ~reset'[f] => ~reset[f] /\ offset'[f] = offset[f]
  <2>1. CheckpointTypeOK /\ SlotInv
    BY Parts DEF FilePart
  <2> QED BY <2>1, OpenFileKeeps, GrowKeeps, WriteWordKeeps, ValidateKeeps
          DEF OpenCheckpoint, FilePart
<1>4. RestTypeOK'
  BY <1>1, Parts DEF RestTypeOK, RingTypeOK, AttachTypeOK, ReaderTypeOK, HistoryTypeOK,
                     ringVars, attachVars, consumerVars, historyVars
<1>5. OpenInv'
  <2>1. attaching[p] /\ Adding(p) \in Files
    BY DEF OpenCheckpoint
  <2>2. \A q \in Procs \ {p} : cp'[q] = cp[q]
    BY Parts DEF OpenCheckpoint, OpenFile, Grow, WriteWord, Validate, FilePart, CheckpointTypeOK
  <2> QED BY <1>1, <2>1, <2>2, Parts DEF OpenInv, Adding, attachVars, muxVars
<1>6. LossPart'
  BY <1>1, <1>3, Parts, LossFrame DEF muxVars, consumerVars, historyVars
<1> QED BY <1>2, <1>3, <1>4, <1>5, <1>6, Parts, PTL

(* attach failed.                                                          *)
LEMMA AttachFailKeeps ==
    ASSUME IInv, NEW p \in Procs, AttachFail(p)
    PROVE  IInv'
<1>1. UNCHANGED <<muxVars, ringVars, consumerVars, historyVars>>
  BY DEF AttachFail
<1>2. MuxPart'
  BY <1>1, Parts, MuxFrame DEF MuxPart
<1>3. /\ FilePart' /\ UNCHANGED <<offset, reset>>
      /\ cp'[p] = "closed" /\ \A q \in Procs \ {p} : cp'[q] = cp[q]
  BY Parts, CloseFilesKeeps DEF AttachFail, FilePart
<1>4. AttachTypeOK'
  BY Parts, ProcFacts DEF AttachFail, RestTypeOK, AttachTypeOK
<1>5. (RingTypeOK /\ ReaderTypeOK /\ HistoryTypeOK)'
  BY <1>1, Parts DEF RestTypeOK, RingTypeOK, ReaderTypeOK, HistoryTypeOK, ringVars,
                     consumerVars, historyVars
<1>6. OpenInv'
  <2>1. \A q \in Procs \ {p} : attaching'[q] = attaching[q]
    BY Parts DEF AttachFail, RestTypeOK, AttachTypeOK
  <2> QED BY <1>1, <1>3, <2>1, Parts DEF OpenInv, Adding, muxVars
<1>7. LossPart'
  BY <1>1, <1>3, Parts, LossFrame DEF muxVars, consumerVars, historyVars
<1> QED BY <1>2, <1>3, <1>4, <1>5, <1>6, <1>7, Parts, PTL DEF RestTypeOK

(* The steps of a call between its polls: they concern the multiplexer only. *)
LEMMA SchedulingKeeps ==
    ASSUME IInv, NEW p \in Procs,
           StartCall(p) \/ LoopHead(p) \/ Continue(p) \/ TimerElapses(p) \/ DropFuture(p)
    PROVE  IInv'
<1>1. UNCHANGED <<checkpointVars, ringVars, attachVars, consumerVars, historyVars>>
  BY DEF StartCall, LoopHead, Continue, TimerElapses, DropFuture
<1>2. MuxTypeOK /\ MuxInv /\ p \in Tasks
  BY Parts, ProcFacts DEF MuxPart
<1>3. Ready(p) \in SUBSET (0..(len[p] - 1))
  BY DEF Ready
<1>4. MuxPart' /\ len' = len
  <2>1. CASE StartCall(p)
    <3>1. \/ \E c \in SyncCalls \cup AsyncCalls : Call(p, c, Ready(p))
          \/ StreamNext(p)
      BY <2>1 DEF StartCall, CallsOf, SyncCalls, AsyncCalls
    <3>2. len' = len
      BY <3>1 DEF Call, StreamNext
    <3> QED BY <1>2, <1>3, <3>1, <3>2, CallKeeps DEF MuxPart
  <2>2. CASE LoopHead(p)
    BY <1>2, <1>3, <2>2, StreamLoopKeeps DEF LoopHead, MuxPart, StreamLoop
  <2>3. CASE Continue(p)
    BY <1>2, <1>3, <2>3, ResumeKeeps DEF Continue, MuxPart, Resume
  <2>4. CASE TimerElapses(p)
    BY <1>2, <2>4, ElapseKeeps DEF TimerElapses, MuxPart, Elapse
  <2>5. CASE DropFuture(p)
    BY <1>2, <2>5, CancelKeeps DEF DropFuture, MuxPart, Cancel
  <2> QED BY <2>1, <2>2, <2>3, <2>4, <2>5
<1>5. FilePart'
  BY <1>1, Parts, CheckpointFrame DEF FilePart
<1>6. RestTypeOK'
  BY <1>1, Parts DEF RestTypeOK, RingTypeOK, AttachTypeOK, ReaderTypeOK, HistoryTypeOK,
                     ringVars, attachVars, consumerVars, historyVars
<1>7. OpenInv'
  BY <1>1, <1>4, Parts DEF OpenInv, Adding, checkpointVars, attachVars
<1>8. LossPart'
  BY <1>1, <1>4, Parts, LossFrame DEF checkpointVars, slotVars, consumerVars, historyVars
<1> QED BY <1>4, <1>5, <1>6, <1>7, <1>8, Parts, PTL

(* What is covered stays covered, and a..b-1 is added.                     *)
LEMMA CoverFacts ==
    ASSUME HistoryTypeOK, NEW c, NEW g \in Gens, NEW a \in Nat, NEW b \in Nat, Cover(c, g, a, b)
    PROVE  /\ covered' \in [Files -> [Gens -> SUBSET Nat]]
           /\ \A f \in Files, h \in Gens : covered[f][h] \subseteq covered'[f][h]
           /\ c \in Files => a..(b - 1) \subseteq covered'[c][g]
<1>1. CASE c \notin Files
  BY <1>1 DEF Cover, HistoryTypeOK
<1>2. CASE c \in Files
  <2>1. covered' = [covered EXCEPT ![c][g] = @ \cup a..(b - 1)]
    BY <1>2 DEF Cover
  <2>2. a..(b - 1) \in SUBSET Nat
    OBVIOUS
  <2>3. covered[c][g] \cup a..(b - 1) \in SUBSET Nat
    BY <1>2, <2>2 DEF HistoryTypeOK
  <2>4. PICK S \in SUBSET Nat : S = covered[c][g] \cup a..(b - 1)
    BY <2>3
  <2>5. covered' = [covered EXCEPT ![c][g] = S]
    BY <2>1, <2>4
  <2>6. /\ covered' \in [Files -> [Gens -> SUBSET Nat]]
        /\ covered'[c][g] = S
        /\ \A f \in Files, h \in Gens : f # c \/ h # g => covered'[f][h] = covered[f][h]
    BY <1>2, <2>5 DEF HistoryTypeOK
  <2> QED BY <2>4, <2>6
<1> QED BY <1>1, <1>2

(* Where a poll leaves the cursor: not before where it was.                *)
LEMMA SkippedFacts ==
    ASSUME RingTypeOK, ReaderTypeOK, NEW p \in Procs, NEW c \in Channels
    PROVE  Skipped(p, c) \in Nat \ {0} /\ cursor[p][c] <= Skipped(p, c)
<1>1. cursor[p][c] \in Nat \ {0} /\ head[c][view[p][c]] \in Nat
  BY DEF RingTypeOK, ReaderTypeOK
<1>2. OldestRetained(head[c][view[p][c]]) \in Nat \ {0}
  BY <1>1, CapacityAssumption DEF OldestRetained
<1> QED BY <1>1, <1>2 DEF Skipped, Max2

(* A reader that moves on and accounts for what it passed.                 *)
LEMMA AdvanceKeeps ==
    ASSUME LossPart, ReaderTypeOK, HistoryTypeOK, CheckpointTypeOK,
           NEW p \in Procs, NEW c \in Channels, NEW next \in Nat \ {0}, cursor[p][c] <= next,
           cursor' = [cursor EXCEPT ![p][c] = next],
           Cover(c, view[p][c], cursor[p][c], next),
           UNCHANGED <<view, from, origin, reset, offset, len>>
    PROVE  LossPart' /\ ReaderTypeOK' /\ HistoryTypeOK'
<1>1. view[p][c] \in Gens /\ cursor[p][c] \in Nat /\ from[p][c] \in Nat
  BY DEF ReaderTypeOK
<1>2. /\ covered' \in [Files -> [Gens -> SUBSET Nat]]
      /\ \A f \in Files, h \in Gens : covered[f][h] \subseteq covered'[f][h]
      /\ c \in Files => cursor[p][c]..(next - 1) \subseteq covered'[c][view[p][c]]
  BY <1>1, CoverFacts
<1>3. HistoryTypeOK'
  BY <1>2 DEF HistoryTypeOK
<1>4. /\ cursor' \in [Procs -> [Channels -> Nat \ {0}]]
      /\ cursor'[p][c] = next
      /\ \A q \in Procs, f \in Channels : q # p \/ f # c => cursor'[q][f] = cursor[q][f]
  BY DEF ReaderTypeOK
<1>5. ReaderTypeOK'
  BY <1>4 DEF ReaderTypeOK
<1>6. OffsetInv'
  <2> SUFFICES ASSUME NEW f \in Files, ~reset[f], origin[f].from # 0
               PROVE  /\ offset[f] # NotCommitted
                      /\ origin[f].from..offset[f] \subseteq covered'[f][origin[f].gen]
    BY DEF OffsetInv
  <2>1. /\ offset[f] # NotCommitted
        /\ origin[f].from..offset[f] \subseteq covered[f][origin[f].gen]
    BY DEF LossPart, OffsetInv
  <2>2. origin[f].gen \in Gens
    BY DEF HistoryTypeOK
  <2> QED BY <1>2, <2>1, <2>2
<1>7. NoSilentLoss'
  <2> SUFFICES ASSUME NEW q \in Procs, NEW f \in Files, f < len[q], ~reset[f]
               PROVE  from[q][f]..(cursor'[q][f] - 1) \subseteq covered'[f][view[q][f]]
    BY DEF NoSilentLoss
  <2>1. f \in Channels /\ view[q][f] \in Gens
    BY ProcFacts DEF ReaderTypeOK
  <2>2. from[q][f]..(cursor[q][f] - 1) \subseteq covered'[f][view[q][f]]
    BY <1>2, <2>1 DEF LossPart, NoSilentLoss
  <2>3. CASE q # p \/ f # c
    BY <1>4, <2>1, <2>2, <2>3
  <2>4. CASE q = p /\ f = c
    <3>1. \A n \in from[p][c]..(next - 1) :
             n \in from[p][c]..(cursor[p][c] - 1) \/ n \in cursor[p][c]..(next - 1)
      BY <1>1
    <3> QED BY <1>2, <1>4, <2>2, <2>4, <3>1
  <2> QED BY <2>3, <2>4
<1> QED BY <1>3, <1>5, <1>6, <1>7 DEF LossPart

(* One try_recv of a pass.                                                 *)
LEMMA PollKeeps ==
    ASSUME IInv, NEW p \in Procs, Poll(p)
    PROVE  IInv'
<1> DEFINE c == Polled(p)
           next == Skipped(p, c) + (IF HasMessage(p, c) THEN 1 ELSE 0)
<1>1. /\ MuxTypeOK /\ MuxInv /\ p \in Tasks /\ MuxInvOf(p) /\ LossPart
      /\ RingTypeOK /\ ReaderTypeOK /\ HistoryTypeOK /\ CheckpointTypeOK
  BY Parts, ProcFacts DEF MuxPart, MuxInv, RestTypeOK, FilePart
<1>2. /\ UNCHANGED <<checkpointVars, ringVars, attachVars, view, from, origin>>
      /\ at[p] = "poll"
      /\ cursor' = [cursor EXCEPT ![p][c] = next]
      /\ Cover(c, view[p][c], cursor[p][c], next)
  BY DEF Poll
<1>3. \E ready \in SUBSET (0..(len[p] - 1)) : Found(p, ready) \/ Empty(p, ready)
  <2>1. {d \in 0..(len[p] - 1) : HasMessage(p, d)'} \in SUBSET (0..(len[p] - 1))
    OBVIOUS
  <2> QED BY <2>1 DEF Poll
<1>4. MuxPart' /\ len' = len
  <2>1. PICK ready \in SUBSET (0..(len[p] - 1)) : Found(p, ready) \/ Empty(p, ready)
    BY <1>3
  <2>2. len' = len
    BY <2>1 DEF Found, Empty
  <2> QED BY <1>1, <2>1, <2>2, FoundKeeps, EmptyKeeps DEF MuxPart
<1>5. c \in Channels
  BY <1>1, <1>2, PolledFacts
<1>6. next \in Nat \ {0} /\ cursor[p][c] <= next
  <2>1. Skipped(p, c) \in Nat \ {0} /\ cursor[p][c] <= Skipped(p, c) /\ cursor[p][c] \in Nat
    BY <1>1, <1>5, SkippedFacts DEF ReaderTypeOK
  <2> QED BY <2>1
<1> HIDE DEF c, next
<1>7. LossPart' /\ ReaderTypeOK' /\ HistoryTypeOK'
  BY <1>1, <1>2, <1>4, <1>5, <1>6, AdvanceKeeps DEF checkpointVars, slotVars
<1>8. FilePart'
  BY <1>2, Parts, CheckpointFrame DEF FilePart
<1>9. (RingTypeOK /\ AttachTypeOK)'
  BY <1>2, Parts DEF RestTypeOK, RingTypeOK, AttachTypeOK, ringVars, attachVars
<1>10. OpenInv'
  BY <1>2, <1>4, Parts DEF OpenInv, Adding, checkpointVars, attachVars
<1> QED BY <1>4, <1>7, <1>8, <1>9, <1>10, Parts, PTL DEF RestTypeOK

(* The start position, and where what the reader answers for begins.       *)
LEMMA PlaceFacts ==
    ASSUME IInv, NEW p \in Procs, NEW wanted \in Wanted(p)
    PROVE  /\ wanted \in Nat /\ Retained(p) \in Nat \ {0}
           /\ Max2(wanted, Retained(p)) \in Nat \ {0} /\ wanted <= Max2(wanted, Retained(p))
           /\ BeganAt(p, wanted) \in Nat
           /\ Adding(p) \in Files /\ ~reset[Adding(p)] =>
                 BeganAt(p, wanted)..(wanted - 1) \subseteq covered[Adding(p)][seenGen[p]]
<1> DEFINE c == Adding(p)
<1>1. seen[p] \in Nat /\ AttachTypeOK /\ HistoryTypeOK /\ CheckpointTypeOK /\ OffsetInv
  BY Parts DEF RestTypeOK, AttachTypeOK, FilePart, LossPart
<1>2. Retained(p) \in Nat \ {0}
  BY <1>1, CapacityAssumption DEF Retained, OldestRetained
<1>3. \A w \in StartModes(p) : w \in Nat
  BY <1>1, <1>2 DEF StartModes, Max2
<1>4. c \in Files => offset[c] \in Nat /\ origin[c].from \in Nat
  BY <1>1 DEF CheckpointTypeOK, HistoryTypeOK
<1>5. c \in Files /\ offset[c] # NotCommitted => wanted = offset[c] + 1
  BY DEF Wanted, Load, ResumeAt
<1>6. wanted \in Nat
  BY <1>3, <1>4, <1>5 DEF Wanted, Load
<1>7. Max2(wanted, Retained(p)) \in Nat \ {0} /\ wanted <= Max2(wanted, Retained(p))
  BY <1>2, <1>6 DEF Max2
<1>8. BeganAt(p, wanted) \in Nat
  BY <1>4, <1>6 DEF BeganAt
<1>9. ASSUME c \in Files, ~reset[c]
      PROVE  BeganAt(p, wanted)..(wanted - 1) \subseteq covered[c][seenGen[p]]
  <2>1. CASE origin[c].from # 0 /\ origin[c].gen = seenGen[p]
    <3>1. /\ offset[c] # NotCommitted
          /\ origin[c].from..offset[c] \subseteq covered[c][seenGen[p]]
      BY <1>1, <1>9, <2>1 DEF OffsetInv
    <3>2. wanted = offset[c] + 1
      BY <1>5, <1>9, <3>1
    <3>3. wanted - 1 = offset[c]
      BY <1>4, <1>9, <3>2
    <3>4. BeganAt(p, wanted) = origin[c].from
      BY <1>9, <2>1 DEF BeganAt
    <3> QED BY <3>1, <3>3, <3>4
  <2>2. CASE ~(origin[c].from # 0 /\ origin[c].gen = seenGen[p])
    <3>1. BeganAt(p, wanted) = wanted
      BY <2>2 DEF BeganAt
    <3>2. wanted..(wanted - 1) = {}
      BY <1>6
    <3> QED BY <3>1, <3>2
  <2> QED BY <2>1, <2>2
<1> QED BY <1>2, <1>6, <1>7, <1>8, <1>9

(* The consumer is placed, and joins the multiplexer.  Its history is the   *)
(* one of the readers it resumes.                                          *)
LEMMA PlaceKeeps ==
    ASSUME IInv, NEW p \in Procs, Place(p)
    PROVE  IInv'
<1> DEFINE c == Adding(p)
           g == seenGen[p]
<1>1. /\ MuxTypeOK /\ MuxInv /\ p \in Tasks /\ LossPart /\ OpenInv /\ SlotInv
      /\ RingTypeOK /\ AttachTypeOK /\ ReaderTypeOK /\ HistoryTypeOK /\ CheckpointTypeOK
  BY Parts, ProcFacts DEF MuxPart, RestTypeOK, FilePart
<1>2. PICK wanted \in Wanted(p) :
         /\ cursor' = [cursor EXCEPT ![p][c] = Max2(wanted, Retained(p))]
         /\ from' = [from EXCEPT ![p][c] = BeganAt(p, wanted)]
         /\ Cover(c, g, wanted, Max2(wanted, Retained(p)))
  BY DEF Place
<1>3. PICK first \in Nat \ {0} : first = Max2(wanted, Retained(p)) /\ wanted <= first
  BY PlaceFacts
<1>4. PICK b \in Nat : /\ b = BeganAt(p, wanted)
                       /\ c \in Files /\ ~reset[c] => b..(wanted - 1) \subseteq covered[c][g]
  BY PlaceFacts
<1>5. wanted \in Nat /\ g \in Gens
  BY <1>1, PlaceFacts DEF AttachTypeOK
<1>6. Add(p) /\ attaching[p] /\ (c \in Files => cp[p] = "open") /\ c = len[p]
  BY DEF Place, Adding
<1>7. MuxPart' /\ len' = [len EXCEPT ![p] = len[p] + 1] /\ len[p] \in Nat
  BY <1>1, <1>6, AddKeeps DEF MuxPart, Add, Set, MuxTypeOK
<1>8. c \in Channels
  <2>1. len[p] \in 0..(MaxChannels[p] - 1)
    BY <1>1, <1>6, <1>7, ChannelFacts DEF Add
  <2> QED BY <1>1, <1>6, <2>1, ChannelFacts
<1>9. /\ cp' \in [Procs -> Places] /\ cp'[p] = "closed"
      /\ \A q \in Procs \ {p} : cp'[q] = cp[q]
  BY <1>1, MoveFacts DEF Place, Places
<1>10. UNCHANGED <<sized, magic, offset, cpFile, words, abandoned, reset, ringVars, kind, origin>>
  BY DEF Place, slotVars
<1>11. FilePart'
  <2>1. CheckpointTypeOK'
    BY <1>1, <1>9, <1>10 DEF CheckpointTypeOK, Places
  <2>2. \A q \in Procs : cp'[q] = "validate" => sized'[cpFile'[q]]
    BY <1>1, <1>9, <1>10 DEF SlotInv
  <2>3. cp[p] # "write"
    BY <1>1, <1>6 DEF OpenInv
  <2>4. \A q \in Procs : \A f \in Files : Creates(q, f) => Creates(q, f)'
    BY <1>9, <1>10, <2>3 DEF Creates
  <2>5. \A f \in Files : sized'[f] /\ ~magic'[f] => abandoned'[f] \/ \E q \in Procs : Creates(q, f)'
    BY <1>1, <1>10, <2>4 DEF SlotInv
  <2> QED BY <2>1, <2>2, <2>5 DEF FilePart, SlotInv
<1>12. /\ covered' \in [Files -> [Gens -> SUBSET Nat]]
       /\ \A f \in Files, h \in Gens : covered[f][h] \subseteq covered'[f][h]
       /\ c \in Files => wanted..(first - 1) \subseteq covered'[c][g]
  BY <1>1, <1>2, <1>3, <1>5, CoverFacts
<1>13. HistoryTypeOK'
  BY <1>1, <1>10, <1>12 DEF HistoryTypeOK
<1>14. /\ cursor' \in [Procs -> [Channels -> Nat \ {0}]] /\ cursor'[p][c] = first
       /\ \A q \in Procs, f \in Channels : q # p \/ f # c => cursor'[q][f] = cursor[q][f]
  <2>1. cursor' = [cursor EXCEPT ![p][c] = first]
    BY <1>2, <1>3
  <2> HIDE DEF c
  <2> QED BY <1>1, <1>8, <2>1 DEF ReaderTypeOK
<1>15. /\ from' \in [Procs -> [Channels -> Nat]] /\ from'[p][c] = b
       /\ \A q \in Procs, f \in Channels : q # p \/ f # c => from'[q][f] = from[q][f]
  <2>1. from' = [from EXCEPT ![p][c] = b]
    BY <1>2, <1>4
  <2> HIDE DEF c
  <2> QED BY <1>1, <1>8, <2>1 DEF ReaderTypeOK
<1>16. /\ view' \in [Procs -> [Channels -> Gens]] /\ view'[p][c] = g
       /\ \A q \in Procs, f \in Channels : q # p \/ f # c => view'[q][f] = view[q][f]
  <2>1. view' = [view EXCEPT ![p][c] = g]
    BY DEF Place
  <2> HIDE DEF c, g
  <2> QED BY <1>1, <1>5, <1>8, <2>1 DEF ReaderTypeOK
<1>17. ReaderTypeOK'
  BY <1>14, <1>15, <1>16 DEF ReaderTypeOK
<1>18. AttachTypeOK' /\ \A q \in Procs \ {p} : attaching'[q] = attaching[q]
  BY <1>1, <1>10, ProcFacts DEF AttachTypeOK, Place
<1>19. RingTypeOK'
  BY <1>1, <1>10 DEF RingTypeOK, ringVars
<1>20. OpenInv'
  <2> SUFFICES ASSUME NEW q \in Procs, cp'[q] # "closed"
               PROVE  attaching'[q] /\ len'[q] \in Files
    BY DEF OpenInv, Adding
  <2>1. q # p /\ cp[q] # "closed"
    BY <1>9
  <2>2. len'[q] = len[q]
    BY <1>1, <1>7, <2>1 DEF MuxTypeOK
  <2> QED BY <1>1, <1>18, <2>1, <2>2 DEF OpenInv, Adding
<1>21. OffsetInv'
  <2> SUFFICES ASSUME NEW f \in Files, ~reset[f], origin[f].from # 0
               PROVE  /\ offset[f] # NotCommitted
                      /\ origin[f].from..offset[f] \subseteq covered'[f][origin[f].gen]
    BY <1>10 DEF OffsetInv
  <2>1. /\ offset[f] # NotCommitted
        /\ origin[f].from..offset[f] \subseteq covered[f][origin[f].gen]
    BY <1>1 DEF LossPart, OffsetInv
  <2>2. origin[f].gen \in Gens
    BY <1>1 DEF HistoryTypeOK
  <2> QED BY <1>12, <2>1, <2>2
<1>22. NoSilentLoss'
  <2> SUFFICES ASSUME NEW q \in Procs, NEW f \in Files, f < len'[q], ~reset[f]
               PROVE  from'[q][f]..(cursor'[q][f] - 1) \subseteq covered'[f][view'[q][f]]
    BY <1>10 DEF NoSilentLoss
  <2>1. f \in Channels /\ f \in Nat /\ view[q][f] \in Gens
    BY <1>1, ProcFacts DEF ReaderTypeOK
  <2>2. CASE q # p \/ f # c
    <3>1. f < len[q]
      <4>1. len[q] \in Nat /\ len'[q] = IF q = p THEN len[p] + 1 ELSE len[q]
        BY <1>1, <1>7, ProcFacts DEF MuxTypeOK
      <4> QED BY <1>6, <1>7, <2>1, <2>2, <4>1
    <3>2. from[q][f]..(cursor[q][f] - 1) \subseteq covered[f][view[q][f]]
      BY <1>1, <3>1 DEF LossPart, NoSilentLoss
    <3>3. /\ from'[q][f] = from[q][f] /\ cursor'[q][f] = cursor[q][f]
          /\ view'[q][f] = view[q][f]
      BY <1>14, <1>15, <1>16, <2>1, <2>2
    <3> QED BY <1>12, <2>1, <3>2, <3>3
  <2>3. CASE q = p /\ f = c
    <3>1. b..(wanted - 1) \subseteq covered'[c][g]
      BY <1>4, <1>5, <1>12, <2>3
    <3>2. wanted..(first - 1) \subseteq covered'[c][g]
      BY <1>12, <2>3
    <3>3. \A n \in b..(first - 1) : n \in b..(wanted - 1) \/ n \in wanted..(first - 1)
      BY <1>3, <1>4, <1>5
    <3> QED BY <1>14, <1>15, <1>16, <2>3, <3>1, <3>2, <3>3
  <2> QED BY <2>2, <2>3
<1> QED BY <1>7, <1>11, <1>13, <1>17, <1>18, <1>19, <1>20, <1>21, <1>22, Parts, PTL
        DEF RestTypeOK, LossPart

(* commit_offset: the file now answers for what this reader does.          *)
LEMMA CommitKeeps ==
    ASSUME IInv, NEW p \in Procs, NEW c \in Files, Commit(p, c)
    PROVE  IInv'
<1>1. /\ LossPart /\ RingTypeOK /\ AttachTypeOK /\ ReaderTypeOK /\ HistoryTypeOK
      /\ CheckpointTypeOK /\ SlotInv
  BY Parts DEF RestTypeOK, FilePart
<1>2. UNCHANGED <<sized, magic, cp, cpFile, words, abandoned, reset, muxVars, ringVars, attachVars,
                  consumerVars, from, covered>>
  BY DEF Commit, Save
<1>3. MuxPart'
  BY <1>2, Parts, MuxFrame DEF MuxPart
<1>4. cursor[p][c] \in Nat \ {0} /\ from[p][c] \in Nat /\ view[p][c] \in Gens
  BY <1>1, ProcFacts DEF ReaderTypeOK
<1>5. PICK n \in Nat : n = cursor[p][c] - 1 /\ offset' = [offset EXCEPT ![c] = n]
  <2>1. cursor[p][c] - 1 \in Nat
    BY <1>4
  <2>2. offset' = [offset EXCEPT ![c] = cursor[p][c] - 1]
    BY DEF Commit, Save, LastProcessed
  <2> QED BY <2>1, <2>2
<1>6. offset' \in [Files -> Nat] /\ offset'[c] = n /\ \A f \in Files \ {c} : offset'[f] = offset[f]
  BY <1>1, <1>5 DEF CheckpointTypeOK
<1>7. FilePart'
  <2>1. CheckpointTypeOK'
    BY <1>1, <1>2, <1>6 DEF CheckpointTypeOK
  <2>2. SlotInv'
    BY <1>1, <1>2 DEF SlotInv, Creates
  <2> QED BY <2>1, <2>2 DEF FilePart
<1>8. PICK o \in [from : Nat, gen : Gens] :
         /\ origin' = [origin EXCEPT ![c] = o]
         /\ o.gen = view[p][c] /\ o.from = IF n = NotCommitted THEN 0 ELSE from[p][c]
  <2>1. PICK k \in Nat : k = IF n = NotCommitted THEN 0 ELSE from[p][c]
    BY <1>4
  <2>2. PICK v \in Gens : v = view[p][c]
    BY <1>4
  <2>3. origin' = [origin EXCEPT ![c] = [from |-> k, gen |-> v]]
    BY <1>6, <2>1, <2>2 DEF Commit
  <2>4. PICK o \in [from : Nat, gen : Gens] : o = [from |-> k, gen |-> v]
    OBVIOUS
  <2>5. o.gen = view[p][c] /\ o.from = k
    BY <2>2, <2>4
  <2>6. origin' = [origin EXCEPT ![c] = o]
    BY <2>3, <2>4
  <2> QED BY <2>1, <2>5, <2>6
<1>9. /\ origin' \in [Files -> [from : Nat, gen : Gens]] /\ origin'[c] = o
      /\ \A f \in Files \ {c} : origin'[f] = origin[f]
  BY <1>1, <1>8 DEF HistoryTypeOK
<1>10. RestTypeOK'
  BY <1>1, <1>2, <1>9 DEF RestTypeOK, RingTypeOK, AttachTypeOK, ReaderTypeOK, HistoryTypeOK,
                          ringVars, attachVars, consumerVars
<1>11. OpenInv'
  BY <1>2, Parts DEF OpenInv, Adding, attachVars, muxVars
<1>12. NoSilentLoss'
  BY <1>1, <1>2 DEF LossPart, NoSilentLoss, consumerVars, muxVars
<1>13. OffsetInv'
  <2> SUFFICES ASSUME NEW f \in Files, ~reset[f], origin'[f].from # 0
               PROVE  /\ offset'[f] # NotCommitted
                      /\ origin'[f].from..offset'[f] \subseteq covered[f][origin'[f].gen]
    BY <1>2 DEF OffsetInv
  <2>1. CASE f # c
    BY <1>1, <1>6, <1>9, <2>1 DEF LossPart, OffsetInv
  <2>2. CASE f = c
    <3>1. n # NotCommitted /\ o.from = from[p][c]
      BY <1>8, <1>9, <2>2
    <3>2. c < len[p]
      BY DEF Commit
    <3>3. from[p][c]..n \subseteq covered[c][view[p][c]]
      BY <1>1, <1>5, <2>2, <3>2 DEF LossPart, NoSilentLoss
    <3> QED BY <1>6, <1>8, <1>9, <2>2, <3>1, <3>3
  <2> QED BY <2>1, <2>2
<1> QED BY <1>3, <1>7, <1>10, <1>11, <1>12, <1>13, Parts, PTL DEF LossPart

(* A process dies: its readers are gone, its files and their history stay. *)
LEMMA DieKeeps ==
    ASSUME IInv, NEW p \in Procs, Die(p)
    PROVE  IInv'
<1>1. /\ MuxTypeOK /\ MuxInv /\ p \in Tasks /\ LossPart /\ OpenInv /\ SlotInv
      /\ RingTypeOK /\ AttachTypeOK /\ ReaderTypeOK /\ HistoryTypeOK /\ CheckpointTypeOK
  BY Parts, ProcFacts DEF MuxPart, RestTypeOK, FilePart
<1>2. UNCHANGED <<ringVars, kind, origin, covered>>
  BY DEF Die
<1>3. MuxPart'
  BY <1>1, DropMuxKeeps DEF Die, MuxPart
<1>4. len'[p] = 0 /\ \A q \in Procs \ {p} : len'[q] = len[q]
  BY <1>1, ProcFacts DEF Die, DropMux, Set, MuxTypeOK
<1>5. /\ FilePart' /\ UNCHANGED <<offset, reset>>
      /\ cp'[p] = "closed" /\ \A q \in Procs \ {p} : cp'[q] = cp[q]
  BY <1>1, CloseFilesKeeps DEF Die, FilePart
<1>6. AttachTypeOK' /\ \A q \in Procs \ {p} : attaching'[q] = attaching[q]
  BY <1>1, <1>2, ProcFacts DEF AttachTypeOK, Die
<1>7. /\ ReaderTypeOK'
      /\ \A q \in Procs \ {p} : /\ cursor'[q] = cursor[q] /\ view'[q] = view[q]
                                /\ from'[q] = from[q]
  BY <1>1, ProcFacts DEF ReaderTypeOK, Die
<1>8. (RingTypeOK /\ HistoryTypeOK)'
  BY <1>1, <1>2 DEF RingTypeOK, HistoryTypeOK, ringVars
<1>9. OpenInv'
  BY <1>1, <1>4, <1>5, <1>6 DEF OpenInv, Adding
<1>10. OffsetInv'
  BY <1>1, <1>2, <1>5 DEF LossPart, OffsetInv
<1>11. NoSilentLoss'
  <2> SUFFICES ASSUME NEW q \in Procs, NEW f \in Files, f < len'[q], ~reset[f]
               PROVE  from'[q][f]..(cursor'[q][f] - 1) \subseteq covered[f][view'[q][f]]
    BY <1>2, <1>5 DEF NoSilentLoss
  <2>1. q # p
    BY <1>4, ProcFacts
  <2> QED BY <1>1, <1>4, <1>7, <2>1 DEF LossPart, NoSilentLoss
<1> QED BY <1>3, <1>5, <1>6, <1>7, <1>8, <1>9, <1>10, <1>11, Parts, PTL DEF RestTypeOK, LossPart

(* A step of no one.                                                       *)
LEMMA StutterKeeps ==
    ASSUME IInv, UNCHANGED vars
    PROVE  IInv'
<1>1. MuxPart'
  BY Parts, MuxFrame DEF MuxPart, vars
<1>2. FilePart'
  BY Parts, CheckpointFrame DEF FilePart, vars
<1>3. RestTypeOK'
  BY Parts DEF RestTypeOK, RingTypeOK, AttachTypeOK, ReaderTypeOK, HistoryTypeOK,
               ringVars, attachVars, consumerVars, historyVars, vars
<1>4. OpenInv'
  BY Parts DEF OpenInv, Adding, attachVars, muxVars, checkpointVars, vars
<1>5. LossPart'
  BY Parts, LossFrame DEF checkpointVars, slotVars, muxVars, consumerVars, historyVars, vars
<1> QED BY <1>1, <1>2, <1>3, <1>4, <1>5, Parts, PTL

-----------------------------------------------------------------------------
(* Theorems *)

(* The inductive invariant.                                                *)
THEOREM Invariance == Spec => []IInv
<1>1. IInv /\ [Next]_vars => IInv'
  <2> SUFFICES ASSUME IInv, [Next]_vars PROVE IInv'
    OBVIOUS
  <2>1. ASSUME NEW c \in Channels, BeginPush(c) \/ EndPush(c) \/ Recreate(c) PROVE IInv'
    BY <2>1, ProducerKeeps
  <2>2. ASSUME NEW p \in Procs, AttachLoad(p) \/ OpenCheckpoint(p) \/ Place(p) \/ AttachFail(p)
        PROVE  IInv'
    BY <2>2, AttachLoadKeeps, OpenCheckpointKeeps, PlaceKeeps, AttachFailKeeps
  <2>3. ASSUME NEW p \in Procs, StartCall(p) \/ TaskStep(p) \/ TimerElapses(p) \/ DropFuture(p)
        PROVE  IInv'
    BY <2>3, SchedulingKeeps, PollKeeps DEF TaskStep
  <2>4. ASSUME NEW p \in Procs, NEW c \in Files, Commit(p, c) PROVE IInv'
    BY <2>4, CommitKeeps
  <2>5. ASSUME NEW p \in Procs, Die(p) PROVE IInv'
    BY <2>5, DieKeeps
  <2>6. CASE UNCHANGED vars
    BY <2>6, StutterKeeps
  <2> QED BY <2>1, <2>2, <2>3, <2>4, <2>5, <2>6 DEF Next
<1> QED BY <1>1, InitInv, PTL DEF Spec

(* Every variable keeps its type: a position is at least 1, next_idx never  *)
(* runs past the channels, and the backoff stays within its limits.        *)
THEOREM TypeCorrect == Spec => []TypeOK
BY Invariance, PTL DEF IInv

(* No message between a reader's first predecessor and its cursor is lost   *)
(* silently, whoever died in between, unless two processes created the     *)
(* offset file at once and one of them wiped a committed offset.           *)
THEOREM NothingLostSilently == Spec => []NoSilentLoss
BY Invariance, PTL DEF IInv

(* open_or_create refuses a file only while it is being created, or after   *)
(* its creator died.                                                       *)
THEOREM RefusalsExplained == Spec => []RefusalExplained
<1>1. IInv => RefusalExplained
  <2> SUFFICES ASSUME IInv, NEW p \in Procs, cp[p] = "validate", ~magic[cpFile[p]],
                      ~abandoned[cpFile[p]]
               PROVE  \E q \in Procs \ {p} :
                         cp[q] = "write" /\ cpFile[q] = cpFile[p] /\ "magic" \in words[q]
    BY DEF RefusalExplained
  <2>1. cpFile[p] \in Files /\ sized[cpFile[p]] /\ SlotInv
    BY DEF IInv, TypeOK, CheckpointTypeOK, SlotInv
  <2>2. PICK q \in Procs : Creates(q, cpFile[p])
    BY <2>1 DEF SlotInv
  <2> QED BY <2>2 DEF Creates
<1> QED BY <1>1, Invariance, PTL

(* Round-robin is fair, for any number of channels, and while channels are  *)
(* added.                                                                  *)
THEOREM RoundRobinIsFair == Spec => []NoChannelStarves
<1>1. IInv => NoChannelStarves
  <2> SUFFICES ASSUME IInv, NEW p \in Procs, NEW c \in 0..(len[p] - 1)
               PROVE  waited[p][c] < len[p]
    BY DEF NoChannelStarves
  <2>1. p \in Tasks /\ RoundInvOf(p) /\ MuxTypeOK
    BY ProcFacts DEF IInv, MuxInv, MuxInvOf, TypeOK
  <2>2. len[p] \in Nat /\ nextIdx[p] \in Nat /\ nextIdx[p] < len[p] /\ len[p] <= MaxChannels[p]
    BY <2>1 DEF MuxTypeOK, RoundInvOf
  <2>3. c \in Channels
    <3>1. c \in 0..(MaxChannels[p] - 1)
      BY <2>1, <2>2, ChannelFacts
    <3> QED BY <2>1, <3>1, ChannelFacts
  <2>4. waited[p][c] \in Nat /\ waited[p][c] + Dist(nextIdx[p], c, len[p]) < len[p]
    BY <2>1, <2>2, <2>3 DEF MuxTypeOK, RoundInvOf
  <2>5. Dist(nextIdx[p], c, len[p]) \in Nat
    BY <2>2 DEF Dist
  <2> QED BY <2>2, <2>4, <2>5
<1> QED BY <1>1, Invariance, PTL

(* A pass that returns nothing has asked every channel that had a message   *)
(* when it began.                                                          *)
THEOREM NothingIsTrue == Spec => NothingMeansNothing
<1> DEFINE A == \A p \in Procs : Poll(p) /\ ~HasMessage(p, Polled(p)) /\ ~MoreChannels(p) =>
                   due[p] \subseteq {Polled(p)}
<1>1. IInv => A
  <2> SUFFICES ASSUME IInv, NEW p \in Procs, Poll(p), ~MoreChannels(p), NEW d \in due[p],
                      d # Polled(p)
               PROVE  FALSE
    OBVIOUS
  <2>1. p \in Tasks /\ MuxInvOf(p) /\ MuxTypeOK /\ at[p] = "poll"
    BY ProcFacts DEF IInv, MuxInv, TypeOK, Poll
  <2>2. d \in 0..(len[p] - 1) /\ Turn(p, d) \in Nat /\ Turn(p, d) > i[p]
    BY <2>1, DueFacts
  <2>3. len[p] \in Nat /\ i[p] \in Nat /\ i[p] + 1 >= len[p] /\ start[p] \in 0..(len[p] - 1)
    BY <2>1, PolledFacts DEF MoreChannels
  <2>4. Turn(p, d) <= len[p] - 1
    BY <2>2, <2>3 DEF Turn, Dist
  <2> QED BY <2>2, <2>3, <2>4
<1>2. IInv => [A]_vars
  BY <1>1
<1> QED BY <1>2, Invariance, PTL DEF NothingMeansNothing

=============================================================================
