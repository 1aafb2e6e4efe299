------------------------ MODULE SharedWords_proofs --------------------------
(***************************************************************************)
(* Proofs about the two protocols built on single words of the mapping:    *)
(* the seqlock of a blackboard slot, for every set of keys, readers and    *)
(* words and every bound on the writes, and the futex word of a ring       *)
(* header, for any number of consumers and messages.  The two              *)
(* specifications share no variable.                                       *)
(***************************************************************************)
EXTENDS Blackboard, FutexWait, TLAPS

-----------------------------------------------------------------------------
(* The blackboard *)

(* Key k is in the middle of a write, perhaps for ever.                    *)
Writing(k) == wpc # "idle" /\ wkey = k

(* The seqlock counts the writes: twice those that are complete, and one   *)
(* more in the middle of one.                                              *)
SeqlockInv ==
    \A k \in Keys :
        /\ Writing(k) => version[k] > 0 /\ seqlock[k] = 2 * version[k] - 1
        /\ ~Writing(k) => seqlock[k] = 2 * version[k]

(* A key that is not being written holds its last value in every word; the *)
(* words copied so far hold the new one.                                   *)
ValueInv ==
    /\ \A k \in Keys : ~Writing(k) => \A w \in Words : value[k][w] = version[k]
    /\ wpc = "copy" => \A w \in Words \ wwords : value[wkey][w] = version[wkey]

(* A reader that copies has seen a complete value, no older than the last  *)
(* one that was complete when the call began; as long as the seqlock is    *)
(* what it saw, its copy is that value.                                    *)
CopyInv ==
    \A r \in Readers : rpc[r] = "copy" =>
        /\ ~Odd(s1[r])
        /\ s1[r] >= 2 * before[r]
        /\ s1[r] <= seqlock[rkey[r]]
        /\ s1[r] = seqlock[rkey[r]] =>
              \A w \in Words \ rwords[r] : buf[r][w] = version[rkey[r]]

(* What a call knows of the writer when it began, while it waits for the   *)
(* clock, and when it has answered.                                        *)
CallInv ==
    \A r \in Readers :
        /\ before[r] <= Complete(rkey[r])
        /\ rpc[r] # "idle" => result[r].kind = "none"
        /\ rpc[r] = "clock" => version[rkey[r]] > before[r]

(* The inductive invariant of the table.                                   *)
IInv ==
    /\ TypeOK /\ SeqlockInv /\ ValueInv /\ CopyInv /\ CallInv
    /\ ReadIsFresh /\ AnswerExplained

-----------------------------------------------------------------------------

(* The invariant holds of an untouched blackboard.                         *)
LEMMA InitInv == Init => IInv
<1> SUFFICES ASSUME Init PROVE IInv
  OBVIOUS
<1>1. AnyKey \in Keys
  BY BlackboardAssumption DEF AnyKey
<1>2. NoWords \in Values
  BY BlackboardAssumption DEF NoWords, Values
<1>3. TypeOK
  BY <1>1, <1>2, BlackboardAssumption DEF Init, TypeOK, ResultKinds
<1> QED BY <1>1, <1>3 DEF Init, IInv, SeqlockInv, ValueInv, CopyInv, CallInv, ReadIsFresh,
           AnswerExplained, Writing, Complete, NoWords

-----------------------------------------------------------------------------
(* The writer *)

WriterAction == (\E k \in Keys : BeginWrite(k)) \/ WriterStep \/ WriterDies

(* The writer keeps the types.                                             *)
LEMMA WriterTypes ==
    ASSUME IInv, WriterAction
    PROVE  TypeOK'
<1> USE BlackboardAssumption DEF IInv, TypeOK, slotVars, readerVars
<1>1. ASSUME NEW k \in Keys, BeginWrite(k) PROVE TypeOK'
  <2>1. WriteMark(seqlock[k]) \in 0..(2 * MaxWrites)
    BY <1>1 DEF BeginWrite, WriteMark, Odd, SeqlockInv, Writing
  <2> QED BY <1>1, <2>1 DEF BeginWrite
<1>2. ASSUME NEW w \in Words, CopyWordIn(w) PROVE TypeOK'
  <2>1. value[wkey] \in Values /\ version[wkey] \in 0..MaxWrites
    OBVIOUS
  <2>2. [value[wkey] EXCEPT ![w] = version[wkey]] \in Values
    BY <2>1 DEF Values
  <2>3. value' \in [Keys -> Values]
    BY <1>2, <2>2 DEF CopyWordIn
  <2> QED BY <1>2, <2>3 DEF CopyWordIn
<1>3. CASE EndWrite
  <2>1. EndMark(seqlock[wkey]) \in 0..(2 * MaxWrites)
    BY <1>3 DEF EndWrite, EndMark, SeqlockInv, Writing
  <2> QED BY <1>3, <2>1 DEF EndWrite
<1>4. CASE WriterDies
  BY <1>4 DEF WriterDies
<1> QED BY <1>1, <1>2, <1>3, <1>4 DEF WriterAction, WriterStep

(* A write marks the key, copies and unmarks it; the other keys and their  *)
(* readers are not concerned.                                              *)
LEMMA WriterKeeps ==
    ASSUME IInv, WriterAction
    PROVE  (SeqlockInv /\ ValueInv)'
<1> USE BlackboardAssumption DEF IInv, TypeOK, slotVars, SeqlockInv, ValueInv, Writing
<1>1. ASSUME NEW k \in Keys, BeginWrite(k) PROVE (SeqlockInv /\ ValueInv)'
  <2>1. /\ ~Writing(k) /\ Writing(k)'
        /\ \A j \in Keys \ {k} : ~Writing(j) /\ ~Writing(j)'
    BY <1>1 DEF BeginWrite
  <2>2. seqlock'[k] = 2 * version'[k] - 1 /\ version'[k] > 0
    <3>1. version[k] \in Nat /\ seqlock[k] = 2 * version[k]
      BY <2>1
    <3>2. ~Odd(seqlock[k])
      BY <3>1 DEF Odd
    <3>3. seqlock'[k] = seqlock[k] + 1 /\ version'[k] = version[k] + 1
      BY <1>1, <3>2 DEF BeginWrite, WriteMark
    <3> QED BY <3>1, <3>3
  <2>3. \A j \in Keys \ {k} : seqlock'[j] = seqlock[j] /\ version'[j] = version[j]
    BY <1>1 DEF BeginWrite
  <2>4. SeqlockInv'
    BY <2>1, <2>2, <2>3
  <2>5. ValueInv'
    BY <1>1, <2>1, <2>3 DEF BeginWrite
  <2> QED BY <2>4, <2>5
<1>2. ASSUME NEW w \in Words, CopyWordIn(w) PROVE (SeqlockInv /\ ValueInv)'
  BY <1>2 DEF CopyWordIn, Values
<1>3. CASE EndWrite
  BY <1>3 DEF EndWrite, EndMark
<1>4. CASE WriterDies
  BY <1>4 DEF WriterDies
<1> QED BY <1>1, <1>2, <1>3, <1>4 DEF WriterAction, WriterStep

(* What the writer does to a reader's key: writes only accumulate, and the *)
(* value stays as long as the seqlock does.                                *)
LEMMA WriterAccumulates ==
    ASSUME IInv, WriterAction, NEW k \in Keys
    PROVE  /\ version[k] <= version'[k]
           /\ Complete(k) <= Complete(k)'
           /\ seqlock[k] <= seqlock'[k]
           /\ ~Odd(seqlock[k]) /\ seqlock'[k] = seqlock[k] => version'[k] = version[k]
<1> USE BlackboardAssumption DEF IInv, TypeOK, slotVars, SeqlockInv, Writing, Complete, Odd
<1>1. ASSUME NEW j \in Keys, BeginWrite(j)
      PROVE  /\ version[k] <= version'[k]
             /\ Complete(k) <= Complete(k)'
             /\ seqlock[k] <= seqlock'[k]
             /\ ~Odd(seqlock[k]) /\ seqlock'[k] = seqlock[k] => version'[k] = version[k]
  BY <1>1 DEF BeginWrite, WriteMark
<1>2. CASE \E w \in Words : CopyWordIn(w)
  BY <1>2 DEF CopyWordIn
<1>3. CASE EndWrite
  BY <1>3 DEF EndWrite, EndMark
<1>4. CASE WriterDies
  BY <1>4 DEF WriterDies
<1> QED BY <1>1, <1>2, <1>3, <1>4 DEF WriterAction, WriterStep

(* So nothing a reader has or has answered becomes wrong.                  *)
LEMMA WriterSparesReaders ==
    ASSUME IInv, WriterAction
    PROVE  (CopyInv /\ CallInv /\ ReadIsFresh /\ AnswerExplained)'
<1>1. UNCHANGED readerVars
  BY DEF WriterAction, WriterStep, BeginWrite, CopyWordIn, EndWrite, WriterDies
<1>2. TypeOK /\ TypeOK'
  BY WriterTypes DEF IInv
<1> SUFFICES ASSUME NEW r \in Readers, NEW k \in Keys, k = rkey[r]
             PROVE  /\ rpc[r] = "copy" =>
                          /\ s1[r] <= seqlock'[k]
                          /\ s1[r] = seqlock'[k] =>
                                \A w \in Words \ rwords[r] : buf[r][w] = version'[k]
                    /\ before[r] <= Complete(k)'
                    /\ rpc[r] = "clock" => version'[k] > before[r]
                    /\ result[r].kind = "value" =>
                          \E v \in before[r]..version'[k] :
                              \A w \in Words : result[r].data[w] = v
                    /\ result[r].kind = "stalled" => version'[k] > before[r]
  BY <1>1, <1>2 DEF readerVars, IInv, TypeOK, CopyInv, CallInv, ReadIsFresh,
                    AnswerExplained, Complete
<1>3. /\ before[r] \in Nat /\ s1[r] \in Nat
      /\ version[k] \in Nat /\ version'[k] \in Nat
      /\ seqlock[k] \in Nat /\ seqlock'[k] \in Nat
      /\ Complete(k) \in Int /\ Complete(k)' \in Int
  BY <1>1, <1>2, BlackboardAssumption DEF TypeOK, readerVars, Complete
<1>4. /\ version[k] <= version'[k]
      /\ Complete(k) <= Complete(k)'
      /\ seqlock[k] <= seqlock'[k]
      /\ ~Odd(seqlock[k]) /\ seqlock'[k] = seqlock[k] => version'[k] = version[k]
  BY <1>3, WriterAccumulates
<1>5. rpc[r] = "copy" =>
          /\ s1[r] <= seqlock'[k]
          /\ s1[r] = seqlock'[k] =>
                \A w \in Words \ rwords[r] : buf[r][w] = version'[k]
  BY <1>3, <1>4 DEF IInv, CopyInv
<1>6. before[r] <= Complete(k)'
  BY <1>3, <1>4 DEF IInv, CallInv
<1>7. /\ rpc[r] = "clock" => version'[k] > before[r]
      /\ result[r].kind = "stalled" => version'[k] > before[r]
  BY <1>3, <1>4 DEF IInv, CallInv, AnswerExplained
<1>8. result[r].kind = "value" =>
          \E v \in before[r]..version'[k] : \A w \in Words : result[r].data[w] = v
  <2>1. before[r]..version[k] \subseteq before[r]..version'[k]
    BY <1>3, <1>4
  <2> QED BY <2>1 DEF IInv, ReadIsFresh
<1> QED BY <1>5, <1>6, <1>7, <1>8

-----------------------------------------------------------------------------
(* A reader *)

ReaderAction(r) == (\E k \in Keys : BeginRead(r, k)) \/ ReaderStep(r) \/ Expire(r)

(* A reader writes nothing, and leaves the other readers alone.            *)
LEMMA ReaderFrame ==
    ASSUME TypeOK, NEW r \in Readers, ReaderAction(r)
    PROVE  /\ UNCHANGED <<slotVars, writerVars>>
           /\ \A q \in Readers \ {r} :
                 /\ rpc'[q] = rpc[q] /\ rkey'[q] = rkey[q] /\ s1'[q] = s1[q]
                 /\ rwords'[q] = rwords[q] /\ buf'[q] = buf[q]
                 /\ before'[q] = before[q] /\ result'[q] = result[q]
<1> USE DEF TypeOK, BackOff, Answer
<1>1. ASSUME NEW k \in Keys, BeginRead(r, k)
      PROVE  \A q \in Readers \ {r} :
                 /\ rpc'[q] = rpc[q] /\ rkey'[q] = rkey[q] /\ s1'[q] = s1[q]
                 /\ rwords'[q] = rwords[q] /\ buf'[q] = buf[q]
                 /\ before'[q] = before[q] /\ result'[q] = result[q]
  BY <1>1 DEF BeginRead
<1>2. CASE LoadSeqlock(r)
  BY <1>2 DEF LoadSeqlock
<1>3. CASE \E w \in Words : CopyWordOut(r, w)
  BY <1>3 DEF CopyWordOut
<1>4. CASE Recheck(r)
  BY <1>4 DEF Recheck
<1>5. CASE Expire(r)
  BY <1>5 DEF Expire
<1>6. CASE TryAgain(r)
  BY <1>6 DEF TryAgain
<1>7. UNCHANGED <<slotVars, writerVars>>
  BY DEF ReaderAction, ReaderStep, BeginRead, LoadSeqlock, CopyWordOut, Recheck, Expire,
         TryAgain
<1> QED BY <1>1, <1>2, <1>3, <1>4, <1>5, <1>6, <1>7 DEF ReaderAction, ReaderStep

(* A reader's steps keep the types.                                        *)
LEMMA ReaderTypes ==
    ASSUME IInv, NEW r \in Readers, ReaderAction(r)
    PROVE  TypeOK'
<1> USE BlackboardAssumption DEF IInv, TypeOK, slotVars, writerVars, ResultKinds
<1>0. NoWords \in Values
  BY DEF NoWords, Values
<1>a. ASSUME NEW kind \in ResultKinds, NEW data \in Values, Answer(r, kind, data)
      PROVE  /\ result' \in [Readers -> [kind : ResultKinds, data : Values]]
             /\ rpc' \in [Readers -> {"idle", "load", "copy", "clock"}]
             /\ s1' \in [Readers -> 0..(2 * MaxWrites)]
             /\ buf' \in [Readers -> Values]
  BY <1>a, <1>0 DEF Answer
<1>b. ASSUME BackOff(r)
      PROVE  /\ result' = result
             /\ rpc' \in [Readers -> {"idle", "load", "copy", "clock"}]
             /\ s1' \in [Readers -> 0..(2 * MaxWrites)]
             /\ buf' \in [Readers -> Values]
             /\ spins' \in [Readers -> 0..SpinLimit]
  <2>1. result' = result /\ buf' \in [Readers -> Values]
    BY <1>b, <1>0 DEF BackOff
  <2>2. s1' \in [Readers -> 0..(2 * MaxWrites)]
    BY <1>b DEF BackOff
  <2>3. /\ rpc' \in [Readers -> {"idle", "load", "copy", "clock"}]
        /\ spins' \in [Readers -> 0..SpinLimit]
    <3>1. CASE spins[r] < SpinLimit
      <4>1. spins[r] + 1 \in 0..SpinLimit
        BY <3>1
      <4>2. rpc' = [rpc EXCEPT ![r] = "load"] /\ spins' = [spins EXCEPT ![r] = spins[r] + 1]
        BY <1>b, <3>1 DEF BackOff
      <4> QED BY <4>1, <4>2
    <3>2. CASE ~(spins[r] < SpinLimit)
      BY <1>b, <3>2 DEF BackOff
    <3> QED BY <3>1, <3>2
  <2> QED BY <2>1, <2>2, <2>3
<1>1. ASSUME NEW k \in Keys, BeginRead(r, k) PROVE TypeOK'
  <2>1. Complete(k) \in 0..MaxWrites
    BY DEF Complete, SeqlockInv, Writing
  <2>2. result' \in [Readers -> [kind : ResultKinds, data : Values]]
    BY <1>1, <1>0 DEF BeginRead
  <2> QED BY <1>1, <2>1, <2>2 DEF BeginRead
<1>2. CASE LoadSeqlock(r)
  <2>1. CASE Answer(r, "unwritten", NoWords) /\ UNCHANGED <<rwords, spins>>
    BY <1>2, <2>1, <1>a, <1>0 DEF LoadSeqlock
  <2>2. CASE BackOff(r) /\ UNCHANGED rwords
    BY <1>2, <2>2, <1>b DEF LoadSeqlock
  <2>3. CASE /\ s1' = [s1 EXCEPT ![r] = seqlock[rkey[r]]]
             /\ rwords' = [rwords EXCEPT ![r] = Words]
             /\ rpc' = [rpc EXCEPT ![r] = "copy"]
             /\ UNCHANGED <<buf, spins, result>>
    BY <1>2, <2>3 DEF LoadSeqlock
  <2> QED BY <1>2, <2>1, <2>2, <2>3 DEF LoadSeqlock
<1>3. ASSUME NEW w \in Words, CopyWordOut(r, w) PROVE TypeOK'
  <2>1. value[rkey[r]] \in Values /\ buf[r] \in Values
    OBVIOUS
  <2>2. [buf[r] EXCEPT ![w] = value[rkey[r]][w]] \in Values
    BY <2>1 DEF Values
  <2>3. buf' \in [Readers -> Values]
    BY <1>3, <2>2 DEF CopyWordOut
  <2> QED BY <1>3, <2>3 DEF CopyWordOut
<1>4. CASE Recheck(r)
  <2>1. CASE Answer(r, "value", buf[r]) /\ UNCHANGED spins
    <3>1. buf[r] \in Values
      OBVIOUS
    <3> QED BY <1>4, <2>1, <3>1, <1>a DEF Recheck
  <2>2. CASE BackOff(r)
    BY <1>4, <2>2, <1>b DEF Recheck
  <2> QED BY <1>4, <2>1, <2>2 DEF Recheck
<1>5. CASE Expire(r)
  BY <1>5, <1>0, <1>a DEF Expire
<1>6. CASE TryAgain(r)
  BY <1>6 DEF TryAgain
<1> QED BY <1>1, <1>2, <1>3, <1>4, <1>5, <1>6 DEF ReaderAction, ReaderStep

(* The invariants about one reader.                                        *)
ReadInvOf(r) ==
    /\ rpc[r] = "copy" =>
          /\ ~Odd(s1[r])
          /\ s1[r] >= 2 * before[r]
          /\ s1[r] <= seqlock[rkey[r]]
          /\ s1[r] = seqlock[rkey[r]] =>
                \A w \in Words \ rwords[r] : buf[r][w] = version[rkey[r]]
    /\ before[r] <= Complete(rkey[r])
    /\ rpc[r] # "idle" => result[r].kind = "none"
    /\ rpc[r] = "clock" => version[rkey[r]] > before[r]
    /\ result[r].kind = "value" =>
          \E v \in before[r]..version[rkey[r]] : \A w \in Words : result[r].data[w] = v
    /\ result[r].kind = "unwritten" => before[r] = 0
    /\ result[r].kind = "stalled" => version[rkey[r]] > before[r]

(* What holds of the readers holds of each of them.                        *)
LEMMA ReadInvSplit ==
    (\A r \in Readers : ReadInvOf(r)) <=> CopyInv /\ CallInv /\ ReadIsFresh /\ AnswerExplained
BY DEF ReadInvOf, CopyInv, CallInv, ReadIsFresh, AnswerExplained

(* Every step of a reader keeps what it knows.                             *)
LEMMA ReaderKeeps ==
    ASSUME IInv, NEW r \in Readers, ReaderAction(r)
    PROVE  ReadInvOf(r)'
<1>0. TypeOK /\ TypeOK' /\ UNCHANGED <<slotVars, writerVars>>
  BY ReaderTypes, ReaderFrame DEF IInv
<1>1. ReadInvOf(r) /\ SeqlockInv /\ ValueInv
  BY ReadInvSplit DEF IInv
<1>2. \A k \in Keys : /\ Complete(k) \in Nat /\ Complete(k) <= version[k]
                      /\ seqlock[k] \in Nat /\ version[k] \in Nat
                      /\ Odd(seqlock[k]) => Complete(k) < version[k]
                      /\ ~Odd(seqlock[k]) => /\ ~Writing(k)
                                             /\ seqlock[k] = 2 * version[k]
                                             /\ Complete(k) = version[k]
  BY <1>0, <1>1, BlackboardAssumption DEF TypeOK, SeqlockInv, Writing, Complete, Odd
<1>3. /\ rkey[r] \in Keys /\ before[r] \in Nat /\ s1[r] \in Nat
  BY <1>0, BlackboardAssumption DEF TypeOK
<1> USE DEF TypeOK, slotVars, writerVars
<1>b. ASSUME BackOff(r), rpc[r] # "idle", version[rkey[r]] > before[r],
             UNCHANGED <<rkey, before>>
      PROVE  ReadInvOf(r)'
  BY <1>0, <1>1, <1>b DEF BackOff, ReadInvOf, Complete
<1>4. ASSUME NEW k \in Keys, BeginRead(r, k) PROVE ReadInvOf(r)'
  BY <1>0, <1>1, <1>2, <1>4 DEF BeginRead, ReadInvOf, Complete
<1>5. CASE LoadSeqlock(r)
  <2>1. CASE seqlock[rkey[r]] = 0 /\ Answer(r, "unwritten", NoWords)
    <3>1. before[r] = 0
      BY <2>1, <1>1, <1>2, <1>3 DEF Odd, ReadInvOf
    <3> QED BY <1>0, <1>1, <1>5, <2>1, <3>1 DEF LoadSeqlock, Answer, ReadInvOf, Complete
  <2>2. CASE /\ seqlock[rkey[r]] # 0 /\ ~Odd(seqlock[rkey[r]])
             /\ s1' = [s1 EXCEPT ![r] = seqlock[rkey[r]]]
             /\ rwords' = [rwords EXCEPT ![r] = Words]
             /\ rpc' = [rpc EXCEPT ![r] = "copy"]
             /\ UNCHANGED <<buf, spins, result>>
    BY <1>0, <1>1, <1>2, <1>3, <1>5, <2>2 DEF LoadSeqlock, ReadInvOf, Complete
  <2>3. CASE Odd(seqlock[rkey[r]]) /\ BackOff(r)
    <3>1. version[rkey[r]] > before[r]
      BY <2>3, <1>1, <1>2, <1>3 DEF ReadInvOf
    <3> QED BY <1>5, <2>3, <3>1, <1>b DEF LoadSeqlock
  <2> QED BY <1>5, <2>1, <2>2, <2>3 DEF LoadSeqlock
<1>6. ASSUME NEW w \in Words, CopyWordOut(r, w) PROVE ReadInvOf(r)'
  <2>1. /\ rpc[r] = "copy" /\ rpc' = rpc /\ rkey' = rkey /\ s1' = s1
        /\ before' = before /\ result' = result
        /\ rwords'[r] = rwords[r] \ {w}
        /\ buf'[r] = [buf[r] EXCEPT ![w] = value[rkey[r]][w]]
    BY <1>0, <1>6 DEF CopyWordOut
  <2>2. ASSUME s1[r] = seqlock[rkey[r]], NEW x \in Words \ (rwords[r] \ {w})
        PROVE  buf'[r][x] = version[rkey[r]]
    <3>1. buf[r] \in Values
      BY <1>0
    <3>2. ~Writing(rkey[r])
      BY <1>1, <1>2, <1>3, <2>1, <2>2 DEF ReadInvOf
    <3>3. value[rkey[r]][w] = version[rkey[r]]
      BY <1>1, <1>3, <3>2 DEF ValueInv
    <3> QED BY <1>1, <2>1, <2>2, <3>1, <3>3 DEF ReadInvOf, Values
  <2> QED BY <1>0, <1>1, <2>1, <2>2 DEF ReadInvOf, Complete
<1>7. CASE Recheck(r)
  <2>1. CASE seqlock[rkey[r]] = s1[r] /\ Answer(r, "value", buf[r])
    <3>1. \A w \in Words : buf[r][w] = version[rkey[r]]
      BY <1>1, <1>7, <2>1 DEF ReadInvOf, Recheck
    <3>2. version[rkey[r]] \in before[r]..version[rkey[r]]
      BY <1>1, <1>2, <1>3 DEF ReadInvOf
    <3> QED BY <1>0, <1>1, <1>7, <2>1, <3>1, <3>2 DEF Recheck, Answer, ReadInvOf, Complete
  <2>2. CASE seqlock[rkey[r]] # s1[r] /\ BackOff(r)
    <3>1. version[rkey[r]] > before[r]
      BY <1>1, <1>2, <1>3, <1>7, <2>2 DEF Recheck, ReadInvOf, SeqlockInv
    <3> QED BY <1>7, <2>2, <3>1, <1>b DEF Recheck
  <2> QED BY <1>7, <2>1, <2>2 DEF Recheck
<1>8. CASE Expire(r)
  BY <1>0, <1>1, <1>8 DEF Expire, MayExpire, Answer, ReadInvOf, Complete
<1>9. CASE TryAgain(r)
  BY <1>0, <1>1, <1>9 DEF TryAgain, ReadInvOf, Complete
<1> QED BY <1>4, <1>5, <1>6, <1>7, <1>8, <1>9 DEF ReaderAction, ReaderStep

-----------------------------------------------------------------------------
(* The theorems *)

(* A step is one of the writer or one of a reader.                         *)
LEMMA NextSplit == Next <=> WriterAction \/ \E r \in Readers : ReaderAction(r)
BY DEF Next, WriterAction, ReaderAction

(* The inductive invariant holds: the seqlock orders the copies.           *)
THEOREM Invariance == Spec => []IInv
<1>1. Init => IInv
  BY InitInv
<1>2. IInv /\ [Next]_vars => IInv'
  <2> SUFFICES ASSUME IInv, [Next]_vars PROVE IInv'
    OBVIOUS
  <2>1. CASE UNCHANGED vars
    BY <2>1 DEF IInv, TypeOK, SeqlockInv, ValueInv, CopyInv, CallInv, ReadIsFresh,
                AnswerExplained, Writing, Complete, vars, slotVars, writerVars, readerVars
  <2>2. CASE WriterAction
    BY <2>2, WriterTypes, WriterKeeps, WriterSparesReaders DEF IInv
  <2>3. ASSUME NEW r \in Readers, ReaderAction(r) PROVE IInv'
    <3>1. TypeOK'
      BY <2>3, ReaderTypes
    <3>2. (SeqlockInv /\ ValueInv)'
      BY <2>3, ReaderFrame DEF IInv, SeqlockInv, ValueInv, Writing, slotVars, writerVars
    <3>3. \A q \in Readers : ReadInvOf(q)'
      <4> SUFFICES ASSUME NEW q \in Readers, q # r PROVE ReadInvOf(q)'
        BY <2>3, ReaderKeeps
      <4>1. ReadInvOf(q)
        BY ReadInvSplit DEF IInv
      <4> QED BY <2>3, <4>1, ReaderFrame DEF IInv, ReadInvOf, Complete, slotVars, writerVars
    <3>4. (CopyInv /\ CallInv /\ ReadIsFresh /\ AnswerExplained)'
      BY <3>3, ReadInvSplit DEF CopyInv, CallInv, ReadIsFresh, AnswerExplained, ReadInvOf
    <3> QED BY <3>1, <3>2, <3>4 DEF IInv
  <2> QED BY <2>1, <2>2, <2>3, NextSplit
<1> QED BY <1>1, <1>2, PTL DEF Spec

(* The words of the table and the program counters of write and read stay  *)
(* in range; the seqlock never passes twice the number of writes.          *)
THEOREM TypeCorrect == Spec => []TypeOK
BY Invariance, PTL DEF IInv

(* A read returns one value, not a mix of two, and not one older than the  *)
(* last write that was complete when the read began.                       *)
THEOREM ReadsAreFresh == Spec => []ReadIsFresh
BY Invariance, PTL DEF IInv

(* None means that the key was not written when the read began, and        *)
(* WriterStalled that a write was under way during the call.               *)
THEOREM AnswersAreExplained == Spec => []AnswerExplained
BY Invariance, PTL DEF IInv

-----------------------------------------------------------------------------
(* The futex protocol                                                      *)
(*                                                                         *)
(* NoLostWakeup says nothing of a consumer that is not asleep yet, so it   *)
(* is not inductive.  WakeInv follows a consumer from its barrier on: as   *)
(* long as the message it wants is out, either its recheck will see it, or *)
(* the producer is still in front of its wake-up, or the futex word has    *)
(* changed since the consumer loaded it.                                   *)

(* The consumers counted in waiting_consumers.                             *)
Counted(c) == cpc[c] \in {"barrier", "recheck", "sleep", "asleep", "leave"}

(* The producer will bump the word, or died before it could.               *)
BeforeBump == ppc \in {"check", "bump", "dead"}

WakeInvOf(c) ==
    published >= cursor[c] =>
        /\ cpc[c] = "recheck" =>
              write_seq >= cursor[c] \/ BeforeBump \/ futex_word # futex_val[c]
        /\ cpc[c] = "sleep" => BeforeBump \/ futex_word # futex_val[c]
        /\ cpc[c] = "asleep" => BeforeBump \/ ppc = "wake"

CountInv == \A c \in Consumers : Counted(c) => c \in waiting

(* A loaded futex word is never ahead of the word.                         *)
ValInv == \A c \in Consumers : futex_val[c] <= futex_word

WakeInv == registered => \A c \in Consumers : WakeInvOf(c)

FutexInv == WaitTypeOK /\ CountInv /\ ValInv /\ WakeInv

-----------------------------------------------------------------------------

(* The initial state satisfies the invariant.                              *)
LEMMA WaitInitInv == WaitInit => FutexInv
BY FutexAssumption
DEF WaitInit, FutexInv, WaitTypeOK, CountInv, ValInv, WakeInv, WakeInvOf, Counted

(* Types are preserved.                                                    *)
LEMMA WaitTypeStep == WaitTypeOK /\ [WaitNext]_waitVars => WaitTypeOK'
<1> SUFFICES ASSUME WaitTypeOK, [WaitNext]_waitVars PROVE WaitTypeOK'
  OBVIOUS
<1> USE FutexAssumption DEF WaitTypeOK
<1>1. ASSUME NEW seq \in 1..MaxSeq, Publish(seq) PROVE WaitTypeOK'
  BY <1>1 DEF Publish, headerVars, consumerVars
<1>2. ASSUME NEW seq \in 1..MaxSeq, Drain(seq) PROVE WaitTypeOK'
  BY <1>2 DEF Drain, producerVars, consumerVars
<1>3. CASE ProducerStep
  BY <1>3 DEF ProducerStep, CheckWaiting, BumpFutex, WakeAll, headerVars, consumerVars
<1>4. CASE ProducerDies
  BY <1>4 DEF ProducerDies, headerVars, consumerVars
<1>5. ASSUME NEW c \in Consumers, ConsumerStep(c) \/ Timeout(c) \/ ConsumerDies(c)
      PROVE  WaitTypeOK'
  <2> USE DEF ToPc, headerVars, producerVars, Available
  <2>1. CASE Receive(c)
    BY <2>1 DEF Receive
  <2>2. CASE FastCheck(c) \/ CheckAgain(c) \/ Sleep(c) \/ Timeout(c) \/ ConsumerDies(c)
    BY <2>2 DEF FastCheck, CheckAgain, Sleep, Timeout, ConsumerDies
  <2>3. CASE LoadFutexWord(c)
    BY <2>3 DEF LoadFutexWord
  <2>4. CASE Enter(c) \/ Leave(c)
    BY <2>4 DEF Enter, Leave
  <2>5. CASE Barrier(c)
    BY <2>5 DEF Barrier, BarrierEffect
  <2> QED BY <1>5, <2>1, <2>2, <2>3, <2>4, <2>5 DEF ConsumerStep
<1>6. CASE UNCHANGED waitVars
  BY <1>6 DEF waitVars, headerVars, producerVars, consumerVars
<1> QED BY <1>1, <1>2, <1>3, <1>4, <1>5, <1>6 DEF WaitNext

(* The producer's steps preserve the rest of the invariant.                *)
LEMMA ProducerKeeps ==
    ASSUME FutexInv,
           \/ \E seq \in 1..MaxSeq : Publish(seq) \/ Drain(seq)
           \/ ProducerStep \/ ProducerDies
    PROVE  (CountInv /\ ValInv /\ WakeInv)'
<1> USE FutexAssumption
    DEF FutexInv, WaitTypeOK, CountInv, ValInv, WakeInv, WakeInvOf, Counted, BeforeBump,
        headerVars, producerVars, consumerVars
<1>1. ASSUME NEW seq \in 1..MaxSeq, Publish(seq) PROVE (CountInv /\ ValInv /\ WakeInv)'
  BY <1>1 DEF Publish
<1>2. ASSUME NEW seq \in 1..MaxSeq, Drain(seq) PROVE (CountInv /\ ValInv /\ WakeInv)'
  BY <1>2 DEF Drain
<1>3. CASE CheckWaiting
  BY <1>3 DEF CheckWaiting
<1>4. CASE BumpFutex
  BY <1>4 DEF BumpFutex
<1>5. CASE WakeAll
  BY <1>5 DEF WakeAll
<1>6. CASE ProducerDies
  BY <1>6 DEF ProducerDies
<1> QED BY <1>1, <1>2, <1>3, <1>4, <1>5, <1>6 DEF ProducerStep

(* So do a consumer's.                                                     *)
LEMMA ConsumerKeeps ==
    ASSUME FutexInv, NEW c \in Consumers,
           ConsumerStep(c) \/ Timeout(c) \/ ConsumerDies(c)
    PROVE  (CountInv /\ ValInv /\ WakeInv)'
<1> USE FutexAssumption
    DEF FutexInv, WaitTypeOK, CountInv, ValInv, WakeInv, WakeInvOf, Counted, BeforeBump,
        headerVars, producerVars, consumerVars, ToPc, Available
<1>1. CASE Receive(c)
  BY <1>1 DEF Receive
<1>2. CASE FastCheck(c)
  BY <1>2 DEF FastCheck
<1>3. CASE LoadFutexWord(c)
  BY <1>3 DEF LoadFutexWord
<1>4. CASE Enter(c)
  BY <1>4 DEF Enter
<1>5. CASE Barrier(c)
  BY <1>5 DEF Barrier, BarrierEffect
<1>6. CASE CheckAgain(c)
  BY <1>6 DEF CheckAgain
<1>7. CASE Sleep(c)
  BY <1>7 DEF Sleep, WordUnchanged
<1>8. CASE Timeout(c)
  BY <1>8 DEF Timeout
<1>9. CASE Leave(c)
  BY <1>9 DEF Leave
<1>10. CASE ConsumerDies(c)
  BY <1>10 DEF ConsumerDies
<1> QED BY <1>1, <1>2, <1>3, <1>4, <1>5, <1>6, <1>7, <1>8, <1>9, <1>10 DEF ConsumerStep

(* The inductive invariant.                                                *)
THEOREM WaitInvariance == WaitSpec => []FutexInv
<1>1. WaitInit => FutexInv
  BY WaitInitInv
<1>2. FutexInv /\ [WaitNext]_waitVars => FutexInv'
  <2> SUFFICES ASSUME FutexInv, [WaitNext]_waitVars PROVE (CountInv /\ ValInv /\ WakeInv)'
    BY WaitTypeStep DEF FutexInv
  <2>1. CASE UNCHANGED waitVars
    BY <2>1 DEF FutexInv, CountInv, ValInv, WakeInv, WakeInvOf, Counted, BeforeBump, waitVars,
                headerVars, producerVars, consumerVars
  <2> QED BY <2>1, ProducerKeeps, ConsumerKeeps DEF WaitNext
<1> QED BY <1>1, <1>2, PTL DEF WaitSpec

(* The header never runs ahead of the producer's stores.                   *)
THEOREM WaitTypeCorrect == WaitSpec => []WaitTypeOK
BY WaitInvariance, PTL DEF FutexInv

(* No lost wake-up: with a registered producer, FutexWait needs no timeout  *)
(* to be woken for a message that was published.                           *)
THEOREM WakeupsArrive == WaitSpec => []NoLostWakeup
<1>1. FutexInv => NoLostWakeup
  BY DEF FutexInv, WakeInv, WakeInvOf, NoLostWakeup, BeforeBump
<1> QED BY <1>1, WaitInvariance, PTL

=============================================================================
