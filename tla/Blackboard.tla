---------------------------- MODULE Blackboard ------------------------------
(***************************************************************************)
(* The last-value table of blackboard.rs: one writer, a seqlock per key.   *)
(*                                                                         *)
(* The writer makes the key's seqlock odd, copies the value and makes the  *)
(* seqlock even again.  A reader loads the seqlock, copies the value if it *)
(* is even and accepts the copy if the seqlock is unchanged; otherwise it  *)
(* spins, and after SpinLimit rounds a clock runs that ends the call with  *)
(* WriterStalled.                                                          *)
(*                                                                         *)
(* The n-th value written to a key is the number n in every word.          *)
(***************************************************************************)
EXTENDS Integers

CONSTANTS
    Keys,           \* slots of the table
    Readers,
    Words,          \* machine words of a value
    MaxWrites,      \* bound: writes to one key
    SpinLimit       \* rounds before read looks at the clock (10 000)

(* A table of no keys answers every call with KeyOutOfRange.               *)
ASSUME BlackboardAssumption ==
    /\ Keys # {}
    /\ MaxWrites \in Nat
    /\ SpinLimit \in Nat

VARIABLES
    seqlock, value,     \* BlackboardSlot of every key
    \* the writer
    wpc,        \* where it is in write
    wkey,       \* the key it writes, in "copy"
    wwords,     \* words not copied in yet
    version,    \* history: number of the last write that began, per key
    \* the readers
    rpc,        \* where the reader is in read
    rkey,       \* the key it reads
    s1,         \* read's local s1
    rwords, buf,  \* words not copied out yet, and the copy
    spins,      \* read's spins, capped at SpinLimit
    \* history
    before,     \* writes complete when the call began
    result      \* what the last call returned

slotVars == <<seqlock, value>>
writerVars == <<wpc, wkey, wwords, version>>
readerVars == <<rpc, rkey, s1, rwords, buf, spins, before, result>>
vars == <<slotVars, writerVars, readerVars>>

NoWords == [w \in Words |-> 0]
Odd(s) == s % 2 = 1

(* Writes to k that are complete.                                          *)
Complete(k) == IF wpc # "idle" /\ wkey = k THEN version[k] - 1 ELSE version[k]

AnyKey == CHOOSE k \in Keys : TRUE

Init ==
    /\ seqlock = [k \in Keys |-> 0]
    /\ value = [k \in Keys |-> NoWords]
    /\ wpc = "idle"
    /\ wkey = AnyKey
    /\ wwords = {}
    /\ version = [k \in Keys |-> 0]
    /\ rpc = [r \in Readers |-> "idle"]
    /\ rkey = [r \in Readers |-> AnyKey]
    /\ s1 = [r \in Readers |-> 0]
    /\ rwords = [r \in Readers |-> {}]
    /\ buf = [r \in Readers |-> NoWords]
    /\ spins = [r \in Readers |-> 0]
    /\ before = [r \in Readers |-> 0]
    /\ result = [r \in Readers |-> [kind |-> "none", data |-> NoWords]]

-----------------------------------------------------------------------------
(* Writer *)

(* The seqlock while the key is written.  In the mutant it stays even.     *)
StaysEven(s) == s

WriteMark(s) == IF Odd(s) THEN s + 2 ELSE s + 1

(* write, step 1: the odd marker.                                          *)
BeginWrite(k) ==
    /\ wpc = "idle"
    /\ version[k] < MaxWrites
    /\ seqlock' = [seqlock EXCEPT ![k] = WriteMark(@)]
    /\ wpc' = "copy"
    /\ wkey' = k
    /\ wwords' = Words
    /\ version' = [version EXCEPT ![k] = @ + 1]
    /\ UNCHANGED <<value, readerVars>>

(* write, step 2: one word.                                                *)
CopyWordIn(w) ==
    /\ wpc = "copy"
    /\ w \in wwords
    /\ value' = [value EXCEPT ![wkey][w] = version[wkey]]
    /\ wwords' = wwords \ {w}
    /\ UNCHANGED <<seqlock, wpc, wkey, version, readerVars>>

(* The seqlock when the write is complete.  Mutant: it is forgotten.        *)
MarkForgotten(s) == s

EndMark(s) == s + 1

(* write, step 3: even again.                                              *)
EndWrite ==
    /\ wpc = "copy"
    /\ wwords = {}
    /\ seqlock' = [seqlock EXCEPT ![wkey] = EndMark(@)]
    /\ wpc' = "idle"
    /\ UNCHANGED <<value, wkey, wwords, version, readerVars>>

(* The writer dies in the middle of an update.                             *)
WriterDies ==
    /\ wpc = "copy"
    /\ wpc' = "dead"
    /\ UNCHANGED <<slotVars, wkey, wwords, version, readerVars>>

WriterStep == (\E w \in Words : CopyWordIn(w)) \/ EndWrite

-----------------------------------------------------------------------------
(* Readers *)

BeginRead(r, k) ==
    /\ rpc[r] = "idle"
    /\ rpc' = [rpc EXCEPT ![r] = "load"]
    /\ rkey' = [rkey EXCEPT ![r] = k]
    /\ spins' = [spins EXCEPT ![r] = 0]
    /\ before' = [before EXCEPT ![r] = Complete(k)]
    /\ result' = [result EXCEPT ![r] = [kind |-> "none", data |-> NoWords]]
    /\ UNCHANGED <<slotVars, writerVars, s1, rwords, buf>>

Answer(r, kind, data) ==
    /\ result' = [result EXCEPT ![r] = [kind |-> kind, data |-> data]]
    /\ rpc' = [rpc EXCEPT ![r] = "idle"]
    /\ s1' = [s1 EXCEPT ![r] = 0]
    /\ buf' = [buf EXCEPT ![r] = NoWords]

(* The end of a round: spin again; from SpinLimit rounds on the clock is    *)
(* started and the call may time out.                                      *)
BackOff(r) ==
    /\ IF spins[r] < SpinLimit
       THEN /\ spins' = [spins EXCEPT ![r] = @ + 1]
            /\ rpc' = [rpc EXCEPT ![r] = "load"]
       ELSE /\ rpc' = [rpc EXCEPT ![r] = "clock"]
            /\ UNCHANGED spins
    /\ s1' = [s1 EXCEPT ![r] = 0]
    /\ buf' = [buf EXCEPT ![r] = NoWords]
    /\ UNCHANGED result

(* read: the first load of the seqlock.                                    *)
LoadSeqlock(r) ==
    LET s == seqlock[rkey[r]]
    IN  /\ rpc[r] = "load"
        /\ \/ /\ s = 0
              /\ Answer(r, "unwritten", NoWords)
              /\ UNCHANGED <<rwords, spins>>
           \/ /\ s # 0 /\ ~Odd(s)
              /\ s1' = [s1 EXCEPT ![r] = s]
              /\ rwords' = [rwords EXCEPT ![r] = Words]
              /\ rpc' = [rpc EXCEPT ![r] = "copy"]
              /\ UNCHANGED <<buf, spins, result>>
           \/ /\ Odd(s)
              /\ BackOff(r)
              /\ UNCHANGED rwords
        /\ UNCHANGED <<slotVars, writerVars, rkey, before>>

CopyWordOut(r, w) ==
    /\ rpc[r] = "copy"
    /\ w \in rwords[r]
    /\ buf' = [buf EXCEPT ![r][w] = value[rkey[r]][w]]
    /\ rwords' = [rwords EXCEPT ![r] = @ \ {w}]
    /\ UNCHANGED <<slotVars, writerVars, rpc, rkey, s1, spins, before, result>>

(* read: the second load.                                                  *)
Recheck(r) ==
    /\ rpc[r] = "copy"
    /\ rwords[r] = {}
    /\ IF seqlock[rkey[r]] = s1[r]
       THEN Answer(r, "value", buf[r]) /\ UNCHANGED spins
       ELSE BackOff(r)
    /\ UNCHANGED <<slotVars, writerVars, rkey, rwords, before>>

(* read: the clock; the mutant waits for ever.                             *)
NeverExpires(r) == FALSE

MayExpire(r) == rpc[r] = "clock"

Expire(r) ==
    /\ MayExpire(r)
    /\ Answer(r, "stalled", NoWords)
    /\ UNCHANGED <<slotVars, writerVars, rkey, rwords, spins, before>>

TryAgain(r) ==
    /\ rpc[r] = "clock"
    /\ rpc' = [rpc EXCEPT ![r] = "load"]
    /\ UNCHANGED <<slotVars, writerVars, rkey, s1, rwords, buf, spins, before, result>>

ReaderStep(r) ==
    \/ LoadSeqlock(r) \/ (\E w \in Words : CopyWordOut(r, w)) \/ Recheck(r) \/ TryAgain(r)

-----------------------------------------------------------------------------

Next ==
    \/ \E k \in Keys : BeginWrite(k)
    \/ WriterStep
    \/ WriterDies
    \/ \E r \in Readers :
          \/ \E k \in Keys : BeginRead(r, k)
          \/ ReaderStep(r)
          \/ Expire(r)

Spec == Init /\ [][Next]_vars

(* A read goes on, and its clock reaches the timeout if it goes round for  *)
(* ever.                                                                   *)
FairSpec ==
    /\ Spec
    /\ \A r \in Readers : WF_vars(ReaderStep(r)) /\ SF_vars(Expire(r))

-----------------------------------------------------------------------------
(* Properties *)

Values == [Words -> 0..MaxWrites]
ResultKinds == {"none", "value", "unwritten", "stalled"}

(* The table's words and the program counters of write and read.           *)
TypeOK ==
    /\ seqlock \in [Keys -> 0..(2 * MaxWrites)]
    /\ value \in [Keys -> Values]
    /\ wpc \in {"idle", "copy", "dead"}
    /\ wkey \in Keys
    /\ wwords \in SUBSET Words
    /\ version \in [Keys -> 0..MaxWrites]
    /\ rpc \in [Readers -> {"idle", "load", "copy", "clock"}]
    /\ rkey \in [Readers -> Keys]
    /\ s1 \in [Readers -> 0..(2 * MaxWrites)]
    /\ rwords \in [Readers -> SUBSET Words]
    /\ buf \in [Readers -> Values]
    /\ spins \in [Readers -> 0..SpinLimit]
    /\ before \in [Readers -> 0..MaxWrites]
    /\ result \in [Readers -> [kind : ResultKinds, data : Values]]

(* A read returns one value, not a mix of two, and not one older than the   *)
(* last write that was complete when the read began.                       *)
ReadIsFresh ==
    \A r \in Readers :
        result[r].kind = "value" =>
            \E v \in before[r]..version[rkey[r]] : \A w \in Words : result[r].data[w] = v

(* An answer without a value is explained by the writer.  None: the key     *)
(* was not written when the read began ("None if the slot has never been   *)
(* written").  WriterStalled: a write of the key was under way at some     *)
(* moment of the call.                                                     *)
AnswerExplained ==
    \A r \in Readers :
        /\ result[r].kind = "unwritten" => before[r] = 0
        /\ result[r].kind = "stalled" => version[rkey[r]] > before[r]

(* A read returns, whatever the writer does or leaves undone.               *)
ReadReturns == \A r \in Readers : rpc[r] # "idle" ~> rpc[r] = "idle"

=============================================================================
