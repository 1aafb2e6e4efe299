----------------------------- MODULE Checkpoint -----------------------------
(***************************************************************************)
(* The offset file of a consumer (checkpoint.rs): one 64-byte slot in      *)
(* shared memory that keeps the last processed sequence number over the    *)
(* restarts of the consumer's process.                                     *)
(*                                                                         *)
(* open_or_create takes no lock.  It looks at the length of the file, grows *)
(* a short one, and writes the whole slot if it was short or validates the *)
(* slot if it was not, so that several processes may be anywhere inside it *)
(* at once, and one that dies leaves the file as it is.  The slot is        *)
(* written with ordinary stores: its words reach another process in any     *)
(* order.                                                                  *)
(***************************************************************************)
EXTENDS Integers

CONSTANTS
    Procs,      \* consumer processes; a process that died starts over
    Files       \* offset files

(* cpFile of a process that opened no file yet is any of them.             *)
ASSUME CheckpointAssumption == Files # {}

VARIABLES
    sized,      \* the file has its full length
    magic,      \* the slot's magic and version words are valid
    offset,     \* offset_seq
    cp,         \* where a process is in open_or_create
    cpFile,     \* the file it is opening
    words,      \* the words of the slot it still has to write
    abandoned,  \* history: a process died before the slot was valid
    reset       \* history: offset_seq = 0 was written over a committed offset

slotVars == <<sized, magic, offset>>
checkpointVars == <<slotVars, cp, cpFile, words, abandoned, reset>>

Words == {"magic", "offset"}

CheckpointInit ==
    /\ sized = [f \in Files |-> FALSE]
    /\ magic = [f \in Files |-> FALSE]
    /\ offset = [f \in Files |-> 0]
    /\ cp = [p \in Procs |-> "closed"]
    /\ cpFile = [p \in Procs |-> CHOOSE f \in Files : TRUE]
    /\ words = [p \in Procs |-> {}]
    /\ abandoned = [f \in Files |-> FALSE]
    /\ reset = [f \in Files |-> FALSE]

-----------------------------------------------------------------------------
(* open_or_create *)

(* open with create, and metadata: is_new is decided here and set_len done  *)
(* in the next step.                                                       *)
OpenFile(p, f) ==
    /\ cp[p] \in {"closed", "invalid"}
    /\ cpFile' = [cpFile EXCEPT ![p] = f]
    /\ cp' = [cp EXCEPT ![p] = IF sized[f] THEN "validate" ELSE "grow"]
    /\ UNCHANGED <<slotVars, words, abandoned, reset>>

(* set_len on a file that was short fills it with zeros; on one that       *)
(* another process has grown meanwhile it changes nothing.  The mutant      *)
(* forgets that the file was new.                                          *)
GrowAsExisting(p) ==
    /\ cp[p] = "grow"
    /\ sized' = [sized EXCEPT ![cpFile[p]] = TRUE]
    /\ cp' = [cp EXCEPT ![p] = "validate"]
    /\ UNCHANGED <<magic, offset, cpFile, words, abandoned, reset>>

Grow(p) ==
    /\ cp[p] = "grow"
    /\ sized' = [sized EXCEPT ![cpFile[p]] = TRUE]
    /\ cp' = [cp EXCEPT ![p] = "write"]
    /\ words' = [words EXCEPT ![p] = Words]
    /\ UNCHANGED <<magic, offset, cpFile, abandoned, reset>>

(* One word of slot_ptr.write.                                             *)
WriteWord(p) ==
    /\ cp[p] = "write"
    /\ \E w \in words[p] :
          /\ words' = [words EXCEPT ![p] = @ \ {w}]
          /\ magic' = IF w = "magic" THEN [magic EXCEPT ![cpFile[p]] = TRUE] ELSE magic
          /\ offset' = IF w = "offset" THEN [offset EXCEPT ![cpFile[p]] = 0] ELSE offset
          /\ reset' = [reset EXCEPT ![cpFile[p]] = @ \/ (w = "offset" /\ offset[cpFile[p]] # 0)]
    /\ cp' = [cp EXCEPT ![p] = IF words'[p] = {} THEN "open" ELSE "write"]
    /\ UNCHANGED <<sized, cpFile, abandoned>>

(* An existing slot: InvalidData without its magic and version.            *)
Validate(p) ==
    /\ cp[p] = "validate"
    /\ cp' = [cp EXCEPT ![p] = IF magic[cpFile[p]] THEN "open" ELSE "invalid"]
    /\ UNCHANGED <<slotVars, cpFile, words, abandoned, reset>>

-----------------------------------------------------------------------------
(* load and save *)

NotCommitted == 0

Load(f) == offset[f]

Save(f, seq) ==
    /\ offset' = [offset EXCEPT ![f] = seq]
    /\ UNCHANGED <<sized, magic>>

(* The process ends, by itself or not: its mappings and its place in        *)
(* open_or_create are gone, the file is not.                               *)
CloseFiles(p) ==
    /\ abandoned' = [f \in Files |->
          abandoned[f] \/ (cp[p] = "write" /\ cpFile[p] = f /\ "magic" \in words[p])]
    /\ cp' = [cp EXCEPT ![p] = "closed"]
    /\ words' = [words EXCEPT ![p] = {}]
    /\ UNCHANGED <<slotVars, cpFile, reset>>

-----------------------------------------------------------------------------

CheckpointTypeOK ==
    /\ sized \in [Files -> BOOLEAN]
    /\ magic \in [Files -> BOOLEAN]
    /\ offset \in [Files -> Nat]
    /\ cp \in [Procs -> {"closed", "grow", "write", "validate", "open", "invalid"}]
    /\ cpFile \in [Procs -> Files]
    /\ words \in [Procs -> SUBSET Words]
    /\ abandoned \in [Files -> BOOLEAN]
    /\ reset \in [Files -> BOOLEAN]

=============================================================================
