------------------------- MODULE BackingFile_proofs -------------------------
(***************************************************************************)
(* Proofs about the ownership of backing files, for every number of        *)
(* producers, mirrors, readers, cleaners, inodes and rounds.               *)
(***************************************************************************)
EXTENDS BackingFile, TLAPS

(* The process has its inode locked.                                       *)
Holding == {"check", "unlink", "size", "initialize", "live", "unlock", "validate"}

LockInv ==
    \A p \in Procs :
        /\ pc[p] \in Holding => file[p] \in Inodes /\ lock[file[p]] = p
        /\ pc[p] \in {"flock", "adopt_flock"} => file[p] \in Inodes

(* The process has found its inode behind the path and not let go since.   *)
Owner(p) ==
    \/ pc[p] \in {"unlink", "size", "initialize"}
    \/ pc[p] = "live" /\ ~adopted[p]

PathInv == ~misfired => \A p \in Procs : Owner(p) => path = file[p]

(* A cleaner at work has a file.                                           *)
CleanInv == \A k \in Cleaners : kpc[k] # "out" => kfile[k] \in Inodes

(* Only a mirror resumes a ring.                                           *)
AdoptInv ==
    \A p \in Procs :
        adopted[p] \/ pc[p] \in {"adopt", "adopt_flock", "validate"} => p \in Mirrors

(* Rounds that are not over yet.                                           *)
TriesInv ==
    \A p \in Procs :
        pc[p] \notin {"out", "refused", "live", "unlock"} => tries[p] < MaxTries

(* A ring is sized and initialised once, by the process that found it      *)
(* empty.                                                                  *)
EmptyInv == \A p \in Procs : pc[p] = "size" => content[file[p]] = "empty"

ReadyInv ==
    \A r \in Readers :
        /\ rpc[r] = "validate" => rfile[r] \in Inodes
        /\ rpc[r] = "attached" => rfile[r] \in Inodes /\ content[rfile[r]] = "ready"

IInv ==
    /\ TypeOK /\ LockInv /\ PathInv /\ AdoptInv /\ TriesInv /\ EmptyInv /\ ReadyInv
    /\ CleanInv

(* The initial state of an empty directory satisfies the invariant.        *)
LEMMA InitInv == Init => IInv
<1> SUFFICES ASSUME Init PROVE IInv
  OBVIOUS
<1>1. misfired \in BOOLEAN
  BY DEF Init
<1>2. TypeOK
  BY <1>1, BackingFileAssumption DEF Init, TypeOK, Pcs
<1>3. LockInv /\ PathInv /\ AdoptInv /\ TriesInv /\ EmptyInv /\ ReadyInv /\ CleanInv
  BY BackingFileAssumption
     DEF Init, LockInv, PathInv, AdoptInv, TriesInv, EmptyInv, ReadyInv, CleanInv, Owner,
         Holding, Procs
<1> QED
  BY <1>2, <1>3 DEF IInv

(* Every step of a process keeps the state well-typed.                     *)
LEMMA TypeStep ==
    ASSUME IInv, NEW p \in Procs, ProcessStep(p), Disturb(p)
    PROVE  TypeOK'
<1> USE BackingFileAssumption DEF IInv, TypeOK, Pcs, ToPc, readerVars, cleanerVars, fileVars
<1>0. disturbed' \in [Procs -> BOOLEAN]
  BY DEF Disturb
<1>1. CASE Start(p)
  BY <1>0, <1>1 DEF Start
<1>2. CASE Open(p)
  BY <1>0, <1>2 DEF Open
<1>3. CASE FlockCreate(p)
  BY <1>0, <1>3 DEF FlockCreate, Flock, Close, Unlocked, LockInv
<1>4. CASE Check(p)
  BY <1>0, <1>4 DEF Check, Retry, LastTry, Close, Unlocked, TriesInv
<1>5. CASE Unlink(p)
  BY <1>0, <1>5 DEF Unlink, Retry, LastTry, Close, Unlocked, TriesInv
<1>6. CASE SetLen(p)
  BY <1>0, <1>6 DEF SetLen
<1>7. CASE PublishMagic(p)
  BY <1>0, <1>7 DEF PublishMagic
<1>8. CASE DropUnlink(p)
  BY <1>0, <1>8 DEF DropUnlink
<1>3a. CASE DropUnlock(p)
  BY <1>0, <1>3a DEF DropUnlock, Close, Unlocked
<1>10. CASE AdoptOpen(p)
  BY <1>0, <1>10 DEF AdoptOpen
<1>11. CASE AdoptFlock(p)
  BY <1>0, <1>11 DEF AdoptFlock, Flock, Close, Unlocked, LockInv
<1>12. CASE AdoptValidate(p)
  <2>1. /\ pc' \in [Procs -> Pcs] /\ file' \in [Procs -> Inodes \cup {None}]
        /\ adopted' \in [Procs -> BOOLEAN]
    BY <1>12 DEF AdoptValidate, Close
  <2>2. lock' \in [Inodes -> Procs \cup Cleaners \cup {None}]
    BY <1>12 DEF AdoptValidate, Close, Unlocked
  <2> QED
    BY <1>0, <1>12, <2>1, <2>2 DEF AdoptValidate
<1>13. CASE Die(p)
  BY <1>0, <1>13 DEF Die, Close, Unlocked
<1> QED
  BY <1>1, <1>2, <1>3, <1>4, <1>5, <1>6, <1>7, <1>8, <1>3a, <1>10, <1>11, <1>12, <1>13
     DEF ProcessStep

(* A process holds the lock of the inode it works on, whatever the others  *)
(* do.                                                                     *)
LEMMA LockStep ==
    ASSUME IInv, NEW p \in Procs, ProcessStep(p)
    PROVE  LockInv'
<1> USE BackingFileAssumption
    DEF IInv, TypeOK, LockInv, Holding, ToPc, readerVars, cleanerVars, fileVars
<1>1. CASE Start(p)
  BY <1>1 DEF Start
<1>2. CASE Open(p)
  BY <1>2 DEF Open
<1>3. CASE FlockCreate(p)
  BY <1>3 DEF FlockCreate, Flock, Close, Unlocked, Procs
<1>4. CASE Check(p)
  BY <1>4 DEF Check, Retry, Close, Unlocked
<1>5. CASE Unlink(p)
  BY <1>5 DEF Unlink, Retry, Close, Unlocked
<1>6. CASE SetLen(p)
  BY <1>6 DEF SetLen
<1>7. CASE PublishMagic(p)
  BY <1>7 DEF PublishMagic
<1>8. CASE DropUnlink(p)
  BY <1>8 DEF DropUnlink
<1>3a. CASE DropUnlock(p)
  BY <1>3a DEF DropUnlock, Close, Unlocked
<1>10. CASE AdoptOpen(p)
  BY <1>10 DEF AdoptOpen
<1>11. CASE AdoptFlock(p)
  BY <1>11 DEF AdoptFlock, Flock, Close, Unlocked, Procs
<1>12. CASE AdoptValidate(p)
  BY <1>12 DEF AdoptValidate, Close, Unlocked
<1>13. CASE Die(p)
  BY <1>13 DEF Die, Close, Unlocked
<1> QED
  BY <1>1, <1>2, <1>3, <1>4, <1>5, <1>6, <1>7, <1>8, <1>3a, <1>10, <1>11, <1>12, <1>13
     DEF ProcessStep

(* Two processes never both own the inode that the path names: each would  *)
(* hold its lock.                                                          *)
LEMMA OneOwner ==
    ASSUME IInv, ~misfired, NEW p \in Procs, NEW q \in Procs, Owner(p), Owner(q)
    PROVE  p = q
BY DEF IInv, LockInv, PathInv, Owner, Holding

(* The path stays with its owner: whoever moves it owns it.                *)
LEMMA PathStep ==
    ASSUME IInv, NEW p \in Procs, ProcessStep(p)
    PROVE  PathInv'
<1> USE BackingFileAssumption DEF IInv, TypeOK, PathInv, Owner, ToPc, readerVars, cleanerVars, fileVars
<1>1. CASE Start(p)
  BY <1>1 DEF Start
<1>2. CASE Open(p)
  BY <1>2 DEF Open, LockInv, Holding
<1>3. CASE FlockCreate(p)
  BY <1>3 DEF FlockCreate, Flock, Close
<1>4. CASE Check(p)
  BY <1>4 DEF Check, SameInode, Retry, Close
<1>5. CASE Unlink(p)
  BY <1>5, OneOwner DEF Unlink, Retry, Close
<1>6. CASE SetLen(p)
  BY <1>6 DEF SetLen
<1>7. CASE PublishMagic(p)
  BY <1>7 DEF PublishMagic
<1>8. CASE DropUnlink(p)
  BY <1>8, OneOwner DEF DropUnlink, AdoptInv
<1>3a. CASE DropUnlock(p)
  BY <1>3a DEF DropUnlock, Close
<1>10. CASE AdoptOpen(p)
  BY <1>10 DEF AdoptOpen
<1>11. CASE AdoptFlock(p)
  BY <1>11 DEF AdoptFlock, Flock, Close
<1>12. CASE AdoptValidate(p)
  BY <1>12 DEF AdoptValidate, Close
<1>13. CASE Die(p)
  BY <1>13 DEF Die, Close
<1> QED
  BY <1>1, <1>2, <1>3, <1>4, <1>5, <1>6, <1>7, <1>8, <1>3a, <1>10, <1>11, <1>12, <1>13
     DEF ProcessStep

(* A call that goes on has a round left, and only a mirror adopts.         *)
LEMMA RoundStep ==
    ASSUME IInv, NEW p \in Procs, ProcessStep(p)
    PROVE  AdoptInv' /\ TriesInv'
<1> USE BackingFileAssumption
    DEF IInv, TypeOK, AdoptInv, TriesInv, ToPc, readerVars, cleanerVars, fileVars
<1>1. CASE Start(p)
  BY <1>1 DEF Start
<1>2. CASE Open(p)
  BY <1>2 DEF Open
<1>3. CASE FlockCreate(p)
  BY <1>3 DEF FlockCreate, Flock, Close
<1>4. CASE Check(p)
  BY <1>4 DEF Check, Retry, LastTry, Close
<1>5. CASE Unlink(p)
  BY <1>5 DEF Unlink, Retry, LastTry, Close
<1>6. CASE SetLen(p)
  BY <1>6 DEF SetLen
<1>7. CASE PublishMagic(p)
  BY <1>7 DEF PublishMagic
<1>8. CASE DropUnlink(p)
  BY <1>8 DEF DropUnlink
<1>3a. CASE DropUnlock(p)
  BY <1>3a DEF DropUnlock, Close
<1>10. CASE AdoptOpen(p)
  BY <1>10 DEF AdoptOpen
<1>11. CASE AdoptFlock(p)
  BY <1>11 DEF AdoptFlock, Flock, Close
<1>12. CASE AdoptValidate(p)
  BY <1>12 DEF AdoptValidate, Close
<1>13. CASE Die(p)
  BY <1>13 DEF Die, Close
<1> QED
  BY <1>1, <1>2, <1>3, <1>4, <1>5, <1>6, <1>7, <1>8, <1>3a, <1>10, <1>11, <1>12, <1>13
     DEF ProcessStep

(* An inode that is ready stays so; one that is being sized is empty and   *)
(* locked.                                                                 *)
LEMMA ContentStep ==
    ASSUME IInv, NEW p \in Procs, ProcessStep(p)
    PROVE  EmptyInv' /\ ReadyInv'
<1> USE BackingFileAssumption DEF IInv, TypeOK, EmptyInv, ReadyInv, ToPc, readerVars, cleanerVars, fileVars
<1>1. CASE Start(p)
  BY <1>1 DEF Start
<1>2. CASE Open(p)
  BY <1>2 DEF Open, LockInv, Holding
<1>3. CASE FlockCreate(p)
  BY <1>3 DEF FlockCreate, Flock, Close
<1>4. CASE Check(p)
  BY <1>4 DEF Check, Stale, Retry, Close
<1>5. CASE Unlink(p)
  BY <1>5 DEF Unlink, Retry, Close
<1>6. CASE SetLen(p)
  <2>1. \A q \in Procs : pc[q] = "size" => file[q] # file[p] \/ q = p
    BY <1>6 DEF SetLen, LockInv, Holding
  <2> QED
    BY <1>6, <2>1 DEF SetLen, LockInv, Holding
<1>7. CASE PublishMagic(p)
  <2>1. \A q \in Procs : pc[q] = "size" => file[q] # file[p]
    BY <1>7 DEF PublishMagic, LockInv, Holding
  <2> QED
    BY <1>7, <2>1 DEF PublishMagic, LockInv, Holding
<1>8. CASE DropUnlink(p)
  BY <1>8 DEF DropUnlink
<1>3a. CASE DropUnlock(p)
  BY <1>3a DEF DropUnlock, Close
<1>10. CASE AdoptOpen(p)
  BY <1>10 DEF AdoptOpen
<1>11. CASE AdoptFlock(p)
  BY <1>11 DEF AdoptFlock, Flock, Close
<1>12. CASE AdoptValidate(p)
  BY <1>12 DEF AdoptValidate, Close
<1>13. CASE Die(p)
  BY <1>13 DEF Die, Close
<1> QED
  BY <1>1, <1>2, <1>3, <1>4, <1>5, <1>6, <1>7, <1>8, <1>3a, <1>10, <1>11, <1>12, <1>13
     DEF ProcessStep

(* A cleaner holds locks of its own, and what it removes belongs to nobody  *)
(* unless it misfires.                                                     *)
LEMMA CleanerInv ==
    ASSUME IInv, NEW k \in Cleaners, CleanerStep(k)
    PROVE  IInv'
<1> USE BackingFileAssumption
<1>1. /\ UNCHANGED <<content, pc, file, tries, adopted, rpc, rfile>>
      /\ disturbed' \in [Procs -> BOOLEAN]
  BY DEF CleanerStep, CleanOpen, CleanFlock, CleanScan, CleanRemove, CleanerDies, fileVars,
         processVars, readerVars
<1>2. AdoptInv' /\ TriesInv' /\ EmptyInv' /\ ReadyInv'
  BY <1>1 DEF IInv, AdoptInv, TriesInv, EmptyInv, ReadyInv
<1>3. /\ kpc' \in [Cleaners -> {"out", "flock", "scan", "remove"}]
      /\ kfile' \in [Cleaners -> Inodes \cup {None}]
      /\ path' \in {None, path}
      /\ CleanInv'
  BY DEF IInv, TypeOK, CleanInv, CleanerStep, CleanOpen, CleanFlock, CleanScan, CleanRemove,
         CleanerDies, CleanDone, fileVars
<1>3a. misfired' \in BOOLEAN
  BY Zenon DEF IInv, TypeOK, CleanerStep, CleanOpen, CleanFlock, CleanScan, CleanRemove,
         CleanerDies
<1>4. lock' \in [Inodes -> Procs \cup Cleaners \cup {None}]
  BY DEF IInv, TypeOK, CleanInv, CleanerStep, CleanOpen, CleanFlock, CleanScan, CleanRemove,
         CleanerDies, CleanDone, Unlocked, fileVars
<1>5. \A j \in Inodes : lock[j] \in Procs => lock'[j] = lock[j]
  BY DEF IInv, TypeOK, CleanInv, CleanerStep, CleanOpen, CleanFlock, CleanScan, CleanRemove,
         CleanerDies, CleanDone, Unlocked, fileVars, Procs
<1>6. LockInv'
  BY <1>1, <1>5 DEF IInv, TypeOK, LockInv, Holding
<1>7. PathInv'
  <2>1. CASE path' = path /\ misfired' = misfired
    BY <1>1, <2>1 DEF IInv, PathInv, Owner
  <2>2. CASE CleanRemove(k)
    <3>1. misfired' \/ (~misfired /\ (path = None \/ lock[path] = None))
      BY <2>2, Zenon DEF CleanRemove
    <3>2. ASSUME ~misfired, path = None \/ lock[path] = None, NEW q \in Procs
          PROVE  ~Owner(q)
      BY <3>2, BackingFileAssumption
         DEF IInv, TypeOK, LockInv, PathInv, Owner, Holding, Procs
    <3> QED
      BY <1>1, <3>1, <3>2 DEF PathInv, Owner
  <2> QED
    BY <2>1, <2>2 DEF CleanerStep, CleanOpen, CleanFlock, CleanScan, CleanerDies, fileVars
<1>8. TypeOK'
  BY <1>1, <1>3, <1>4, <1>3a DEF IInv, TypeOK
<1> QED
  BY <1>2, <1>3, <1>6, <1>7, <1>8 DEF IInv

(* No other process changes what a cleaner knows.                          *)
LEMMA CleanStep ==
    ASSUME IInv, NEW p \in Procs, ProcessStep(p)
    PROVE  CleanInv' /\ UNCHANGED cleanerVars
<1>1. UNCHANGED cleanerVars
  BY DEF ProcessStep, Start, Open, FlockCreate, Check, Unlink, SetLen, PublishMagic, DropUnlink,
         DropUnlock, AdoptOpen, AdoptFlock, AdoptValidate, Die
<1> QED
  BY <1>1 DEF IInv, CleanInv, cleanerVars

(* The readers change nothing but their own state.                         *)
LEMMA ReaderInv ==
    ASSUME IInv, NEW r \in Readers, ReaderOpen(r) \/ ReaderValidate(r) \/ Detach(r)
    PROVE  IInv'
<1>1. UNCHANGED <<path, content, lock, pc, file, tries, adopted, disturbed, kpc, kfile, misfired>>
  BY DEF ReaderOpen, ReaderValidate, Detach, fileVars, processVars, cleanerVars
<1>2. LockInv' /\ PathInv' /\ AdoptInv' /\ TriesInv' /\ EmptyInv' /\ CleanInv'
  BY <1>1 DEF IInv, LockInv, PathInv, Owner, AdoptInv, TriesInv, EmptyInv, CleanInv, Holding
<1>3. TypeOK' /\ ReadyInv'
  BY <1>1 DEF IInv, TypeOK, ReadyInv, ReaderOpen, ReaderValidate, Detach
<1> QED
  BY <1>2, <1>3 DEF IInv

(* IInv is inductive.                                                      *)
THEOREM Invariance == Spec => []IInv
<1>1. IInv /\ [Next]_vars => IInv'
  <2> SUFFICES ASSUME IInv, [Next]_vars PROVE IInv'
    OBVIOUS
  <2>1. ASSUME NEW p \in Procs, ProcessStep(p), Disturb(p) PROVE IInv'
    BY <2>1, TypeStep, LockStep, PathStep, RoundStep, ContentStep, CleanStep DEF IInv
  <2>2. ASSUME NEW r \in Readers, ReaderOpen(r) \/ ReaderValidate(r) \/ Detach(r)
        PROVE  IInv'
    BY <2>2, ReaderInv
  <2>3. ASSUME NEW k \in Cleaners, CleanerStep(k) PROVE IInv'
    BY <2>3, CleanerInv
  <2>4. CASE UNCHANGED vars
    BY <2>4 DEF vars, fileVars, processVars, readerVars, cleanerVars, CleanInv, IInv, TypeOK,
                LockInv, PathInv, Owner, AdoptInv, TriesInv, EmptyInv, ReadyInv, Holding
  <2> QED
    BY <2>1, <2>2, <2>3, <2>4 DEF Next
<1> QED
  BY <1>1, InitInv, PTL DEF Spec

(* The path names a file that exists, and create_backing_file ends within  *)
(* its rounds.                                                             *)
THEOREM TypeCorrect == Spec => []TypeOK
BY Invariance, PTL DEF IInv

(* For any number of competing producers and mirrors, dying anywhere: a    *)
(* ring that was created and is still written is the one the path names,    *)
(* as long as no cleaner removes a ring that is not the free one it saw.   *)
THEOREM Reachability == Spec => []CreatedRingIsReachable
<1>1. IInv => CreatedRingIsReachable
  BY DEF IInv, PathInv, Owner, CreatedRingIsReachable
<1> QED
  BY <1>1, Invariance, PTL

(* No producer truncates or initialises a ring that a reader has mapped.   *)
THEOREM ViewIntact == Spec => []AttachedViewIntact
<1>1. IInv => AttachedViewIntact
  BY DEF IInv, ReadyInv, AttachedViewIntact
<1> QED
  BY <1>1, Invariance, PTL

-----------------------------------------------------------------------------
(* Why a producer is refused *)

(* Whoever holds a lock is at work: dead and refused processes, and         *)
(* cleaners that are done, hold none.                                      *)
HolderInv ==
    \A i \in Inodes :
        /\ lock[i] \in Procs => pc[lock[i]] \in Holding
        /\ lock[i] \in Cleaners => kpc[lock[i]] = "scan"

(* A call during which nobody else does anything finds its inode behind     *)
(* the path, and has removed a stale ring at most once: after that it       *)
(* creates an inode of its own.                                            *)
QuietInv ==
    \A p \in Procs :
        ~disturbed[p] =>
            /\ pc[p] \in {"flock", "check", "unlink"} => path = file[p]
            /\ pc[p] \in {"adopt", "adopt_flock", "validate"} => tries[p] = 0
            /\ pc[p] \in {"open", "flock", "check", "unlink"} =>
                  \/ tries[p] = 0
                  \/ /\ tries[p] = 1 /\ pc[p] # "unlink"
                     /\ pc[p] = "open" => path = None
                     /\ pc[p] \in {"flock", "check"} => content[file[p]] = "empty"

(* The steps of a process keep the locks with processes at work.           *)
LEMMA HolderStep ==
    ASSUME IInv, HolderInv, NEW p \in Procs, ProcessStep(p)
    PROVE  HolderInv'
<1>1. UNCHANGED cleanerVars
  BY CleanStep
<1>2. kpc' = kpc
  BY <1>1 DEF cleanerVars
<1>3. /\ \A q \in Procs : q # p => pc'[q] = pc[q]
      /\ \A i \in Inodes : lock'[i] = lock[i] \/ lock'[i] = None \/ (lock'[i] = p /\ pc'[p] \in Holding)
      /\ pc[p] \in Holding => pc'[p] \in Holding \/ \A i \in Inodes : lock'[i] # p
  <2> USE BackingFileAssumption DEF IInv, TypeOK, Pcs, ToPc, Holding, fileVars
  <2>1. CASE Start(p) \/ Open(p) \/ SetLen(p) \/ PublishMagic(p) \/ DropUnlink(p) \/ AdoptOpen(p)
    BY <2>1 DEF Start, Open, SetLen, PublishMagic, DropUnlink, AdoptOpen
  <2>2. CASE FlockCreate(p) \/ AdoptFlock(p)
    BY <2>2 DEF FlockCreate, AdoptFlock, Flock, Close, Unlocked, LockInv
  <2>3. CASE Check(p) \/ Unlink(p)
    BY <2>3 DEF Check, Unlink, Retry, Close, Unlocked, Procs
  <2>4. CASE DropUnlock(p) \/ AdoptValidate(p) \/ Die(p)
    BY <2>4 DEF DropUnlock, AdoptValidate, Die, Close, Unlocked, Procs
  <2> QED
    BY <2>1, <2>2, <2>3, <2>4 DEF ProcessStep
<1>4. p \notin Cleaners /\ None \notin Procs /\ None \notin Cleaners
  BY BackingFileAssumption DEF Procs
<1> QED
  BY <1>2, <1>3, <1>4 DEF HolderInv

(* The steps of a process keep its own call quiet, and disturb the others. *)
LEMMA QuietStep ==
    ASSUME IInv, QuietInv, NEW p \in Procs, ProcessStep(p), Disturb(p)
    PROVE  QuietInv'
<1>1. \A q \in Procs : q # p => disturbed'[q]
  BY DEF Disturb
<1>2. ~disturbed'[p] => ~disturbed[p] \/ pc[p] \in {"out", "refused"}
  BY DEF Disturb
<1>3. ASSUME ~disturbed'[p]
      PROVE  /\ pc'[p] \in {"flock", "check", "unlink"} => path' = file'[p]
             /\ pc'[p] \in {"adopt", "adopt_flock", "validate"} => tries'[p] = 0
             /\ pc'[p] \in {"open", "flock", "check", "unlink"} =>
                   \/ tries'[p] = 0
                   \/ /\ tries'[p] = 1 /\ pc'[p] # "unlink"
                      /\ pc'[p] = "open" => path' = None
                      /\ pc'[p] \in {"flock", "check"} => content'[file'[p]] = "empty"
  <2> USE BackingFileAssumption, <1>2, <1>3
      DEF IInv, TypeOK, QuietInv, ToPc, fileVars
  <2>1. CASE Start(p)
    BY <2>1 DEF Start
  <2>2. CASE Open(p)
    BY <2>2 DEF Open
  <2>3. CASE FlockCreate(p)
    BY <2>3 DEF FlockCreate, Flock, Close
  <2>4. CASE Check(p)
    BY <2>4 DEF Check, SameInode, Stale, Retry, Close
  <2>5. CASE Unlink(p)
    BY <2>5 DEF Unlink, Retry, Close
  <2>6. CASE SetLen(p) \/ PublishMagic(p) \/ DropUnlink(p) \/ DropUnlock(p) \/ Die(p)
    BY <2>6 DEF SetLen, PublishMagic, DropUnlink, DropUnlock, Die
  <2>7. CASE AdoptOpen(p)
    BY <2>7 DEF AdoptOpen
  <2>8. CASE AdoptFlock(p)
    BY <2>8 DEF AdoptFlock, Flock, Close
  <2>9. CASE AdoptValidate(p)
    BY <2>9 DEF AdoptValidate, Close
  <2> QED
    BY <2>1, <2>2, <2>3, <2>4, <2>5, <2>6, <2>7, <2>8, <2>9 DEF ProcessStep
<1> QED
  BY <1>1, <1>3 DEF QuietInv

(* A cleaner holds a lock only while it scans, and disturbs every call.    *)
LEMMA CleanerHolderStep ==
    ASSUME IInv, HolderInv, NEW k \in Cleaners, CleanerStep(k)
    PROVE  HolderInv' /\ QuietInv'
<1>1. pc' = pc /\ \A q \in Procs : disturbed'[q]
  BY DEF CleanerStep, processVars
<1>2. /\ \A c \in Cleaners : c # k => kpc'[c] = kpc[c]
      /\ \A i \in Inodes : lock'[i] = lock[i] \/ lock'[i] = None \/ (lock'[i] = k /\ kpc'[k] = "scan")
      /\ kpc[k] = "scan" => \A i \in Inodes : lock'[i] # k
  BY BackingFileAssumption
     DEF IInv, TypeOK, CleanInv, CleanerStep, CleanOpen, CleanFlock, CleanScan, CleanRemove,
         CleanerDies, CleanDone, Unlocked, fileVars
<1>3. k \notin Procs /\ None \notin Procs /\ None \notin Cleaners
  BY BackingFileAssumption DEF Procs
<1>4. HolderInv'
  BY <1>1, <1>2, <1>3 DEF HolderInv
<1> QED
  BY <1>1, <1>4 DEF QuietInv

(* Locks are held by processes at work, and quiet calls make progress.     *)
THEOREM RivalInvariance == Spec => [](HolderInv /\ QuietInv)
<1>1. Init => HolderInv /\ QuietInv
  BY BackingFileAssumption DEF Init, HolderInv, QuietInv, Procs
<1>2. IInv /\ HolderInv /\ QuietInv /\ [Next]_vars => HolderInv' /\ QuietInv'
  <2> SUFFICES ASSUME IInv, HolderInv, QuietInv, [Next]_vars PROVE HolderInv' /\ QuietInv'
    OBVIOUS
  <2>1. ASSUME NEW p \in Procs, ProcessStep(p), Disturb(p) PROVE HolderInv' /\ QuietInv'
    BY <2>1, HolderStep, QuietStep
  <2>2. ASSUME NEW k \in Cleaners, CleanerStep(k) PROVE HolderInv' /\ QuietInv'
    BY <2>2, CleanerHolderStep
  <2>3. CASE UNCHANGED <<path, content, lock, pc, file, tries, disturbed, kpc>>
    BY <2>3 DEF HolderInv, QuietInv
  <2>4. ASSUME NEW r \in Readers, ReaderOpen(r) \/ ReaderValidate(r) \/ Detach(r)
        PROVE  HolderInv' /\ QuietInv'
    BY <2>3, <2>4 DEF ReaderOpen, ReaderValidate, Detach, fileVars, processVars, cleanerVars
  <2>5. CASE UNCHANGED vars
    BY <2>3, <2>5 DEF vars, fileVars, processVars, cleanerVars
  <2> QED
    BY <2>1, <2>2, <2>4, <2>5 DEF Next
<1> QED
  BY <1>1, <1>2, Invariance, PTL DEF Spec

(* ProducerAlreadyExists tells of a process that is there, or was active   *)
(* during the call: neither the file nor the lock of a dead producer       *)
(* refuses a new one.                                                      *)
THEOREM RefusalsHaveRivals == Spec => RefusedMeansRival
<1> DEFINE Rival(p) == \/ disturbed[p]
                       \/ \E q \in Procs \ {p} : pc[q] \notin {"out", "refused"}
                       \/ \E k \in Cleaners : kpc[k] # "out"
           Step == \A p \in Procs : pc[p] # "refused" /\ pc'[p] = "refused" => Rival(p)
<1>1. IInv /\ HolderInv /\ QuietInv /\ [Next]_vars => [Step]_vars
  <2> SUFFICES ASSUME IInv, HolderInv, QuietInv, Next, NEW p \in Procs,
                      pc[p] # "refused", pc'[p] = "refused"
               PROVE  Rival(p)
    OBVIOUS
  <2>1. ProcessStep(p)
    <3>1. ASSUME NEW q \in Procs, ProcessStep(q), q # p PROVE FALSE
      BY <3>1 DEF IInv, TypeOK, ProcessStep, Start, Open, FlockCreate, Flock, Check, Unlink, Retry,
                  SetLen, PublishMagic, DropUnlink, DropUnlock, AdoptOpen, AdoptFlock,
                  AdoptValidate, Die, ToPc
    <3>2. pc' # pc
      OBVIOUS
    <3> QED
      BY <3>1, <3>2 DEF Next, CleanerStep, ReaderOpen, ReaderValidate, Detach, processVars
  <2>2. CASE FlockCreate(p) \/ AdoptFlock(p)
    <3>1. /\ pc[p] \in {"flock", "adopt_flock"} /\ file[p] \in Inodes /\ lock[file[p]] # None
      BY <2>2 DEF IInv, TypeOK, LockInv, FlockCreate, AdoptFlock, Flock, ToPc
    <3>2. CASE lock[file[p]] \in Procs
      BY <3>1, <3>2 DEF HolderInv, Holding
    <3>3. CASE lock[file[p]] \in Cleaners
      BY <3>1, <3>3 DEF HolderInv
    <3> QED
      BY <3>1, <3>2, <3>3 DEF IInv, TypeOK
  <2>3. CASE Check(p)
    <3>1. path # file[p] /\ pc[p] = "check"
      BY <2>3 DEF IInv, TypeOK, Check, SameInode, ToPc
    <3> QED
      BY <3>1 DEF QuietInv
  <2>4. CASE Unlink(p)
    <3>1. tries[p] + 1 = MaxTries /\ pc[p] = "unlink" /\ tries[p] \in 0..MaxTries
      BY <2>4 DEF IInv, TypeOK, Unlink, Retry, LastTry, ToPc
    <3>2. tries[p] # 0
      BY <3>1, BackingFileAssumption
    <3> QED
      BY <3>1, <3>2 DEF QuietInv
  <2> QED
    BY <2>1, <2>2, <2>3, <2>4
       DEF IInv, TypeOK, ProcessStep, Start, Open, SetLen, PublishMagic, DropUnlink, DropUnlock,
           AdoptOpen, AdoptValidate, Die, ToPc
<1> QED
  BY <1>1, Invariance, RivalInvariance, PTL DEF Spec, RefusedMeansRival

=============================================================================
