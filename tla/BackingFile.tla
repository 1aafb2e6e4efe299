---------------------------- MODULE BackingFile -----------------------------
(***************************************************************************)
(* Who owns the file behind a ring: create_backing_file of shm.rs, the     *)
(* initialisation that its callers go on with, the drop of a producer, the *)
(* adoption of a mirror ring (replication.rs), the attach of a reader and   *)
(* `ringfire clean` (bin/ringfire.rs).                                     *)
(*                                                                         *)
(* A ring is an inode that the path may or may not name.  A producer locks *)
(* the inode (flock) and publishes the magic number last; a lock goes away *)
(* with its process.  A producer that finds an old ring behind the path    *)
(* unlinks it and starts over with a fresh inode, so that readers of the   *)
(* old one are left alone.                                                 *)
(***************************************************************************)
EXTENDS Integers

CONSTANTS
    Producers,      \* processes that create rings with exclusive_lock
    Mirrors,        \* processes that resume a mirror ring, or create one
    Readers,
    Cleaners,       \* processes that run `ringfire clean`
    Registered,     \* the readers that a ring's registry lists
    Inodes,         \* bound: the inodes that are ever created
    None,           \* no inode, no process
    MaxTries        \* rounds of create_backing_file (8)

ASSUME BackingFileAssumption ==
    /\ None \notin Inodes \cup Producers \cup Mirrors \cup Cleaners
    /\ Producers \cap Mirrors = {}
    /\ Cleaners \cap (Producers \cup Mirrors) = {}
    /\ Registered \subseteq Readers
    /\ MaxTries \in Nat /\ MaxTries > 1

VARIABLES
    path,       \* the inode that the path names
    content,    \* of every inode: "unused", "empty", "sized" or "ready"
    lock,       \* the process that holds the inode's flock
    pc, file,   \* where a process is, and the inode it has open
    tries,      \* rounds of create_backing_file that are over
    adopted,    \* the process took its ring over instead of creating it
    disturbed,  \* history: another process took a step during the call
    rpc, rfile, \* the readers
    kpc, kfile, \* the cleaners
    misfired    \* history: a cleaner removed another ring than the free one it saw

fileVars == <<path, content, lock>>
processVars == <<pc, file, tries, adopted>>
readerVars == <<rpc, rfile>>
cleanerVars == <<kpc, kfile, misfired>>
vars == <<fileVars, processVars, disturbed, readerVars, cleanerVars>>

Procs == Producers \cup Mirrors

Init ==
    /\ path = None
    /\ content = [i \in Inodes |-> "unused"]
    /\ lock = [i \in Inodes |-> None]
    /\ pc = [p \in Procs |-> "out"]
    /\ file = [p \in Procs |-> None]
    /\ tries = [p \in Procs |-> 0]
    /\ adopted = [p \in Procs |-> FALSE]
    /\ disturbed = [p \in Procs |-> FALSE]
    /\ rpc = [r \in Readers |-> "out"]
    /\ rfile = [r \in Readers |-> None]
    /\ kpc = [k \in Cleaners |-> "out"]
    /\ kfile = [k \in Cleaners |-> None]
    /\ misfired = FALSE

-----------------------------------------------------------------------------
(* Producers *)

ToPc(p, at) == pc' = [pc EXCEPT ![p] = at]

Unlocked(p) == [i \in Inodes |-> IF lock[i] = p THEN None ELSE lock[i]]

(* The process closes its file, which releases the lock.                   *)
Close(p) ==
    /\ file' = [file EXCEPT ![p] = None]
    /\ lock' = Unlocked(p)

(* A call begins: MirrorRing::adopt for a mirror that resumes, else         *)
(* create_backing_file.                                                    *)
Start(p) ==
    /\ pc[p] \in {"out", "refused"}
    /\ \/ ToPc(p, "open")
       \/ p \in Mirrors /\ ToPc(p, "adopt")
    /\ tries' = [tries EXCEPT ![p] = 0]
    /\ adopted' = [adopted EXCEPT ![p] = FALSE]
    /\ UNCHANGED <<fileVars, file, readerVars, cleanerVars>>

(* open with create: what the path names, or a new inode.                  *)
Open(p) ==
    /\ pc[p] = "open"
    /\ \E i \in Inodes :
          /\ IF path = None THEN content[i] = "unused" ELSE i = path
          /\ path' = i
          /\ content' = [content EXCEPT ![i] = IF @ = "unused" THEN "empty" ELSE @]
          /\ file' = [file EXCEPT ![p] = i]
    /\ ToPc(p, "flock")
    /\ UNCHANGED <<lock, tries, adopted, readerVars, cleanerVars>>

(* flock without waiting, and the ProducerAlreadyExists of a failure.      *)
Flock(p, next) ==
    IF lock[file[p]] = None
    THEN /\ lock' = [lock EXCEPT ![file[p]] = p]
         /\ ToPc(p, next)
         /\ UNCHANGED file
    ELSE /\ ToPc(p, "refused")
         /\ Close(p)

FlockCreate(p) ==
    /\ pc[p] = "flock"
    /\ Flock(p, "check")
    /\ UNCHANGED <<path, content, tries, adopted, readerVars, cleanerVars>>

(* create_backing_file gives up after MaxTries rounds.                     *)
LastTry(p) == tries[p] + 1 = MaxTries

(* The end of a round that did not get the ring: the file is closed.       *)
Retry(p) ==
    /\ Close(p)
    /\ tries' = [tries EXCEPT ![p] = @ + 1]
    /\ ToPc(p, IF LastTry(p) THEN "refused" ELSE "open")

(* The locked inode is still the one the path names.  The mutant does not   *)
(* look.                                                                   *)
AnyInode(p) == TRUE

SameInode(p) == path = file[p]

(* A ring that somebody left behind.  The mutant would reuse its inode.    *)
NeverStale(p) == FALSE

Stale(p) == content[file[p]] # "empty"

Check(p) ==
    /\ pc[p] = "check"
    /\ IF SameInode(p)
       THEN /\ ToPc(p, IF Stale(p) THEN "unlink" ELSE "size")
            /\ UNCHANGED <<file, lock, tries>>
       ELSE Retry(p)
    /\ UNCHANGED <<path, content, adopted, readerVars, cleanerVars>>

(* remove_file on a stale ring; it fails, and the call with it, when a      *)
(* cleaner was faster.  The mutant leaves the path as it is.               *)
UnlinkNothing(p) ==
    /\ pc[p] = "unlink"
    /\ Retry(p)
    /\ UNCHANGED <<path, content, adopted, readerVars, cleanerVars>>

Unlink(p) ==
    /\ pc[p] = "unlink"
    /\ path' = None
    /\ IF path = None
       THEN Close(p) /\ ToPc(p, "out") /\ UNCHANGED tries
       ELSE Retry(p)
    /\ UNCHANGED <<content, adopted, readerVars, cleanerVars>>

(* set_len; then the caller maps the file and initialises everything but   *)
(* the magic number.                                                       *)
SetLen(p) ==
    /\ pc[p] = "size"
    /\ content' = [content EXCEPT ![file[p]] = "sized"]
    /\ ToPc(p, "initialize")
    /\ UNCHANGED <<path, lock, file, tries, adopted, readerVars, cleanerVars>>

(* RingHeader::publish: the magic number.                                  *)
PublishMagic(p) ==
    /\ pc[p] = "initialize"
    /\ content' = [content EXCEPT ![file[p]] = "ready"]
    /\ ToPc(p, "live")
    /\ UNCHANGED <<path, lock, file, tries, adopted, readerVars, cleanerVars>>

(* Drop for a producer: UnlinkOnDrop removes whatever the path names while *)
(* the lock is still held.  Persistent rings and mirrors leave the file.   *)
DropUnlink(p) ==
    /\ pc[p] = "live" /\ p \in Producers
    /\ path' = None
    /\ ToPc(p, "unlock")
    /\ UNCHANGED <<content, lock, file, tries, adopted, readerVars, cleanerVars>>

DropUnlock(p) ==
    /\ pc[p] \in {"live", "unlock"}
    /\ Close(p)
    /\ ToPc(p, "out")
    /\ UNCHANGED <<path, content, tries, adopted, readerVars, cleanerVars>>

(* MirrorRing::adopt: open what is there.  With nothing there the mirror    *)
(* goes on to create a ring.                                               *)
AdoptOpen(p) ==
    /\ pc[p] = "adopt"
    /\ IF path = None
       THEN ToPc(p, "open") /\ UNCHANGED file
       ELSE /\ file' = [file EXCEPT ![p] = path]
            /\ ToPc(p, "adopt_flock")
    /\ UNCHANGED <<fileVars, tries, adopted, readerVars, cleanerVars>>

AdoptFlock(p) ==
    /\ pc[p] = "adopt_flock"
    /\ Flock(p, "validate")
    /\ UNCHANGED <<path, content, tries, adopted, readerVars, cleanerVars>>

(* adopt's validation and connect's decision: a ring of the source's        *)
(* geometry is resumed, anything else dropped for a new one.               *)
AdoptValidate(p) ==
    /\ pc[p] = "validate"
    /\ \/ /\ content[file[p]] = "ready"
          /\ adopted' = [adopted EXCEPT ![p] = TRUE]
          /\ ToPc(p, "live")
          /\ UNCHANGED <<file, lock>>
       \/ /\ Close(p)
          /\ ToPc(p, "open")
          /\ UNCHANGED adopted
    /\ UNCHANGED <<path, content, tries, readerVars, cleanerVars>>

(* The process dies; the kernel closes its file.                           *)
Die(p) ==
    /\ pc[p] \notin {"out", "refused"}
    /\ Close(p)
    /\ ToPc(p, "out")
    /\ UNCHANGED <<path, content, tries, adopted, readerVars, cleanerVars>>

ProcessStep(p) ==
    \/ Start(p) \/ Open(p) \/ FlockCreate(p) \/ Check(p) \/ Unlink(p) \/ SetLen(p)
    \/ PublishMagic(p) \/ DropUnlink(p) \/ DropUnlock(p)
    \/ AdoptOpen(p) \/ AdoptFlock(p) \/ AdoptValidate(p)
    \/ Die(p)

(* The step of p disturbs the calls of the others.                         *)
Disturb(p) ==
    disturbed' = [q \in Procs |-> IF q # p THEN TRUE
                                  ELSE disturbed[p] /\ pc[p] \notin {"out", "refused"}]

-----------------------------------------------------------------------------
(* Readers: attach_with_options up to validate_ring. *)

ReaderOpen(r) ==
    /\ rpc[r] = "out"
    /\ path # None
    /\ rfile' = [rfile EXCEPT ![r] = path]
    /\ rpc' = [rpc EXCEPT ![r] = "validate"]
    /\ UNCHANGED <<fileVars, processVars, disturbed, cleanerVars>>

(* An empty file cannot be mapped and an unpublished ring has no magic.    *)
ReaderValidate(r) ==
    /\ rpc[r] = "validate"
    /\ IF content[rfile[r]] = "ready"
       THEN rpc' = [rpc EXCEPT ![r] = "attached"] /\ UNCHANGED rfile
       ELSE /\ rpc' = [rpc EXCEPT ![r] = "out"]
            /\ rfile' = [rfile EXCEPT ![r] = None]
    /\ UNCHANGED <<fileVars, processVars, disturbed, cleanerVars>>

Detach(r) ==
    /\ rpc[r] = "attached"
    /\ rpc' = [rpc EXCEPT ![r] = "out"]
    /\ rfile' = [rfile EXCEPT ![r] = None]
    /\ UNCHANGED <<fileVars, processVars, disturbed, cleanerVars>>

-----------------------------------------------------------------------------
(* cmd_clean, for one file of the directory. *)

(* open, and the magic number: anything but a published ring is left alone. *)
CleanOpen(k) ==
    /\ kpc[k] = "out"
    /\ path # None /\ content[path] = "ready"
    /\ kfile' = [kfile EXCEPT ![k] = path]
    /\ kpc' = [kpc EXCEPT ![k] = "flock"]
    /\ UNCHANGED <<fileVars, misfired>>

(* The cleaner is done with the file and closes it.                        *)
CleanDone(k) ==
    /\ kpc' = [kpc EXCEPT ![k] = "out"]
    /\ kfile' = [kfile EXCEPT ![k] = None]
    /\ lock' = Unlocked(k)

CleanFlock(k) ==
    /\ kpc[k] = "flock"
    /\ IF lock[kfile[k]] = None
       THEN /\ lock' = [lock EXCEPT ![kfile[k]] = k]
            /\ kpc' = [kpc EXCEPT ![k] = "scan"]
            /\ UNCHANGED kfile
       ELSE CleanDone(k)
    /\ UNCHANGED <<path, content, misfired>>

(* A live reader in the registry, or --dry-run, saves the ring; otherwise   *)
(* the lock is released and then the path removed.                         *)
CleanScan(k) ==
    /\ kpc[k] = "scan"
    /\ \/ CleanDone(k)
       \/ /\ \A r \in Registered : ~(rpc[r] = "attached" /\ rfile[r] = kfile[k])
          /\ kpc' = [kpc EXCEPT ![k] = "remove"]
          /\ lock' = Unlocked(k)
          /\ UNCHANGED kfile
    /\ UNCHANGED <<path, content, misfired>>

CleanRemove(k) ==
    /\ kpc[k] = "remove"
    /\ path' = None
    /\ misfired' = (misfired \/ (path # None /\ (path # kfile[k] \/ lock[path] # None)))
    /\ CleanDone(k)
    /\ UNCHANGED content

CleanerDies(k) ==
    /\ kpc[k] # "out"
    /\ CleanDone(k)
    /\ UNCHANGED <<path, content, misfired>>

CleanerStep(k) ==
    /\ CleanOpen(k) \/ CleanFlock(k) \/ CleanScan(k) \/ CleanRemove(k) \/ CleanerDies(k)
    /\ disturbed' = [q \in Procs |-> TRUE]
    /\ UNCHANGED <<processVars, readerVars>>

-----------------------------------------------------------------------------

Next ==
    \/ \E p \in Procs : ProcessStep(p) /\ Disturb(p)
    \/ \E k \in Cleaners : CleanerStep(k)
    \/ \E r \in Readers : ReaderOpen(r) \/ ReaderValidate(r) \/ Detach(r)

Spec == Init /\ [][Next]_vars

-----------------------------------------------------------------------------
(* Properties *)

Pcs == {"out", "refused", "open", "flock", "check", "unlink", "size", "initialize", "live",
        "unlock", "adopt", "adopt_flock", "validate"}

(* The path names an inode that exists, and create_backing_file never goes  *)
(* beyond its rounds.                                                      *)
TypeOK ==
    /\ path \in {None} \cup {i \in Inodes : content[i] # "unused"}
    /\ content \in [Inodes -> {"unused", "empty", "sized", "ready"}]
    /\ lock \in [Inodes -> Procs \cup Cleaners \cup {None}]
    /\ pc \in [Procs -> Pcs]
    /\ file \in [Procs -> Inodes \cup {None}]
    /\ tries \in [Procs -> 0..MaxTries]
    /\ adopted \in [Procs -> BOOLEAN]
    /\ disturbed \in [Procs -> BOOLEAN]
    /\ rpc \in [Readers -> {"out", "validate", "attached"}]
    /\ rfile \in [Readers -> Inodes \cup {None}]
    /\ kpc \in [Cleaners -> {"out", "flock", "scan", "remove"}]
    /\ kfile \in [Cleaners -> Inodes \cup {None}]
    /\ misfired \in BOOLEAN

(* A ring that a producer created and still writes is the one the path      *)
(* names, so a reader that attaches finds it, and there is only one.  Only  *)
(* `ringfire clean` can break this: it releases the lock before it removes *)
(* the path, and may remove what a producer has put there meanwhile.       *)
CreatedRingIsReachable ==
    ~misfired => \A p \in Procs : pc[p] = "live" /\ ~adopted[p] => path = file[p]

(* A reader never has its ring truncated or initialised underneath it, by   *)
(* whatever comes after the producer of that ring ("readers still mapping  *)
(* the old ring keep a consistent (orphaned) view").                       *)
AttachedViewIntact ==
    \A r \in Readers : rpc[r] = "attached" => content[rfile[r]] = "ready"

(* ProducerAlreadyExists is about another process that is there: the        *)
(* leftovers of dead ones, wherever they died, never refuse a producer.    *)
RefusedMeansRival ==
    [][\A p \in Procs :
          pc[p] # "refused" /\ pc'[p] = "refused" =>
              \/ disturbed[p]
              \/ \E q \in Procs \ {p} : pc[q] \notin {"out", "refused"}
              \/ \E k \in Cleaners : kpc[k] # "out"]_vars

=============================================================================
