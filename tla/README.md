# ringfire in TLA+

A formal model of [ringfire](../src/README.md), a Rust library of rings in shared
memory: one process writes, others on the same machine read, and nobody takes a lock on
the hot path. The modules here are translated from the source, checked with TLC on small
instances, and proved with TLAPS for every value of the constants.

`PROJECT.json` lists the components, the runs, the source lines behind every definition,
the mutants that show each property can fail, the hazards and the theorems.

## The system

| Component | Source | State | Operations |
|---|---|---|---|
| Lossy broadcast ring | `spmc.rs` | slots (sequence word + payload), `write_seq` in the header; per reader `cursor`, `lapped_total`, `empty_polls` | push, push_batch; attach (four modes), try_recv, recv_status, recv_batch, seek, jumps |
| Lossless flow control, reader registry | `spmc.rs`, `registry.rs` | registry slots (`pid`, `active`, `cursor`), the producer's cached `gate_limit` | push, try_push, refresh_gate, wait_for_headroom, prune_dead_readers; register, update_cursor, drop |
| Multi-producer ring | `mpmc.rs` | `claim_seq`, `read_seq`, `write_seq`, slots; `pending` of a queue consumer | push with takeover and drop; try_recv of competing consumers |
| Wait strategies | `wait.rs` | `futex_word`, `waiting_consumers` | wait, wake_futex |
| Blackboard | `blackboard.rs` | a seqlock and a value per key | write, read |
| Blob ring and arena | `blob.rs`, `arena.rs` | descriptor ring, `reserved`, arena bytes | reserve, push; next_blob |
| Backing file | `shm.rs`, parts of `spmc.rs` and `replication.rs` | the path, inodes, flocks, the magic number | create, drop, adopt, attach, `ringfire clean` |
| Header layout | `header.rs`, `signature.rs` | constants of a ring | initialise, publish, validate |
| Offset checkpoint | `checkpoint.rs` | a 64-byte file with the last processed sequence | open_or_create, load, save; attach with an offset file, commit_offset |
| Replication | `replication.rs` | server: the cursor of the UDP sender, one cursor per TCP connection; mirror: `next_seq`, `pending`, `nak`, its ring | handshake, TCP stream, UDP multicast, NAK, resume |
| Multiplexer | `multiplexer.rs` | consumers, rotation index | add, try_recv_any, try_recv_priority, recv_batch_any, recv_any |
| Async consumer | `async_ring.rs` | a consumer, spins and yields of a wait; of the Stream, the yields and the idle timer | recv, recv_detailed, recv_batch, poll_next |
| Command line tool | `bin/ringfire.rs` | none of its own; `clean` and `prune` change files of others | prune, clean; serve and mirror; reports |
| C interface, Python, clock | `ffi.rs`, ... | none of their own that is shared | wrappers |

How they interact. Everything goes through one mapped file. A producer creates it (backing
file), writes slots and then the header's `write_seq` (ring), and wakes sleepers through
the header's futex word (wait). Readers only read, except that they register in the
reader registry, which a lossless producer scans, and count themselves in
`waiting_consumers`. A blob ring is a ring of descriptors over an arena. A mirror receives
a ring over the network and is the producer of a local ring with the source's numbering,
in which numbers may be missing (a *sparse* ring). A checkpoint stores a reader's
position for its next life: attach reads it and commit_offset writes it. A multiplexer polls
several consumers in turn, from a thread or from a task of an executor.

What is hard here:

* a reader copies a payload while it is overwritten, and decides afterwards;
* the header lags the slots (batches, gaps), so two loads never belong together;
* the producer acts on cached knowledge of its readers;
* any process may die between any two stores, and nobody cleans up after it at once;
* a store and a later load of the producer may be reordered, on purpose;
* files are replaced under the feet of those who open them, or removed by a cleaner;
* an offset file is created without a lock, read after the ring was looked at, and may
  outlive the ring it counts in;
* a wait is polled, dropped and polled again by an executor that knows only its wakers;
* datagrams are lost, doubled and reordered, and answers to a NAK race its repetition.

For each component, the properties that make it correct:

* broadcast ring: whole items, in order, at most once; a message is passed over only when
  it is gone; every one passed over is counted; a polled reader never hangs;
* lossless: a reader that the producer has observed loses nothing; a new one is observed
  within half a ring; nobody waits for ever; a registry slot has one owner;
* multi-producer: no mixture of two payloads, laps only grow, every ticket is delivered,
  dropped or held exactly once, and nobody hangs behind the dead;
* wait: no wake-up is lost;
* blackboard: one whole value that was current during the call;
* blobs: whole payloads, disjoint live ranges, nothing given up that is still there;
* backing file: the ring a producer writes is the one readers find, old readers are left
  alone, and leftovers refuse nobody;
* checkpoint: a consumer's restarts lose nothing that they do not report, and an offset file
  becomes unusable only where a process died while making it;
* multiplexer and async consumer: no channel starves, nothing is overlooked, a waiting task
  gets its message and gives its executor back;
* replication: a mirror lacks only what its source no longer holds, asks only for what has
  been sent, does not start over without need, and catches up.

## The modules

| Module | Models | Abstraction |
|---|---|---|
| `RingSlots` | slot index, `oldest_retained` | `seq & mask` is `seq % Capacity` |
| `SpmcRing` | the lossy ring, dense and sparse | payload of message n is n in every word; copies go word by word in any order between the accesses to the sequence word that the fences pin down |
| `Broadcast` | what a lossy ring promises (abstract) | no slots, no header, no seqlock |
| `LosslessRing` | flow control and registry | a slot is its sequence word (whole copies are `SpmcRing`'s subject); a reader is its own process id |
| `MpmcRing` | producers, queue consumers, broadcast readers of one ring | deadlines may pass at any time |
| `FutexWait` | the wake-up protocol | the producer's store buffer: `published` is stored, `write_seq` is visible |
| `Blackboard` | the seqlock per key | spins are counted up to `SpinLimit`, then the clock may expire |
| `BlobRing` | arena and descriptor ring, of a producer or a mirror | lengths in units of 64 bytes, to which `reserve` rounds |
| `BackingFile` | path, inodes, locks, `ringfire clean` | an inode is unused, empty, sized or ready (magic published) |
| `Checkpoint` | the offset file and `open_or_create` | the slot is two words, its magic and version and its offset, which reach others in any order |
| `Multiplexer` | the passes over the channels and the backoff of a wait | of an executor: it polls a woken task, a timer wakes the task registered with it, a wait may be dropped |
| `ConsumerApp` | consumer processes: attach, receive, commit, die and start over (composes the two above) | a ring is what `Broadcast` promises, and a slot that is being written; what a reader was told it had lost counts as covered |
| `Replication` | source ring, UDP sender, server, TCP connection, mirror | a record is its sequence number; the network keeps every datagram for ever and may never deliver it; a heartbeat that comes late may announce any count up to the newest |

One action stands for one access to shared memory, or one system call, and the local work
around it. The program counters (`ppc`, `rpc`, ...) name the place in the function;
variables carry the names of the source where there is one. Death of a process is an
action that may come between any two others: the shared state stays as it is.

`SpmcRing` in more detail. `MarkWriting`, `CopyWordIn` and `PublishSlot` are `write_slot`;
`PublishProgress` is the header store, which a batch does once at its end. `SkipTo` is
`MirrorRing::skip_to`. A receive call is `LoadSeq...` (the first load of the sequence
word, by its three outcomes), `CopyWordOut`, `Recheck...`, and where they lead:
`SkipOverwritten`, or, on a sparse ring, `HoleLoadHeader`, `HoleLoadSlot`, `HoleScan` of
`skip_hole`. `log`, `begun` and `got` are history: what was written, the
newest message whose writing has begun, and what the reader has been given.

`ConsumerApp` composes `Checkpoint`, `Multiplexer` and the consumer's side of `spmc.rs`.
Every process runs one program (`Deployments`): a single `RingConsumer`, a `RingMultiplexer`,
an `AsyncRingMultiplexer` or `AsyncRingConsumer`, or a `Stream`. `AttachLoad` loads
`write_seq`, `OpenCheckpoint` takes the steps of `open_or_create`, and `Place` computes the
cursor from the offset it finds *then* and the `write_seq` loaded *before*, and adds the
consumer to the multiplexer. `Poll` is one `try_recv`: it moves the cursor past what was
overwritten and takes a message if there is one; then `Found` or `Empty` of `Multiplexer`
decide how the pass, the batch or the wait goes on. `StreamLoop` is the head of
`poll_next`'s loop with the idle timer, `Cancel` a wait dropped by `select!` or a timeout.
A poll of a slot that is being written finds nothing and does not move. `from`, `origin`,
`covered`, `due` and `waited` are history, as are `abandoned` and `reset` of `Checkpoint`.
Registration of these readers is left to `LosslessRing`; the offset's pid, name and time are
diagnostics. `AsyncRingConsumer` offers no commit, so the asynchronous programs resume from
an offset and never store one.

`BackingFile`: `CleanOpen`, `CleanFlock`, `CleanScan` and `CleanRemove` are the steps of
`ringfire clean` for one file; `Registered` are the readers it can see in the registry.
`misfired` is history: it removed a path that was no longer what it had locked. `ringfire
prune` is `CmdPrune` of `LosslessRing`, one registry slot at a time.

`LosslessRing`: `StartItem` is the test against `gate_limit`, `ScanSlot` and `ScanCursor`
are the two loads of `min_cursor` per registry slot, `FinishRefresh` sets the limit,
`WaitRound` is a round of `wait_for_headroom`. `covered` is history: the producer has seen
the registration in a scan since the reader last moved backwards.

`Replication`: the source's producer marks, publishes and raises `write_seq` as in
`SpmcRing`, and may overwrite payloads of its arena. `Sender...` are the branches of
`udp_loop`, `TakeNak`, `Server...` and `RangeEnds` those of `serve_range` and, by TCP, of the
stream loop of `serve_client`. `Apply`, `AfterAdvance`, `Request` and `OnSourceSeq` are the
functions of `Mirror` with these names, `Stream` is `step`. `Connect` and `Resume` are both
ends of the handshake in one step: the position is agreed on by one load of `write_seq`.
The test of a frame's records and its leaving are one step, although the code copies them one
by one: a frame holds at most `Batch` records, no more than the ring, and a record that is
overwritten after it was copied might as well be overwritten while the frame travels. The
sender starts at record 1 and not at `write_seq + 1`: its datagrams may be lost, which covers
those it never sent. `skipped` is history: the holes made in the mirror ring.

## The runs

| Run | Instance | Shows |
|---|---|---|
| `spmc` | 1 reader, 2 words, 2 slots, 4 messages, sparse | `TypeOK`, `NoTornItem`, `RetainedReadable`, `LapAccounting`, refinement of `Broadcast`, `PollingReaderMoves` |
| `lossless` | 1 reader, 4 slots, 6 messages, one rewind | `BackpressureProtects`, `RescanWithinHalfRing`, `LosslessDelivery`, `BlockedProducerResumes` |
| `lossless_two` | 2 readers, 2 registry slots, 1 slot | `BackpressureProtects`, `OneOwner` |
| `mpmc` | 2 producers, 2 queue consumers, 2 words, 3 laps of 1 slot | `NoTornItem`, `TicketAccounting`, `LapsOnlyGrow` |
| `mpmc_live` | 2 producers, one of them mortal, a queue consumer, a broadcast reader, 3 laps of 1 slot | `PushReturns`, `LappedTicketResolves`, `WatcherMoves` |
| `futex` | 2 consumers, 2 messages | `NoLostWakeup`, `MessageArrives` |
| `blackboard` | 2 keys, 2 words, 3 writes each | `ReadIsFresh`, `AnswerExplained`, `ReadReturns` |
| `blob` | 2 slots, arena of 4 units, 4 messages of 0, 1, 3 or 4 units, sparse | `NoTornBlob`, `LiveBlobsDisjoint`, `PassedOverMeansGone` |
| `backing_file` | 2 producers, a mirror, a cleaner, a reader, 2 inodes | `CreatedRingIsReachable`, `AttachedViewIntact`, `RefusedMeansRival` |
| `consumer` | 2 processes, 2 channels of 1 slot, 2 messages each, one re-created, 1 offset file | `NoSilentLoss`, `RefusalExplained`, `NoChannelStarves`, `NothingMeansNothing`, `AwaitedMessageArrives`, `ExecutorGetsItsTurn` |
| `replication` | 2 slots, 3 records, frames of 1 or 2 records, UDP and TCP, one reconnection | `GapMeansGone`, `NaksFollowTheSender`, `StreamNeverGoesBack`, `MirrorCatchesUp` |
| `replication_hub` | the same by TCP, the source is a mirror ring with holes | violation of `MirrorCatchesUp` |

Why the bounds are enough to be interesting. Readers of a lossy ring do not influence each
other or the producer, so one is as good as many; two slots and four messages let a reader
be lapped twice, inside a copy, inside a scan and while the header lags a batch. A mirror
ring need not use its gaps and its reader looks for a hole only every second empty poll,
so the behaviours of a dense ring are among those of the sparse one; `HolePeriod` is 2
instead of 64. Two words are what it takes for a copy to be torn. In `lossless` half the
ring is two messages, so the cached limit is really stale for a while; `PruneAfter` and
`PruneEvery` are 1 and 2 instead of 1000 and 1024, which only makes pruning come earlier.
`lossless_two` uses the smallest ring, because its subject is the registry. One slot and
three laps give the multi-producer ring every relation between the two producers of a
slot: previous lap, obsolete, in the middle of a write, dead. The arena of four units is
filled exactly, left with a rest at its end, and lapped, and the ring is a mirror's, as in
`spmc`. `MaxTries` is 2 instead of 8: one
round to remove a leftover and one to create the ring. Two inodes are a ring and its
successor, under three processes and a cleaner that are anywhere in their calls; a third
inode makes five million states and no difference.
In `consumer` the two processes that read the same channel, with the same offset file, are
plain consumers, and the multiplexers and waits run beside a second process that is off: the
programs do not influence the rings, and influence each other only through the offset file.
Rings of one slot are lapped at the second message, so that an attach, a poll and a commit
each meet a lap between two of their steps, and `Gens` gives the first path a second ring. A
reader without a saved offset may ask for any sequence up to the bound, written or not.
`MaxSpins` and `MaxYields` are 1 instead of 32 and 8 (64 and 16), `MaxBatch` is 2.
In `replication` three records lap the ring of two, so that sender, server and mirror each
fall behind it, in the middle of a range, too; `PENDING_MAX` 1 and `NAK_MAX` 2 instead of 8192
and 65535 let both limits be met. `MaxNaks` 1 and `MaxFrames` 1 bound what is under way in the
TCP connection, and only its repetitions of a NAK wait for room; `MaxLag` 1 lets the header
lag by the record of a batch that is being written after another; `MaxConnects` is 2.
`MaxSeq`, `MaxWrites`, `MaxSeeks`, `MaxLapped`, `Gens`, `Mortal` and `Inodes` are bounds of the model; in the
proofs they are arbitrary. `CHECK_DEADLOCK FALSE` stands where the system may stop: every
process dead, refused or at the end of its messages; the readers of `spmc`, `blob` and
`consumer` can always be polled. `TypeOK` of a module (`WaitTypeOK` in `FutexWait`) states the
types of its state; the runs `spmc` and `futex` check it, and the proofs establish it for all
modules.

### Fairness

* Readers and consumers: weak fairness of the steps of a receive call. The application
  polls, or blocks in a call that polls; a dead process has no enabled step.
* Producers: weak fairness of a push once it has begun; never of beginning one (in
  `lossless` the application goes on pushing while messages are left).
* `MpmcRing`: the deadline of `push` passes some time, as time does.
* `Blackboard`: strong fairness of `Expire`. The clock, once started, runs; the reader
  looks at it again and again, alternating with other steps.
* `FutexWait`: stores become visible some time. Timeouts are relied on only when the
  producer could not register for membarriers, or died; with a registered, live producer
  every message arrives without them, which is stronger than the code needs.
* `ConsumerApp`: an executor goes on with the asynchronous task that it polls or that was
  woken, and a timer elapses. Nothing is assumed of producers, of synchronous programs or of
  the caller of a wait, who may drop it at any time.
* `Replication`: a push once begun ends, never that one begins; the sender thread, the server
  thread and the mirror's loop run; the heartbeat, which is repeated as long as the sender is
  idle, arrives some time; the NAK timeout passes. A DATA datagram need never arrive.

### What the violation shows

`replication_hub`: the server's reader does not know that a mirror ring has holes. It takes
one for a record that is still to come and waits until the ring has lapped it; with a quiet
source the mirror behind the hub gets nothing more, although its source has newer records.

### Disagreements without a run

* An empty payload is `BlobRef::EMPTY`, whose offset is 0, and `is_lapped` (`arena.rs:249`)
  takes it for overwritten once more than the arena's capacity was reserved: every later empty
  message is dropped and counted as lapped. The documents say "Messages whose payload was
  already overwritten in the arena are skipped" (`blob.rs:496`); an empty message has none.
* `ringfire clean` releases its lock before it removes the path (`bin/ringfire.rs:1001`),
  so a producer or a mirror that takes the file over in between, or replaces it, is left with
  a ring that no reader finds. The changelog says "without active flock holders or live
  readers" (`CHANGELOG.md:12`). `CreatedRingIsReachable` holds while `misfired` is false.
* An offset file "survives consumer process restarts" (`checkpoint.rs:7`), but a process that
  dies between `set_len` and the write of the slot leaves a file that every later
  `open_or_create` refuses with `InvalidData`, for ever (`abandoned`).
* Two processes that open a new offset file at once both take it for new; the slower one writes
  `offset_seq = 0` over what the faster one has committed meanwhile (`reset`).
* A commit at cursor 1 saves 0, which `load` takes for "never committed": a reader that
  started at the first message of an empty ring, committed and died resumes by its start mode,
  and with `Latest` skips what came in between without a word.
* A saved offset is applied to whatever ring the path names now. After the producer has made a
  new one, the reader starts beyond the first messages of it and reports nothing lapped.
  `NoSilentLoss` follows a reader and its predecessors within one ring.
* A channel whose wanted slot is being overwritten polls empty although newer messages are in
  the ring; a producer that dies there leaves its reader so until the ring is made anew.

Smaller ones. The comment at
`spmc.rs:767` says that a registration protects the reader "from here on", whereas the
repository's README states what holds and what `LosslessDelivery` and
`RescanWithinHalfRing` check: from the scan that observes it. And the stall clock of
`BlackboardConsumer::read` is not restarted when the writer completes an update, so
`WriterStalled` can be returned for a slot that did not stay mid-write;
`AnswerExplained` states the weaker fact that holds. A call of `recv_status` that skips
overwritten messages and then meets a slot that is being written returns `Empty`: the skip is
in `lapped_count()`, which `LapAccounting` is about, but in no status. `MirrorRing::adopt`
does not check, after locking, that the path still names the inode, as `create_backing_file`
does; a mirror can resume in a ring that no reader finds. And a mirror that resumes while the
source's header lags its slots may be ahead of `write_seq`; it is told to start over.

## The proofs

All proofs are for arbitrary constants, from the named assumptions next to the CONSTANTS
(`CapacityAssumption`, `SpmcAssumption`, `LosslessAssumption`, `MpmcAssumption`,
`FutexAssumption`, `BlackboardAssumption`, `BlobAssumption`, `BackingFileAssumption`,
`ReplicationAssumption`, `MultiplexerAssumption`, `CheckpointAssumption`,
`ConsumerAppAssumption`). They say what numbers the bounds are, that the mark of a slot being
written (`u64::MAX`) is beyond every sequence the run can reach, that a blackboard has a key
and an application an offset file, that a program may have at least one channel, that a payload fits the arena (`reserve` refuses a longer one), and that
`create_backing_file` has more than one round (8 in the code): with one it could remove a
leftover ring and not create its own, and `RefusedMeansRival` would be false.

In every proof module `IInv` is the inductive invariant, a conjunction of the named parts
below and `TypeOK`; one lemma per action or group of actions shows that it is preserved,
`Invariance` that it holds always, and the theorems listed in `PROJECT.json` follow from it.
`SharedWords_proofs` is about two components whose specifications share no variable,
`Blackboard` and `FutexWait`; the names of the second begin with `Wait`, and its inductive
invariant is `FutexInv`.

`SpmcRing_proofs`. The invariant `IInv` has these parts:

* `ProducerInv`: where `begun`, `pseq` and `write_seq` stand to each other at each place of
  the producer's loop;
* `SlotInv`: a slot that is not marked holds one message completely, a marked one is that
  of the message begun last; `CopyInInv`: the words copied in so far;
* `RetainedReadable`: a message less than a ring behind is still in its slot;
* `CopyOutInv`: while a reader copies, *either* its slot still carries the wanted sequence
  and the words copied so far are right, *or* the slot is marked for, or carries, a newer
  message, and then it never carries the wanted one again. `NoTornItem` is not inductive
  without this: it says nothing of copies that are not accepted yet;
* `SeenInv`, `ScanInv`: what a lapped reader saw was written, and what a scan for a hole has
  passed is gone.

From it follow `TypeCorrect`, `TearFree`, `Retention`, `Accounting`, and `Refinement`:
initial states map to initial states of `Broadcast`, every step to a step or a stutter. The
cases that need the invariant are the delivery (`TearFree` and the slot's sequence is in the
log) and the passing over of messages (`OldestFacts` for a lap, `ScanInv` for a hole).

`LosslessRing_proofs`. `BackpressureProtects` bounds the producer by the cursor of a covered
reader, but between two scans the producer acts on `gate_limit`, and during one on a minimum
that is not complete. `CoverInv(r)` therefore says who speaks for the reader: the scan under way
once it is past the reader's registry slot, otherwise the cached limit. `CursorInv(r)` (the
registered cursor is not ahead of the reader's own) and `RegistryInv` (no active slot has cursor
0, which `min_cursor` takes for "no reader") make that minimum a lower bound. `RescanInv(r)` is
the same argument for a reader not seen yet, with half a ring in the place of its cursor, and
`OwnInv(r)` gives `OneOwner`. `DeliveryIsLossless` is a step property: a covered reader's
cursor moves only past messages it was given.

`MpmcRing_proofs`. `SlotInv`: a slot that is not marked holds the latest message published in
it, whole; a marked one belongs to exactly one producer, alive or dead (`Owns`), which has taken
it for a later lap than any published there. This is what the compare-exchange of `push` is
for: `CasInv` says that it expects an older lap and never a mark, so nobody takes a slot from a
producer in the middle of its copy, and `LapsOnlyGrow` follows. `CopyInInv` and `CopyOutInv` are the
two sides of a copy. `QueueInv` accounts for tickets: each one below `read_seq` is taken, lost or
held by one consumer, and a lost one is a full ring behind `claim_seq`; `CounterInv` keeps the
counters that a consumer loaded before its compare-exchange valid as bounds. Two tickets
of one slot are at least a ring apart (`SameSlot`), which is why a newer one there means a lap.

`SharedWords_proofs`, the blackboard. `SeqlockInv` ties the seqlock to the number of writes (2n complete, 2n - 1
in the middle of the n-th), so that the same even number twice means that nothing was written
between. `CopyInv` carries the copy of a reader from its first look to its second, and the lower
bound `before`, the last value complete when the call began, gives freshness. `CallInv` keeps
what a stalled answer needs: while the reader waits for the clock a write has begun that was not
complete at the start of the call.

`BlobRing_proofs`. `ArenaInv`: ranges are handed out in order, each in one piece of the arena.
Its consequence `OverlapMeansLapped` is the centre: two ranges that share a unit are a whole
arena apart, so the earlier one is lapped once the later one is reserved, before the first unit is
copied over it. `ContentInv` (the arena holds every message that is not lapped) and
`CopyOutInv(r)` then give `PayloadsAreWhole`, although the producer writes freely between the
reader's two checks. `RingInv` bounds what readers can learn from slots and header (`Newest`),
`HoleInv(r)` is the scan of `skip_hole`; together they justify every skip. The attempt to
prove `PassedOverMeansGone` showed that `Gone` had been too narrow: in a sparse ring the next
lap's message may be a hole, and then an old message stays in its slot and is passed over
although nothing newer was written there. It takes seven messages, more than the run has.
What makes it lost is the reader's `oldest_retained`, which counts numbers
and not messages, and `Gone` now says so.

`SharedWords_proofs`, the futex. `NoLostWakeup` speaks of sleepers only. `WakeInv` follows a consumer from
its barrier on: if its message is out, its recheck will see it, or the producer is still in
front of its bump, or the futex word differs from the one the consumer loaded. `CountInv`
(a consumer past `Enter` is counted) makes the producer's check succeed, `ValInv` (a loaded
word is never ahead) makes a bump a real difference.

`BackingFile_proofs`. `LockInv` (a process past its flock holds the lock of its inode),
`PathInv` (from its check on, a creator's inode is the one the path names, because only a
holder of that lock unlinks it), `EmptyInv` (only an empty inode is sized and initialised)
and `ReadyInv` give `Reachability` and `ViewIntact`. `CleanInv`: a cleaner in
its call has an inode open. When it removes the path and that is another inode, or one that
somebody holds, `misfired` records it; `PathInv` is stated under its negation. `PathInv` excludes adopted rings: for
these it is false, because `adopt` does not look at the path again after locking.
`RefusalsHaveRivals` rests on a second invariant: `HolderInv` (a lock is held by a process at
work) for a refusal by flock, and `QuietInv` for one after the last round: a call that nobody
disturbs finds its inode behind the path and removes a leftover ring at most once.

`Replication_proofs`. Three arguments that share one invariant. `SentInv` and `AskInv`: whatever
the mirror knows of (datagrams under way or kept aside, heartbeats, answers to NAKs) lies below
the cursor of `udp_loop`, hence so does every NAK that `request` derives from it.
`GapInv`: below the position of every GAP frame all records are gone, and what is gone stays gone
(`GoneStays`), so the frame is still true when it arrives; `BelowOldestIsGone` and
`ResyncFacts` show it of the frames that `serve_range` makes. `StreamInv`, for TCP: each frame
begins where the one before ended, or after records that are gone, the first one at the
mirror's position and the server's cursor at the end; `FirstSeqFacts` establishes it for a
resumed connection. Two details of the model needed care: `Drained` is a minimum, which exists
because no datagram reaches beyond the sender (`DrainedFacts`, with `MinFacts` from the
well-foundedness of finite sets), and `SessionInv` separates what belongs to UDP and to TCP.

`ConsumerApp_proofs`. Four properties of three components that meet in one process.

* `RoundInvOf(t)`: the passes a channel has waited and its distance from `next_idx`, counted
  around the ring of channels (`Dist`), add up to less than the number of channels.
  `NoChannelStarves` alone is not inductive: it does not say that a channel that waited long is
  next. `TurnFacts` and `NextTurnFacts` are the modular arithmetic of `(start + i) % len` and
  `next_idx = (channel + 1) % len`; a pass that ends at channel c moves everything behind c nearer
  by what it adds to the waits. A channel that is added raises the bound for all, and itself has
  waited for nothing.
* `PassInvOf(t)`: in a pass, what is due is still to be polled, and what was polled waits for
  nothing. `NothingIsTrue` reads the first half at the last poll; the second half is what
  `RoundInvOf` needs at the end of a pass.
* `SlotInv`: an offset file of full length without its magic word has a process that is about to
  write it, or lost one. A process that died in between is why `RefusalExplained` needs
  `abandoned`. `OpenInv`: a process is inside `open_or_create` only for the channel it attaches,
  which is one with an offset file, so an attach that ends (`Place`) leaves no slot half written.
* `OffsetInv`: what a file promises to the reader that resumes from it. All messages from the
  first predecessor's first one up to the saved offset are accounted for, in the ring they
  were counted in. `NoSilentLoss` speaks of attached readers only; `OffsetInv` carries it over
  the time in which nobody is attached. `Commit` turns the one into the other, `Place` turns it
  back, and `load` taking 0 for "never committed" is its condition `origin.from # 0`.

Model-checked only: liveness (`PollingReaderMoves`, `BlockedProducerResumes`, `PushReturns`,
`LappedTicketResolves`, `WatcherMoves`, `MessageArrives`, `ReadReturns`, `AwaitedMessageArrives`,
`ExecutorGetsItsTurn`, `MirrorCatchesUp`), which needs fairness and ENABLED and is outside the
prover's reach. Every invariant and every action property that a run checks is proved.

## Not modelled

* Creation of a ring without the exclusive lock, which truncates the file in place.
* Reuse of process ids and separate PID namespaces, which the repository's README excludes.
* Wrap-around of the 64-bit sequences and of the 32-bit futex word.
* Replication: frame and geometry encoding, the unicast peer table and its punches, session
  bytes, a source ring that is created anew under a running server, statistics.
* Registry names and heartbeats, statistics, layout signatures: diagnostics and pure
  functions.
* `commit_offset_to`, which is `open_or_create` and `save` on another file; one asynchronous
  consumer used both as a Stream and with recv.
* `ffi.rs`, the Python package and the reports and measurements of the command line tool:
  wrappers around the operations above.

## Plan

`Replication`: a source that restarts with a new ring (session byte, `GEOMETRY_RESET`, DATA below
`next_seq`), and the unicast peers with their punches. They are what separates the
replication server from status "modelled"; the restart is also a hazard that no property
covers yet.
