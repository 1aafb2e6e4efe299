---------------------------- MODULE Replication -----------------------------
(***************************************************************************)
(* A mirror of a ring on another host (replication.rs).                    *)
(*                                                                         *)
(* The server reads the source ring as any reader does.  By TCP it streams *)
(* every record to the mirror.  By UDP one sender thread (udp_loop) puts   *)
(* every record on the wire once, and the mirror's TCP connection only     *)
(* answers NAKs from the ring, which is the retransmission buffer.  The    *)
(* mirror writes records strictly at next_seq, keeps datagrams that        *)
(* overtook a missing one aside (pending), and has at most one NAK         *)
(* outstanding.                                                            *)
(*                                                                         *)
(* A record is its sequence number: SpmcRing shows that a slot is read     *)
(* whole and BlobRing that a payload is, so one step stands for the two    *)
(* loads of the sequence word and the copies between them (a slot marked   *)
(* between the loads is the second meaning of ReadOverwritten), and for    *)
(* all the records of a frame: what happens to the ring before the frame   *)
(* leaves may as well happen while it travels.  Datagrams are never taken  *)
(* from the network, so that they may arrive late, twice, out of order, or *)
(* not at all.  Heartbeats may be late, too: the mirror may hear any count *)
(* up to the newest, those at which the sender did not pause included.     *)
(* The source's producer is not mortal, and the source ring is not         *)
(* re-created.                                                             *)
(***************************************************************************)
EXTENDS RingSlots, Sequences, FiniteSetsExt

CONSTANTS
    MaxSeq,         \* bound: last record of the source
    Batch,          \* records per frame
    NAK_MAX,        \* records per NAK
    PENDING_MAX,    \* datagrams kept aside
    MaxLag,         \* bound: records of a batch before the header is stored
    MaxNaks,        \* bound: NAKs queued when one is repeated
    MaxFrames,      \* bound: frames in the TCP connection
    MaxConnects,    \* bound: connections of the mirror
    Transports,     \* of the servers considered: "udp", "tcp"
    Starts,         \* sequences that new mirrors ask for
    Sparse,         \* whether the source is itself a mirror ring, with holes
    SLOT_WRITING    \* u64::MAX

ASSUME ReplicationAssumption ==
    /\ {MaxSeq, Batch, NAK_MAX, PENDING_MAX, MaxLag, MaxNaks, MaxFrames}
          \subseteq Nat \ {0}
    /\ MaxConnects \in Nat
    /\ Transports \subseteq {"udp", "tcp"}
    /\ Starts \subseteq {0, SLOT_WRITING} \cup (1..MaxSeq)
    /\ Sparse \in BOOLEAN
    /\ SLOT_WRITING \in Nat /\ SLOT_WRITING > MaxSeq + Capacity

VARIABLES
    \* the source ring
    slotSeq, write_seq,
    nseq,           \* the producer's next sequence
    arenaLapped,    \* payloads of records up to this one are overwritten
    \* the server
    transport,
    cursor,             \* of udp_loop
    net, beat,          \* the datagrams sent so far, the last heartbeat
    spc, scursor, sto,  \* of serve_client
    \* the TCP connection
    naks, frames,
    \* the mirror
    connects, connected,
    next_seq, pending, nak,
    mirrored,   \* write_seq of the mirror ring
    resumable,  \* there is a mirror ring at the path
    skipped     \* history: the holes made in the mirror ring

sourceVars == <<slotSeq, write_seq, nseq, arenaLapped>>
senderVars == <<cursor, net, beat>>
serverVars == <<spc, scursor, sto>>
mirrorVars == <<next_seq, pending, nak, mirrored, skipped>>
sessionVars == <<connects, connected, resumable>>
vars == <<sourceVars, transport, senderVars, serverVars, naks, frames,
          mirrorVars, sessionVars>>

Seqs == 1..MaxSeq
HELLO_LATEST == 0
HELLO_OLDEST == SLOT_WRITING
NoNak == [from |-> 0, to |-> 0]

Data(seq, n) == [kind |-> "DATA", seq |-> seq, count |-> n]
Gap(seq) == [kind |-> "GAP", seq |-> seq, count |-> 0]

(* An empty source: the sender's cursor, write_seq + 1, is 1.              *)
Init ==
    /\ slotSeq = [i \in Slots |-> 0]
    /\ write_seq = 0 /\ nseq = 1 /\ arenaLapped = 0
    /\ transport \in Transports
    /\ cursor = 1 /\ net = {} /\ beat = 0
    /\ spc = "off" /\ scursor = 1 /\ sto = 0
    /\ naks = <<>> /\ frames = <<>>
    /\ connects = 0 /\ connected = FALSE
    /\ next_seq = 1 /\ pending = {} /\ nak = NoNak
    /\ mirrored = 0 /\ resumable = FALSE /\ skipped = {}

-----------------------------------------------------------------------------
(* The source's producer *)

Marked == nseq \in Seqs /\ slotSeq[Index(nseq)] = SLOT_WRITING

(* The next payload takes the arena's oldest bytes, before its slot is     *)
(* touched.                                                                *)
ReserveArena ==
    /\ ~Marked /\ nseq \in Seqs
    /\ arenaLapped' \in (arenaLapped + 1)..(nseq - 1)
    /\ UNCHANGED <<slotSeq, write_seq, nseq>>

(* A source that is a mirror itself passes over records it did not get.    *)
MarkWriting ==
    /\ ~Marked /\ nseq - write_seq <= MaxLag
    /\ nseq' \in IF Sparse THEN nseq..MaxSeq ELSE {nseq} \cap Seqs
    /\ slotSeq' = [slotSeq EXCEPT ![Index(nseq')] = SLOT_WRITING]
    /\ UNCHANGED <<write_seq, arenaLapped>>

PublishSlot ==
    /\ Marked
    /\ slotSeq' = [slotSeq EXCEPT ![Index(nseq)] = nseq]
    /\ nseq' = nseq + 1
    /\ UNCHANGED <<write_seq, arenaLapped>>

(* After a push, or at the end of a batch.                                 *)
PublishProgress ==
    /\ ~Marked /\ write_seq < nseq - 1
    /\ write_seq' = nseq - 1
    /\ UNCHANGED <<slotSeq, nseq, arenaLapped>>

SourceStep ==
    /\ ReserveArena \/ MarkWriting \/ PublishSlot \/ PublishProgress
    /\ UNCHANGED <<transport, senderVars, serverVars, naks, frames,
                   mirrorVars, sessionVars>>

-----------------------------------------------------------------------------
(* SourceRing: what a raw reader finds at record c *)

ReadItem(c) == slotSeq[Index(c)] = c /\ c > arenaLapped

ReadLost(c) == slotSeq[Index(c)] = c /\ c <= arenaLapped

ReadPending(c) == slotSeq[Index(c)] = SLOT_WRITING \/ slotSeq[Index(c)] < c

(* Newer at the first load, or marked after it.                            *)
ReadOverwritten(c) ==
    \/ slotSeq[Index(c)] > c /\ slotSeq[Index(c)] # SLOT_WRITING
    \/ slotSeq[Index(c)] = SLOT_WRITING /\ nseq = c + Capacity

Resync(c) ==
    LET seen == IF slotSeq[Index(c)] = SLOT_WRITING THEN 0 ELSE slotSeq[Index(c)]
    IN OldestRetained(Max2(write_seq, seen))

(* collect: a frame of n records from c.  It ends where the ring does, or  *)
(* when it is full or out of time or bytes.                                *)
Collected(c, n) == \A i \in 0..(n - 1) : ReadItem(c + i)

-----------------------------------------------------------------------------
(* udp_loop *)

(* A frame is sent once, and may be lost: dropped by the network, or       *)
(* larger than a datagram can be.                                          *)
SenderSend ==
    \E n \in 1..Batch :
        /\ Collected(cursor, n)
        /\ net' \in {net, net \cup {Data(cursor, n)}}
        /\ cursor' = cursor + n
        /\ UNCHANGED beat

SenderLapped ==
    /\ ReadOverwritten(cursor)
    /\ cursor' = Max2(cursor, Resync(cursor))
    /\ UNCHANGED <<net, beat>>

SenderLost ==
    /\ ReadLost(cursor)
    /\ cursor' = cursor + 1
    /\ UNCHANGED <<net, beat>>

(* Mutant of SenderBeat: announces what the ring holds.                    *)
BeatFromHeader ==
    /\ beat' = write_seq
    /\ UNCHANGED <<cursor, net>>

(* Idle: announce what has been put on the wire.                           *)
SenderBeat ==
    /\ ReadPending(cursor)
    /\ beat' = cursor - 1
    /\ UNCHANGED <<cursor, net>>

SenderStep ==
    /\ transport = "udp"
    /\ SenderSend \/ SenderLapped \/ SenderLost \/ SenderBeat
    /\ UNCHANGED <<sourceVars, transport, serverVars, naks, frames,
                   mirrorVars, sessionVars>>

-----------------------------------------------------------------------------
(* serve_client after the handshake: serve_range for a NAK by UDP, the     *)
(* stream of all records by TCP (sto is then out of reach)                 *)

Serving == spc \in {"range", "stream"}

CanWrite == Len(frames) < MaxFrames

Write(frame) == frames' = Append(frames, frame)

(* A NAK arrives; what is no longer retained is answered with one GAP.     *)
TakeNak ==
    /\ spc = "naks" /\ naks # <<>> /\ CanWrite
    /\ naks' = Tail(naks)
    /\ LET from == Max2(Head(naks).from, 1)
           oldest == OldestRetained(write_seq)
       IN /\ scursor' = Max2(from, oldest)
          /\ IF from < oldest THEN Write(Gap(oldest)) ELSE UNCHANGED frames
    /\ sto' = Head(naks).to
    /\ spc' = "range"

ServerSend ==
    \E n \in 1..Batch :
        /\ Serving /\ scursor + n - 1 <= sto /\ CanWrite
        /\ Collected(scursor, n)
        /\ Write(Data(scursor, n))
        /\ scursor' = scursor + n
        /\ UNCHANGED <<spc, sto, naks>>

(* Mutant of ServerLapped: resumes where a fresh reader would.             *)
LappedToLatest ==
    /\ Serving /\ scursor <= sto /\ CanWrite
    /\ ReadOverwritten(scursor) /\ Resync(scursor) > scursor
    /\ Write(Gap(write_seq + 1))
    /\ scursor' = write_seq + 1
    /\ UNCHANGED <<spc, sto, naks>>

ServerLapped ==
    /\ Serving /\ scursor <= sto /\ CanWrite
    /\ ReadOverwritten(scursor) /\ Resync(scursor) > scursor
    /\ Write(Gap(Resync(scursor)))
    /\ scursor' = Resync(scursor)
    /\ UNCHANGED <<spc, sto, naks>>

ServerLost ==
    /\ Serving /\ scursor <= sto /\ CanWrite
    /\ ReadLost(scursor)
    /\ Write(Gap(scursor + 1))
    /\ scursor' = scursor + 1
    /\ UNCHANGED <<spc, sto, naks>>

(* The range is served up to its end, or up to what is not published yet.  *)
RangeEnds ==
    /\ spc = "range"
    /\ scursor > sto \/ ReadPending(scursor)
    /\ spc' = "naks" /\ scursor' = 1 /\ sto' = 0
    /\ UNCHANGED <<naks, frames>>

ServerStep ==
    /\ TakeNak \/ ServerSend \/ ServerLapped \/ ServerLost \/ RangeEnds
    /\ UNCHANGED <<sourceVars, transport, senderVars, mirrorVars, sessionVars>>

-----------------------------------------------------------------------------
(* The mirror *)

SendNak(from, to) ==
    /\ naks' = Append(naks, [from |-> from, to |-> to])
    /\ nak' = [from |-> from, to |-> to]

(* A NAK for this range is outstanding and recent, or is sent now.         *)
Request(outstanding, from, to) ==
    LET last == Min({to, from + NAK_MAX - 1})
        asked == outstanding.from = from /\ outstanding.to >= last
    IN \/ asked /\ nak' = outstanding /\ UNCHANGED naks
       \/ asked /\ Len(naks) < MaxNaks /\ SendNak(from, last)
       \/ ~asked /\ SendNak(from, last)

Covers(p, n) == p.seq <= n /\ n < p.seq + p.count

(* Where the datagrams kept aside lead from position n.                    *)
Drained(n) == Min({m \in n..(MaxSeq + 1) : \A p \in pending : ~Covers(p, m)})

(* The write position has moved to n: a satisfied NAK is dropped, pending  *)
(* datagrams that continue the ring are written, the next hole is asked    *)
(* for.                                                                    *)
AfterAdvance(n, published) ==
    LET m == Drained(n)
        rest == {p \in pending : p.seq > m}
        outstanding == IF m > nak.to THEN NoNak ELSE nak
    IN /\ next_seq' = m
       /\ mirrored' = IF m > n THEN m - 1 ELSE published
       /\ pending' = rest
       /\ IF rest = {}
          THEN nak' = outstanding /\ UNCHANGED naks
          ELSE Request(outstanding, m, Min({p.seq : p \in rest}) - 1)

(* DATA by UDP, or in answer to a NAK.                                     *)
Apply(seq, n) ==
    /\ UNCHANGED skipped
    /\ \/ /\ seq + n <= next_seq
          /\ UNCHANGED <<next_seq, mirrored, pending, nak, naks>>
       \/ /\ seq > next_seq
          /\ pending' = IF \/ Cardinality(pending) >= PENDING_MAX
                           \/ \E p \in pending : p.seq = seq
                        THEN pending
                        ELSE pending \cup {[seq |-> seq, count |-> n]}
          /\ Request(nak, next_seq, seq - 1)
          /\ UNCHANGED <<next_seq, mirrored>>
       \/ /\ seq <= next_seq /\ seq + n > next_seq
          /\ AfterAdvance(seq + n, seq + n - 1)

(* Mutant of OnSourceSeq: a heartbeat is only remembered.                  *)
NotedOnly(seq) == UNCHANGED <<next_seq, mirrored, pending, skipped, nak, naks>>

(* A heartbeat: asks for what has been sent and is missing.  One from       *)
(* before next_seq changes nothing.                                        *)
OnSourceSeq(seq) ==
    /\ seq >= next_seq
    /\ Request(nak, next_seq, seq)
    /\ UNCHANGED <<next_seq, mirrored, pending, skipped>>

(* handle_datagram, by the kind of frame.                                  *)
Datagram ==
    /\ transport = "udp"
    /\ \E d \in net : Apply(d.seq, d.count)
    /\ UNCHANGED frames

Heartbeat(seq) ==
    /\ transport = "udp"
    /\ OnSourceSeq(seq)
    /\ UNCHANGED frames

(* handle_control *)
Control ==
    /\ transport = "udp" /\ frames # <<>>
    /\ frames' = Tail(frames)
    /\ LET frame == Head(frames)
       IN \/ frame.kind = "DATA" /\ Apply(frame.seq, frame.count)
          \/ /\ frame.kind = "GAP" /\ frame.seq > next_seq
             /\ skipped' = skipped \cup next_seq..(frame.seq - 1)
             /\ AfterAdvance(frame.seq, mirrored)
          \/ /\ frame.kind = "GAP" /\ frame.seq <= next_seq
             /\ UNCHANGED <<mirrorVars, naks>>

(* The answer is late: ask again.                                          *)
RepeatNak ==
    /\ transport = "udp" /\ nak # NoNak /\ Len(naks) < MaxNaks
    /\ SendNak(nak.from, nak.to)
    /\ UNCHANGED <<next_seq, pending, mirrored, skipped, frames>>

(* step by TCP: a frame from before next_seq makes the mirror start over   *)
(* with a new ring.                                                        *)
Stream ==
    /\ transport = "tcp" /\ frames # <<>>
    /\ frames' = Tail(frames)
    /\ LET frame == Head(frames)
           hole == next_seq..(frame.seq - 1)
       IN IF frame.kind = "DATA"
          THEN /\ next_seq' = frame.seq + frame.count
               /\ mirrored' = frame.seq + frame.count - 1
               /\ skipped' = IF frame.seq < next_seq THEN {} ELSE skipped \cup hole
          ELSE /\ next_seq' = Max2(next_seq, frame.seq)
               /\ skipped' = skipped \cup hole
               /\ UNCHANGED mirrored
    /\ UNCHANGED <<pending, nak, naks>>

MirrorStep ==
    /\ connected
    /\ \/ Datagram \/ Control \/ RepeatNak \/ Stream
       \/ \E seq \in 1..beat : Heartbeat(seq)
    /\ UNCHANGED <<sourceVars, transport, senderVars, serverVars, sessionVars>>

-----------------------------------------------------------------------------
(* Connections *)

(* Mutant of FirstSeq: a resumed mirror is served from the oldest record.  *)
FirstIsOldest(wanted) ==
    IF wanted = HELLO_LATEST THEN write_seq + 1 ELSE OldestRetained(write_seq)

(* serve_client: the first record a mirror is sent.                        *)
FirstSeq(wanted) ==
    CASE wanted = HELLO_LATEST -> write_seq + 1
      [] wanted = HELLO_OLDEST -> OldestRetained(write_seq)
      [] OTHER -> IF wanted > write_seq + 1
                  THEN write_seq + 1
                  ELSE Max2(wanted, OldestRetained(write_seq))

(* The server's side of the handshake.                                     *)
Accept(wanted) ==
    /\ ~connected /\ connects < MaxConnects
    /\ connected' = TRUE
    /\ connects' = connects + 1
    /\ IF transport = "udp"
       THEN spc' = "naks" /\ UNCHANGED <<scursor, sto>>
       ELSE spc' = "stream" /\ scursor' = FirstSeq(wanted) /\ sto' = MaxSeq
    /\ UNCHANGED <<sourceVars, transport, senderVars, naks, frames,
                   pending, nak>>

(* A mirror ring is created, starting at the sequence agreed on.           *)
CreateRing(wanted) ==
    /\ resumable' = TRUE
    /\ next_seq' = FirstSeq(wanted)
    /\ mirrored' = 0
    /\ skipped' = {}

Connect(wanted) == Accept(wanted) /\ CreateRing(wanted)

(* MirrorStart::Resume: the ring at the path is continued, unless the      *)
(* source is behind it (GEOMETRY_RESET).                                   *)
Resume ==
    \/ /\ resumable /\ mirrored <= write_seq
       /\ Accept(mirrored + 1)
       /\ next_seq' = mirrored + 1
       /\ UNCHANGED <<mirrored, skipped, resumable>>
    \/ /\ resumable /\ mirrored > write_seq
       /\ Connect(mirrored + 1)
    \/ /\ ~resumable
       /\ Connect(HELLO_OLDEST)

(* The mirror's process ends, or the connection breaks: its ring stays.    *)
Disconnect ==
    /\ connected /\ connects < MaxConnects
    /\ connected' = FALSE
    /\ spc' = "off" /\ scursor' = 1 /\ sto' = 0
    /\ naks' = <<>> /\ frames' = <<>>
    /\ next_seq' = 1 /\ pending' = {} /\ nak' = NoNak
    /\ UNCHANGED <<sourceVars, transport, senderVars, mirrored, skipped,
                   connects, resumable>>

Next ==
    \/ SourceStep \/ SenderStep \/ ServerStep \/ MirrorStep
    \/ \E wanted \in Starts : Connect(wanted)
    \/ Resume
    \/ Disconnect

(* A push that has begun ends; sender, server and mirror run on; a         *)
(* datagram that is sent again and again arrives.                          *)
Fairness ==
    /\ WF_vars(SourceStep /\ (PublishSlot \/ PublishProgress))
    /\ WF_vars(SenderStep)
    /\ WF_vars(ServerStep)
    /\ WF_vars(MirrorStep /\ Heartbeat(beat))
    /\ WF_vars(MirrorStep /\ RepeatNak)
    /\ WF_vars(MirrorStep /\ (Control \/ Stream))

Spec == Init /\ [][Next]_vars
FairSpec == Spec /\ Fairness

-----------------------------------------------------------------------------
(* Properties *)

DataFrames == {Data(seq, n) : seq \in Seqs, n \in 1..Batch}

Frames == DataFrames \cup {Gap(n) : n \in 1..(MaxSeq + 1)}

Naks == [from : Seqs, to : Seqs]

(* Source ring, sender, server, connection and mirror stay in their types: *)
(* no position passes the last record, and at most PENDING_MAX datagrams   *)
(* are kept aside.                                                         *)
TypeOK ==
    /\ slotSeq \in [Slots -> 0..MaxSeq \cup {SLOT_WRITING}]
    /\ write_seq \in 0..MaxSeq /\ nseq \in 1..(MaxSeq + 1)
    /\ arenaLapped \in 0..MaxSeq
    /\ transport \in Transports
    /\ cursor \in 1..(MaxSeq + 1) /\ net \subseteq DataFrames /\ beat \in 0..MaxSeq
    /\ spc \in {"off", "naks", "range", "stream"}
    /\ scursor \in 1..(MaxSeq + 1) /\ sto \in 0..MaxSeq
    /\ naks \in Seq(Naks)
    /\ frames \in Seq(Frames) /\ Len(frames) <= MaxFrames
    /\ connects \in 0..MaxConnects /\ connected \in BOOLEAN /\ resumable \in BOOLEAN
    /\ next_seq \in 1..(MaxSeq + 1) /\ mirrored \in 0..MaxSeq
    /\ pending \subseteq [seq : Seqs, count : 1..Batch]
    /\ Cardinality(pending) <= PENDING_MAX
    /\ nak \in Naks \cup {NoNak}
    /\ skipped \subseteq Seqs

(* Record n is no longer in the source ring.                               *)
Gone(n) ==
    \/ n + Capacity < nseq
    \/ n + Capacity = nseq /\ slotSeq[Index(n)] = SLOT_WRITING
    \/ n <= arenaLapped

(* "A mirror gets a GAP in exactly one situation: it needs a record the    *)
(* source has already overwritten."  Whatever is lost, late or doubled on  *)
(* the way, and across reconnections, a mirror ring lacks no record that   *)
(* the source ring still holds, once it has gone past it.                  *)
GapMeansGone == \A n \in skipped : Gone(n)

(* Every NAK asks for records that the UDP sender has already passed: a    *)
(* record is never asked for because it was announced before it was sent.  *)
NaksFollowTheSender ==
    /\ \A i \in 1..Len(naks) : naks[i].to < cursor
    /\ nak.to < cursor

(* Nothing that arrives by TCP goes back behind the mirror's position, so  *)
(* no stream from one source makes the mirror throw its ring away.         *)
StreamNeverGoesBack ==
    transport = "tcp" /\ frames # <<>> => Head(frames).seq >= next_seq

(* A connected mirror catches up with its source again and again, although *)
(* datagrams are lost, NAKs are answered in part, what overtook a hole is  *)
(* dropped for want of room, and the ring laps sender and server.          *)
MirrorCatchesUp == []<>(connected => next_seq > write_seq)

=============================================================================
