----------------------------- MODULE Broadcast ------------------------------
(***************************************************************************)
(* What a lossy broadcast ring promises its readers: at-most-once, in-order *)
(* delivery per reader of intact messages, where the only messages a        *)
(* receive call may pass over are those that were never written or that a   *)
(* message at least Capacity newer is displacing.                           *)
(***************************************************************************)
EXTENDS Integers

CONSTANTS Readers, Words, Capacity

VARIABLES
    log,    \* the messages written so far
    begun,  \* the newest message whose writing has begun
    busy,   \* which readers are inside a receive call
    pos,    \* the message each reader wants next
    lost,   \* how many messages each reader was made to miss
    item    \* the last item each reader was given

vars == <<log, begun, busy, pos, lost, item>>

Intact(n) == [seq |-> n, data |-> [w \in Words |-> n]]

(* Message m can no longer be delivered.                                    *)
Gone(m) == m \notin log \/ m + Capacity <= begun

Init ==
    /\ log = {}
    /\ begun = 0
    /\ busy = [r \in Readers |-> FALSE]
    /\ pos = [r \in Readers |-> 1]
    /\ lost = [r \in Readers |-> 0]
    /\ item = [r \in Readers |-> [seq |-> 0, data |-> [w \in Words |-> 0]]]

(* The position of reader r changes to any other natural number and `lost`  *)
(* grows by `skips`.                                                        *)
Move(r, skips) ==
    /\ pos'[r] \in Nat /\ pos' = [pos EXCEPT ![r] = pos'[r]]
    /\ skips \in Nat /\ lost' = [lost EXCEPT ![r] = @ + skips]

(* Messages are written in ascending order; writing one displaces the       *)
(* message Capacity before it from the first store on.                      *)
BeginWrite ==
    /\ begun' \in Nat /\ begun' > begun
    /\ UNCHANGED <<log, busy, pos, lost, item>>

Write ==
    /\ log' = log \cup {begun}
    /\ UNCHANGED <<begun, busy, pos, lost, item>>

(* The application places the reader, outside any receive call.             *)
Place(r) ==
    /\ ~busy[r]
    /\ Move(r, lost'[r] - lost[r])
    /\ UNCHANGED <<log, begun, busy, item>>

Call(r) ==
    /\ ~busy[r]
    /\ busy' = [busy EXCEPT ![r] = TRUE]
    /\ UNCHANGED <<log, begun, pos, lost, item>>

Deliver(r) ==
    /\ busy[r]
    /\ pos[r] \in log
    /\ item' = [item EXCEPT ![r] = Intact(pos[r])]
    /\ pos' = [pos EXCEPT ![r] = @ + 1]
    /\ busy' = [busy EXCEPT ![r] = FALSE]
    /\ UNCHANGED <<log, begun, lost>>

(* A receive call passes over messages that are gone.                       *)
Pass(r) ==
    /\ busy[r]
    /\ pos'[r] > pos[r]
    /\ \A m \in pos[r]..(pos'[r] - 1) : Gone(m)
    /\ Move(r, pos'[r] - pos[r])
    /\ UNCHANGED <<log, begun, busy, item>>

GiveUp(r) ==
    /\ busy[r]
    /\ busy' = [busy EXCEPT ![r] = FALSE]
    /\ UNCHANGED <<log, begun, pos, lost, item>>

Next ==
    \/ BeginWrite
    \/ Write
    \/ \E r \in Readers : Place(r) \/ Call(r) \/ Deliver(r) \/ Pass(r) \/ GiveUp(r)

Spec == Init /\ [][Next]_vars

=============================================================================
