----------------------------- MODULE RingSlots ------------------------------
(***************************************************************************)
(* The slot arithmetic that every ring shares: where a message lives and   *)
(* which messages a ring whose newest one is w still holds.                *)
(***************************************************************************)
EXTENDS Integers

CONSTANT Capacity   \* number of slots; seq & mask in the code is seq % Capacity

ASSUME CapacityAssumption == Capacity \in Nat \ {0}

Slots == 0..(Capacity - 1)

Max2(a, b) == IF a >= b THEN a ELSE b

Index(seq) == seq % Capacity

(* Mutant of OldestRetained: sequences counted from 0.                     *)
OldestFromZero(w) == IF w >= Capacity THEN w - Capacity + 1 ELSE 0

(* Oldest sequence still retained when the newest message is w.            *)
OldestRetained(w) == IF w >= Capacity THEN w - Capacity + 1 ELSE 1

=============================================================================
