------------------------------ MODULE RingIndex ------------------------------
(***************************************************************************)
(* Index arithmetic of the two lock-free rings (command_bus.cpp and        *)
(* event_bus.cpp).  Both rings keep one slot free, so that _head = _tail   *)
(* means empty and (_head + 1) % SIZE = _tail means full.                  *)
(***************************************************************************)
EXTENDS Naturals

CONSTANT RingSize    \* CMD_BUS_RING_SIZE / EVT_BUS_RING_SIZE

(* A ring of one slot could never hold a message; the code uses 32. *)
ASSUME RingSizeAssumption == RingSize \in Nat /\ RingSize >= 2

Index == 0 .. RingSize - 1

(* Bug the properties must notice: the index is not wrapped. *)
NextIndexNoWrap(i) == i + 1

NextIndex(i) == (i + 1) % RingSize

(* Number of filled slots between the read index t and the write index h. *)
Occupancy(h, t) == IF h >= t THEN h - t ELSE h - t + RingSize

(* The slot that holds the j-th message (0 = oldest) behind read index t. *)
SlotAt(t, j) == IF t + j < RingSize THEN t + j ELSE t + j - RingSize
=============================================================================
