---------------------------- MODULE MCSlotServer ----------------------------
(* Three locos, three entries and two slots: the slots run out while the    *)
(* repository has room, and a loco may get an entry without a slot.  The    *)
(* queue has room for one slot report and a half.  Locos are                *)
(* interchangeable.                                                         *)
EXTENDS SlotServer, TLC
Locos == Permutations(Addr)
=============================================================================
