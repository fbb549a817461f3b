------------------------------ MODULE CommandBus ------------------------------
(***************************************************************************)
(* CommandBus (command_bus.cpp): the lock-free ring that carries commands  *)
(* from the protocol modules on core 1 to DccHal and the LocoNet module on *)
(* core 0, together with its log of dropped commands.                      *)
(*                                                                         *)
(* _push() and _pop() are split at their accesses to the shared memory:    *)
(*   push:  test for full | write the slot, __dmb() | store _head          *)
(*   pop:   test for empty | copy the slot, __dmb() | store _tail          *)
(* Each core runs one of them at a time and the other core may take any    *)
(* number of steps in between.                                             *)
(***************************************************************************)
EXTENDS RingIndex, Sequences

CONSTANTS
    Command,       \* the commands (contents are irrelevant to the bus)
    None,          \* an unused slot or register
    DropLogSize,   \* CMD_BUS_DROP_LOG_SIZE
    MaxDispatch    \* bound on the number of dispatch() calls of a behaviour

ASSUME CommandBusAssumption ==
    /\ None \notin Command
    /\ DropLogSize \in Nat \ {0}
    /\ MaxDispatch \in Nat

VARIABLES
    ring,          \* _ring
    head,          \* _head, stored by core 1 only
    tail,          \* _tail, stored by core 0 only
    pushPc,        \* where core 1 is in _push()
    pushCmd,       \* the command core 1 is pushing
    pushNext,      \* its local `next`
    popPc,         \* where core 0 is in _pop()
    popCmd,        \* the command core 0 copied out
    dropLog,       \* _dropLog
    dropHead,      \* _dropLogHead
    dropCount,     \* _dropLogCount
    dropTotal,     \* _dropTotal
    accepted,      \* history: commands whose dispatch() returned true
    delivered,     \* history: commands handed to the handlers
    refused        \* history: commands whose dispatch() returned false

ringVars == <<ring, head, tail>>
pushVars == <<pushPc, pushCmd, pushNext>>
popVars  == <<popPc, popCmd>>
dropVars == <<dropLog, dropHead, dropCount, dropTotal, refused>>
vars     == <<ringVars, pushVars, popVars, dropVars, accepted, delivered>>

(* begin(): both indices 0, nothing in flight. *)
Init ==
    /\ ring = [i \in Index |-> None]
    /\ head = 0 /\ tail = 0
    /\ pushPc = "idle" /\ pushCmd = None /\ pushNext = 0
    /\ popPc = "idle" /\ popCmd = None
    /\ dropLog = [i \in 0 .. DropLogSize - 1 |-> None]
    /\ dropHead = 0 /\ dropCount = 0 /\ dropTotal = 0
    /\ accepted = <<>> /\ delivered = <<>> /\ refused = <<>>

-----------------------------------------------------------------------------
(* Bugs the properties must notice; none of them is used by Next. *)

(* Filling the ring to the last slot, so that full looks like empty. *)
PushTestNoFreeSlot(c) ==
    /\ pushPc = "idle"
    /\ Len(accepted) + Len(refused) < MaxDispatch
    /\ pushPc' = "write" /\ pushCmd' = c /\ pushNext' = NextIndex(head)
    /\ UNCHANGED <<ringVars, popVars, dropVars, accepted, delivered>>

(* Advancing the local index before the slot is written. *)
PushWriteNextSlot ==
    /\ pushPc = "write"
    /\ ring' = [ring EXCEPT ![pushNext] = pushCmd]
    /\ pushPc' = "commit"
    /\ UNCHANGED <<head, tail, pushCmd, pushNext, popVars, dropVars,
                   accepted, delivered>>

(* Advancing _tail before the slot is copied. *)
PopCopyAfterAdvance ==
    /\ popPc = "copy"
    /\ popCmd' = ring[NextIndex(tail)]
    /\ popPc' = "advance"
    /\ UNCHANGED <<ringVars, pushVars, dropVars, accepted, delivered>>

-----------------------------------------------------------------------------
(* core 1 *)

RecordDrop(c) ==
    /\ dropTotal' = dropTotal + 1
    /\ dropLog'   = [dropLog EXCEPT ![dropHead] = c]
    /\ dropHead'  = (dropHead + 1) % DropLogSize
    /\ dropCount' = IF dropCount < DropLogSize THEN dropCount + 1 ELSE dropCount
    /\ refused'   = Append(refused, c)

(* dispatch() finds the ring full: the command is logged and refused. *)
PushDrop(c) ==
    /\ pushPc = "idle"
    /\ Len(accepted) + Len(refused) < MaxDispatch
    /\ NextIndex(head) = tail
    /\ RecordDrop(c)
    /\ UNCHANGED <<ringVars, pushVars, popVars, accepted, delivered>>

(* dispatch() finds room. *)
PushTest(c) ==
    /\ pushPc = "idle"
    /\ Len(accepted) + Len(refused) < MaxDispatch
    /\ NextIndex(head) # tail
    /\ pushPc' = "write" /\ pushCmd' = c /\ pushNext' = NextIndex(head)
    /\ UNCHANGED <<ringVars, popVars, dropVars, accepted, delivered>>

PushWrite ==
    /\ pushPc = "write"
    /\ ring' = [ring EXCEPT ![head] = pushCmd]
    /\ pushPc' = "commit"
    /\ UNCHANGED <<head, tail, pushCmd, pushNext, popVars, dropVars,
                   accepted, delivered>>

PushCommit ==
    /\ pushPc = "commit"
    /\ head' = pushNext
    /\ accepted' = Append(accepted, pushCmd)
    /\ pushPc' = "idle" /\ pushCmd' = None
    /\ UNCHANGED <<ring, tail, pushNext, popVars, dropVars, delivered>>

-----------------------------------------------------------------------------
(* core 0: one turn of the while loop of poll() *)

PopTest ==
    /\ popPc = "idle"
    /\ head # tail
    /\ popPc' = "copy"
    /\ UNCHANGED <<ringVars, pushVars, popCmd, dropVars, accepted, delivered>>

PopCopy ==
    /\ popPc = "copy"
    /\ popCmd' = ring[tail]
    /\ popPc' = "advance"
    /\ UNCHANGED <<ringVars, pushVars, dropVars, accepted, delivered>>

PopAdvance ==
    /\ popPc = "advance"
    /\ tail' = NextIndex(tail)
    /\ delivered' = Append(delivered, popCmd)
    /\ popPc' = "idle" /\ popCmd' = None
    /\ UNCHANGED <<ring, head, pushVars, dropVars, accepted>>

-----------------------------------------------------------------------------
Core1 == (\E c \in Command : PushDrop(c) \/ PushTest(c)) \/ PushWrite \/ PushCommit
Core0 == PopTest \/ PopCopy \/ PopAdvance
Next  == Core1 \/ Core0

Spec     == Init /\ [][Next]_vars
(* Core 0 calls poll() on every pass of loopCore0(), and a push that has   *)
(* begun is straight-line code; nobody is obliged to dispatch.             *)
FairSpec == Spec /\ WF_vars(Core0) /\ WF_vars(PushWrite \/ PushCommit)

-----------------------------------------------------------------------------
TypeOK ==
    /\ ring \in [Index -> Command \cup {None}]
    /\ head \in Index /\ tail \in Index
    /\ pushPc \in {"idle", "write", "commit"}
    /\ pushCmd \in Command \cup {None} /\ pushNext \in Index
    /\ popPc \in {"idle", "copy", "advance"}
    /\ popCmd \in Command \cup {None}
    /\ dropLog \in [0 .. DropLogSize - 1 -> Command \cup {None}]
    /\ dropHead \in 0 .. DropLogSize - 1
    /\ dropCount \in 0 .. DropLogSize /\ dropTotal \in Nat
    /\ accepted \in Seq(Command) /\ delivered \in Seq(Command)
    /\ refused \in Seq(Command)

(* The ring never lets the two cores touch one slot at the same time:      *)
(* while core 0 copies a slot out, core 1 is not filling that slot.        *)
NoSlotRace == ~(pushPc = "write" /\ popPc = "copy" /\ head = tail)

(* Between _tail and _head lie exactly the accepted commands that have not *)
(* been delivered, oldest first: nothing is lost, repeated or overwritten  *)
(* while it waits.                                                         *)
RingHoldsBacklog ==
    /\ Len(accepted) = Len(delivered) + Occupancy(head, tail)
    /\ \A j \in Index : j < Occupancy(head, tail) =>
           ring[SlotAt(tail, j)] = accepted[Len(delivered) + 1 + j]

(* dropLogEntry(i): the i-th most recent refused command. *)
DropLogEntry(i) == dropLog[(dropHead + DropLogSize - 1 - i) % DropLogSize]

(* What the web interface lists is the newest dropped commands, newest     *)
(* first, and the lifetime counter counts each of them once.               *)
DropLogIsNewest ==
    /\ dropTotal = Len(refused)
    /\ \A i \in 0 .. dropCount - 1 :
           DropLogEntry(i) = refused[Len(refused) - i]

(* The ring implements the bus of BusSpec with RingSize - 1 places.        *)
Abstract == INSTANCE BusSpec WITH
    Message <- Command, Capacity <- RingSize - 1,
    sent <- accepted, got <- delivered
ImplementsBus == Abstract!Spec

(* Every accepted command reaches the handlers, however core 1 goes on.    *)
AllDelivered == \A n \in 1 .. MaxDispatch :
    (Len(accepted) >= n) ~> (Len(delivered) >= n)
=============================================================================
