------------------------------- MODULE EventBus -------------------------------
(***************************************************************************)
(* EventBus (event_bus.cpp): the lock-free ring that carries events to the *)
(* protocol modules, which core 1 hands them to in poll().  Publisher is   *)
(* the set of cores that call publish(): the header says core 0 only, but  *)
(* SlotServer (slot_server.cpp:950, 1433, 1444, 1461) runs on core 1 and   *)
(* publishes too.  Both cores run the same _push(), each with its own      *)
(* local `next`.                                                           *)
(*                                                                         *)
(* _push() and _pop() are split at their accesses to the shared memory, as *)
(* in CommandBus.  Core 1 is one thread: it does not start a push in the   *)
(* middle of its own pop, nor a pop in the middle of its own push.         *)
(***************************************************************************)
EXTENDS RingIndex, Sequences, FiniteSets

CONSTANTS
    Event,         \* the events (contents are irrelevant to the bus)
    None,          \* an unused slot or register
    Publisher,     \* the cores that call publish(), a subset of Core
    MaxPublish     \* bound on the number of accepted events

Core == {0, 1}

VARIABLES
    ring,          \* _ring
    head,          \* _head, stored by whoever publishes
    tail,          \* _tail, stored by core 1 only
    pushPc,        \* per core: where it is in _push()
    pushEv,        \* per core: the event it is publishing
    pushNext,      \* per core: its local `next`
    popPc,         \* where core 1 is in _pop()
    popEv,         \* the event core 1 copied out
    accepted,      \* history: events whose publish() returned true
    delivered      \* history: events handed to the handlers

ringVars == <<ring, head, tail>>
pushVars == <<pushPc, pushEv, pushNext>>
popVars  == <<popPc, popEv>>
vars     == <<ringVars, pushVars, popVars, accepted, delivered>>

Init ==
    /\ ring = [i \in Index |-> None]
    /\ head = 0 /\ tail = 0
    /\ pushPc   = [p \in Core |-> "idle"]
    /\ pushEv   = [p \in Core |-> None]
    /\ pushNext = [p \in Core |-> 0]
    /\ popPc = "idle" /\ popEv = None
    /\ accepted = <<>> /\ delivered = <<>>

-----------------------------------------------------------------------------
(* Bugs the properties must notice; none of them is used by Next. *)

(* The store to _head is moved in front of the write of the slot: another  *)
(* pop sees the slot before its contents are there.                        *)
PushWriteAfterCommit(p) ==
    /\ pushPc[p] = "write"
    /\ head' = pushNext[p]
    /\ accepted' = Append(accepted, pushEv[p])
    /\ pushPc' = [pushPc EXCEPT ![p] = "commit"]
    /\ UNCHANGED <<ring, tail, pushEv, pushNext, popVars, delivered>>

(* _tail is stored without wrapping at the end of the ring. *)
PopAdvanceNoWrap ==
    /\ popPc = "advance"
    /\ tail' = tail + 1
    /\ delivered' = Append(delivered, popEv)
    /\ popPc' = "idle" /\ popEv' = None
    /\ UNCHANGED <<ring, head, pushVars, accepted>>

(* poll() stops one event early (leaves the last one in the ring). *)
PopTestLeaveOne ==
    /\ popPc = "idle" /\ pushPc[1] = "idle"
    /\ Occupancy(head, tail) > 1
    /\ popPc' = "copy"
    /\ UNCHANGED <<ringVars, pushVars, popEv, accepted, delivered>>

-----------------------------------------------------------------------------
(* publish() on core p; a full ring makes it return false, with no effect. *)

PushTest(p, e) ==
    /\ pushPc[p] = "idle" /\ (p = 1 => popPc = "idle")
    /\ Len(accepted) < MaxPublish
    /\ NextIndex(head) # tail
    /\ pushPc'   = [pushPc EXCEPT ![p] = "write"]
    /\ pushEv'   = [pushEv EXCEPT ![p] = e]
    /\ pushNext' = [pushNext EXCEPT ![p] = NextIndex(head)]
    /\ UNCHANGED <<ringVars, popVars, accepted, delivered>>

(* `_ring[_head] = ev` reads _head again: not necessarily the value tested. *)
PushWrite(p) ==
    /\ pushPc[p] = "write"
    /\ ring' = [ring EXCEPT ![head] = pushEv[p]]
    /\ pushPc' = [pushPc EXCEPT ![p] = "commit"]
    /\ UNCHANGED <<head, tail, pushEv, pushNext, popVars, accepted, delivered>>

PushCommit(p) ==
    /\ pushPc[p] = "commit"
    /\ head' = pushNext[p]
    /\ accepted' = Append(accepted, pushEv[p])
    /\ pushPc' = [pushPc EXCEPT ![p] = "idle"]
    /\ pushEv' = [pushEv EXCEPT ![p] = None]
    /\ UNCHANGED <<ring, tail, pushNext, popVars, delivered>>

-----------------------------------------------------------------------------
(* core 1: one turn of the while loop of poll() *)

PopTest ==
    /\ popPc = "idle" /\ pushPc[1] = "idle"
    /\ head # tail
    /\ popPc' = "copy"
    /\ UNCHANGED <<ringVars, pushVars, popEv, accepted, delivered>>

PopCopy ==
    /\ popPc = "copy"
    /\ popEv' = ring[tail]
    /\ popPc' = "advance"
    /\ UNCHANGED <<ringVars, pushVars, accepted, delivered>>

PopAdvance ==
    /\ popPc = "advance"
    /\ tail' = NextIndex(tail)
    /\ delivered' = Append(delivered, popEv)
    /\ popPc' = "idle" /\ popEv' = None
    /\ UNCHANGED <<ring, head, pushVars, accepted>>

-----------------------------------------------------------------------------
Poll == PopTest \/ PopCopy \/ PopAdvance
Publish(p) == (\E e \in Event : PushTest(p, e)) \/ PushWrite(p) \/ PushCommit(p)
Next == (\E p \in Publisher : Publish(p)) \/ Poll

Spec == Init /\ [][Next]_vars
(* loop1() calls poll() on every pass; a push that has begun is            *)
(* straight-line code; nobody is obliged to publish.                       *)
FairSpec ==
    /\ Spec
    /\ WF_vars(Poll)
    /\ \A p \in Publisher : WF_vars(PushWrite(p) \/ PushCommit(p))

-----------------------------------------------------------------------------
TypeOK ==
    /\ ring \in [Index -> Event \cup {None}]
    /\ head \in Index /\ tail \in Index
    /\ pushPc \in [Core -> {"idle", "write", "commit"}]
    /\ pushEv \in [Core -> Event \cup {None}]
    /\ pushNext \in [Core -> Index]
    /\ popPc \in {"idle", "copy", "advance"}
    /\ popEv \in Event \cup {None}
    /\ accepted \in Seq(Event) /\ delivered \in Seq(Event \cup {None})

(* event_bus.h:12, 48-49: with one producer, publish() returning true      *)
(* means that the event is in the ring until a handler has it: between     *)
(* _tail and _head lie exactly the accepted, undelivered events, in order. *)
RingHoldsBacklog ==
    /\ Len(accepted) = Len(delivered) + Occupancy(head, tail)
    /\ \A j \in Index : j < Occupancy(head, tail) =>
           ring[SlotAt(tail, j)] = accepted[Len(delivered) + 1 + j]

(* event_bus.cpp:_push/_pop: the ring is the bounded FIFO of BusSpec.      *)
Abstract == INSTANCE BusSpec WITH
    Message <- Event, Capacity <- RingSize - 1,
    sent <- accepted, got <- delivered
ImplementsBus == Abstract!Spec

(* event_bus.cpp:poll(): every accepted event reaches the handlers.        *)
AllDelivered == \A n \in 1 .. MaxPublish :
    (Len(accepted) >= n) ~> (Len(delivered) >= n)
=============================================================================
