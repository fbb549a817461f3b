----------------------------- MODULE SlotServer -----------------------------
(***************************************************************************)
(* The LocoNet slot server: which loco holds which slot, in what state,    *)
(* and what the throttles on the bus have been told of it.                 *)
(*                                                                         *)
(* Slots are fields of the LocoRepository's entries.  Every handler runs   *)
(* on core 1, one after the other; core 0 only marks an entry dirty, under *)
(* the repository lock, so a handler is one step.  The transmit queue is   *)
(* known by its length alone.  A throttle learns a slot's state from the   *)
(* SL_RD_DATA messages on the bus, all of which every throttle hears:      *)
(* told[s] says whether the last one accepted for slot s is still true.    *)
(*                                                                         *)
(* Time is one bit per entry: quiet, LN_SLOT_TIMEOUT_MS have passed since  *)
(* lastActivityMs.  Speeds, functions and step modes are left out.         *)
(***************************************************************************)
EXTENDS Integers, FiniteSets

CONSTANTS
    Addr,       \* loco addresses
    RepoSize,   \* LOCO_REPO_SIZE
    MaxSlot,    \* the highest slot, 120
    QueueSize,  \* LN_TX_QUEUE_SIZE
    NoAddr      \* the address of an entry that is not active

ASSUME SlotServerAssumption ==
    /\ RepoSize \in Nat /\ MaxSlot \in Nat \ {0} /\ QueueSize \in Nat \ {0}
    /\ NoAddr \notin Addr

NoSlot == 0
Slot   == 1 .. MaxSlot
Index  == 1 .. RepoSize
Stat   == {"FREE", "COMMON", "IDLE", "IN_USE"}
Entry  == [addr : Addr \cup {NoAddr}, slot : Slot \cup {NoSlot}, stat : Stat,
           quiet : BOOLEAN, dirty : BOOLEAN]

VARIABLES
    locos,          \* LocoRepository::_locos, the fields of LocoNet
    lastDispatched, \* _lastDispatchedSlot
    queued,         \* length of _txQueue
    told,           \* history: the bus has heard the present state of the slot
    leaked,         \* history: slots that changed in a way nobody announces
    parked,         \* history: the loco last put up for dispatch, until it changes
    astray          \* history: a dispatch get handed out another loco

slotVars == <<locos, lastDispatched, queued, told, leaked, parked, astray>>

Unused == [addr |-> NoAddr, slot |-> NoSlot, stat |-> "FREE",
           quiet |-> FALSE, dirty |-> FALSE]

Init ==
    /\ locos = [i \in Index |-> Unused]
    /\ lastDispatched = NoSlot /\ queued = 0
    /\ told = [s \in Slot |-> TRUE] /\ leaked = {}
    /\ parked = NoAddr /\ astray = FALSE

----------------------------------------------------------------------------
First(S) == CHOOSE i \in S : \A j \in S : i <= j

Of(a)      == {i \in Index : locos[i].addr = a}
Holders(s) == {i \in Index : locos[i].addr # NoAddr /\ locos[i].slot = s /\ s # NoSlot}
Places     == {i \in Index : locos[i].addr = NoAddr}

FindBySlot(s, i) == Holders(s) # {} /\ i = First(Holders(s))

(* Bug: a slot nobody drives counts as free. *)
FindFreeSlotNotInUse == {s \in Slot : \A i \in Holders(s) : locos[i].stat # "IN_USE"}

FindFreeSlot == {s \in Slot : Holders(s) = {}}

\* A new entry for address a, or the existing one: findOrCreate().
Created(a, i) ==
    IF Of(a) # {} THEN i = First(Of(a)) ELSE Places # {} /\ i = First(Places)

\* What SL_RD_DATA says of a slot.
View(repo, s) ==
    {<<repo[i].addr, repo[i].stat>> : i \in {j \in Index : repo[j].addr # NoAddr /\ repo[j].slot = s}}

\* _queueMsg(): a message that finds the queue full is dropped.
Capacity  == QueueSize - 1
(* Bug: the queue is not checked for room. *)
QueueNoLimit(q) == q + 1
Queue(q)  == IF q < Capacity THEN q + 1 ELSE q

\* OPC_BUSY and SL_RD_DATA go into the queue one after the other.
SendSlot(q) == Queue(Queue(q))
Heard(q)    == Queue(q) < Capacity

\* The bus hears of the slots in S; the others that change become untold,
\* and leak when nothing remembers that they must be announced.
Tell(S, silent) ==
    /\ told' = [s \in Slot |-> \/ s \in S
                               \/ told[s] /\ View(locos', s) = View(locos, s)]
    /\ leaked' = (leaked \cup silent) \ {s \in Slot : told'[s]}

SendSlotData(s) ==
    /\ queued' = SendSlot(queued)
    /\ IF Heard(queued) THEN Tell({s}, {}) ELSE Tell({}, {s} \cap Slot)

SendLack == queued' = Queue(queued) /\ Tell({}, {})

\* A loco put up for dispatch stops being so when its entry changes.
StaysParked ==
    parked' = IF \A i \in Of(parked) : locos'[i].addr = parked
                                       /\ locos'[i].slot = locos[i].slot
                                       /\ locos'[i].stat \in {"COMMON", "IDLE"}
              THEN parked ELSE NoAddr

----------------------------------------------------------------------------
\* The slot of an address, an existing one made IDLE, or a new one.
AssignSlot(a, i) ==
    /\ Created(a, i)
    /\ \/ /\ Of(a) # {} /\ locos[i].slot # NoSlot
          /\ locos' = [locos EXCEPT ![i].stat = "IDLE", ![i].quiet = FALSE]
       \/ /\ Of(a) = {} \/ locos[i].slot = NoSlot
          /\ FindFreeSlot # {}
          /\ locos' = [locos EXCEPT ![i] =
                         [addr |-> a, slot |-> First(FindFreeSlot), stat |-> "IDLE",
                          quiet |-> FALSE, dirty |-> FALSE]]

CannotAssign(a) ==
    \/ Of(a) = {} /\ Places = {}
    \/ (\A i \in Of(a) : locos[i].slot = NoSlot) /\ FindFreeSlot = {}

LocoAdr(a) ==
    \/ \E i \in Index :
          /\ AssignSlot(a, i)
          /\ SendSlotData(locos'[i].slot)
          /\ StaysParked
          /\ UNCHANGED <<lastDispatched, astray>>
    \/ /\ CannotAssign(a)
       /\ UNCHANGED <<locos, lastDispatched, parked, astray>>
       /\ SendLack

\* /loconet/dispatch on the web page: no message, and dirty is not set.
DispatchByAddress(a) ==
    \E i \in Index :
       /\ AssignSlot(a, i)
       /\ lastDispatched' = locos'[i].slot
       /\ parked' = a
       /\ Tell({}, {locos'[i].slot})
       /\ UNCHANGED <<queued, astray>>

NullMove(s) ==
    \/ \E i \in Index :
          /\ FindBySlot(s, i)
          /\ locos' = [locos EXCEPT ![i].stat = "IN_USE", ![i].quiet = FALSE,
                                    ![i].dirty = FALSE]
          /\ SendSlotData(s)
          /\ StaysParked
          /\ UNCHANGED <<lastDispatched, astray>>
    \/ /\ Holders(s) = {}
       /\ UNCHANGED <<locos, lastDispatched, parked, astray>>
       /\ SendLack

(* Bug: the slot that was put is not remembered. *)
DispatchPutUnrecorded(s) ==
    \/ \E i \in Index :
          /\ FindBySlot(s, i)
          /\ locos' = [locos EXCEPT ![i].stat = "COMMON", ![i].dirty = FALSE]
          /\ UNCHANGED lastDispatched
          /\ parked' = locos[i].addr
          /\ SendSlotData(s)
          /\ UNCHANGED astray
    \/ /\ Holders(s) = {}
       /\ UNCHANGED <<locos, lastDispatched, parked, astray>>
       /\ SendLack

DispatchPut(s) ==
    \/ \E i \in Index :
          /\ FindBySlot(s, i)
          /\ locos' = [locos EXCEPT ![i].stat = "COMMON", ![i].dirty = FALSE]
          /\ lastDispatched' = s
          /\ parked' = locos[i].addr
          /\ SendSlotData(s)
          /\ UNCHANGED astray
    \/ /\ Holders(s) = {}
       /\ UNCHANGED <<locos, lastDispatched, parked, astray>>
       /\ SendLack

Available == {i \in Index : locos[i].addr # NoAddr /\ locos[i].stat \in {"COMMON", "IDLE"}}

\* The slot that was put last, or else the first that is free to take.
Offer(i) ==
    LET put == Holders(lastDispatched) \cap Available
    IN  IF put # {} THEN i = First(put) ELSE i = First(Available)

DispatchGet ==
    \/ /\ Available # {}
       /\ \E i \in Index :
             /\ Offer(i)
             /\ locos' = [locos EXCEPT ![i].stat = "IDLE", ![i].dirty = FALSE]
             /\ lastDispatched' = IF lastDispatched = locos[i].slot THEN NoSlot
                                  ELSE lastDispatched
             /\ astray' = (astray \/ parked \notin {NoAddr, locos[i].addr})
             /\ parked' = IF parked = locos[i].addr THEN NoAddr ELSE parked
             /\ SendSlotData(locos[i].slot)
    \/ /\ Available = {}
       /\ UNCHANGED <<locos, lastDispatched, parked, astray>>
       /\ SendLack

\* OPC_MOVE_SLOTS with two different slots: the state of one loco is copied
\* onto the other, and the first loses its slot.
MoveSlots(src, dst) ==
    /\ \/ \E i, j \in Index :
             /\ FindBySlot(src, i) /\ FindBySlot(dst, j)
             /\ locos' = [locos EXCEPT ![j].stat = locos[i].stat, ![j].dirty = FALSE,
                                       ![i].stat = "FREE", ![i].slot = NoSlot,
                                       ![i].dirty = TRUE]
             /\ queued' = SendSlot(queued)
             /\ IF Heard(queued) THEN Tell({dst}, {src}) ELSE Tell({}, {src, dst})
       \/ /\ Holders(src) = {} \/ Holders(dst) = {}
          /\ UNCHANGED locos
          /\ SendSlotData(dst)
    /\ StaysParked
    /\ UNCHANGED <<lastDispatched, astray>>

RqSlotData(s) ==
    /\ UNCHANGED <<locos, lastDispatched, parked, astray>>
    /\ SendSlotData(s)

\* A throttle writes its ID into a slot; an ID other than zero claims it.
\* The answer is a LACK, and the slot is announced by Process.
WrSlotData(s, id) ==
    /\ \/ \E i \in Index :
             /\ FindBySlot(s, i)
             /\ locos' = [locos EXCEPT ![i].stat = IF id # 0 THEN "IN_USE" ELSE @,
                                       ![i].dirty = TRUE]
       \/ Holders(s) = {} /\ UNCHANGED locos
    /\ SendLack
    /\ StaysParked
    /\ UNCHANGED <<lastDispatched, astray>>

SlotStat1(s, stat) ==
    \E i \in Index :
       /\ FindBySlot(s, i)
       /\ locos' = [locos EXCEPT ![i].stat = stat, ![i].dirty = FALSE,
                                 ![i].slot = IF stat = "FREE" THEN NoSlot ELSE @]
       /\ SendSlotData(s)
       /\ StaysParked
       /\ UNCHANGED <<lastDispatched, astray>>

\* OPC_LINK_SLOTS and OPC_UNLINK_SLOTS only report both slots.
LinkSlots(s, t) ==
    /\ UNCHANGED <<locos, lastDispatched, parked, astray>>
    /\ queued' = SendSlot(SendSlot(queued))
    /\ LET heard == {x \in {s, t} : IF x = s THEN Heard(queued) ELSE Heard(SendSlot(queued))}
       IN  Tell(heard, {s, t} \ heard)

\* OPC_LOCO_SPD from a throttle that holds the slot.
LocoSpd(s) ==
    \E i \in Index :
       /\ FindBySlot(s, i) /\ locos[i].stat = "IN_USE"
       /\ locos' = [locos EXCEPT ![i].quiet = FALSE]
       /\ Tell({}, {})
       /\ UNCHANGED <<lastDispatched, queued, parked, astray>>

----------------------------------------------------------------------------
\* _flushQueue(): the bus takes messages until it is busy.
FlushQueue(n) ==
    /\ n \in 0 .. queued - 1 /\ queued' = n
    /\ UNCHANGED <<locos, lastDispatched, told, leaked, parked, astray>>

DirtySlots == {i \in Index : locos[i].addr # NoAddr /\ locos[i].dirty}
Announced  == {i \in DirtySlots : locos[i].slot # NoSlot /\ locos[i].stat # "FREE"}

\* The length of the queue before entry i of the dirty ones is announced.
QueuedBefore(i) ==
    LET n == 2 * Cardinality({j \in Announced : j < i})
    IN  IF queued + n > Capacity THEN Capacity ELSE queued + n

\* process(): every dirty slot is announced, in the order of the entries.
Process ==
    /\ DirtySlots # {}
    /\ locos' = [i \in Index |-> IF i \in DirtySlots THEN [locos[i] EXCEPT !.dirty = FALSE]
                                 ELSE locos[i]]
    /\ queued' = LET n == queued + 2 * Cardinality(Announced)
                 IN  IF n > Capacity THEN Capacity ELSE n
    /\ LET heard == {i \in Announced : Heard(QueuedBefore(i))}
       IN  Tell({locos[i].slot : i \in heard},
                {locos[i].slot : i \in Announced \ heard})
    /\ UNCHANGED <<lastDispatched, parked, astray>>

(* Bug: a claim that is given up is not announced. *)
Process100msSilent ==
    LET idle == {i \in Index : /\ locos[i].addr # NoAddr /\ locos[i].slot # NoSlot
                               /\ locos[i].stat = "IN_USE" /\ locos[i].quiet}
    IN  /\ idle # {}
        /\ locos' = [i \in Index |->
                       IF i \in idle THEN [locos[i] EXCEPT !.stat = "IDLE"]
                       ELSE locos[i]]
        /\ Tell({}, {})
        /\ UNCHANGED <<lastDispatched, queued, parked, astray>>

\* process100ms(): claims nobody used for LN_SLOT_TIMEOUT_MS are given up.
Process100ms ==
    LET idle == {i \in Index : /\ locos[i].addr # NoAddr /\ locos[i].slot # NoSlot
                               /\ locos[i].stat = "IN_USE" /\ locos[i].quiet}
    IN  /\ idle # {}
        /\ locos' = [i \in Index |->
                       IF i \in idle THEN [locos[i] EXCEPT !.stat = "IDLE", !.dirty = TRUE]
                       ELSE locos[i]]
        /\ Tell({}, {})
        /\ UNCHANGED <<lastDispatched, queued, parked, astray>>

GoQuiet(i) ==
    /\ locos[i].addr # NoAddr /\ locos[i].slot # NoSlot /\ ~locos[i].quiet
    /\ locos' = [locos EXCEPT ![i].quiet = TRUE]
    /\ Tell({}, {})
    /\ UNCHANGED <<lastDispatched, queued, parked, astray>>

----------------------------------------------------------------------------
\* Other modules: a loco driven from XpressNet gets an entry without a slot,
OtherModuleCreates(a) ==
    /\ Of(a) = {} /\ Places # {}
    /\ locos' = [locos EXCEPT ![First(Places)] = [Unused EXCEPT !.addr = a]]
    /\ UNCHANGED <<lastDispatched, queued, told, leaked, parked, astray>>

\* core 0 passes a command for it on to LocoNet,
MarkLnDirty(a) ==
    \E i \in Of(a) :
       /\ locos[i].slot # NoSlot /\ ~locos[i].dirty
       /\ locos' = [locos EXCEPT ![i].dirty = TRUE]
       /\ UNCHANGED <<lastDispatched, queued, told, leaked, parked, astray>>

\* a client removes it from the stack, slot and all,
Release(a) ==
    \E i \in Of(a) :
       /\ locos' = [locos EXCEPT ![i] = Unused]
       /\ Tell({}, {locos[i].slot} \cap Slot)
       /\ StaysParked
       /\ UNCHANGED <<lastDispatched, queued, astray>>

\* or the web page clears the whole table.
ClearAll ==
    /\ Places # Index
    /\ locos' = [i \in Index |-> Unused]
    /\ Tell({}, Slot)
    /\ StaysParked
    /\ UNCHANGED <<lastDispatched, queued, astray>>

Throttles ==
    \/ \E a \in Addr : LocoAdr(a)
    \/ \E s \in Slot : NullMove(s) \/ DispatchPut(s) \/ RqSlotData(s) \/ LocoSpd(s)
    \/ DispatchGet
    \/ \E s, t \in Slot : s # t /\ (MoveSlots(s, t) \/ LinkSlots(s, t))
    \/ \E s \in Slot, id \in {0, 1} : WrSlotData(s, id)
    \/ \E s \in Slot, stat \in Stat : SlotStat1(s, stat)

Station ==
    \/ \E n \in 0 .. QueueSize : FlushQueue(n)
    \/ Process \/ Process100ms
    \/ \E i \in Index : GoQuiet(i)

Others ==
    \/ \E a \in Addr : DispatchByAddress(a) \/ OtherModuleCreates(a) \/ MarkLnDirty(a)
                       \/ Release(a)
    \/ ClearAll

Next == Throttles \/ Station \/ Others

Spec == Init /\ [][Next]_slotVars

----------------------------------------------------------------------------
TypeOK ==
    /\ locos \in [Index -> Entry]
    /\ lastDispatched \in Slot \cup {NoSlot}
    /\ queued \in 0 .. Capacity
    /\ told \in [Slot -> BOOLEAN] /\ leaked \subseteq Slot
    /\ parked \in Addr \cup {NoAddr} /\ astray \in BOOLEAN

\* No two locos share a slot or an address, and an entry has a slot exactly
\* when it is not FREE: _findFreeSlot(), findOrCreate() and every way to give
\* a slot up keep findBySlot() unambiguous.
SlotsDistinct ==
    \A i, j \in Index : locos[i].addr # NoAddr =>
       /\ locos[i].slot = NoSlot <=> locos[i].stat = "FREE"
       /\ i # j => /\ locos[j].addr # locos[i].addr
                   /\ locos[i].slot # NoSlot => locos[j].slot # locos[i].slot

\* What throttles last heard of a slot is true, or the slot is about to be
\* announced by process(), or it changed in one of the ways that announce
\* nothing: a dispatch from the web page, the source of a move, a removed
\* entry, a full queue.
BusKnows ==
    \A s \in Slot : \/ told[s] \/ s \in leaked
                    \/ \E i \in Holders(s) : locos[i].dirty

\* A dispatch get hands out the loco that was put up last, if it is still
\* there to take, whatever else is free.
GetHandsOutThePut ==
    ~astray

\* A slot that is claimed counts as just used, so that the claim is not given
\* up at the next tick (LN_SLOT_TIMEOUT_MS, "2 minutes idle").
ClaimIsFresh ==
    [][\A i \in Index : locos'[i].stat = "IN_USE" /\ locos[i].stat # "IN_USE"
                        => ~locos'[i].quiet]_slotVars
=============================================================================
