--------------------------- MODULE SlotServerProofs ---------------------------
(***************************************************************************)
(* For any locos, repository, number of slots and transmit queue: the      *)
(* slot server keeps its types, no two locos share a slot, and the         *)
(* throttles know a slot's state or are about to be told, but for the ways *)
(* BusKnows names; and a dispatch get hands out the loco put up last.      *)
(*                                                                         *)
(* A step changes few entries.  It either takes something away from an     *)
(* entry (Shrinks) or gives a new slot or address to one, and what changes *)
(* in a slot is announced, leaked or marked dirty (Noted).  Two lemmas     *)
(* turn these into the invariant; every action is shown to be of the kind. *)
(***************************************************************************)
EXTENDS SlotServer, TLAPS, FiniteSetTheorems, WellFoundedInduction

(* The smallest number of a set, which the code finds by a search. *)
LEMMA LessWellFounded ==
    IsWellFoundedOn({ss \in Nat \X Nat : ss[1] < ss[2]}, Nat)
BY NatLessThanWellFounded DEF OpToRel

LEMMA FirstIn ==
    ASSUME NEW S \in SUBSET Nat, S # {}
    PROVE  First(S) \in S
<1> DEFINE Less == {ss \in Nat \X Nat : ss[1] < ss[2]}
<1>1. PICK x \in S : \A y \in S : ~(<<y, x>> \in Less)
  BY LessWellFounded, WFMin
<1>2. \A y \in S : x <= y
  <2> SUFFICES ASSUME NEW y \in S, y < x PROVE FALSE
    OBVIOUS
  <2>1. <<y, x>> \in Less
    OBVIOUS
  <2> QED BY <1>1, <2>1
<1> QED BY <1>2 DEF First

-----------------------------------------------------------------------------
(* An entry that is not in use holds no slot. *)
Clean == \A k \in Index : locos[k].addr = NoAddr => locos[k].slot = NoSlot

IInv == TypeOK /\ SlotsDistinct /\ Clean /\ BusKnows

Consistent(e) == e.slot = NoSlot <=> e.stat = "FREE"

(* An entry keeps its address and its slot or loses them. *)
Shrinks(k) ==
    /\ locos'[k].addr \in {locos[k].addr, NoAddr}
    /\ locos'[k].slot \in {locos[k].slot, NoSlot}
    /\ IF locos'[k].addr = NoAddr THEN locos'[k].slot = NoSlot
       ELSE Consistent(locos'[k])

(* What changes in an entry is about the slots of T, or is marked. *)
Noted(k, T) ==
    \/ /\ locos[k].addr = NoAddr \/ locos[k].slot \in T \cup {NoSlot}
       /\ locos'[k].addr = NoAddr \/ locos'[k].slot \in T \cup {NoSlot}
    \/ /\ locos'[k].addr = locos[k].addr /\ locos'[k].slot = locos[k].slot
       /\ \/ locos'[k].stat = locos[k].stat /\ (locos[k].dirty => locos'[k].dirty)
          \/ locos'[k].dirty

ControlOK ==
    /\ lastDispatched \in Slot \cup {NoSlot}
    /\ queued \in 0 .. Capacity
    /\ parked \in Addr \cup {NoAddr} /\ astray \in BOOLEAN

LEMMA Distinct ==
    ASSUME IInv, \A k \in Index : Shrinks(k)
    PROVE  SlotsDistinct' /\ Clean'
<1>1. Clean'
  BY DEF Shrinks, Clean
<1>2. SlotsDistinct'
  <2> SUFFICES ASSUME NEW i \in Index, NEW j \in Index, locos'[i].addr # NoAddr
               PROVE  /\ locos'[i].slot = NoSlot <=> locos'[i].stat = "FREE"
                      /\ i # j => /\ locos'[j].addr # locos'[i].addr
                                  /\ locos'[i].slot # NoSlot => locos'[j].slot # locos'[i].slot
    BY DEF SlotsDistinct, Index
  <2>1. Shrinks(i) /\ Shrinks(j) /\ SlotsDistinct
    BY DEF IInv
  <2> QED BY <2>1 DEF Shrinks, Consistent, SlotsDistinct
<1> QED BY <1>1, <1>2

(* The entry of i becomes that of loco a, in slot s or in none. *)
LEMMA DistinctNew ==
    ASSUME IInv, NEW i \in Index, NEW a \in Addr, NEW s \in Slot \cup {NoSlot},
           locos'[i].addr = a, locos'[i].slot = s, Consistent(locos'[i]),
           \A k \in Index \ {i} :
              /\ locos'[k] = locos[k] /\ locos[k].addr # a
              /\ s # NoSlot => locos[k].addr = NoAddr \/ locos[k].slot # s
    PROVE  SlotsDistinct' /\ Clean'
<1> USE SlotServerAssumption
<1>1. Clean'
  BY DEF Clean, IInv
<1>2. \A k \in Index \ {i} : s # NoSlot => locos[k].slot # s
  BY DEF IInv, Clean
<1>3. SlotsDistinct'
  <2> SUFFICES ASSUME NEW x \in Index, NEW y \in Index, locos'[x].addr # NoAddr
               PROVE  /\ locos'[x].slot = NoSlot <=> locos'[x].stat = "FREE"
                      /\ x # y => /\ locos'[y].addr # locos'[x].addr
                                  /\ locos'[x].slot # NoSlot => locos'[y].slot # locos'[x].slot
    BY DEF SlotsDistinct, Index
  <2>1. SlotsDistinct
    BY DEF IInv
  <2>2. CASE x = i
    BY <1>2, <2>2 DEF Consistent
  <2>3. CASE x # i
    BY <1>2, <2>1, <2>3 DEF SlotsDistinct
  <2> QED BY <2>2, <2>3
<1> QED BY <1>1, <1>3

LEMMA Told ==
    ASSUME IInv, NEW S \in SUBSET Slot, NEW silent \in SUBSET Slot, Tell(S, silent),
           \A k \in Index : Noted(k, S \cup silent)
    PROVE  /\ told' \in [Slot -> BOOLEAN] /\ leaked' \subseteq Slot
           /\ BusKnows'
<1>1. told' \in [Slot -> BOOLEAN]
  BY DEF Tell, IInv, TypeOK
<1>2. leaked' \subseteq Slot
  BY DEF Tell, IInv, TypeOK
<1>3. BusKnows'
  <2> SUFFICES ASSUME NEW s \in Slot, ~told'[s], s \notin leaked'
               PROVE  \E k \in Index : /\ locos'[k].addr # NoAddr /\ locos'[k].slot = s
                                       /\ s # NoSlot /\ locos'[k].dirty
    BY DEF BusKnows, Holders, Slot
  <2>1. s \notin S /\ s \notin silent /\ s \notin leaked /\ s # NoSlot
    BY SlotServerAssumption DEF Tell, Slot, NoSlot
  <2>2. \A k \in Index :
           \/ locos[k].addr # NoAddr /\ locos[k].slot = s
           \/ locos'[k].addr # NoAddr /\ locos'[k].slot = s
           => /\ locos'[k].addr = locos[k].addr /\ locos'[k].slot = locos[k].slot
              /\ \/ locos'[k].stat = locos[k].stat /\ (locos[k].dirty => locos'[k].dirty)
                 \/ locos'[k].dirty
    BY <2>1 DEF Noted
  <2>3. CASE told[s]
    <3>1. View(locos', s) # View(locos, s)
      BY <2>1, <2>3 DEF Tell
    <3>2. CASE \A k \in Index : locos[k].addr # NoAddr /\ locos[k].slot = s =>
                                    locos'[k].stat = locos[k].stat
      <4>1. {j \in Index : locos'[j].addr # NoAddr /\ locos'[j].slot = s}
              = {j \in Index : locos[j].addr # NoAddr /\ locos[j].slot = s}
        BY <2>2
      <4>2. View(locos', s) = View(locos, s)
        BY <4>1, <2>2, <3>2 DEF View
      <4> QED BY <3>1, <4>2
    <3>3. CASE \E k \in Index : /\ locos[k].addr # NoAddr /\ locos[k].slot = s
                                /\ locos'[k].stat # locos[k].stat
      BY <2>1, <2>2, <3>3
    <3> QED BY <3>2, <3>3
  <2>4. CASE ~told[s]
    <3>1. PICK k \in Index : locos[k].addr # NoAddr /\ locos[k].slot = s /\ locos[k].dirty
      BY <2>1, <2>4 DEF IInv, BusKnows, Holders
    <3> QED BY <2>1, <2>2, <3>1
  <2> QED BY <2>3, <2>4
<1> QED BY <1>1, <1>2, <1>3

(* A step that tells the bus of S and keeps silent of silent. *)
LEMMA StepKeeps ==
    ASSUME IInv, locos' \in [Index -> Entry], ControlOK',
           NEW S \in SUBSET Slot, NEW silent \in SUBSET Slot, Tell(S, silent),
           \A k \in Index : Shrinks(k) /\ Noted(k, S \cup silent)
    PROVE  IInv'
<1>1. SlotsDistinct' /\ Clean'
  BY Distinct
<1>2. told' \in [Slot -> BOOLEAN] /\ leaked' \subseteq Slot /\ BusKnows'
  BY Told
<1> QED BY <1>1, <1>2 DEF IInv, TypeOK, ControlOK

-----------------------------------------------------------------------------
(* The transmit queue. *)
LEMMA QueueFits ==
    ASSUME IInv
    PROVE  Queue(queued) \in 0 .. Capacity /\ SendSlot(queued) \in 0 .. Capacity
           /\ SendSlot(SendSlot(queued)) \in 0 .. Capacity
<1>1. Capacity \in Nat /\ queued \in 0 .. Capacity
  BY SlotServerAssumption DEF Capacity, IInv, TypeOK
<1>2. \A q \in 0 .. Capacity : Queue(q) \in 0 .. Capacity
  BY <1>1 DEF Queue
<1> QED BY <1>1, <1>2 DEF SendSlot

LEMMA Announces ==
    ASSUME IInv, NEW s \in Slot, SendSlotData(s)
    PROVE  /\ queued' \in 0 .. Capacity
           /\ Tell({s}, {}) \/ Tell({}, {s})
<1>1. {s} \cap Slot = {s}
  OBVIOUS
<1> QED BY <1>1, QueueFits DEF SendSlotData

LEMMA Lacks ==
    ASSUME IInv, SendLack
    PROVE  queued' \in 0 .. Capacity /\ Tell({}, {})
BY QueueFits DEF SendLack

LEMMA Parks ==
    ASSUME IInv, StaysParked
    PROVE  parked' \in Addr \cup {NoAddr}
BY DEF IInv, TypeOK, StaysParked

(* A step that changes no entry. *)
LEMMA NothingKeeps ==
    ASSUME IInv, UNCHANGED locos, ControlOK',
           NEW S \in SUBSET Slot, NEW silent \in SUBSET Slot, Tell(S, silent)
    PROVE  IInv'
<1>1. locos \in [Index -> Entry] /\ SlotsDistinct /\ Clean
  BY DEF IInv, TypeOK
<1>2. \A k \in Index : Noted(k, S \cup silent)
  BY DEF Noted
<1>3. \A k \in Index : Shrinks(k)
  BY <1>1 DEF Shrinks, SlotsDistinct, Clean, Consistent
<1> QED BY <1>1, <1>2, <1>3, StepKeeps

(* A step that announces slot s, whose entry i may lose it. *)
LEMMA OneEntryKeeps ==
    ASSUME IInv, NEW i \in Index, NEW s \in Slot, SendSlotData(s),
           locos' \in [Index -> Entry], \A k \in Index \ {i} : locos'[k] = locos[k],
           locos[i].addr # NoAddr, locos[i].slot = s,
           locos'[i].addr = locos[i].addr, locos'[i].slot \in {s, NoSlot},
           Consistent(locos'[i]),
           lastDispatched' \in Slot \cup {NoSlot},
           parked' \in Addr \cup {NoAddr}, astray' \in BOOLEAN
    PROVE  IInv'
<1>1. locos \in [Index -> Entry] /\ SlotsDistinct /\ Clean
  BY DEF IInv, TypeOK
<1>2. \A k \in Index : Shrinks(k)
  BY <1>1 DEF Shrinks, SlotsDistinct, Clean, Consistent
<1>3. \A k \in Index, T \in SUBSET Slot : s \in T => Noted(k, T)
  BY DEF Noted
<1>4. ControlOK'
  BY Announces DEF ControlOK
<1>5. CASE Tell({s}, {})
  <2>1. \A k \in Index : Noted(k, {s} \cup {})
    BY <1>3
  <2> QED BY <1>2, <1>4, <1>5, <2>1, StepKeeps
<1>6. CASE Tell({}, {s})
  <2>1. \A k \in Index : Noted(k, {} \cup {s})
    BY <1>3
  <2> QED BY <1>2, <1>4, <1>6, <2>1, StepKeeps
<1> QED BY <1>5, <1>6, Announces

-----------------------------------------------------------------------------
(* What the searches of the code find. *)
LEMMA FindsHolder ==
    ASSUME NEW s \in Slot, NEW i \in Index, FindBySlot(s, i)
    PROVE  locos[i].addr # NoAddr /\ locos[i].slot = s
<1>1. Holders(s) \in SUBSET Nat /\ Holders(s) # {}
  BY SlotServerAssumption DEF Holders, Index, FindBySlot
<1>2. i \in Holders(s)
  BY <1>1, FirstIn DEF FindBySlot
<1> QED BY <1>2 DEF Holders

LEMMA FindsAvailable ==
    ASSUME NEW i \in Index, Available # {}, Offer(i)
    PROVE  i \in Available
<1> DEFINE put == Holders(lastDispatched) \cap Available
<1>1. Available \in SUBSET Nat /\ put \in SUBSET Nat
  BY SlotServerAssumption DEF Available, Index
<1>2. CASE put # {}
  BY <1>1, <1>2, FirstIn DEF Offer
<1>3. CASE put = {}
  BY <1>1, <1>3, FirstIn DEF Offer
<1> QED BY <1>2, <1>3

LEMMA FindsEntry ==
    ASSUME NEW a \in Addr, NEW i \in Index, Created(a, i)
    PROVE  IF Of(a) # {} THEN locos[i].addr = a ELSE locos[i].addr = NoAddr
<1>1. Of(a) \in SUBSET Nat /\ Places \in SUBSET Nat
  BY SlotServerAssumption DEF Of, Places, Index
<1>2. IF Of(a) # {} THEN i \in Of(a) ELSE i \in Places
  BY <1>1, FirstIn DEF Created
<1> QED BY <1>2 DEF Of, Places

LEMMA FindsFree ==
    ASSUME FindFreeSlot # {}
    PROVE  First(FindFreeSlot) \in FindFreeSlot
<1>1. FindFreeSlot \in SUBSET Nat
  BY SlotServerAssumption DEF FindFreeSlot, Slot
<1> QED BY <1>1, FirstIn

(* _assignSlot(): the loco of the entry has a slot of its own afterwards, *)
(* and every other entry is as it was.                                     *)
LEMMA Assigns ==
    ASSUME IInv, NEW a \in Addr, NEW i \in Index, AssignSlot(a, i)
    PROVE  /\ locos' \in [Index -> Entry]
           /\ \A k \in Index \ {i} : locos'[k] = locos[k]
           /\ locos'[i].slot \in Slot
           /\ locos[i].addr = NoAddr \/ locos[i].slot \in {NoSlot, locos'[i].slot}
           /\ SlotsDistinct' /\ Clean'
<1>0. locos \in [Index -> Entry] /\ SlotsDistinct /\ Clean
  BY DEF IInv, TypeOK
<1>1. CASE /\ Of(a) # {} /\ locos[i].slot # NoSlot
           /\ locos' = [locos EXCEPT ![i].stat = "IDLE", ![i].quiet = FALSE]
  <2>1. locos[i].addr = a
    BY <1>1, FindsEntry DEF AssignSlot
  <2>2. /\ locos' \in [Index -> Entry]
        /\ \A k \in Index \ {i} : locos'[k] = locos[k]
        /\ locos'[i].slot = locos[i].slot /\ locos'[i].addr = a
        /\ locos'[i].stat = "IDLE"
    BY <1>0, <1>1, <2>1 DEF Entry, Stat
  <2>3. locos[i].slot \in Slot
    BY <1>0, <1>1 DEF Entry
  <2>4. \A k \in Index : Shrinks(k)
    BY <1>0, <1>1, <2>1, <2>2, SlotServerAssumption
       DEF Shrinks, SlotsDistinct, Clean, Consistent
  <2> QED BY <2>2, <2>3, <2>4, Distinct
<1>2. CASE /\ Of(a) = {} \/ locos[i].slot = NoSlot
           /\ FindFreeSlot # {}
           /\ locos' = [locos EXCEPT ![i] =
                          [addr |-> a, slot |-> First(FindFreeSlot), stat |-> "IDLE",
                           quiet |-> FALSE, dirty |-> FALSE]]
  <2> DEFINE s == First(FindFreeSlot)
  <2>1. s \in Slot /\ Holders(s) = {}
    BY <1>2, FindsFree DEF FindFreeSlot
  <2> HIDE DEF s
  <2>2. s # NoSlot
    BY <2>1 DEF Slot, NoSlot
  <2>3. /\ locos' \in [Index -> Entry]
        /\ \A k \in Index \ {i} : locos'[k] = locos[k]
        /\ locos'[i].addr = a /\ locos'[i].slot = s /\ locos'[i].stat = "IDLE"
    BY <1>0, <1>2, <2>1 DEF Entry, Stat, s
  <2>4. \A k \in Index \ {i} : locos[k].addr # a
    <3>1. CASE Of(a) = {}
      BY <3>1 DEF Of
    <3>2. CASE Of(a) # {}
      <4>1. locos[i].addr = a
        BY <3>2, FindsEntry DEF AssignSlot
      <4> QED BY <4>1, <1>0, SlotServerAssumption DEF SlotsDistinct
    <3> QED BY <3>1, <3>2
  <2>5. \A k \in Index \ {i} : locos[k].addr = NoAddr \/ locos[k].slot # s
    BY <2>1, <2>2 DEF Holders
  <2>6. locos[i].addr = NoAddr \/ locos[i].slot = NoSlot
    BY <1>2, FindsEntry DEF AssignSlot
  <2>7. Consistent(locos'[i])
    BY <2>2, <2>3 DEF Consistent
  <2> QED BY <2>1, <2>3, <2>4, <2>5, <2>6, <2>7, DistinctNew
<1> QED BY <1>1, <1>2 DEF AssignSlot

(* A step that assigns a slot and tells of it, or not. *)
LEMMA AssignedKeeps ==
    ASSUME IInv, NEW a \in Addr, NEW i \in Index, AssignSlot(a, i), ControlOK',
           NEW s \in Slot, s = locos'[i].slot,
           Tell({s}, {}) \/ Tell({}, {s})
    PROVE  IInv'
<1>1. \A k \in Index, T \in SUBSET Slot : s \in T => Noted(k, T)
  BY Assigns DEF Noted
<1>2. told' \in [Slot -> BOOLEAN] /\ leaked' \subseteq Slot /\ BusKnows'
  <2>1. CASE Tell({s}, {})
    <3>1. \A k \in Index : Noted(k, {s} \cup {})
      BY <1>1
    <3> QED BY <2>1, <3>1, Told
  <2>2. CASE Tell({}, {s})
    <3>1. \A k \in Index : Noted(k, {} \cup {s})
      BY <1>1
    <3> QED BY <2>2, <3>1, Told
  <2> QED BY <2>1, <2>2
<1> QED BY <1>2, Assigns DEF IInv, TypeOK, ControlOK

-----------------------------------------------------------------------------
(* The actions. *)
LEMMA LocoAdrKeeps ==
    ASSUME IInv, NEW a \in Addr, LocoAdr(a)
    PROVE  IInv'
<1>1. ASSUME NEW i \in Index, AssignSlot(a, i), SendSlotData(locos'[i].slot),
             StaysParked, UNCHANGED <<lastDispatched, astray>>
      PROVE  IInv'
  <2>1. locos'[i].slot \in Slot
    BY <1>1, Assigns
  <2>2. ControlOK' /\ (Tell({locos'[i].slot}, {}) \/ Tell({}, {locos'[i].slot}))
    BY <1>1, <2>1, Announces, Parks DEF ControlOK, IInv, TypeOK
  <2> QED BY <1>1, <2>1, <2>2, AssignedKeeps
<1>2. CASE UNCHANGED <<locos, lastDispatched, parked, astray>> /\ SendLack
  BY <1>2, Lacks, NothingKeeps DEF ControlOK, IInv, TypeOK
<1> QED BY <1>1, <1>2 DEF LocoAdr

LEMMA DispatchByAddressKeeps ==
    ASSUME IInv, NEW a \in Addr, DispatchByAddress(a)
    PROVE  IInv'
<1>1. PICK i \in Index : /\ AssignSlot(a, i) /\ lastDispatched' = locos'[i].slot
                         /\ parked' = a /\ Tell({}, {locos'[i].slot})
                         /\ UNCHANGED <<queued, astray>>
  BY DEF DispatchByAddress
<1>2. locos'[i].slot \in Slot
  BY <1>1, Assigns
<1>3. ControlOK'
  BY <1>1, <1>2 DEF ControlOK, IInv, TypeOK
<1> QED BY <1>1, <1>2, <1>3, AssignedKeeps

(* What the invariant says of the entry that holds a slot. *)
LEMMA HolderTyped ==
    ASSUME IInv, NEW i \in Index, locos[i].addr # NoAddr
    PROVE  /\ locos \in [Index -> Entry] /\ locos[i] \in Entry
           /\ Consistent(locos[i])
BY DEF IInv, TypeOK, SlotsDistinct, Consistent

LEMMA SlotMessageKeeps ==
    ASSUME IInv, NEW s \in Slot, NullMove(s) \/ DispatchPut(s)
    PROVE  IInv'
<1>1. ASSUME NEW i \in Index, FindBySlot(s, i), SendSlotData(s), UNCHANGED astray,
             NEW stat \in {"COMMON", "IN_USE"}, NEW q \in BOOLEAN,
             locos' = [locos EXCEPT ![i].stat = stat, ![i].quiet = q, ![i].dirty = FALSE],
             lastDispatched' \in {lastDispatched, s},
             parked' \in Addr \cup {NoAddr}
      PROVE  IInv'
  <2>1. locos[i].addr # NoAddr /\ locos[i].slot = s
    BY <1>1, FindsHolder
  <2>2. locos \in [Index -> Entry] /\ locos[i] \in Entry
    BY <2>1, HolderTyped
  <2>3. /\ locos' \in [Index -> Entry] /\ \A k \in Index \ {i} : locos'[k] = locos[k]
        /\ locos'[i].addr = locos[i].addr /\ locos'[i].slot = s /\ locos'[i].stat = stat
    BY <1>1, <2>1, <2>2 DEF Entry, Stat
  <2>4. Consistent(locos'[i])
    BY <1>1, <2>3 DEF Consistent, Slot, NoSlot
  <2>5. lastDispatched' \in Slot \cup {NoSlot} /\ astray' \in BOOLEAN
    BY <1>1 DEF IInv, TypeOK
  <2> QED BY <1>1, <2>1, <2>3, <2>4, <2>5, OneEntryKeeps
<1>2. CASE UNCHANGED <<locos, lastDispatched, parked, astray>> /\ SendLack
  BY <1>2, Lacks, NothingKeeps DEF ControlOK, IInv, TypeOK
<1>3. CASE \E i \in Index :
              /\ FindBySlot(s, i)
              /\ locos' = [locos EXCEPT ![i].stat = "IN_USE", ![i].quiet = FALSE,
                                        ![i].dirty = FALSE]
              /\ SendSlotData(s) /\ StaysParked /\ UNCHANGED <<lastDispatched, astray>>
  BY <1>1, <1>3, Parks
<1>4. ASSUME NEW i \in Index, FindBySlot(s, i),
             locos' = [locos EXCEPT ![i].stat = "COMMON", ![i].dirty = FALSE],
             lastDispatched' = s, parked' = locos[i].addr, SendSlotData(s),
             UNCHANGED astray
      PROVE  IInv'
  <2>1. locos[i].addr # NoAddr
    BY <1>4, FindsHolder
  <2>2. locos \in [Index -> Entry] /\ locos[i] \in Entry
    BY <2>1, HolderTyped
  <2>3. locos[i].quiet \in BOOLEAN /\ parked' \in Addr \cup {NoAddr}
    BY <1>4, <2>2 DEF Entry
  <2>4. locos' = [locos EXCEPT ![i].stat = "COMMON", ![i].quiet = locos[i].quiet,
                               ![i].dirty = FALSE]
    BY <1>4, <2>2 DEF Entry
  <2> QED BY <1>1, <1>4, <2>3, <2>4
<1> QED BY <1>2, <1>3, <1>4 DEF NullMove, DispatchPut

LEMMA DispatchGetKeeps ==
    ASSUME IInv, DispatchGet
    PROVE  IInv'
<1>1. ASSUME NEW i \in Index, Available # {}, Offer(i),
             locos' = [locos EXCEPT ![i].stat = "IDLE", ![i].dirty = FALSE],
             lastDispatched' = IF lastDispatched = locos[i].slot THEN NoSlot
                               ELSE lastDispatched,
             astray' = (astray \/ parked \notin {NoAddr, locos[i].addr}),
             parked' = IF parked = locos[i].addr THEN NoAddr ELSE parked,
             SendSlotData(locos[i].slot)
      PROVE  IInv'
  <2>1. locos[i].addr # NoAddr /\ locos[i].stat \in {"COMMON", "IDLE"}
    BY <1>1, FindsAvailable DEF Available
  <2>2. locos \in [Index -> Entry] /\ locos[i] \in Entry /\ Consistent(locos[i])
    BY <2>1, HolderTyped
  <2>3. locos[i].slot \in Slot
    BY <2>1, <2>2 DEF Entry, Consistent
  <2>4. /\ locos' \in [Index -> Entry] /\ \A k \in Index \ {i} : locos'[k] = locos[k]
        /\ locos'[i].addr = locos[i].addr /\ locos'[i].slot = locos[i].slot
        /\ locos'[i].stat = "IDLE"
    BY <1>1, <2>2 DEF Entry, Stat
  <2>5. Consistent(locos'[i])
    BY <2>3, <2>4 DEF Consistent, Slot, NoSlot
  <2>6. /\ lastDispatched' \in Slot \cup {NoSlot}
        /\ parked' \in Addr \cup {NoAddr} /\ astray' \in BOOLEAN
    BY <1>1 DEF IInv, TypeOK
  <2> QED BY <1>1, <2>1, <2>3, <2>4, <2>5, <2>6, OneEntryKeeps
<1>2. CASE UNCHANGED <<locos, lastDispatched, parked, astray>> /\ SendLack
  BY <1>2, Lacks, NothingKeeps DEF ControlOK, IInv, TypeOK
<1> QED BY <1>1, <1>2 DEF DispatchGet

LEMMA MoveSlotsKeeps ==
    ASSUME IInv, NEW src \in Slot, NEW dst \in Slot, src # dst, MoveSlots(src, dst)
    PROVE  IInv'
<1>1. ASSUME NEW i \in Index, NEW j \in Index,
             FindBySlot(src, i), FindBySlot(dst, j),
             locos' = [locos EXCEPT ![j].stat = locos[i].stat, ![j].dirty = FALSE,
                                    ![i].stat = "FREE", ![i].slot = NoSlot,
                                    ![i].dirty = TRUE],
             queued' = SendSlot(queued),
             Tell({dst}, {src}) \/ Tell({}, {src, dst})
      PROVE  IInv'
  <2>1. /\ locos[i].addr # NoAddr /\ locos[i].slot = src
        /\ locos[j].addr # NoAddr /\ locos[j].slot = dst
    BY <1>1, FindsHolder
  <2>2. /\ locos \in [Index -> Entry] /\ locos[i] \in Entry /\ locos[j] \in Entry
        /\ Consistent(locos[i]) /\ Consistent(locos[j])
    BY <2>1, HolderTyped
  <2>3. i # j
    BY <2>1
  <2>4. /\ locos' \in [Index -> Entry]
        /\ \A k \in Index \ {i, j} : locos'[k] = locos[k]
        /\ locos'[i].addr = locos[i].addr /\ locos'[i].slot = NoSlot /\ locos'[i].stat = "FREE"
        /\ locos'[j].addr = locos[j].addr /\ locos'[j].slot = dst
        /\ locos'[j].stat = locos[i].stat
    BY <1>1, <2>1, <2>2, <2>3 DEF Entry, Stat
  <2>5. src # NoSlot /\ dst # NoSlot
    BY DEF Slot, NoSlot
  <2>6. \A k \in Index : Shrinks(k)
    BY <2>1, <2>2, <2>4, <2>5 DEF Shrinks, Consistent, IInv, SlotsDistinct, Clean
  <2>7. \A k \in Index, T \in SUBSET Slot : {src, dst} \subseteq T => Noted(k, T)
    BY <2>1, <2>4 DEF Noted
  <2>8. ControlOK'
    BY <1>1, QueueFits, Parks DEF MoveSlots, ControlOK, IInv, TypeOK
  <2>9. CASE Tell({dst}, {src})
    <3>1. \A k \in Index : Noted(k, {dst} \cup {src})
      BY <2>7
    <3> QED BY <2>4, <2>6, <2>8, <2>9, <3>1, StepKeeps
  <2>10. CASE Tell({}, {src, dst})
    <3>1. \A k \in Index : Noted(k, {} \cup {src, dst})
      BY <2>7
    <3> QED BY <2>4, <2>6, <2>8, <2>10, <3>1, StepKeeps
  <2> QED BY <1>1, <2>9, <2>10
<1>2. CASE UNCHANGED locos /\ SendSlotData(dst)
  <2>1. ControlOK'
    BY <1>2, Announces, Parks DEF MoveSlots, ControlOK, IInv, TypeOK
  <2> QED BY <1>2, <2>1, Announces, NothingKeeps
<1> QED BY <1>1, <1>2 DEF MoveSlots

LEMMA SlotWrittenKeeps ==
    ASSUME IInv, NEW s \in Slot, NEW id \in {0, 1}, WrSlotData(s, id)
    PROVE  IInv'
<1>1. ControlOK' /\ Tell({}, {})
  BY Lacks, Parks DEF WrSlotData, ControlOK, IInv, TypeOK
<1>2. ASSUME NEW i \in Index, FindBySlot(s, i),
             locos' = [locos EXCEPT ![i].stat = IF id # 0 THEN "IN_USE" ELSE @,
                                    ![i].dirty = TRUE]
      PROVE  IInv'
  <2>1. locos[i].addr # NoAddr /\ locos[i].slot = s /\ s # NoSlot
    BY <1>2, FindsHolder DEF Slot, NoSlot
  <2>2. locos \in [Index -> Entry] /\ locos[i] \in Entry /\ Consistent(locos[i])
    BY <2>1, HolderTyped
  <2>3. /\ locos' \in [Index -> Entry] /\ \A k \in Index \ {i} : locos'[k] = locos[k]
        /\ locos'[i].addr = locos[i].addr /\ locos'[i].slot = s /\ locos'[i].dirty
        /\ locos'[i].stat \in {"IN_USE", locos[i].stat}
    BY <1>2, <2>1, <2>2 DEF Entry, Stat
  <2>4. \A k \in Index : Shrinks(k) /\ Noted(k, {} \cup {})
    BY <2>1, <2>2, <2>3 DEF Shrinks, Noted, Consistent, IInv, SlotsDistinct, Clean
  <2> QED BY <1>1, <2>3, <2>4, StepKeeps
<1>3. CASE UNCHANGED locos
  BY <1>1, <1>3, NothingKeeps
<1> QED BY <1>2, <1>3 DEF WrSlotData

LEMMA StatusKeeps ==
    ASSUME IInv, NEW s \in Slot, NEW stat \in Stat, SlotStat1(s, stat)
    PROVE  IInv'
<1>1. PICK i \in Index :
         /\ FindBySlot(s, i)
         /\ locos' = [locos EXCEPT ![i].stat = stat, ![i].dirty = FALSE,
                                   ![i].slot = IF stat = "FREE" THEN NoSlot ELSE @]
         /\ SendSlotData(s) /\ StaysParked /\ UNCHANGED <<lastDispatched, astray>>
  BY DEF SlotStat1
<1>2. locos[i].addr # NoAddr /\ locos[i].slot = s /\ s # NoSlot
  BY <1>1, FindsHolder DEF Slot, NoSlot
<1>3. locos \in [Index -> Entry] /\ locos[i] \in Entry
  BY <1>2, HolderTyped
<1>4. /\ locos' \in [Index -> Entry] /\ \A k \in Index \ {i} : locos'[k] = locos[k]
      /\ locos'[i].addr = locos[i].addr /\ locos'[i].stat = stat
      /\ locos'[i].slot = IF stat = "FREE" THEN NoSlot ELSE s
  BY <1>1, <1>2, <1>3 DEF Entry, Stat
<1>5. Consistent(locos'[i])
  BY <1>2, <1>4 DEF Consistent
<1>6. /\ lastDispatched' \in Slot \cup {NoSlot}
      /\ parked' \in Addr \cup {NoAddr} /\ astray' \in BOOLEAN
  BY <1>1, Parks DEF IInv, TypeOK
<1> QED BY <1>1, <1>2, <1>4, <1>5, <1>6, OneEntryKeeps

LEMMA ReportKeeps ==
    ASSUME IInv, NEW s \in Slot, NEW t \in Slot, RqSlotData(s) \/ LinkSlots(s, t)
    PROVE  IInv'
<1>1. CASE RqSlotData(s)
  <2>1. ControlOK' /\ (Tell({s}, {}) \/ Tell({}, {s})) /\ UNCHANGED locos
    BY <1>1, Announces DEF RqSlotData, ControlOK, IInv, TypeOK
  <2> QED BY <2>1, NothingKeeps
<1>2. CASE LinkSlots(s, t)
  <2> DEFINE heard == {x \in {s, t} : IF x = s THEN Heard(queued) ELSE Heard(SendSlot(queued))}
  <2>1. ControlOK' /\ UNCHANGED locos
    BY <1>2, QueueFits DEF LinkSlots, ControlOK, IInv, TypeOK
  <2>2. heard \in SUBSET Slot /\ {s, t} \ heard \in SUBSET Slot
    OBVIOUS
  <2>3. Tell(heard, {s, t} \ heard)
    BY <1>2 DEF LinkSlots
  <2> HIDE DEF heard
  <2> QED BY <2>1, <2>2, <2>3, NothingKeeps
<1> QED BY <1>1, <1>2

LEMMA LocoSpdKeeps ==
    ASSUME IInv, NEW s \in Slot, LocoSpd(s)
    PROVE  IInv'
<1>1. PICK i \in Index : /\ locos' = [locos EXCEPT ![i].quiet = FALSE]
                         /\ Tell({}, {})
                         /\ UNCHANGED <<lastDispatched, queued, parked, astray>>
  BY DEF LocoSpd
<1>2. locos \in [Index -> Entry]
  BY DEF IInv, TypeOK
<1>3. /\ locos' \in [Index -> Entry]
      /\ \A k \in Index : /\ locos'[k].addr = locos[k].addr /\ locos'[k].slot = locos[k].slot
                          /\ locos'[k].stat = locos[k].stat /\ locos'[k].dirty = locos[k].dirty
  BY <1>1, <1>2 DEF Entry
<1>4. \A k \in Index : Shrinks(k) /\ Noted(k, {} \cup {})
  BY <1>2, <1>3 DEF Shrinks, Noted, Consistent, IInv, SlotsDistinct, Clean
<1>5. ControlOK'
  BY <1>1 DEF ControlOK, IInv, TypeOK
<1> QED BY <1>1, <1>3, <1>4, <1>5, StepKeeps

LEMMA ThrottlesKeep ==
    ASSUME IInv, Throttles
    PROVE  IInv'
BY LocoAdrKeeps, SlotMessageKeeps, DispatchGetKeeps, MoveSlotsKeeps, SlotWrittenKeeps,
   StatusKeeps, ReportKeeps, LocoSpdKeeps DEF Throttles

-----------------------------------------------------------------------------
(* process(): every dirty slot is told, or leaks because the queue is full. *)
LEMMA ProcessKeeps ==
    ASSUME IInv, Process
    PROVE  IInv'
<1> DEFINE heard  == {i \in Announced : Heard(QueuedBefore(i))}
           S      == {locos[i].slot : i \in heard}
           silent == {locos[i].slot : i \in Announced \ heard}
<1>1. locos \in [Index -> Entry] /\ SlotsDistinct /\ Clean
  BY DEF IInv, TypeOK
<1>2. /\ locos' \in [Index -> Entry]
      /\ \A k \in Index : /\ locos'[k].addr = locos[k].addr /\ locos'[k].slot = locos[k].slot
                          /\ locos'[k].stat = locos[k].stat
                          /\ k \notin DirtySlots => locos'[k] = locos[k]
  BY <1>1 DEF Process, Entry, DirtySlots
<1>3. \A k \in Announced : k \in Index /\ locos[k].slot \in Slot
  BY <1>1 DEF Announced, DirtySlots, Entry
<1>4. S \in SUBSET Slot /\ silent \in SUBSET Slot
  BY <1>3
<1>5. \A k \in Announced : locos[k].slot \in S \cup silent
  OBVIOUS
<1>6. Tell(S, silent)
  BY DEF Process
<1> HIDE DEF S, silent, heard
<1>7. \A k \in Index : Shrinks(k)
  BY <1>1, <1>2 DEF Shrinks, Consistent, SlotsDistinct, Clean
<1>8. \A k \in Index : Noted(k, S \cup silent)
  <2> TAKE k \in Index
  <2>1. CASE k \in Announced
    BY <1>2, <1>5, <2>1 DEF Noted
  <2>2. CASE k \in DirtySlots /\ k \notin Announced
    <3>1. locos[k].addr # NoAddr /\ (locos[k].slot = NoSlot \/ locos[k].stat = "FREE")
      BY <2>2 DEF Announced, DirtySlots
    <3>2. locos[k].slot = NoSlot
      BY <1>1, <3>1 DEF SlotsDistinct
    <3> QED BY <1>2, <3>2 DEF Noted
  <2>3. CASE k \notin DirtySlots
    BY <1>2, <2>3 DEF Noted
  <2> QED BY <2>1, <2>2, <2>3
<1>9. ControlOK'
  <2>1. IsFiniteSet(Index)
    BY SlotServerAssumption, FS_Interval DEF Index
  <2>2. Cardinality(Announced) \in Nat
    <3>1. Announced \in SUBSET Index
      BY DEF Announced, DirtySlots
    <3> QED BY <2>1, <3>1, FS_Subset, FS_CardinalityType
  <2>3. queued \in 0 .. Capacity /\ Capacity \in Nat
    BY SlotServerAssumption DEF IInv, TypeOK, Capacity
  <2>4. queued' \in 0 .. Capacity
    BY <2>2, <2>3 DEF Process
  <2> QED BY <2>4 DEF Process, ControlOK, IInv, TypeOK
<1> QED BY <1>2, <1>4, <1>6, <1>7, <1>8, <1>9, StepKeeps

(* process100ms(): a claim that is given up is marked. *)
LEMMA Process100msKeeps ==
    ASSUME IInv, Process100ms
    PROVE  IInv'
<1> DEFINE idle == {i \in Index : /\ locos[i].addr # NoAddr /\ locos[i].slot # NoSlot
                                  /\ locos[i].stat = "IN_USE" /\ locos[i].quiet}
<1>1. locos \in [Index -> Entry] /\ SlotsDistinct /\ Clean
  BY DEF IInv, TypeOK
<1>2. /\ locos' = [i \in Index |->
                     IF i \in idle THEN [locos[i] EXCEPT !.stat = "IDLE", !.dirty = TRUE]
                     ELSE locos[i]]
      /\ Tell({}, {}) /\ UNCHANGED <<lastDispatched, queued, parked, astray>>
  BY DEF Process100ms
<1>3. /\ locos' \in [Index -> Entry]
      /\ \A k \in Index : \/ locos'[k] = locos[k]
                          \/ /\ locos[k].slot # NoSlot /\ locos'[k].slot = locos[k].slot
                             /\ locos'[k].addr = locos[k].addr
                             /\ locos'[k].stat = "IDLE" /\ locos'[k].dirty
  BY <1>1, <1>2 DEF Entry, Stat
<1>4. \A k \in Index : Shrinks(k) /\ Noted(k, {} \cup {})
  BY <1>1, <1>3 DEF Shrinks, Noted, Consistent, SlotsDistinct, Clean
<1>5. ControlOK'
  BY <1>2 DEF ControlOK, IInv, TypeOK
<1> QED BY <1>2, <1>3, <1>4, <1>5, StepKeeps

LEMMA StationKeeps ==
    ASSUME IInv, Station
    PROVE  IInv'
<1>1. ASSUME NEW n \in 0 .. QueueSize, FlushQueue(n)
      PROVE  IInv'
  <2>1. queued \in 0 .. Capacity /\ Capacity \in Nat
    BY SlotServerAssumption DEF IInv, TypeOK, Capacity
  <2>2. queued' \in 0 .. Capacity
    BY <1>1, <2>1 DEF FlushQueue
  <2>3. UNCHANGED <<locos, lastDispatched, told, leaked, parked, astray>>
    BY <1>1 DEF FlushQueue
  <2>4. TypeOK'
    BY <2>2, <2>3 DEF IInv, TypeOK, Capacity
  <2> QED BY <2>3, <2>4 DEF IInv, SlotsDistinct, Clean, BusKnows, Holders
<1>2. ASSUME NEW i \in Index, GoQuiet(i)
      PROVE  IInv'
  <2>1. locos \in [Index -> Entry]
    BY DEF IInv, TypeOK
  <2>2. /\ locos' \in [Index -> Entry]
        /\ \A k \in Index : /\ locos'[k].addr = locos[k].addr /\ locos'[k].slot = locos[k].slot
                            /\ locos'[k].stat = locos[k].stat /\ locos'[k].dirty = locos[k].dirty
    BY <1>2, <2>1 DEF GoQuiet, Entry
  <2>3. \A k \in Index : Shrinks(k) /\ Noted(k, {} \cup {})
    BY <2>1, <2>2 DEF Shrinks, Noted, Consistent, IInv, SlotsDistinct, Clean
  <2>4. ControlOK' /\ Tell({}, {})
    BY <1>2 DEF GoQuiet, ControlOK, IInv, TypeOK
  <2> QED BY <2>2, <2>3, <2>4, StepKeeps
<1> QED BY <1>1, <1>2, ProcessKeeps, Process100msKeeps DEF Station

-----------------------------------------------------------------------------
(* A step that says nothing to the bus and changes nothing it heard of. *)
LEMMA QuietKeeps ==
    ASSUME IInv, \A k \in Index : Noted(k, {}), UNCHANGED <<told, leaked>>
    PROVE  BusKnows'
<1> SUFFICES ASSUME NEW s \in Slot, ~told[s], s \notin leaked
             PROVE  \E k \in Index : /\ locos'[k].addr # NoAddr /\ locos'[k].slot = s
                                     /\ s # NoSlot /\ locos'[k].dirty
  BY DEF BusKnows, Holders, Slot
<1>1. PICK k \in Index : locos[k].addr # NoAddr /\ locos[k].slot = s /\ s # NoSlot
                         /\ locos[k].dirty
  BY DEF IInv, BusKnows, Holders
<1> QED BY <1>1 DEF Noted

LEMMA CreatedKeeps ==
    ASSUME IInv, NEW a \in Addr, OtherModuleCreates(a)
    PROVE  IInv'
<1>1. First(Places) \in Places
  <2>1. Places \in SUBSET Nat /\ Places # {}
    BY SlotServerAssumption DEF OtherModuleCreates, Places, Index
  <2> QED BY <2>1, FirstIn
<1> DEFINE i == First(Places)
<1> HIDE DEF i
<1>2. i \in Index /\ locos[i].addr = NoAddr /\ locos \in [Index -> Entry]
  BY <1>1 DEF Places, IInv, TypeOK, i
<1>3. /\ locos' = [locos EXCEPT ![i] = [Unused EXCEPT !.addr = a]]
      /\ UNCHANGED <<lastDispatched, queued, told, leaked, parked, astray>>
      /\ \A k \in Index : locos[k].addr # a
  BY DEF OtherModuleCreates, i, Of
<1>4. /\ locos' \in [Index -> Entry] /\ \A k \in Index \ {i} : locos'[k] = locos[k]
      /\ locos'[i].addr = a /\ locos'[i].slot = NoSlot /\ locos'[i].stat = "FREE"
  BY <1>2, <1>3 DEF Unused, Entry, Stat
<1>5. SlotsDistinct' /\ Clean'
  BY <1>2, <1>3, <1>4, DistinctNew DEF Consistent
<1>6. \A k \in Index : Noted(k, {})
  BY <1>2, <1>4 DEF Noted
<1> QED BY <1>3, <1>4, <1>5, <1>6, QuietKeeps DEF IInv, TypeOK

LEMMA MarkedKeeps ==
    ASSUME IInv, NEW a \in Addr, MarkLnDirty(a)
    PROVE  IInv'
<1>1. PICK i \in Of(a) : /\ locos' = [locos EXCEPT ![i].dirty = TRUE]
                         /\ UNCHANGED <<lastDispatched, queued, told, leaked, parked, astray>>
  BY DEF MarkLnDirty
<1>2. locos \in [Index -> Entry] /\ i \in Index
  BY DEF IInv, TypeOK, Of
<1>3. /\ locos' \in [Index -> Entry]
      /\ \A k \in Index : /\ locos'[k].addr = locos[k].addr /\ locos'[k].slot = locos[k].slot
                          /\ locos'[k].stat = locos[k].stat
                          /\ locos[k].dirty => locos'[k].dirty
  BY <1>1, <1>2 DEF Entry
<1>4. \A k \in Index : Shrinks(k) /\ Noted(k, {})
  BY <1>2, <1>3 DEF Shrinks, Noted, Consistent, IInv, SlotsDistinct, Clean
<1> QED BY <1>1, <1>3, <1>4, Distinct, QuietKeeps DEF IInv, TypeOK

LEMMA ReleaseKeeps ==
    ASSUME IInv, NEW a \in Addr, Release(a)
    PROVE  IInv'
<1>1. PICK i \in Of(a) : /\ locos' = [locos EXCEPT ![i] = Unused]
                         /\ Tell({}, {locos[i].slot} \cap Slot)
                         /\ StaysParked /\ UNCHANGED <<lastDispatched, queued, astray>>
  BY DEF Release
<1>2. locos \in [Index -> Entry] /\ i \in Index /\ locos[i] \in Entry
  BY DEF IInv, TypeOK, Of
<1>3. /\ locos' \in [Index -> Entry] /\ \A k \in Index \ {i} : locos'[k] = locos[k]
      /\ locos'[i].addr = NoAddr /\ locos'[i].slot = NoSlot
  BY <1>1, <1>2 DEF Unused, Entry, Stat
<1> DEFINE T == {locos[i].slot} \cap Slot
<1>4. T \in SUBSET Slot /\ Tell({}, T) /\ locos[i].slot \in T \cup {NoSlot}
  BY <1>1, <1>2 DEF Entry
<1> HIDE DEF T
<1>5. \A k \in Index : Shrinks(k) /\ Noted(k, {} \cup T)
  BY <1>2, <1>3, <1>4 DEF Shrinks, Noted, Consistent, IInv, SlotsDistinct, Clean
<1>6. ControlOK'
  BY <1>1, Parks DEF ControlOK, IInv, TypeOK
<1> QED BY <1>3, <1>4, <1>5, <1>6, StepKeeps

LEMMA ClearedKeeps ==
    ASSUME IInv, ClearAll
    PROVE  IInv'
<1>1. /\ locos' = [i \in Index |-> Unused] /\ Tell({}, Slot)
      /\ StaysParked /\ UNCHANGED <<lastDispatched, queued, astray>>
  BY DEF ClearAll
<1>2. locos \in [Index -> Entry]
  BY DEF IInv, TypeOK
<1>3. locos' \in [Index -> Entry]
  BY <1>1 DEF Unused, Entry, Stat
<1>4. \A k \in Index : Shrinks(k) /\ Noted(k, {} \cup Slot)
  BY <1>1, <1>2 DEF Shrinks, Noted, Unused, Entry
<1>5. ControlOK'
  BY <1>1, Parks DEF ControlOK, IInv, TypeOK
<1> QED BY <1>1, <1>3, <1>4, <1>5, StepKeeps

-----------------------------------------------------------------------------
LEMMA InitIInv == Init => IInv
<1> SUFFICES ASSUME Init PROVE IInv
  OBVIOUS
<1>1. TypeOK
  <2>1. Unused \in Entry
    BY DEF Unused, Entry, Stat
  <2>2. queued \in 0 .. Capacity
    BY SlotServerAssumption DEF Init, Capacity
  <2> QED BY <2>1, <2>2 DEF Init, TypeOK
<1>2. SlotsDistinct /\ Clean
  BY DEF Init, SlotsDistinct, Clean, Unused
<1>3. BusKnows
  BY DEF Init, BusKnows
<1> QED BY <1>1, <1>2, <1>3 DEF IInv

LEMMA NextKeeps == IInv /\ [Next]_slotVars => IInv'
<1> SUFFICES ASSUME IInv, [Next]_slotVars PROVE IInv'
  OBVIOUS
<1>1. CASE UNCHANGED slotVars
  BY <1>1 DEF slotVars, IInv, TypeOK, SlotsDistinct, Clean, BusKnows, Holders
<1>2. CASE Others
  BY <1>2, DispatchByAddressKeeps, CreatedKeeps, MarkedKeeps, ReleaseKeeps, ClearedKeeps
     DEF Others
<1> QED BY <1>1, <1>2, ThrottlesKeep, StationKeeps DEF Next

(* No step of any throttle, module or web page breaks the invariant IInv.   *)
THEOREM Invariance == Spec => []IInv
BY InitIInv, NextKeeps, PTL DEF Spec

(* The variables of the slot server keep their types; the transmit queue   *)
(* never grows past its capacity, whatever a full pass puts into it.       *)
THEOREM TypeCorrect == Spec => []TypeOK
<1>1. IInv => TypeOK
  BY DEF IInv
<1> QED BY <1>1, Invariance, PTL

(* No two locos ever share a slot or have two entries, and an entry has a  *)
(* slot exactly when it is not FREE: _assignSlot(), _findFreeSlot() and    *)
(* every way to give a slot up keep findBySlot() unambiguous.              *)
THEOREM SlotsSafe == Spec => []SlotsDistinct
<1>1. IInv => SlotsDistinct
  BY DEF IInv
<1> QED BY <1>1, Invariance, PTL

(* What the throttles last heard of a slot is true, or process() is about  *)
(* to announce it, or it changed in one of the ways nobody announces.      *)
THEOREM BusTold == Spec => []BusKnows
<1>1. IInv => BusKnows
  BY DEF IInv
<1> QED BY <1>1, Invariance, PTL

-----------------------------------------------------------------------------
(* Dispatch.  The loco that was put last is the one _lastDispatchedSlot    *)
(* names, and it is free to take, as long as nothing has changed it since. *)
Takeable == {"COMMON", "IDLE"}

ParkedThere ==
    parked # NoAddr =>
        \E i \in Index : /\ locos[i].addr = parked /\ locos[i].slot = lastDispatched
                         /\ locos[i].stat \in Takeable

PInv == IInv /\ ParkedThere /\ ~astray

LEMMA StaysThere ==
    ASSUME PInv, StaysParked, UNCHANGED <<lastDispatched, astray>>
    PROVE  ParkedThere' /\ ~astray'
<1> SUFFICES ASSUME parked' # NoAddr
             PROVE  \E i \in Index : /\ locos'[i].addr = parked'
                                     /\ locos'[i].slot = lastDispatched'
                                     /\ locos'[i].stat \in Takeable
  BY DEF ParkedThere, PInv, Index
<1>1. /\ parked' = parked
      /\ \A i \in Of(parked) : /\ locos'[i].addr = parked /\ locos'[i].slot = locos[i].slot
                               /\ locos'[i].stat \in Takeable
  BY DEF StaysParked, Takeable
<1>2. PICK i \in Index : locos[i].addr = parked /\ locos[i].slot = lastDispatched
  BY <1>1 DEF PInv, ParkedThere
<1> QED BY <1>1, <1>2 DEF Of

(* A step that leaves the entries that can be taken as they are. *)
LEMMA LeftThere ==
    ASSUME PInv, UNCHANGED <<parked, lastDispatched, astray>>,
           \A k \in Index : locos[k].addr # NoAddr /\ locos[k].stat \in Takeable =>
              /\ locos'[k].addr = locos[k].addr /\ locos'[k].slot = locos[k].slot
              /\ locos'[k].stat \in Takeable
    PROVE  ParkedThere' /\ ~astray'
BY DEF PInv, ParkedThere, Index

LEMMA DispatchGetRight ==
    ASSUME PInv, DispatchGet
    PROVE  ParkedThere' /\ ~astray'
<1>1. ASSUME NEW i \in Index, Available # {}, Offer(i),
             astray' = (astray \/ parked \notin {NoAddr, locos[i].addr}),
             parked' = IF parked = locos[i].addr THEN NoAddr ELSE parked
      PROVE  parked \in {NoAddr, locos[i].addr}
  <2> SUFFICES ASSUME parked # NoAddr PROVE locos[i].addr = parked
    OBVIOUS
  <2>1. PICK j \in Index : /\ locos[j].addr = parked /\ locos[j].slot = lastDispatched
                           /\ locos[j].stat \in Takeable
    BY DEF PInv, ParkedThere
  <2>2. locos[j].slot # NoSlot
    BY <2>1, HolderTyped DEF PInv, Consistent, Takeable
  <2> DEFINE put == Holders(lastDispatched) \cap Available
  <2>3. j \in put
    BY <2>1, <2>2 DEF Holders, Available, Takeable
  <2>4. i \in put
    <3>1. put \in SUBSET Nat
      BY SlotServerAssumption DEF Available, Index
    <3> QED BY <1>1, <2>3, <3>1, FirstIn DEF Offer
  <2>5. i = j
    BY <2>1, <2>2, <2>4 DEF Holders, PInv, IInv, SlotsDistinct
  <2> QED BY <2>1, <2>5
<1>2. CASE UNCHANGED <<locos, lastDispatched, parked, astray>>
  BY <1>2, LeftThere
<1>3. CASE \E i \in Index :
              /\ Offer(i) /\ Available # {}
              /\ astray' = (astray \/ parked \notin {NoAddr, locos[i].addr})
              /\ parked' = IF parked = locos[i].addr THEN NoAddr ELSE parked
  BY <1>1, <1>3 DEF PInv, ParkedThere
<1> QED BY <1>2, <1>3 DEF DispatchGet

LEMMA ThrottlesRight ==
    ASSUME PInv, Throttles
    PROVE  ParkedThere' /\ ~astray'
<1>1. CASE \E a \in Addr : LocoAdr(a)
  BY <1>1, StaysThere, LeftThere DEF LocoAdr
<1>2. CASE \E s \in Slot : NullMove(s)
  BY <1>2, StaysThere, LeftThere DEF NullMove
<1>3. ASSUME NEW s \in Slot, DispatchPut(s)
      PROVE  ParkedThere' /\ ~astray'
  <2>1. ASSUME NEW i \in Index, FindBySlot(s, i),
               locos' = [locos EXCEPT ![i].stat = "COMMON", ![i].dirty = FALSE],
               lastDispatched' = s, parked' = locos[i].addr, UNCHANGED astray
        PROVE  ParkedThere' /\ ~astray'
    <3>1. locos[i].slot = s /\ locos[i].addr # NoAddr
      BY <2>1, FindsHolder
    <3>2. locos \in [Index -> Entry] /\ locos[i] \in Entry
      BY <3>1, HolderTyped DEF PInv
    <3>3. /\ locos'[i].addr = locos[i].addr /\ locos'[i].slot = s
          /\ locos'[i].stat = "COMMON"
      BY <2>1, <3>1, <3>2 DEF Entry
    <3> QED BY <2>1, <3>3 DEF ParkedThere, Takeable, PInv, Index
  <2>2. CASE UNCHANGED <<locos, lastDispatched, parked, astray>>
    BY <2>2, LeftThere
  <2> QED BY <1>3, <2>1, <2>2 DEF DispatchPut
<1>4. CASE \E s \in Slot : RqSlotData(s) \/ \E t \in Slot : LinkSlots(s, t)
  BY <1>4, LeftThere DEF RqSlotData, LinkSlots
<1>5. ASSUME NEW s \in Slot, LocoSpd(s)
      PROVE  ParkedThere' /\ ~astray'
  <2>1. PICK i \in Index : /\ locos' = [locos EXCEPT ![i].quiet = FALSE]
                           /\ UNCHANGED <<lastDispatched, parked, astray>>
    BY <1>5 DEF LocoSpd
  <2>2. locos \in [Index -> Entry]
    BY DEF PInv, IInv, TypeOK
  <2>3. \A k \in Index : /\ locos'[k].addr = locos[k].addr
                         /\ locos'[k].slot = locos[k].slot /\ locos'[k].stat = locos[k].stat
    BY <2>1, <2>2 DEF Entry
  <2> QED BY <2>1, <2>3, LeftThere
<1>6. CASE \E s, t \in Slot : MoveSlots(s, t)
  BY <1>6, StaysThere DEF MoveSlots
<1>7. CASE \E s \in Slot, id \in {0, 1} : WrSlotData(s, id)
  BY <1>7, StaysThere DEF WrSlotData
<1>8. CASE \E s \in Slot, stat \in Stat : SlotStat1(s, stat)
  BY <1>8, StaysThere DEF SlotStat1
<1> QED BY <1>1, <1>2, <1>3, <1>4, <1>5, <1>6, <1>7, <1>8, DispatchGetRight DEF Throttles

LEMMA StationRight ==
    ASSUME PInv, Station
    PROVE  ParkedThere' /\ ~astray'
<1>0. locos \in [Index -> Entry]
  BY DEF PInv, IInv, TypeOK
<1>1. UNCHANGED <<parked, lastDispatched, astray>>
  BY DEF Station, FlushQueue, Process, Process100ms, GoQuiet
<1>2. \A k \in Index : /\ locos'[k].addr = locos[k].addr /\ locos'[k].slot = locos[k].slot
                       /\ locos'[k].stat \in {locos[k].stat, "IDLE"}
  <2>1. CASE \E n \in 0 .. QueueSize : FlushQueue(n)
    BY <2>1 DEF FlushQueue
  <2>2. CASE Process
    BY <1>0, <2>2 DEF Process, Entry, DirtySlots
  <2>3. CASE Process100ms
    BY <1>0, <2>3 DEF Process100ms, Entry
  <2>4. CASE \E i \in Index : GoQuiet(i)
    BY <1>0, <2>4 DEF GoQuiet, Entry
  <2> QED BY <2>1, <2>2, <2>3, <2>4 DEF Station
<1> QED BY <1>1, <1>2, LeftThere DEF Takeable

LEMMA OthersRight ==
    ASSUME PInv, Others
    PROVE  ParkedThere' /\ ~astray'
<1>0. locos \in [Index -> Entry]
  BY DEF PInv, IInv, TypeOK
<1>1. ASSUME NEW a \in Addr, DispatchByAddress(a)
      PROVE  ParkedThere' /\ ~astray'
  <2>1. PICK i \in Index : /\ AssignSlot(a, i) /\ lastDispatched' = locos'[i].slot
                           /\ parked' = a /\ UNCHANGED astray
    BY <1>1 DEF DispatchByAddress
  <2>2. Of(a) # {} => locos[i].addr = a
    BY <2>1, FindsEntry DEF AssignSlot
  <2>3. locos'[i].addr = a /\ locos'[i].stat = "IDLE"
    BY <1>0, <2>1, <2>2 DEF AssignSlot, Entry
  <2> QED BY <2>1, <2>3 DEF ParkedThere, Takeable, PInv, Index
<1>2. ASSUME NEW a \in Addr, OtherModuleCreates(a)
      PROVE  ParkedThere' /\ ~astray'
  <2>1. Places \in SUBSET Nat /\ Places # {}
    BY <1>2, SlotServerAssumption DEF OtherModuleCreates, Places, Index
  <2>2. First(Places) \in Places
    BY <2>1, FirstIn
  <2>3. \A k \in Index : locos[k].addr # NoAddr => locos'[k] = locos[k]
    BY <1>0, <1>2, <2>2 DEF OtherModuleCreates, Places
  <2> QED BY <1>2, <2>3, LeftThere DEF OtherModuleCreates
<1>3. ASSUME NEW a \in Addr, MarkLnDirty(a)
      PROVE  ParkedThere' /\ ~astray'
  <2>1. \A k \in Index : /\ locos'[k].addr = locos[k].addr
                         /\ locos'[k].slot = locos[k].slot /\ locos'[k].stat = locos[k].stat
    BY <1>0, <1>3 DEF MarkLnDirty, Entry
  <2> QED BY <1>3, <2>1, LeftThere DEF MarkLnDirty
<1>4. CASE \E a \in Addr : Release(a)
  BY <1>4, StaysThere DEF Release
<1>5. CASE ClearAll
  BY <1>5, StaysThere DEF ClearAll
<1> QED BY <1>1, <1>2, <1>3, <1>4, <1>5 DEF Others

(* A dispatch get hands out the loco that was put up last, if it is still  *)
(* there to take: _handleDispatchGet() and _lastDispatchedSlot.            *)
THEOREM PutSafe == Spec => []GetHandsOutThePut
<1>1. Init => PInv
  BY InitIInv DEF Init, PInv, ParkedThere
<1>2. PInv /\ [Next]_slotVars => PInv'
  <2> SUFFICES ASSUME PInv, [Next]_slotVars PROVE PInv'
    OBVIOUS
  <2>1. IInv'
    BY NextKeeps DEF PInv
  <2>2. CASE UNCHANGED slotVars
    BY <2>1, <2>2 DEF slotVars, PInv, ParkedThere, Index
  <2>3. CASE Next
    BY <2>1, <2>3, ThrottlesRight, StationRight, OthersRight DEF Next, PInv
  <2> QED BY <2>2, <2>3
<1>3. PInv => GetHandsOutThePut
  BY DEF PInv, GetHandsOutThePut
<1> QED BY <1>1, <1>2, <1>3, PTL DEF Spec
=============================================================================
