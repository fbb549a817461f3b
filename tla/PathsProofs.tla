----------------------------- MODULE PathsProofs -----------------------------
(***************************************************************************)
(* Proofs about the two rings, the turnout relay and service mode.         *)
(*                                                                         *)
(* CommandBus, for every ring size, drop-log size and set of commands.     *)
(* The inductive invariant adds to TypeOK and RingHoldsBacklog what a core *)
(* in the middle of a push or a pop knows about the indices: a test it     *)
(* made earlier cannot be invalidated by the other core, because the other *)
(* core only ever makes more room (pop) or more content (push).  The other *)
(* parts of MCPaths follow it: the event ring with one publisher, the      *)
(* turnout relay, programming sessions (what ServiceModeProofs shows of    *)
(* them, carried over to the composition), and the types of all.           *)
(***************************************************************************)
EXTENDS MCPaths, TLAPS, SequenceTheorems, WellFoundedInduction

(* Index arithmetic without %. *)
LEMMA NextIndexCases ==
    ASSUME NEW i \in Index
    PROVE  /\ NextIndex(i) \in Index
           /\ NextIndex(i) = IF i + 1 = RingSize THEN 0 ELSE i + 1
<1>1. RingSize \in Nat /\ RingSize >= 2 /\ i \in 0 .. RingSize - 1
  BY RingSizeAssumption DEF Index
<1>2. CASE i + 1 = RingSize
  BY <1>1, <1>2 DEF NextIndex, Index
<1>3. CASE i + 1 # RingSize
  <2>1. (i + 1) \in 0 .. RingSize - 1
    BY <1>1, <1>3
  <2>2. (i + 1) % RingSize = i + 1
    BY <1>1, <2>1
  <2> QED  BY <1>1, <1>3, <2>1, <2>2 DEF NextIndex, Index
<1> QED  BY <1>2, <1>3

(* What one push or one pop does to the occupancy and the slots. *)
LEMMA OccupancyRange ==
    ASSUME NEW h \in Index, NEW t \in Index
    PROVE  /\ Occupancy(h, t) \in 0 .. RingSize - 1
           /\ (Occupancy(h, t) = 0) <=> (h = t)
           /\ (Occupancy(h, t) = RingSize - 1) <=> (NextIndex(h) = t)
           /\ \A j \in Index : /\ SlotAt(t, j) \in Index
                               /\ j < Occupancy(h, t) => SlotAt(t, j) # h
           /\ SlotAt(t, 0) = t
BY RingSizeAssumption, NextIndexCases DEF Index, Occupancy, SlotAt

LEMMA OccupancyPush ==
    ASSUME NEW h \in Index, NEW t \in Index, NextIndex(h) # t
    PROVE  /\ Occupancy(NextIndex(h), t) = Occupancy(h, t) + 1
           /\ SlotAt(t, Occupancy(h, t)) = h
BY RingSizeAssumption, NextIndexCases DEF Index, Occupancy, SlotAt

LEMMA OccupancyPop ==
    ASSUME NEW h \in Index, NEW t \in Index, h # t
    PROVE  /\ Occupancy(h, NextIndex(t)) = Occupancy(h, t) - 1
           /\ \A j \in Index : j + 1 < RingSize =>
                  SlotAt(NextIndex(t), j) = SlotAt(t, j + 1)
BY RingSizeAssumption, NextIndexCases DEF Index, Occupancy, SlotAt

-----------------------------------------------------------------------------
(* The part of TypeOK the ring itself needs. *)
RingTypeOK ==
    /\ ring \in [Index -> Command \cup {None}]
    /\ head \in Index /\ tail \in Index
    /\ pushPc \in {"idle", "write", "commit"}
    /\ pushCmd \in Command \cup {None} /\ pushNext \in Index
    /\ popPc \in {"idle", "copy", "advance"}
    /\ popCmd \in Command \cup {None}
    /\ accepted \in Seq(Command) /\ delivered \in Seq(Command)

(* Core 1 between its test for full and its store to _head. *)
PushInFlight ==
    /\ pushPc \in {"write", "commit"} =>
           /\ NextIndex(head) # tail
           /\ pushNext = NextIndex(head)
           /\ pushCmd \in Command
    /\ pushPc = "commit" => ring[head] = pushCmd

(* Core 0 between its test for empty and its store to _tail. *)
PopInFlight ==
    /\ popPc \in {"copy", "advance"} => head # tail
    /\ popPc = "advance" => popCmd = ring[tail]

IInv == RingTypeOK /\ RingHoldsBacklog /\ PushInFlight /\ PopInFlight

LEMMA InitIInv == Init => IInv
BY RingSizeAssumption, NextIndexCases
   DEF Init, IInv, RingTypeOK, RingHoldsBacklog, PushInFlight, PopInFlight,
       Occupancy, SlotAt, Index

(* In every state of IInv the oldest waiting command is the one at _tail. *)
LEMMA OldestWaiting ==
    ASSUME IInv, head # tail
    PROVE  /\ Len(delivered) < Len(accepted)
           /\ ring[tail] = accepted[Len(delivered) + 1]
           /\ ring[tail] \in Command
<1>1. head \in Index /\ tail \in Index
  BY DEF IInv, RingTypeOK
<1>2. accepted \in Seq(Command) /\ delivered \in Seq(Command)
  BY DEF IInv, RingTypeOK
<1>3. Occupancy(head, tail) \in 1 .. RingSize - 1 /\ SlotAt(tail, 0) = tail
  BY <1>1, OccupancyRange, RingSizeAssumption
<1>4. /\ Len(accepted) = Len(delivered) + Occupancy(head, tail)
      /\ \A j \in Index : j < Occupancy(head, tail) =>
             ring[SlotAt(tail, j)] = accepted[Len(delivered) + 1 + j]
  BY DEF IInv, RingHoldsBacklog
<1>5. 0 \in Index /\ 0 < Occupancy(head, tail)
  BY <1>3, RingSizeAssumption DEF Index
<1>6. ring[tail] = accepted[Len(delivered) + 1 + 0]
  BY <1>3, <1>4, <1>5
<1>7. Len(delivered) \in Nat /\ Len(accepted) \in Nat
  BY <1>2
<1>8. Len(delivered) + 1 \in 1 .. Len(accepted)
  BY <1>3, <1>4, <1>7
<1> QED  BY <1>2, <1>6, <1>7, <1>8

LEMMA StepIInv == IInv /\ [Next]_vars => IInv'
<1> SUFFICES ASSUME IInv, [Next]_vars  PROVE IInv'
  OBVIOUS
<1> USE DEF IInv
<1>1. head \in Index /\ tail \in Index
  BY DEF RingTypeOK
<1>2. accepted \in Seq(Command) /\ delivered \in Seq(Command)
  BY DEF RingTypeOK
<1>3. ASSUME NEW c \in Command, PushDrop(c)  PROVE IInv'
  BY <1>3 DEF PushDrop, ringVars, pushVars, popVars,
       RingTypeOK, RingHoldsBacklog, PushInFlight, PopInFlight
<1>4. ASSUME NEW c \in Command, PushTest(c)  PROVE IInv'
  <2>1. NextIndex(head) \in Index
    BY <1>1, NextIndexCases
  <2> QED  BY <1>4, <2>1 DEF PushTest, ringVars, popVars, dropVars,
       RingTypeOK, RingHoldsBacklog, PushInFlight, PopInFlight
<1>5. CASE PushWrite
  <2> USE <1>5 DEF PushWrite, popVars, dropVars
  <2>1. NextIndex(head) # tail /\ pushCmd \in Command
    BY DEF PushInFlight
  <2>2. RingTypeOK'
    BY DEF RingTypeOK
  <2>3. RingHoldsBacklog'
    BY <1>1, OccupancyRange DEF RingHoldsBacklog, RingTypeOK
  <2>4. PushInFlight'
    BY DEF PushInFlight, RingTypeOK
  <2>5. PopInFlight'
    BY DEF PopInFlight, RingTypeOK
  <2> QED  BY <2>2, <2>3, <2>4, <2>5
<1>6. CASE PushCommit
  <2> USE <1>6 DEF PushCommit, popVars, dropVars
  <2>1. /\ NextIndex(head) # tail
        /\ pushNext = NextIndex(head)
        /\ pushCmd \in Command
        /\ ring[head] = pushCmd
    BY DEF PushInFlight
  <2>2. NextIndex(head) \in Index
    BY <1>1, NextIndexCases
  <2>3. RingTypeOK'
    BY <2>1, <2>2 DEF RingTypeOK
  <2>4. RingHoldsBacklog'
    <3>1. /\ Occupancy(head', tail) = Occupancy(head, tail) + 1
          /\ SlotAt(tail, Occupancy(head, tail)) = head
      BY <1>1, <2>1, OccupancyPush
    <3>2. Len(accepted') = Len(accepted) + 1
      BY <1>2, <2>1
    <3>3. Occupancy(head, tail) \in Nat /\ Len(delivered) \in Nat
      BY <1>1, <1>2, OccupancyRange, RingSizeAssumption
    <3>4. Len(accepted) = Len(delivered) + Occupancy(head, tail)
      BY DEF RingHoldsBacklog
    <3>5. ASSUME NEW j \in Index, j < Occupancy(head', tail')
          PROVE  ring'[SlotAt(tail', j)] = accepted'[Len(delivered') + 1 + j]
      <4>1. CASE j < Occupancy(head, tail)
        <5>1. ring[SlotAt(tail, j)] = accepted[Len(delivered) + 1 + j]
          BY <4>1 DEF RingHoldsBacklog
        <5>2. Len(delivered) + 1 + j \in 1 .. Len(accepted)
          BY <3>3, <3>4, <4>1, RingSizeAssumption DEF Index
        <5> QED  BY <1>2, <2>1, <5>1, <5>2
      <4>2. CASE j = Occupancy(head, tail)
        <5>1. Len(delivered) + 1 + j = Len(accepted) + 1
          BY <3>3, <3>4, <4>2
        <5> QED  BY <1>2, <2>1, <3>1, <4>2, <5>1
      <4>3. j < Occupancy(head, tail) \/ j = Occupancy(head, tail)
        BY <3>1, <3>3, <3>5, RingSizeAssumption DEF Index
      <4> QED  BY <4>1, <4>2, <4>3
    <3>6. Len(accepted') = Len(delivered') + Occupancy(head', tail')
      BY <3>1, <3>2, <3>3, <3>4
    <3> QED  BY <3>5, <3>6 DEF RingHoldsBacklog
  <2>5. PushInFlight'
    BY DEF PushInFlight
  <2>6. PopInFlight'
    BY <2>1 DEF PopInFlight
  <2> QED  BY <2>3, <2>4, <2>5, <2>6
<1>7. CASE PopTest
  BY <1>7 DEF PopTest, ringVars, pushVars, dropVars,
       RingTypeOK, RingHoldsBacklog, PushInFlight, PopInFlight
<1>8. CASE PopCopy
  BY <1>8 DEF PopCopy, ringVars, pushVars, dropVars,
       RingTypeOK, RingHoldsBacklog, PushInFlight, PopInFlight
<1>9. CASE PopAdvance
  <2> USE <1>9 DEF PopAdvance, pushVars, dropVars
  <2>1. head # tail /\ popCmd = ring[tail]
    BY DEF PopInFlight
  <2>2. NextIndex(tail) \in Index /\ NextIndex(head) \in Index
    BY <1>1, NextIndexCases
  <2>3. popCmd \in Command
    BY <2>1, OldestWaiting
  <2>4. RingTypeOK'
    BY <2>2, <2>3 DEF RingTypeOK
  <2>5. RingHoldsBacklog'
    <3>1. /\ Occupancy(head, tail') = Occupancy(head, tail) - 1
          /\ \A j \in Index : j + 1 < RingSize =>
                 SlotAt(tail', j) = SlotAt(tail, j + 1)
      BY <1>1, <2>1, OccupancyPop
    <3>2. Len(delivered') = Len(delivered) + 1
      BY <1>2, <2>3
    <3>3. /\ Occupancy(head, tail) \in 0 .. RingSize - 1
          /\ Len(delivered) \in Nat
      BY <1>1, <1>2, OccupancyRange
    <3>4. Len(accepted) = Len(delivered) + Occupancy(head, tail)
      BY DEF RingHoldsBacklog
    <3>5. ASSUME NEW j \in Index, j < Occupancy(head', tail')
          PROVE  ring'[SlotAt(tail', j)] = accepted'[Len(delivered') + 1 + j]
      <4>1. j + 1 \in Index /\ j + 1 < Occupancy(head, tail) /\ j + 1 < RingSize
        BY <3>1, <3>3, <3>5, RingSizeAssumption DEF Index
      <4>2. ring[SlotAt(tail, j + 1)] = accepted[Len(delivered) + 1 + (j + 1)]
        BY <4>1 DEF RingHoldsBacklog
      <4>3. Len(delivered') + 1 + j = Len(delivered) + 1 + (j + 1)
        BY <3>2, <3>3 DEF Index
      <4> QED  BY <3>1, <4>1, <4>2, <4>3
    <3>6. Len(accepted') = Len(delivered') + Occupancy(head', tail')
      BY <3>1, <3>2, <3>3, <3>4, RingSizeAssumption
    <3> QED  BY <3>5, <3>6 DEF RingHoldsBacklog
  <2>6. PushInFlight'
    BY <1>1, <2>1, NextIndexCases, RingSizeAssumption
       DEF PushInFlight, Index
  <2>7. PopInFlight'
    BY DEF PopInFlight
  <2> QED  BY <2>4, <2>5, <2>6, <2>7
<1>10. CASE UNCHANGED vars
  BY <1>10 DEF vars, ringVars, pushVars, popVars, dropVars,
       RingTypeOK, RingHoldsBacklog, PushInFlight, PopInFlight
<1> QED
  BY <1>3, <1>4, <1>5, <1>6, <1>7, <1>8, <1>9, <1>10 DEF Next, Core0, Core1

LEMMA InductiveInvariant == Spec => []IInv
BY InitIInv, StepIInv, PTL DEF Spec

(* _push()/_pop(): what lies between _tail and _head is exactly what was   *)
(* accepted and not yet delivered, in order, for every ring size.          *)
THEOREM BacklogSafe == Spec => []RingHoldsBacklog
<1>1. IInv => RingHoldsBacklog
  BY DEF IInv
<1> QED  BY <1>1, InductiveInvariant, PTL

(* _push()/_pop(): the slot core 0 copies is never the slot core 1 fills.  *)
THEOREM NoRace == Spec => []NoSlotRace
<1>1. IInv => NoSlotRace
  BY DEF IInv, PopInFlight, NoSlotRace
<1> QED  BY <1>1, InductiveInvariant, PTL

-----------------------------------------------------------------------------
(* The ring implements BusSpec: PushCommit is Accept, PopAdvance is        *)
(* Receive, every other step changes neither sent nor got.                 *)

LEMMA InitImplements == Init => Abstract!Init
BY DEF Init, Abstract!Init

LEMMA StepImplements == IInv /\ [Next]_vars => [Abstract!Next]_(Abstract!busVars)
<1> SUFFICES ASSUME IInv, [Next]_vars
             PROVE  Abstract!Next \/ UNCHANGED <<accepted, delivered>>
  BY DEF Abstract!busVars
<1>1. head \in Index /\ tail \in Index
  BY DEF IInv, RingTypeOK
<1>2. accepted \in Seq(Command) /\ delivered \in Seq(Command)
  BY DEF IInv, RingTypeOK
<1>3. Len(accepted) = Len(delivered) + Occupancy(head, tail)
  BY DEF IInv, RingHoldsBacklog
<1>4. CASE PushCommit
  <2>1. NextIndex(head) # tail /\ pushCmd \in Command
    BY <1>4 DEF PushCommit, IInv, PushInFlight
  <2>2. Occupancy(head, tail) \in 0 .. RingSize - 1
        /\ Occupancy(head, tail) # RingSize - 1
    BY <1>1, <2>1, OccupancyRange
  <2>3. Len(accepted) - Len(delivered) < RingSize - 1
    BY <1>2, <1>3, <2>2, RingSizeAssumption
  <2>4. Abstract!Accept(pushCmd)
    BY <1>4, <2>3 DEF PushCommit, Abstract!Accept
  <2> QED  BY <2>1, <2>4 DEF Abstract!Next
<1>5. CASE PopAdvance
  <2>1. head # tail /\ popCmd = ring[tail]
    BY <1>5 DEF PopAdvance, IInv, PopInFlight
  <2>2. /\ Len(delivered) < Len(accepted)
        /\ popCmd = accepted[Len(delivered) + 1]
    BY <2>1, OldestWaiting
  <2>3. Abstract!Receive
    BY <1>5, <2>2 DEF PopAdvance, Abstract!Receive
  <2> QED  BY <2>3 DEF Abstract!Next
<1>6. ASSUME ~PushCommit, ~PopAdvance  PROVE UNCHANGED <<accepted, delivered>>
  BY <1>6 DEF Next, Core0, Core1, PushDrop, PushTest, PushWrite, PopTest,
       PopCopy, vars, dropVars
<1> QED  BY <1>4, <1>5, <1>6

(* Whatever the interleaving of the two cores, the ring behaves as the     *)
(* bounded FIFO of BusSpec with RingSize - 1 places.                       *)
THEOREM BusImplemented == Spec => ImplementsBus
BY InitImplements, StepImplements, InductiveInvariant, PTL
   DEF Spec, ImplementsBus, Abstract!Spec

-----------------------------------------------------------------------------
(* The drop log.                                                           *)

(* One wrap of an index into the drop log, without %.                      *)
LEMMA ModOnce ==
    ASSUME NEW n \in Nat \ {0}, NEW x \in 0 .. 2 * n - 1
    PROVE  x % n = IF x < n THEN x ELSE x - n
OBVIOUS

DropTypeOK ==
    /\ dropLog \in [0 .. DropLogSize - 1 -> Command \cup {None}]
    /\ dropHead \in 0 .. DropLogSize - 1
    /\ dropCount \in 0 .. DropLogSize /\ dropTotal \in Nat
    /\ refused \in Seq(Command)

DropInv ==
    /\ DropTypeOK
    /\ dropCount <= Len(refused)
    /\ DropLogIsNewest

(* The log index of the i-th most recent drop. *)
LEMMA EntryIndex ==
    ASSUME NEW d \in 0 .. DropLogSize - 1, NEW i \in 0 .. DropLogSize - 1
    PROVE  (d + DropLogSize - 1 - i) % DropLogSize =
               IF i < d THEN d - 1 - i ELSE d - 1 - i + DropLogSize
<1>1. DropLogSize \in Nat \ {0}
  BY CommandBusAssumption
<1> DEFINE x == d + DropLogSize - 1 - i
<1>2. x \in 0 .. 2 * DropLogSize - 1
  BY <1>1
<1>3. x % DropLogSize = IF x < DropLogSize THEN x ELSE x - DropLogSize
  <2> HIDE DEF x
  <2> QED  BY <1>1, <1>2, ModOnce
<1>4. (IF x < DropLogSize THEN x ELSE x - DropLogSize) =
          IF i < d THEN d - 1 - i ELSE d - 1 - i + DropLogSize
  BY <1>1
<1> QED  BY <1>3, <1>4

(* Moving the log head on by one moves every older entry back by one.      *)
LEMMA EntryMoves ==
    ASSUME NEW S \in Nat \ {0}, NEW d \in 0 .. S - 1, NEW e \in 0 .. S - 1,
           NEW i \in 0 .. S - 1, i > 0,
           e = IF d + 1 < S THEN d + 1 ELSE 0
    PROVE  /\ (IF i < e THEN e - 1 - i ELSE e - 1 - i + S) =
              (IF i - 1 < d THEN d - 1 - (i - 1) ELSE d - 1 - (i - 1) + S)
           /\ (IF i < e THEN e - 1 - i ELSE e - 1 - i + S) # d
<1>1. CASE d + 1 < S
  BY <1>1
<1>2. CASE d + 1 = S
  BY <1>2
<1> QED  BY <1>1, <1>2

LEMMA StepDropInv == DropInv /\ [Next]_vars => DropInv'
<1> SUFFICES ASSUME DropInv, [Next]_vars  PROVE DropInv'
  OBVIOUS
<1>1. DropLogSize \in Nat \ {0}
  BY CommandBusAssumption
<1>2. ASSUME NEW c \in Command, PushDrop(c)  PROVE DropInv'
  <2> USE <1>2 DEF PushDrop, RecordDrop, DropInv
  <2>1. dropHead' = IF dropHead + 1 < DropLogSize THEN dropHead + 1 ELSE 0
    <3> DEFINE x == dropHead + 1
    <3>1. x \in 0 .. 2 * DropLogSize - 1 /\ x <= DropLogSize
      BY <1>1 DEF DropTypeOK
    <3>2. x % DropLogSize = IF x < DropLogSize THEN x ELSE x - DropLogSize
      <4> HIDE DEF x
      <4> QED  BY <1>1, <3>1, ModOnce
    <3>3. dropHead' = x % DropLogSize
      OBVIOUS
    <3> QED  BY <1>1, <3>1, <3>2, <3>3
  <2>2. /\ refused \in Seq(Command) /\ refused' = Append(refused, c)
        /\ Len(refused') = Len(refused) + 1
    BY DEF DropTypeOK
  <2>3. DropTypeOK'
    BY <1>1, <2>1, <2>2 DEF DropTypeOK
  <2>4. dropCount' <= Len(refused')
    BY <1>1, <2>2 DEF DropTypeOK
  <2>5. ASSUME NEW i \in 0 .. dropCount' - 1
        PROVE  DropLogEntry(i)' = refused'[Len(refused') - i]
    <3>1. i \in 0 .. DropLogSize - 1 /\ dropHead' \in 0 .. DropLogSize - 1
          /\ dropHead \in 0 .. DropLogSize - 1
      BY <1>1, <2>3, <2>5 DEF DropTypeOK
    <3>2. (dropHead' + DropLogSize - 1 - i) % DropLogSize =
             IF i < dropHead' THEN dropHead' - 1 - i
             ELSE dropHead' - 1 - i + DropLogSize
      BY <3>1, EntryIndex
    <3>3. CASE i = 0
      <4>0. (IF i < dropHead' THEN dropHead' - 1 - i
             ELSE dropHead' - 1 - i + DropLogSize) = dropHead
        BY <1>1, <2>1, <3>1, <3>3
      <4>1. (dropHead' + DropLogSize - 1 - i) % DropLogSize = dropHead
        BY <3>2, <4>0
      <4>2. DropLogEntry(i)' = c
        BY <3>1, <4>1 DEF DropLogEntry, DropTypeOK
      <4> QED  BY <2>2, <3>3, <4>2
    <3>4. CASE i > 0
      <4>1. i - 1 \in 0 .. dropCount - 1 /\ i - 1 \in 0 .. DropLogSize - 1
        BY <1>1, <2>5, <3>1, <3>4 DEF DropTypeOK
      <4>2. (dropHead + DropLogSize - 1 - (i - 1)) % DropLogSize =
               IF i - 1 < dropHead THEN dropHead - 1 - (i - 1)
               ELSE dropHead - 1 - (i - 1) + DropLogSize
        BY <3>1, <4>1, EntryIndex
      <4>0. /\ (IF i < dropHead' THEN dropHead' - 1 - i
                ELSE dropHead' - 1 - i + DropLogSize) =
               (IF i - 1 < dropHead THEN dropHead - 1 - (i - 1)
                ELSE dropHead - 1 - (i - 1) + DropLogSize)
            /\ (IF i < dropHead' THEN dropHead' - 1 - i
                ELSE dropHead' - 1 - i + DropLogSize) # dropHead
        BY <1>1, <2>1, <3>1, <3>4, EntryMoves
      <4>3. /\ (dropHead' + DropLogSize - 1 - i) % DropLogSize =
               (dropHead + DropLogSize - 1 - (i - 1)) % DropLogSize
            /\ (dropHead' + DropLogSize - 1 - i) % DropLogSize # dropHead
        BY <3>2, <4>0, <4>2
      <4>4. DropLogEntry(i)' = DropLogEntry(i - 1)
        <5>1. (dropHead + DropLogSize - 1 - (i - 1)) % DropLogSize
                  \in 0 .. DropLogSize - 1
          BY <1>1, <3>1, <4>1, <4>2
        <5> QED  BY <4>3, <5>1 DEF DropLogEntry, DropTypeOK
      <4>5. DropLogEntry(i - 1) = refused[Len(refused) - (i - 1)]
        BY <4>1 DEF DropLogIsNewest
      <4>6. Len(refused) - (i - 1) \in 1 .. Len(refused)
            /\ Len(refused') - i = Len(refused) - (i - 1)
        BY <2>2, <4>1 DEF DropTypeOK
      <4> QED  BY <2>2, <4>4, <4>5, <4>6
    <3>5. i = 0 \/ i > 0
      BY <1>1, <3>1
    <3> QED  BY <3>3, <3>4, <3>5
  <2>6. DropLogIsNewest'
    BY <2>2, <2>5 DEF DropLogIsNewest
  <2> QED  BY <2>3, <2>4, <2>6
<1>3. ASSUME ~ \E c \in Command : PushDrop(c)  PROVE DropInv'
  <2>1. UNCHANGED dropVars
    BY <1>3 DEF Next, Core0, Core1, PushTest, PushWrite, PushCommit,
         PopTest, PopCopy, PopAdvance, vars
  <2> QED  BY <2>1 DEF dropVars, DropInv, DropTypeOK, DropLogIsNewest,
             DropLogEntry
<1> QED  BY <1>2, <1>3

(* _recordDrop()/dropLogEntry(): the log shows the newest drops, newest    *)
(* first, for every size of the log.                                       *)
THEOREM DropLogSafe == Spec => []DropLogIsNewest
<1>1. Init => DropInv
  BY CommandBusAssumption
     DEF Init, DropInv, DropTypeOK, DropLogIsNewest, DropLogEntry
<1>2. DropInv => DropLogIsNewest
  BY DEF DropInv
<1> QED  BY <1>1, <1>2, StepDropInv, PTL DEF Spec

(* The type invariant of the whole component.                              *)
THEOREM TypeCorrect == Spec => []TypeOK
<1>1. Init => DropInv
  BY CommandBusAssumption
     DEF Init, DropInv, DropTypeOK, DropLogIsNewest, DropLogEntry
<1>2. IInv /\ DropInv => TypeOK
  BY DEF IInv, RingTypeOK, DropInv, DropTypeOK, TypeOK
<1> QED  BY <1>1, <1>2, StepDropInv, InductiveInvariant, PTL DEF Spec

-----------------------------------------------------------------------------
(* The event ring, as event_bus.h wants it: only core 0 publishes.  Its     *)
(* indices are those of the command ring.                                  *)
LEMMA SameIndices ==
    /\ Events!Index = Index /\ Events!Core = {0, 1}
    /\ \A i : Events!NextIndex(i) = NextIndex(i)
BY DEF Events!Index, Index, Events!NextIndex, NextIndex, Events!Core

EvTypes ==
    /\ eRing \in [Index -> Event \cup {None}]
    /\ eHead \in Index /\ eTail \in Index
    /\ ePush \in [{0, 1} -> {"idle", "write", "commit"}] /\ ePush[1] = "idle"
    /\ ePushEv \in [{0, 1} -> Event \cup {None}]
    /\ ePushNext \in [{0, 1} -> Index]
    /\ ePop \in {"idle", "copy", "advance"} /\ ePopEv \in Event \cup {None}
    /\ published \in Seq(Event) /\ handled \in Seq(Event)

EvBacklog ==
    /\ Len(published) = Len(handled) + Occupancy(eHead, eTail)
    /\ \A j \in Index : j < Occupancy(eHead, eTail) =>
           eRing[SlotAt(eTail, j)] = published[Len(handled) + 1 + j]

EvPush ==
    /\ ePush[0] \in {"write", "commit"} =>
           NextIndex(eHead) # eTail /\ ePushNext[0] = NextIndex(eHead) /\ ePushEv[0] \in Event
    /\ ePush[0] = "commit" => eRing[eHead] = ePushEv[0]

EvPop ==
    /\ ePop \in {"copy", "advance"} => eHead # eTail
    /\ ePop = "advance" => ePopEv = eRing[eTail]

EvInv == EvTypes /\ EvBacklog /\ EvPush /\ EvPop

LEMMA EvInitially == Events!Init => EvInv
<1> SUFFICES ASSUME Events!Init PROVE EvInv
  OBVIOUS
<1>1. 0 \in Index /\ Occupancy(0, 0) = 0
  BY RingSizeAssumption DEF Index, Occupancy
<1>2. EvTypes
  BY <1>1, SameIndices DEF Events!Init, EvTypes
<1>3. EvBacklog
  BY <1>1 DEF Events!Init, EvBacklog, Index
<1>4. EvPush /\ EvPop
  BY SameIndices DEF Events!Init, EvPush, EvPop
<1> QED BY <1>2, <1>3, <1>4 DEF EvInv

LEMMA EvOldest ==
    ASSUME EvInv, eHead # eTail
    PROVE  /\ Len(handled) < Len(published)
           /\ eRing[eTail] = published[Len(handled) + 1] /\ eRing[eTail] \in Event
<1>1. /\ eHead \in Index /\ eTail \in Index
      /\ published \in Seq(Event) /\ handled \in Seq(Event)
  BY DEF EvInv, EvTypes
<1>2. Occupancy(eHead, eTail) \in 1 .. RingSize - 1 /\ SlotAt(eTail, 0) = eTail
  BY <1>1, OccupancyRange, RingSizeAssumption
<1>3. 0 \in Index /\ 0 < Occupancy(eHead, eTail)
  BY <1>2, RingSizeAssumption DEF Index
<1>4. eRing[eTail] = published[Len(handled) + 1 + 0]
  BY <1>2, <1>3 DEF EvInv, EvBacklog
<1>5. Len(handled) \in Nat /\ Len(published) \in Nat
  BY <1>1
<1>6. Len(handled) + 1 \in 1 .. Len(published)
  BY <1>2, <1>5 DEF EvInv, EvBacklog
<1> QED BY <1>1, <1>4, <1>5, <1>6

LEMMA EvPushKeeps ==
    ASSUME EvInv,
           (\E e \in Event : Events!PushTest(0, e)) \/ Events!PushWrite(0) \/ Events!PushCommit(0)
    PROVE  EvInv'
<1> USE DEF EvInv, Events!ringVars, Events!popVars, Events!pushVars
<1>1. /\ eHead \in Index /\ eTail \in Index
      /\ published \in Seq(Event) /\ handled \in Seq(Event)
  BY DEF EvTypes
<1>2. NextIndex(eHead) \in Index
  BY <1>1, NextIndexCases
<1>3. ASSUME NEW e \in Event, Events!PushTest(0, e) PROVE EvInv'
  <2>1. /\ NextIndex(eHead) # eTail
        /\ ePush' = [ePush EXCEPT ![0] = "write"] /\ ePushEv' = [ePushEv EXCEPT ![0] = e]
        /\ ePushNext' = [ePushNext EXCEPT ![0] = NextIndex(eHead)]
        /\ UNCHANGED <<eRing, eHead, eTail, ePop, ePopEv, published, handled>>
    BY <1>3, SameIndices DEF Events!PushTest
  <2>2. EvTypes'
    BY <1>2, <2>1 DEF EvTypes
  <2>3. EvPush'
    BY <2>1 DEF EvPush, EvTypes
  <2> QED BY <2>1, <2>2, <2>3 DEF EvBacklog, EvPop
<1>4. CASE Events!PushWrite(0)
  <2>1. /\ ePush[0] = "write" /\ eRing' = [eRing EXCEPT ![eHead] = ePushEv[0]]
        /\ ePush' = [ePush EXCEPT ![0] = "commit"]
        /\ UNCHANGED <<eHead, eTail, ePushEv, ePushNext, ePop, ePopEv, published, handled>>
    BY <1>4 DEF Events!PushWrite
  <2>2. NextIndex(eHead) # eTail /\ ePushEv[0] \in Event /\ ePushNext[0] = NextIndex(eHead)
    BY <2>1 DEF EvPush
  <2>3. EvTypes'
    BY <2>1 DEF EvTypes
  <2>4. EvBacklog'
    BY <1>1, <2>1, OccupancyRange DEF EvBacklog, EvTypes
  <2>5. EvPush'
    BY <2>1, <2>2 DEF EvPush, EvTypes
  <2>6. EvPop'
    BY <2>1 DEF EvPop, EvTypes
  <2> QED BY <2>3, <2>4, <2>5, <2>6
<1>5. CASE Events!PushCommit(0)
  <2>1. /\ NextIndex(eHead) # eTail /\ ePushEv[0] \in Event /\ eRing[eHead] = ePushEv[0]
        /\ eHead' = NextIndex(eHead)
    BY <1>5 DEF Events!PushCommit, EvPush
  <2>2. /\ published' = Append(published, ePushEv[0])
        /\ ePush' = [ePush EXCEPT ![0] = "idle"] /\ ePushEv' = [ePushEv EXCEPT ![0] = None]
        /\ UNCHANGED <<eRing, eTail, ePushNext, ePop, ePopEv, handled>>
    BY <1>5 DEF Events!PushCommit
  <2>3. EvTypes'
    BY <1>2, <2>1, <2>2 DEF EvTypes
  <2>4. EvBacklog'
    <3>1. /\ Occupancy(eHead', eTail) = Occupancy(eHead, eTail) + 1
          /\ SlotAt(eTail, Occupancy(eHead, eTail)) = eHead
      BY <1>1, <2>1, OccupancyPush
    <3>2. Len(published') = Len(published) + 1
      BY <1>1, <2>1, <2>2
    <3>3. Occupancy(eHead, eTail) \in Nat /\ Len(handled) \in Nat
      BY <1>1, OccupancyRange, RingSizeAssumption
    <3>4. Len(published) = Len(handled) + Occupancy(eHead, eTail)
      BY DEF EvBacklog
    <3>5. ASSUME NEW j \in Index, j < Occupancy(eHead', eTail')
          PROVE  eRing'[SlotAt(eTail', j)] = published'[Len(handled') + 1 + j]
      <4>1. CASE j < Occupancy(eHead, eTail)
        <5>1. eRing[SlotAt(eTail, j)] = published[Len(handled) + 1 + j]
          BY <4>1 DEF EvBacklog
        <5>2. Len(handled) + 1 + j \in 1 .. Len(published)
          BY <3>3, <3>4, <4>1, RingSizeAssumption DEF Index
        <5> QED BY <1>1, <2>1, <2>2, <5>1, <5>2
      <4>2. CASE j = Occupancy(eHead, eTail)
        <5>1. Len(handled) + 1 + j = Len(published) + 1
          BY <3>3, <3>4, <4>2
        <5> QED BY <1>1, <2>1, <2>2, <3>1, <4>2, <5>1
      <4>3. j < Occupancy(eHead, eTail) \/ j = Occupancy(eHead, eTail)
        BY <2>2, <3>1, <3>3, <3>5, RingSizeAssumption DEF Index
      <4> QED BY <4>1, <4>2, <4>3
    <3>6. Len(published') = Len(handled') + Occupancy(eHead', eTail')
      BY <2>2, <3>1, <3>2, <3>3, <3>4
    <3> QED BY <3>5, <3>6 DEF EvBacklog
  <2>5. EvPush'
    BY <2>2 DEF EvPush, EvTypes
  <2>6. EvPop'
    <3>1. eHead' # eTail'
      BY <2>1, <2>2
    <3> QED BY <2>2, <3>1 DEF EvPop
  <2> QED BY <2>3, <2>4, <2>5, <2>6
<1> QED BY <1>3, <1>4, <1>5

LEMMA EvPopKeeps ==
    ASSUME EvInv, Events!Poll
    PROVE  EvInv'
<1> USE DEF EvInv, Events!ringVars, Events!popVars, Events!pushVars
<1>1. /\ eHead \in Index /\ eTail \in Index
      /\ published \in Seq(Event) /\ handled \in Seq(Event)
  BY DEF EvTypes
<1>2. CASE Events!PopTest
  <2>1. /\ eHead # eTail /\ ePop' = "copy"
        /\ UNCHANGED <<eRing, eHead, eTail, ePush, ePushEv, ePushNext, ePopEv, published, handled>>
    BY <1>2 DEF Events!PopTest
  <2> QED BY <2>1 DEF EvTypes, EvBacklog, EvPush, EvPop
<1>3. CASE Events!PopCopy
  <2>1. /\ eHead # eTail /\ ePop' = "advance" /\ ePopEv' = eRing[eTail]
        /\ UNCHANGED <<eRing, eHead, eTail, ePush, ePushEv, ePushNext, published, handled>>
    BY <1>3 DEF Events!PopCopy, EvPop
  <2> QED BY <1>1, <2>1 DEF EvTypes, EvBacklog, EvPush, EvPop
<1>4. CASE Events!PopAdvance
  <2>1. eHead # eTail /\ ePopEv = eRing[eTail]
    BY <1>4 DEF Events!PopAdvance, EvPop
  <2>2. ePopEv \in Event
    BY <2>1, EvOldest
  <2>3. /\ eTail' = NextIndex(eTail) /\ handled' = Append(handled, ePopEv)
        /\ ePop' = "idle" /\ ePopEv' = None
        /\ UNCHANGED <<eRing, eHead, ePush, ePushEv, ePushNext, published>>
    BY <1>4, SameIndices DEF Events!PopAdvance
  <2>4. NextIndex(eTail) \in Index
    BY <1>1, NextIndexCases
  <2>5. EvTypes'
    BY <2>2, <2>3, <2>4 DEF EvTypes
  <2>6. EvBacklog'
    <3>1. /\ Occupancy(eHead, eTail') = Occupancy(eHead, eTail) - 1
          /\ \A j \in Index : j + 1 < RingSize => SlotAt(eTail', j) = SlotAt(eTail, j + 1)
      BY <1>1, <2>1, <2>3, OccupancyPop
    <3>2. Len(handled') = Len(handled) + 1
      BY <1>1, <2>2, <2>3
    <3>3. Occupancy(eHead, eTail) \in 0 .. RingSize - 1 /\ Len(handled) \in Nat
      BY <1>1, OccupancyRange
    <3>4. Len(published) = Len(handled) + Occupancy(eHead, eTail)
      BY DEF EvBacklog
    <3>5. ASSUME NEW j \in Index, j < Occupancy(eHead', eTail')
          PROVE  eRing'[SlotAt(eTail', j)] = published'[Len(handled') + 1 + j]
      <4>1. j + 1 \in Index /\ j + 1 < Occupancy(eHead, eTail) /\ j + 1 < RingSize
        BY <2>3, <3>1, <3>3, <3>5, RingSizeAssumption DEF Index
      <4>2. eRing[SlotAt(eTail, j + 1)] = published[Len(handled) + 1 + (j + 1)]
        BY <4>1 DEF EvBacklog
      <4>3. Len(handled') + 1 + j = Len(handled) + 1 + (j + 1)
        BY <3>2, <3>3 DEF Index
      <4> QED BY <2>3, <3>1, <4>1, <4>2, <4>3
    <3> QED BY <2>3, <3>1, <3>2, <3>3, <3>4, <3>5, RingSizeAssumption DEF EvBacklog
  <2>7. EvPush'
    BY <1>1, <2>1, <2>3, NextIndexCases, RingSizeAssumption DEF EvPush, EvTypes, Index
  <2>8. EvPop'
    BY <2>3 DEF EvPop
  <2> QED BY <2>5, <2>6, <2>7, <2>8
<1> QED BY <1>2, <1>3, <1>4 DEF Events!Poll

LEMMA EvStep ==
    EvInv /\ [PathsNext]_<<part, vars, eventVars, callVars, relayVars, serviceVars>>
        => EvInv'
<1> SUFFICES ASSUME EvInv, [PathsNext]_<<part, vars, eventVars, callVars, relayVars,
                                                  serviceVars>>
             PROVE  EvInv'
  OBVIOUS
<1>1. CASE Events!Next
  BY <1>1, EvPushKeeps, EvPopKeeps DEF Events!Next, Events!Publish
<1>2. CASE ~Events!Next
  <2>1. UNCHANGED eventVars
    BY <1>2 DEF PathsNext
  <2> QED BY <2>1 DEF eventVars, EvInv, EvTypes, EvBacklog, EvPush, EvPop
<1> QED BY <1>1, <1>2

LEMMA EvImplements ==
    EvInv /\ [PathsNext]_<<part, vars, eventVars, callVars, relayVars, serviceVars>>
        => [Events!Abstract!Next]_(Events!Abstract!busVars)
<1> SUFFICES ASSUME EvInv, [PathsNext]_<<part, vars, eventVars, callVars, relayVars,
                                                  serviceVars>>
             PROVE  Events!Abstract!Next \/ UNCHANGED <<published, handled>>
  BY DEF Events!Abstract!busVars
<1>1. /\ eHead \in Index /\ eTail \in Index
      /\ published \in Seq(Event) /\ handled \in Seq(Event)
  BY DEF EvInv, EvTypes
<1>2. Len(published) = Len(handled) + Occupancy(eHead, eTail)
  BY DEF EvInv, EvBacklog
<1>3. CASE Events!PushCommit(0)
  <2>1. NextIndex(eHead) # eTail /\ ePushEv[0] \in Event
    BY <1>3 DEF Events!PushCommit, EvInv, EvPush
  <2>2. Occupancy(eHead, eTail) \in 0 .. RingSize - 1 /\ Occupancy(eHead, eTail) # RingSize - 1
    BY <1>1, <2>1, OccupancyRange
  <2>3. Len(published) - Len(handled) < RingSize - 1
    BY <1>1, <1>2, <2>2, RingSizeAssumption
  <2>4. Events!Abstract!Accept(ePushEv[0])
    BY <1>3, <2>3 DEF Events!PushCommit, Events!Abstract!Accept
  <2> QED BY <2>1, <2>4 DEF Events!Abstract!Next
<1>4. CASE Events!PopAdvance
  <2>1. eHead # eTail /\ ePopEv = eRing[eTail]
    BY <1>4 DEF Events!PopAdvance, EvInv, EvPop
  <2>2. Len(handled) < Len(published) /\ ePopEv = published[Len(handled) + 1]
    BY <2>1, EvOldest
  <2>3. Events!Abstract!Receive
    BY <1>4, <2>2 DEF Events!PopAdvance, Events!Abstract!Receive
  <2> QED BY <2>3 DEF Events!Abstract!Next
<1>5. ASSUME ~Events!PushCommit(0), ~Events!PopAdvance
      PROVE  UNCHANGED <<published, handled>>
  <2>1. CASE Events!Next
    BY <1>5, <2>1 DEF Events!Next, Events!Publish, Events!Poll, Events!PushTest,
                      Events!PushWrite, Events!PopTest, Events!PopCopy
  <2>2. CASE ~Events!Next
    BY <2>2 DEF PathsNext, eventVars
  <2> QED BY <2>1, <2>2
<1> QED BY <1>3, <1>4, <1>5

(* With core 0 alone publishing, as event_bus.h says, the event ring is    *)
(* the bounded FIFO of BusSpec for every ring size and whatever core 1     *)
(* does in between; MCEventBusTwo.cfg shows that it is not with both.      *)
THEOREM EventsImplemented == PathsSpec => ImplementsEventBus
<1>1. PathsInit => EvInv
  BY EvInitially DEF PathsInit
<1>2. PathsInit => Events!Abstract!Init
  BY DEF PathsInit, Events!Init, Events!Abstract!Init
<1> QED BY <1>1, <1>2, EvStep, EvImplements, PTL
        DEF PathsSpec, ImplementsEventBus, Events!ImplementsBus, Events!Abstract!Spec

-----------------------------------------------------------------------------
(* The turnout relay, one request at a time.                               *)
(*                                                                         *)
(* A request that is not done yet is at exactly one of the four places it  *)
(* passes.  While the message that tells LocoNet of it is still to be      *)
(* sent, lastSent is out of date; at any other time it is the position the *)
(* track has, so that a request of a device taken for the echo is one that *)
(* asks for what the turnout does already.                                 *)
Alone(o, s, t, w) == orders = o /\ states = s /\ txQueue = t /\ wire = w

(* The track is set. *)
Set(r) == turnouts[r.turnout] = r.pos

Travels(r) ==
    /\ wanted[r.turnout] = r.pos
    /\ \A t \in Turnout \ {r.turnout} : turnouts[t] = wanted[t]
    /\ \/ Alone(<<r>>, <<>>, <<>>, <<>>)
       \/ Alone(<<>>, <<r>>, <<>>, <<>>) /\ Set(r)
       \/ Alone(<<>>, <<>>, <<r>>, <<>>) /\ Set(r)
       \/ Alone(<<>>, <<>>, <<>>, <<r>>)

AtRest == Alone(<<>>, <<>>, <<>>, <<>>) /\ \A t \in Turnout : turnouts[t] = wanted[t]

RelTypes ==
    /\ turnouts \in [Turnout -> Relay!Position] /\ wanted \in [Turnout -> Relay!Position]
    /\ accessories \in [Turnout -> Relay!Position \cup {"unknown"}]
    /\ lastSent \in Relay!Request \cup {NoRequest} /\ unseen \subseteq Turnout
    /\ awaiting \in BOOLEAN /\ late \in BOOLEAN /\ made \in 0 .. RelayRequests

EchoRight == awaiting => lastSent \in Relay!Request /\ (states = <<>> => Set(lastSent))

Shown == \A t \in Turnout \ unseen : accessories[t] \in {"unknown", wanted[t]}

RelInv == RelTypes /\ EchoRight /\ Shown /\ (AtRest \/ \E r \in Relay!Request : Travels(r))

LEMMA RelInitially == Relay!Init => RelInv
<1> SUFFICES ASSUME Relay!Init PROVE RelInv
  OBVIOUS
<1>1. RelTypes /\ EchoRight /\ Shown
  <2>1. turnouts \in [Turnout -> Relay!Position] /\ wanted \in [Turnout -> Relay!Position]
    BY DEF Relay!Init, Relay!Position
  <2>2. accessories = [t \in Turnout |-> "unknown"] /\ unseen = {} /\ lastSent = NoRequest
    BY DEF Relay!Init
  <2>3. awaiting = FALSE /\ late = FALSE /\ made \in 0 .. RelayRequests
    BY PathsAssumption DEF Relay!Init
  <2>4. RelTypes
    BY <2>1, <2>2, <2>3 DEF RelTypes
  <2> QED BY <2>2, <2>3, <2>4 DEF EchoRight, Shown
<1>2. AtRest
  BY DEF Relay!Init, AtRest, Alone
<1> QED BY <1>1, <1>2 DEF RelInv

LEMMA RelWins == RelInv => LastCommandWins
<1> SUFFICES ASSUME RelInv, Relay!Settled PROVE LastCommandWins
  BY DEF LastCommandWins, Relay!LastCommandWins
<1>1. \A r : <<r>> # <<>>
  OBVIOUS
<1>2. AtRest
  BY <1>1 DEF RelInv, Travels, Alone, Relay!Settled
<1> QED BY <1>2 DEF LastCommandWins, Relay!LastCommandWins, RelInv, AtRest, Shown

LEMMA RequestTyped ==
    ASSUME NEW r \in Relay!Request
    PROVE  r.turnout \in Turnout /\ r.pos \in Relay!Position
BY DEF Relay!Request

LEMMA TurnoutSet ==
    ASSUME RelInv, NEW r \in Relay!Request, Relay!HandleTurnout(r)
    PROVE  RelInv'
<1>1. r.turnout \in Turnout /\ r.pos \in Relay!Position
  BY RequestTyped
<1>2. /\ Relay!Settled /\ made' = made + 1 /\ made < RelayRequests
      /\ accessories' = [accessories EXCEPT ![r.turnout] = r.pos]
      /\ UNCHANGED <<states, txQueue, wire, lastSent, awaiting, late, turnouts>>
  BY DEF Relay!HandleTurnout, Relay!MayRequest
<1>3. \/ /\ orders' = Append(orders, r)
         /\ wanted' = [wanted EXCEPT ![r.turnout] = r.pos]
         /\ unseen' = unseen \ {r.turnout}
      \/ unseen' = unseen \cup {r.turnout} /\ UNCHANGED <<orders, wanted>>
  BY DEF Relay!HandleTurnout
<1>4. AtRest /\ Append(<<>>, r) = <<r>>
  <2>1. \A q : <<q>> # <<>>
    OBVIOUS
  <2>2. AtRest
    BY <1>2, <2>1 DEF RelInv, Travels, Alone, Relay!Settled
  <2> QED BY <2>2
<1>5. RelTypes' /\ EchoRight'
  <2>1. RelTypes'
    BY <1>1, <1>2, <1>3, PathsAssumption DEF RelInv, RelTypes
  <2> QED BY <1>2, <2>1 DEF RelInv, EchoRight, Set
<1>6. Shown'
  BY <1>1, <1>2, <1>3 DEF RelInv, Shown, RelTypes
<1>7. AtRest' \/ Travels(r)'
  <2>1. CASE UNCHANGED <<orders, wanted>>
    BY <1>2, <1>4, <2>1 DEF AtRest, Alone
  <2>2. CASE orders' = Append(orders, r) /\ wanted' = [wanted EXCEPT ![r.turnout] = r.pos]
    <3>1. wanted'[r.turnout] = r.pos /\ \A t \in Turnout \ {r.turnout} : wanted'[t] = wanted[t]
      BY <1>1, <2>2 DEF RelInv, RelTypes
    <3> QED BY <1>2, <1>4, <2>2, <3>1 DEF AtRest, Alone, Travels
  <2> QED BY <1>3, <2>1, <2>2
<1> QED BY <1>5, <1>6, <1>7 DEF RelInv

LEMMA DeviceSet ==
    ASSUME RelInv, NEW r \in Relay!Request, Relay!DeviceRequest(r)
    PROVE  RelInv'
<1>1. r.turnout \in Turnout /\ r.pos \in Relay!Position
  BY RequestTyped
<1>2. /\ Relay!Settled /\ made' = made + 1 /\ made < RelayRequests
      /\ wire' = Append(wire, r)
      /\ wanted' = [wanted EXCEPT ![r.turnout] = r.pos]
      /\ unseen' = unseen \cup {r.turnout}
      /\ UNCHANGED <<orders, states, txQueue, lastSent, awaiting, late, accessories, turnouts>>
  BY DEF Relay!DeviceRequest, Relay!MayRequest
<1>3. AtRest /\ Append(<<>>, r) = <<r>>
  <2>1. \A q : <<q>> # <<>>
    OBVIOUS
  <2>2. AtRest
    BY <1>2, <2>1 DEF RelInv, Travels, Alone, Relay!Settled
  <2> QED BY <2>2
<1>4. wanted'[r.turnout] = r.pos /\ \A t \in Turnout \ {r.turnout} : wanted'[t] = wanted[t]
  BY <1>1, <1>2 DEF RelInv, RelTypes
<1>5. RelTypes'
  BY <1>1, <1>2, PathsAssumption DEF RelInv, RelTypes
<1>6. EchoRight' /\ Shown'
  BY <1>2, <1>4 DEF RelInv, EchoRight, Set, Shown
<1>7. Travels(r)'
  BY <1>2, <1>3, <1>4 DEF AtRest, Alone, Travels
<1> QED BY <1>5, <1>6, <1>7 DEF RelInv

(* What the four steps on the way take. *)
LEMMA OneTaken == \A r : Head(<<r>>) = r /\ Tail(<<r>>) = <<>> /\ <<r>> # <<>>
OBVIOUS

LEMMA EchoDropped ==
    ASSUME RelInv, Relay!HandleSwReq
    PROVE  RelInv'
<1>1. wire # <<>> /\ wire' = Tail(wire)
  BY DEF Relay!HandleSwReq
<1>2. PICK r \in Relay!Request : Travels(r) /\ Alone(<<>>, <<>>, <<>>, <<r>>)
  BY <1>1 DEF RelInv, AtRest, Travels, Alone
<1>3. r.turnout \in Turnout /\ Len(<<>>) = 0 /\ Append(<<>>, r) = <<r>>
  BY RequestTyped
<1>4. Head(wire) = r /\ wire' = <<>>
  BY <1>1, <1>2, OneTaken DEF Alone
<1>5. UNCHANGED <<states, txQueue, lastSent, late, accessories, turnouts, made, wanted, unseen>>
  BY DEF Relay!HandleSwReq
<1>6. CASE Relay!OwnEcho(r)
  <2>1. awaiting' = FALSE /\ UNCHANGED orders
    BY <1>4, <1>6 DEF Relay!HandleSwReq
  <2>2. Set(r)
    BY <1>2, <1>6 DEF Relay!OwnEcho, RelInv, EchoRight, Alone
  <2>3. AtRest'
    BY <1>2, <1>3, <1>4, <1>5, <2>1, <2>2 DEF Travels, Set, AtRest, Alone
  <2>4. RelTypes' /\ EchoRight' /\ Shown'
    BY <1>5, <2>1 DEF RelInv, RelTypes, EchoRight, Shown
  <2> QED BY <2>3, <2>4 DEF RelInv
<1>7. CASE ~Relay!OwnEcho(r)
  <2>1. UNCHANGED awaiting /\ orders' = IF Relay!Room THEN Append(orders, r) ELSE orders
    BY <1>4, <1>7 DEF Relay!HandleSwReq
  <2>2. orders = <<>> /\ Relay!Room
    BY <1>2, <1>3, PathsAssumption DEF Alone, Relay!Room
  <2>3. orders' = <<r>>
    BY <1>3, <2>1, <2>2
  <2>4. Travels(r)'
    BY <1>2, <1>4, <1>5, <2>3 DEF Travels, Alone
  <2>5. RelTypes' /\ EchoRight' /\ Shown'
    BY <1>5, <2>1 DEF RelInv, RelTypes, EchoRight, Shown, Set
  <2> QED BY <2>4, <2>5 DEF RelInv
<1> QED BY <1>6, <1>7

LEMMA AccessorySet ==
    ASSUME RelInv, Relay!SetAccessory
    PROVE  RelInv'
<1>1. orders # <<>> /\ orders' = Tail(orders)
  BY DEF Relay!SetAccessory
<1>2. PICK r \in Relay!Request : Travels(r) /\ Alone(<<r>>, <<>>, <<>>, <<>>)
  BY <1>1 DEF RelInv, AtRest, Travels, Alone
<1>3. r.turnout \in Turnout /\ r.pos \in Relay!Position /\ Append(<<>>, r) = <<r>> /\ <<r>> # <<>>
  BY RequestTyped
<1>4. Head(orders) = r /\ orders' = <<>>
  BY <1>1, <1>2, OneTaken DEF Alone
<1>5. /\ turnouts' = [turnouts EXCEPT ![r.turnout] = r.pos] /\ states' = <<r>>
      /\ UNCHANGED <<txQueue, wire, lastSent, awaiting, late, accessories, made, wanted, unseen>>
  BY <1>2, <1>3, <1>4 DEF Relay!SetAccessory, Alone
<1>6. Set(r)' /\ \A t \in Turnout \ {r.turnout} : turnouts'[t] = turnouts[t]
  BY <1>3, <1>5 DEF RelInv, RelTypes, Set
<1>7. Travels(r)'
  BY <1>2, <1>4, <1>5, <1>6 DEF Travels, Alone
<1>8. RelTypes' /\ EchoRight' /\ Shown'
  BY <1>3, <1>5 DEF RelInv, RelTypes, EchoRight, Shown
<1> QED BY <1>7, <1>8 DEF RelInv

LEMMA StateTold ==
    ASSUME RelInv, Relay!OnEvent
    PROVE  RelInv'
<1>1. states # <<>> /\ states' = Tail(states)
  BY DEF Relay!OnEvent
<1>2. PICK r \in Relay!Request : Travels(r) /\ Alone(<<>>, <<r>>, <<>>, <<>>) /\ Set(r)
  BY <1>1 DEF RelInv, AtRest, Travels, Alone
<1>3. Append(<<>>, r) = <<r>> /\ <<r>> # <<>>
  OBVIOUS
<1>4. Head(states) = r /\ states' = <<>>
  BY <1>1, <1>2, OneTaken DEF Alone
<1>5. /\ lastSent' = r /\ awaiting' = TRUE /\ late' = FALSE /\ txQueue' = <<r>>
      /\ UNCHANGED <<orders, wire, accessories, turnouts, made, wanted, unseen>>
  BY <1>2, <1>3, <1>4 DEF Relay!OnEvent, Alone
<1>6. Travels(r)'
  BY <1>2, <1>4, <1>5 DEF Travels, Alone, Set
<1>7. RelTypes' /\ EchoRight' /\ Shown'
  BY <1>2, <1>5 DEF RelInv, RelTypes, EchoRight, Shown, Set
<1> QED BY <1>6, <1>7 DEF RelInv

LEMMA MessageSent ==
    ASSUME RelInv, Relay!Transmit
    PROVE  RelInv'
<1>1. txQueue # <<>> /\ txQueue' = Tail(txQueue)
  BY DEF Relay!Transmit
<1>2. PICK r \in Relay!Request : Travels(r) /\ Alone(<<>>, <<>>, <<r>>, <<>>) /\ Set(r)
  BY <1>1 DEF RelInv, AtRest, Travels, Alone
<1>3. Append(<<>>, r) = <<r>> /\ <<r>> # <<>>
  OBVIOUS
<1>4. Head(txQueue) = r /\ txQueue' = <<>>
  BY <1>1, <1>2, OneTaken DEF Alone
<1>5. /\ wire' = <<>> \/ wire' = <<r>>
      /\ UNCHANGED <<orders, states, lastSent, awaiting, late, accessories, turnouts, made,
                     wanted, unseen>>
  BY <1>2, <1>3, <1>4 DEF Relay!Transmit, Alone
<1>6. AtRest' \/ Travels(r)'
  BY <1>2, <1>4, <1>5 DEF Travels, Alone, Set, AtRest
<1>7. RelTypes' /\ EchoRight' /\ Shown'
  BY <1>5 DEF RelInv, RelTypes, EchoRight, Shown, Set
<1> QED BY <1>6, <1>7 DEF RelInv

LEMMA RelOthersKeep ==
    ASSUME RelInv,
           Relay!EchoWindow \/ Relay!ClearAccessories \/ UNCHANGED relayVars
    PROVE  RelInv'
<1>1. /\ UNCHANGED <<orders, states, txQueue, wire, lastSent, awaiting, turnouts, made,
                     wanted, unseen>>
      /\ late' \in BOOLEAN
      /\ UNCHANGED accessories \/ accessories' = [t \in Turnout |-> "unknown"]
  BY DEF Relay!EchoWindow, Relay!ClearAccessories, relayVars, RelInv, RelTypes
<1>2. RelTypes' /\ EchoRight' /\ Shown'
  BY <1>1 DEF RelInv, RelTypes, EchoRight, Shown, Set
<1>3. (AtRest => AtRest') /\ \A r \in Relay!Request : Travels(r) => Travels(r)'
  BY <1>1 DEF AtRest, Travels, Alone, Set
<1> QED BY <1>2, <1>3 DEF RelInv

LEMMA RelStep ==
    RelInv /\ [PathsNext]_<<part, vars, eventVars, callVars, relayVars, serviceVars>>
        => RelInv'
<1> SUFFICES ASSUME RelInv, [PathsNext]_<<part, vars, eventVars, callVars, relayVars,
                                                  serviceVars>>
             PROVE  RelInv'
  OBVIOUS
<1>1. ASSUME NEW r \in Relay!Request, Relay!HandleTurnout(r) \/ Relay!DeviceRequest(r)
      PROVE  RelInv'
  BY <1>1, TurnoutSet, DeviceSet
<1>2. CASE Relay!Carry
  BY <1>2, EchoDropped, AccessorySet, StateTold, MessageSent DEF Relay!Carry
<1>3. CASE Relay!EchoWindow \/ Relay!ClearAccessories \/ UNCHANGED relayVars
  BY <1>3, RelOthersKeep
<1>4. Relay!Next \/ UNCHANGED relayVars
  BY DEF PathsNext
<1> QED BY <1>1, <1>2, <1>3, <1>4 DEF Relay!Next

(* Once a turnout request is carried out, the turnout is where the last    *)
(* accepted one put it, whoever made it, and a query answers that position *)
(* unless the request came from LocoNet or was refused: for any turnouts   *)
(* and requests, whether or not echoes get lost or come late.              *)
THEOREM LastCommandObeyed == PathsSpec => []LastCommandWins
<1>1. PathsInit => RelInv
  BY RelInitially DEF PathsInit
<1> QED BY <1>1, RelStep, RelWins, PTL DEF PathsSpec

-----------------------------------------------------------------------------
(* The types, which contain that no address of the RS-485 bus *)
(* is called that there is not.                                            *)
LEMMA NearestIn ==
    ASSUME NEW a \in Calls!Address, NEW S \in SUBSET Calls!Address, S # {}
    PROVE  Calls!After(a, S) \in S
<1> DEFINE Less == {ss \in Nat \X Nat : ss[1] < ss[2]}
           steps(b) == (b - a - 1 + MaxSlaves) % MaxSlaves
           Far == {steps(b) : b \in S}
<1>1. MaxSlaves \in Nat /\ MaxSlaves > 0 /\ a \in Int /\ S \subseteq Int
  BY PathsAssumption DEF Calls!Address
<1>2. \A b \in S : steps(b) \in Nat
  BY <1>1
<1>3. Far \in SUBSET Nat /\ Far # {}
  BY <1>2
<1>4. IsWellFoundedOn(Less, Nat)
  BY NatLessThanWellFounded DEF OpToRel
<1> HIDE DEF Far, Less
<1>5. PICK x \in Far : \A y \in Far : ~(<<y, x>> \in Less)
  BY <1>3, <1>4, WFMin
<1>6. \A y \in Far : x <= y
  <2>1. SUFFICES ASSUME NEW y \in Far, y < x PROVE FALSE
    BY <1>3
  <2>2. x \in Nat /\ y \in Nat
    BY <1>3
  <2>3. <<y, x>> \in Less
    BY <2>1, <2>2 DEF Less
  <2> QED BY <1>5, <2>3
<1>7. PICK b \in S : x = steps(b)
  BY <1>5 DEF Far
<1>8. \A c \in S : steps(b) <= steps(c)
  BY <1>6, <1>7 DEF Far
<1>9. (CHOOSE b0 \in S : \A c \in S : steps(b0) <= steps(c)) \in S
  BY <1>7, <1>8
<1> QED BY <1>9 DEF Calls!After

LEMMA RemainderIn == \A x \in Nat, n \in Nat \ {0} : x % n \in 0 .. n - 1
OBVIOUS

LEMMA CallsStep ==
    Calls!TypeOK /\ [PathsNext]_<<part, vars, eventVars, callVars, relayVars, serviceVars>>
        => Calls!TypeOK'
<1> SUFFICES ASSUME Calls!TypeOK, [PathsNext]_<<part, vars, eventVars, callVars, relayVars,
                                                  serviceVars>>
             PROVE  Calls!TypeOK'
  OBVIOUS
<1>1. ASSUME NEW a \in Calls!Address, Calls!Plug(a) \/ Calls!Elapse(a) PROVE Calls!TypeOK'
  BY <1>1 DEF Calls!Plug, Calls!Elapse, Calls!TypeOK
<1>2. CASE Calls!Loop
  <2>1. PICK a \in Calls!Address :
            /\ called' = a
            /\ Calls!NoAnswer(a) \/ Calls!Answer(a)
            /\ \/ progSlave' = 0 /\ Calls!NextSlave(present', missCount')
               \/ UNCHANGED <<currentSlave, cycle, discovery>>
            /\ UNCHANGED attached
    BY <1>2 DEF Calls!Loop, Calls!TypeOK
  <2>2. /\ present' \subseteq Calls!Address /\ overdue' \subseteq present'
        /\ progSlave' \in Calls!Address \cup {0}
    BY <2>1 DEF Calls!NoAnswer, Calls!Answer, Calls!TypeOK
  <2>3. missCount' \in [Calls!Address -> 0 .. MissValues - 1]
    <3>1. (missCount[a] + 1) % MissValues \in 0 .. MissValues - 1
      <4>1. missCount[a] \in 0 .. MissValues - 1
        BY DEF Calls!TypeOK
      <4>2. missCount[a] + 1 \in Nat /\ MissValues \in Nat \ {0}
        BY <4>1, PathsAssumption
      <4> HIDE DEF Calls!TypeOK
      <4> QED BY <4>2, RemainderIn
    <3>2. 0 \in 0 .. MissValues - 1
      BY PathsAssumption
    <3>3. \/ UNCHANGED missCount
          \/ missCount' = [missCount EXCEPT ![a] = 0]
          \/ missCount' = [missCount EXCEPT ![a] = (missCount[a] + 1) % MissValues]
      <4>1. CASE Calls!NoAnswer(a)
        BY <4>1 DEF Calls!NoAnswer, Calls!TypeOK
      <4>2. CASE Calls!Answer(a)
        BY <4>2 DEF Calls!Answer
      <4> QED BY <2>1, <4>1, <4>2
    <3> QED BY <3>1, <3>2, <3>3 DEF Calls!TypeOK
  <2>4. /\ currentSlave' \in Calls!Address /\ discovery' \in Calls!Address
        /\ cycle' \in 0 .. ProbeEvery - 1
    <3>1. CASE Calls!NextSlave(present', missCount')
      <4> DEFINE unknown == {b \in Calls!Address \ present' : missCount'[b] < ProbeLimit}
      <4>1. unknown \in SUBSET Calls!Address /\ present' \in SUBSET Calls!Address
        BY <2>2
      <4>2. Calls!Address \in SUBSET Calls!Address /\ Calls!Address # {}
        BY PathsAssumption DEF Calls!Address
      <4>3. cycle' = (cycle + 1) % ProbeEvery
        BY <3>1 DEF Calls!NextSlave
      <4>4. cycle' \in 0 .. ProbeEvery - 1
        BY <4>3, RemainderIn, PathsAssumption DEF Calls!TypeOK
      <4>5. \/ /\ unknown # {} /\ discovery' = Calls!After(discovery, unknown)
               /\ currentSlave' = discovery'
            \/ /\ present' # {} /\ currentSlave' = Calls!After(currentSlave, present')
               /\ UNCHANGED discovery
            \/ /\ discovery' = Calls!After(discovery, Calls!Address)
               /\ currentSlave' = discovery'
        BY <3>1 DEF Calls!NextSlave
      <4> HIDE DEF unknown
      <4>6. discovery \in Calls!Address /\ currentSlave \in Calls!Address
        BY DEF Calls!TypeOK
      <4>7. /\ unknown # {} => Calls!After(discovery, unknown) \in unknown
            /\ present' # {} => Calls!After(currentSlave, present') \in present'
            /\ Calls!After(discovery, Calls!Address) \in Calls!Address
        BY <4>1, <4>2, <4>6, NearestIn
      <4> QED BY <4>1, <4>4, <4>5, <4>6, <4>7
    <3>2. CASE UNCHANGED <<currentSlave, cycle, discovery>>
      BY <3>2 DEF Calls!TypeOK
    <3> QED BY <2>1, <3>1, <3>2
  <2> QED BY <2>1, <2>2, <2>3, <2>4 DEF Calls!TypeOK
<1>3. CASE UNCHANGED callVars
  BY <1>3 DEF callVars, Calls!TypeOK
<1>4. Calls!Next \/ UNCHANGED callVars
  BY DEF PathsNext
<1> QED BY <1>1, <1>2, <1>3, <1>4 DEF Calls!Next

LEMMA CallsInitially == Calls!Init => Calls!TypeOK
<1> SUFFICES ASSUME Calls!Init PROVE Calls!TypeOK
  OBVIOUS
<1>1. 1 \in Calls!Address /\ 0 \in 0 .. MissValues - 1 /\ 0 \in 0 .. ProbeEvery - 1
  BY PathsAssumption DEF Calls!Address
<1> QED BY <1>1 DEF Calls!Init, Calls!TypeOK

LEMMA RelTyped == RelInv => Relay!TypeOK
<1> SUFFICES ASSUME RelInv PROVE Relay!TypeOK
  OBVIOUS
<1> DEFINE Queue == {<<>>} \cup {<<r>> : r \in Relay!Request}
<1>1. orders \in Queue /\ states \in Queue /\ txQueue \in Queue /\ wire \in Queue
  BY DEF RelInv, AtRest, Travels, Alone
<1>2. \A q \in Queue : q \in Seq(Relay!Request) /\ Len(q) \in Nat /\ Len(q) <= 1
  <2>1. <<>> \in Seq(Relay!Request) /\ Len(<<>>) = 0
    OBVIOUS
  <2>2. \A r \in Relay!Request : <<r>> \in Seq(Relay!Request) /\ Len(<<r>>) = 1
    OBVIOUS
  <2>3. SUFFICES ASSUME NEW q \in Queue
                 PROVE  q \in Seq(Relay!Request) /\ Len(q) \in Nat /\ Len(q) <= 1
    OBVIOUS
  <2>4. CASE q = <<>>
    BY <2>1, <2>4
  <2>5. ASSUME NEW r \in Relay!Request, q = <<r>>
        PROVE  q \in Seq(Relay!Request) /\ Len(q) \in Nat /\ Len(q) <= 1
    <3>1. q \in Seq(Relay!Request) /\ Len(q) = 1
      BY <2>2, <2>5
    <3> QED BY <3>1
  <2>6. q = <<>> \/ \E r \in Relay!Request : q = <<r>>
    OBVIOUS
  <2> HIDE DEF Queue
  <2> QED BY <2>4, <2>5, <2>6
<1> HIDE DEF Queue
<1>3. Len(orders) \in Nat /\ Len(orders) <= RelaySlots
  BY <1>1, <1>2, PathsAssumption
<1> QED BY <1>1, <1>2, <1>3 DEF RelInv, RelTypes, Relay!TypeOK

-----------------------------------------------------------------------------
(* Programming: what ServiceModeProofs shows holds of the part "service".  *)
(* Service and Se are instances of the same module with the same           *)
(* substitution, so what the one means is what the other means.            *)
Se == INSTANCE ServiceModeProofs WITH pc0 <- phase, awaiting <- programming

LEMMA SameInit == Service!Init => Se!Init
BY DEF Service!Init, Se!Init

LEMMA SameCore0 == Service!Core0 => Se!Core0
BY DEF Service!Core0, Se!Core0, Service!ExitStore, Se!ExitStore, Service!Update, Se!Update,
       Service!Answer, Se!Answer, Service!DeliverOp, Se!DeliverOp, Service!DeliverPower,
       Se!DeliverPower, Service!PollDone, Se!PollDone, Service!StallTrip, Se!StallTrip,
       Service!CdeShort, Se!CdeShort, Service!GuardShort, Se!GuardShort,
       Service!AutoRestart, Se!AutoRestart, Service!GuardsQuiet, Se!GuardsQuiet,
       Service!Timeout, Se!Timeout, Service!ExitStart, Se!ExitStart, Service!OpenSession,
       Se!OpenSession, Service!SetPower, Se!SetPower, Service!Core0Switches,
       Se!Core0Switches, Service!trackVars, Se!trackVars, Service!core0Vars, Se!core0Vars,
       Service!core1Vars, Se!core1Vars, Service!prog, Se!prog

LEMMA SameCore1 ==
    ASSUME Service!Expire \/ Service!Handler \/ Service!Z21Request \/ Service!PowerRequest
           \/ \E c \in Client : Service!XnStart(c) \/ Service!XnPoll(c)
    PROVE  Se!Next
BY DEF Se!Next, Service!Expire, Se!Expire, Service!Handler, Se!Handler, Service!XnPending,
       Se!XnPending, Service!XnDispatch, Se!XnDispatch, Service!XnRefuse, Se!XnRefuse,
       Service!XnReply, Se!XnReply, Service!XnStart, Se!XnStart, Service!XnPoll, Se!XnPoll,
       Service!Z21Request, Se!Z21Request, Service!PowerRequest, Se!PowerRequest,
       Service!Program, Se!Program, Service!trackVars, Se!trackVars, Service!core0Vars,
       Se!core0Vars, Service!core1Vars, Se!core1Vars, Service!prog, Se!prog

LEMMA SameVars == UNCHANGED serviceVars => UNCHANGED Se!vars
BY DEF serviceVars, Se!vars, Se!core0Vars, Se!trackVars, Se!prog, Se!core1Vars

LEMMA ServiceRuns == PathsSpec => Se!Spec
<1>1. PathsInit => Se!Init
  BY SameInit DEF PathsInit
<1>2. [PathsNext]_<<part, vars, eventVars, callVars, relayVars, serviceVars>>
          => [Se!Next]_Se!vars
  <2> SUFFICES ASSUME [PathsNext]_<<part, vars, eventVars, callVars, relayVars, serviceVars>>
               PROVE  Se!Next \/ UNCHANGED serviceVars
    BY SameVars
  <2>1. Service!Next \/ UNCHANGED serviceVars
    BY DEF PathsNext
  <2> QED BY <2>1, SameCore0, SameCore1 DEF Service!Next, Se!Next
<1> QED BY <1>1, <1>2, PTL DEF PathsSpec, Se!Spec

(* Its constants are as its lemmas assume. *)
LEMMA ServiceConstants == Se!ServiceModeAssumption
BY PathsAssumption DEF Service!ServiceModeAssumption, Se!ServiceModeAssumption

(* During a programming session the packets reach the main track only once *)
(* track power was switched on in the session: by a command, or by core 0  *)
(* itself after a short.  For any clients, requests, faults and answers.   *)
THEOREM ServiceIsolated == PathsSpec => []IsolatedUntilPowerOn
<1>1. Se!IsolatedUntilPowerOn <=> IsolatedUntilPowerOn
  BY DEF IsolatedUntilPowerOn, Service!IsolatedUntilPowerOn, Se!IsolatedUntilPowerOn
<1>2. Se!Spec => []Se!IsolatedUntilPowerOn
  BY Se!IsolatedSafe
<1> QED BY <1>1, <1>2, ServiceRuns, PTL

(* Once a session is over the main outputs follow track power, also when   *)
(* power was switched during the session, however the session ended.       *)
THEOREM ServiceRestored == PathsSpec => []MainRestored
<1>1. Se!MainRestored <=> MainRestored
  BY DEF MainRestored, Service!MainRestored, Se!MainRestored
<1>2. Se!Spec => []Se!MainRestored
  BY ServiceConstants, Se!MainRestoredAlways
<1> QED BY <1>1, <1>2, ServiceRuns, PTL

(* gCentrale.progModeActive is never left set with nothing queued, no      *)
(* handler at work and no session that would time out.                     *)
THEOREM ServiceBacked == PathsSpec => []ProgModeHasSession
<1>1. Se!ProgModeHasSession <=> ProgModeHasSession
  BY DEF ProgModeHasSession, Service!ProgModeHasSession, Se!ProgModeHasSession
<1>2. Se!Spec => []Se!ProgModeHasSession
  BY ServiceConstants, Se!ProgModeBacked
<1> QED BY <1>1, <1>2, ServiceRuns, PTL

LEMMA ServiceTyped == PathsSpec => []Service!TypeOK
<1>1. Se!TypeOK <=> Service!TypeOK
  BY DEF Service!TypeOK, Se!TypeOK
<1>2. Se!Spec => []Se!TypeOK
  BY ServiceConstants, Se!TypeCorrect
<1> QED BY <1>1, <1>2, ServiceRuns, PTL

(* The variables of the event ring, the RS-485 master, the relay and the   *)
(* programming sessions have their types: for every ring, number of        *)
(* addresses, bound on the misses, set of turnouts and of clients.         *)
THEOREM PathsTyped == PathsSpec => []TypesOK
<1>1. PathsInit => EvInv /\ RelInv /\ Calls!TypeOK
  BY EvInitially, RelInitially, CallsInitially DEF PathsInit
<1>2. EvInv => Events!TypeOK
  <2> SUFFICES ASSUME EvInv PROVE Events!TypeOK
    OBVIOUS
  <2>1. handled \in Seq(Event \cup {None})
    BY DEF EvInv, EvTypes
  <2> QED BY <2>1, SameIndices DEF EvInv, EvTypes, Events!TypeOK
<1>3. EvInv /\ RelInv /\ Calls!TypeOK /\ Service!TypeOK => TypesOK
  BY <1>2, RelTyped DEF TypesOK
<1> QED BY <1>1, <1>3, EvStep, RelStep, CallsStep, ServiceTyped, PTL DEF PathsSpec
=============================================================================
