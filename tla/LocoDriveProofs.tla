--------------------------- MODULE LocoDriveProofs ---------------------------
(***************************************************************************)
(* A lost LenzLAN client stops no loco that somebody else drives, for any  *)
(* locos, size of the owner table, length of the command bus and number of *)
(* requests.  The table is smaller than the set of locos and entries are   *)
(* recycled, so the invariant says of every entry in use that it is the    *)
(* only one for its loco and names the module that drove it last.          *)
(*                                                                         *)
(* The locos of that client do stop, if the table has room for all and no  *)
(* entry of the repository is removed; and in the end the track does what  *)
(* the repository shows.                                                   *)
(***************************************************************************)
EXTENDS LocoDrive, FiniteSets, TLAPS, SequenceTheorems, FiniteSetTheorems

Cmd == [type : {"speed"}, loco : Loco, speed : Speed, src : Source]
           \cup [type : {"power"}, on : BOOLEAN]
           \cup [type : {"estop", "stop"}]

QueueOK ==
    /\ cmds \in Seq(Cmd)
    /\ pc1 = "dispatch" => cur \in Cmd

TableOK ==
    /\ owners \in [OwnerIndex -> [addr : Loco \cup {None}, src : Source \cup {None}]]
    /\ ownerNext \in OwnerIndex
    /\ driver \in [Loco -> Source \cup {None}]
    /\ stopIdx \in Nat

(* Every loco has at most one entry, and the entry is right. *)
OneEntry ==
    \A i, j \in OwnerIndex :
        owners[i].addr = owners[j].addr /\ owners[i].addr # None => i = j
EntryRight ==
    \A i \in OwnerIndex :
        owners[i].addr # None => driver[owners[i].addr] = owners[i].src

SpeedsOK == speed \in [Loco -> Speed]

IInv == QueueOK /\ TableOK /\ OneEntry /\ EntryRight /\ SpeedsOK

LEMMA InitIInv == Init => IInv
<1> SUFFICES ASSUME Init PROVE IInv
  OBVIOUS
<1>1. QueueOK
  BY DEF Init, QueueOK
<1>2. TableOK
  BY LocoDriveAssumption DEF Init, TableOK, OwnerIndex, Free
<1>3. OneEntry /\ EntryRight
  BY DEF Init, OneEntry, EntryRight, Free
<1>4. SpeedsOK
  BY DEF Init, SpeedsOK, Speed
<1> QED BY <1>1, <1>2, <1>3, <1>4 DEF IInv

(* Recording the module of a command: entry i becomes that of loco l, and  *)
(* no other entry was.                                                     *)
LEMMA PutKeeps ==
    ASSUME TableOK, OneEntry, EntryRight, NEW l \in Loco, NEW m \in Source,
           NEW i \in OwnerIndex,
           \A j \in OwnerIndex : owners[j].addr = l => j = i,
           owners' = [owners EXCEPT ![i] = [addr |-> l, src |-> m]],
           driver' = [driver EXCEPT ![l] = m]
    PROVE  /\ owners' \in [OwnerIndex -> [addr : Loco \cup {None},
                                          src : Source \cup {None}]]
           /\ driver' \in [Loco -> Source \cup {None}]
           /\ OneEntry' /\ EntryRight'
<1>1. /\ owners' \in [OwnerIndex -> [addr : Loco \cup {None},
                                     src : Source \cup {None}]]
      /\ driver' \in [Loco -> Source \cup {None}]
  BY DEF TableOK
<1>2. /\ owners'[i] = [addr |-> l, src |-> m]
      /\ \A j \in OwnerIndex \ {i} : owners'[j] = owners[j] /\ owners[j].addr # l
  BY DEF TableOK
<1>3. OneEntry'
  BY <1>2 DEF OneEntry, OwnerIndex
<1>4. EntryRight'
  BY <1>1, <1>2 DEF EntryRight, TableOK, OwnerIndex
<1> QED BY <1>1, <1>3, <1>4

(* DccHal::_noteOwner() in its three cases. *)
LEMMA NoteOwnerKeeps ==
    ASSUME TableOK, OneEntry, EntryRight, NEW l \in Loco, NEW m \in Source,
           NoteOwner(l, m), driver' = [driver EXCEPT ![l] = m],
           UNCHANGED stopIdx
    PROVE  TableOK' /\ OneEntry' /\ EntryRight'
<1> DEFINE put(i) == owners' = [owners EXCEPT ![i] = [addr |-> l, src |-> m]]
           known  == {i \in OwnerIndex : owners[i].addr = l}
           free   == {i \in OwnerIndex : owners[i].addr = None}
<1>1. /\ \E i \in OwnerIndex : /\ put(i)
                               /\ \A j \in OwnerIndex : owners[j].addr = l => j = i
      /\ ownerNext' \in OwnerIndex
  <2>0. ownerNext \in OwnerIndex
    BY DEF TableOK
  <2>1. CASE known # {} /\ (\E i \in known : put(i)) /\ UNCHANGED ownerNext
    <3>1. PICK i \in known : put(i)
      BY <2>1
    <3>2. \A j \in OwnerIndex : owners[j].addr = l => j = i
      BY LocoDriveAssumption DEF OneEntry
    <3> QED BY <2>0, <2>1, <3>1, <3>2
  <2>2. CASE known = {} /\ (\E i \in free : put(i)) /\ UNCHANGED ownerNext
    BY <2>0, <2>2
  <2>3. CASE /\ known = {} /\ free = {} /\ put(ownerNext)
             /\ ownerNext' = (ownerNext + 1) % OwnerSlots
    <3>1. ownerNext' \in OwnerIndex
      BY <2>0, <2>3, LocoDriveAssumption DEF OwnerIndex
    <3> QED BY <2>0, <2>3, <3>1
  <2> QED BY <2>1, <2>2, <2>3 DEF NoteOwner
<1> HIDE DEF known, free
<1>2. PICK i \in OwnerIndex : /\ put(i)
                              /\ \A j \in OwnerIndex : owners[j].addr = l => j = i
  BY <1>1
<1> QED BY <1>1, <1>2, PutKeeps DEF TableOK

-----------------------------------------------------------------------------
(* Steps that leave the table and the drivers alone. *)
LEMMA TableKept ==
    ASSUME IInv, UNCHANGED <<owners, ownerNext, driver>>, stopIdx' \in Nat
    PROVE  TableOK' /\ OneEntry' /\ EntryRight'
BY DEF IInv, TableOK, OneEntry, EntryRight

(* Taking a command off the bus. *)
LEMMA BusKept ==
    ASSUME IInv, UNCHANGED <<cur, pc1>>,
           cmds # <<>>, cmds' = Tail(cmds)
    PROVE  QueueOK'
BY HeadTailProperties DEF IInv, QueueOK

LEMMA Core0Keeps ==
    ASSUME IInv, Core0
    PROVE  IInv'
<1>1. CASE DeliverSpeed
  <2> DEFINE c == Head(cmds)
  <2>1. /\ cmds # <<>> /\ c.type = "speed" /\ cmds' = Tail(cmds)
        /\ NoteOwner(c.loco, c.src)
        /\ driver' = [driver EXCEPT ![c.loco] = c.src]
        /\ UNCHANGED <<cur, pc1, stopIdx, speed>>
    BY <1>1 DEF DeliverSpeed, Next0, core1Vars, repo
  <2>2. c \in Cmd
    BY <2>1, HeadTailProperties DEF IInv, QueueOK
  <2>3. c.loco \in Loco /\ c.src \in Source
    BY <2>1, <2>2 DEF Cmd
  <2> HIDE DEF c
  <2>4. TableOK' /\ OneEntry' /\ EntryRight'
    BY <2>1, <2>3, NoteOwnerKeeps DEF IInv
  <2> QED BY <2>1, <2>4, BusKept DEF IInv, SpeedsOK
<1>2. CASE DeliverEstop \/ DeliverPower \/ DeliverStop
  <2>1. /\ cmds # <<>> /\ cmds' = Tail(cmds) /\ stopIdx' \in Nat
        /\ UNCHANGED <<cur, pc1, owners, ownerNext, driver, speed>>
    BY <1>2 DEF DeliverEstop, DeliverPower, DeliverStop, Next0, core1Vars, repo,
                ownerVars, history, IInv, TableOK
  <2> QED BY <2>1, TableKept, BusKept DEF IInv, SpeedsOK
<1>3. CASE StopEntry
  <2>1. /\ stopIdx' \in Nat
        /\ UNCHANGED <<cur, pc1, owners, ownerNext, driver, cmds>>
    BY <1>3 DEF StopEntry, core1Vars, ownerVars, history, IInv, TableOK
  <2>2. SpeedsOK'
    BY <1>3 DEF StopEntry, StopOwned, repo, IInv, SpeedsOK, Speed
  <2>3. QueueOK'
    BY <2>1 DEF IInv, QueueOK
  <2>4. TableOK' /\ OneEntry' /\ EntryRight'
    BY <2>1, TableKept
  <2> QED BY <2>2, <2>3, <2>4 DEF IInv
<1>4. CASE StopEntrySkipped \/ StopDone \/ PollDone \/ DirtyDone
  <2>1. /\ stopIdx' \in Nat
        /\ UNCHANGED <<cur, pc1, owners, ownerNext, driver, cmds, speed>>
    BY <1>4 DEF StopEntrySkipped, StopDone, PollDone, DirtyDone, core1Vars,
                ownerVars, history, repo, IInv, TableOK
  <2>2. QueueOK'
    BY <2>1 DEF IInv, QueueOK
  <2>3. TableOK' /\ OneEntry' /\ EntryRight'
    BY <2>1, TableKept
  <2> QED BY <2>1, <2>2, <2>3 DEF IInv, SpeedsOK
<1>5. CASE DirtySend \/ \E l \in Loco : DirtyTake(l)
  <2>1. /\ stopIdx' \in Nat
        /\ UNCHANGED <<cur, pc1, owners, ownerNext, driver, cmds, speed>>
    BY <1>5 DEF DirtySend, DirtyTake, core1Vars, ownerVars, history, repo,
                IInv, TableOK
  <2>2. QueueOK'
    BY <2>1 DEF IInv, QueueOK
  <2>3. TableOK' /\ OneEntry' /\ EntryRight'
    BY <2>1, TableKept
  <2> QED BY <2>1, <2>2, <2>3 DEF IInv, SpeedsOK
<1> QED BY <1>1, <1>2, <1>3, <1>4, <1>5 DEF Core0

LEMMA Core1Keeps ==
    ASSUME IInv, Core1
    PROVE  IInv'
<1>0. /\ stopIdx \in Nat /\ cmds \in Seq(Cmd)
      /\ UNCHANGED <<stopIdx, owners, ownerNext, driver>>
  BY DEF IInv, TableOK, QueueOK, Core1, Drive, XnDrive, LnDrive, PowerRequest,
         EmergStop, LanLost, Request, Dispatch, LnUnlock, WebLock, WebUnlock,
         Release, ownerVars, history
<1>1. TableOK' /\ OneEntry' /\ EntryRight'
  BY <1>0, TableKept
<1>2. CASE Drive
  <2>1. PICK l \in Loco, v \in Speed, m \in Source :
            /\ WriteSpeed(l, v) /\ cur' = SpeedCmd(l, v, m) /\ cmds' = cmds
    BY <1>2 DEF Drive, XnDrive, LnDrive, Speed, Source
  <2>2. cur' \in Cmd
    BY <2>1 DEF SpeedCmd, Cmd
  <2>3. SpeedsOK'
    BY <2>1 DEF WriteSpeed, IInv, SpeedsOK
  <2> QED BY <1>0, <1>1, <2>1, <2>2, <2>3 DEF IInv, QueueOK
<1>3. CASE (\E on \in BOOLEAN : PowerRequest(on)) \/ EmergStop \/ LanLost
  <2>1. cur' \in Cmd /\ UNCHANGED <<cmds, speed>>
    BY <1>3 DEF PowerRequest, EmergStop, LanLost, Request, repo, Cmd
  <2> QED BY <1>0, <1>1, <2>1 DEF IInv, QueueOK, SpeedsOK
<1>4. CASE Dispatch
  <2>1. /\ pc1' # "dispatch" /\ UNCHANGED speed
        /\ cmds' = cmds \/ cmds' = Append(cmds, cur)
        /\ cur \in Cmd
    BY <1>4 DEF Dispatch, repo, IInv, QueueOK
  <2>2. cmds' \in Seq(Cmd)
    BY <1>0, <2>1, AppendProperties
  <2> QED BY <1>1, <2>1, <2>2 DEF IInv, QueueOK, SpeedsOK
<1>5. CASE LnUnlock \/ WebLock \/ WebUnlock
  <2>1. /\ UNCHANGED <<cmds, cur, speed>> /\ pc1' \in {pc1, "idle"}
    BY <1>5 DEF LnUnlock, WebLock, WebUnlock, repo
  <2> QED BY <1>1, <2>1 DEF IInv, QueueOK, SpeedsOK
<1>6. CASE \E l \in Loco : Release(l)
  <2>1. UNCHANGED <<cmds, cur, pc1>>
    BY <1>6 DEF Release
  <2>2. SpeedsOK'
    BY <1>6 DEF Release, IInv, SpeedsOK, Speed
  <2> QED BY <1>1, <2>1, <2>2 DEF IInv, QueueOK
<1> QED BY <1>2, <1>3, <1>4, <1>5, <1>6 DEF Core1

LEMMA NextIInv == IInv /\ [Next]_vars => IInv'
<1> SUFFICES ASSUME IInv, [Next]_vars
             PROVE  IInv'
  OBVIOUS
<1>1. CASE Core0
  BY <1>1, Core0Keeps
<1>2. CASE Core1
  BY <1>2, Core1Keeps
<1>3. CASE UNCHANGED vars
  <2>1. UNCHANGED <<cmds, cur, pc1, owners, ownerNext, driver, stopIdx, speed>>
    BY <1>3 DEF vars, ownerVars, core1Vars, history, repo
  <2> QED BY <2>1 DEF IInv, QueueOK, TableOK, OneEntry, EntryRight, SpeedsOK
<1> QED BY <1>1, <1>2, <1>3 DEF Next

LEMMA SpecIInv == Spec => []IInv
BY InitIInv, NextIInv, PTL DEF Spec

(* STOP_LOCOS_OF stops no loco that another module drove last, also after  *)
(* entries of the table of owners have been recycled round-robin.          *)
THEOREM OthersSafe == Spec => OthersCarryOn
<1> DEFINE A == \A l \in Loco : stopIdx' > stopIdx /\ speed'[l] # speed[l]
                                 => driver[l] = "LAN"
<1>1. IInv /\ [Next]_vars => [A]_vars
  <2> SUFFICES ASSUME IInv, Next, NEW l \in Loco, stopIdx' > stopIdx,
                      speed'[l] # speed[l]
               PROVE  driver[l] = "LAN"
    OBVIOUS
  <2>0. stopIdx \in Nat
    BY DEF IInv, TableOK
  <2>1. UNCHANGED stopIdx => FALSE
    BY <2>0
  <2>2. CASE StopEntry
    <3>1. stopIdx \in OwnerIndex
      BY <2>0, <2>2, LocoDriveAssumption DEF StopEntry, OwnerIndex
    <3>2. Theirs(stopIdx) /\ StopOwned(owners[stopIdx].addr)
      BY <2>2 DEF StopEntry, repo
    <3>3. owners[stopIdx].addr = l
      BY <3>2 DEF StopOwned, IInv, SpeedsOK
    <3> QED BY <3>1, <3>2, <3>3 DEF Theirs, IInv, EntryRight
  <2>3. CASE Core0 /\ ~StopEntry
    BY <2>0, <2>1, <2>3 DEF Core0, DeliverSpeed, DeliverEstop, DeliverPower,
       DeliverStop, StopEntrySkipped, StopDone, PollDone, DirtyTake, DirtySend,
       DirtyDone, repo
  <2>4. CASE Core1
    BY <2>1, <2>4 DEF Core1, Drive, XnDrive, LnDrive, PowerRequest, EmergStop,
       LanLost, Request, Dispatch, LnUnlock, WebLock, WebUnlock, Release
  <2> QED BY <2>2, <2>3, <2>4 DEF Next
<1> QED BY <1>1, SpecIInv, PTL DEF Spec, OthersCarryOn

-----------------------------------------------------------------------------
(* The types of the rest.  DccHal sends what it copied out, so while it     *)
(* does, the copy is of a loco, and the track has power.                    *)
TrackTypes ==
    /\ pc0 \in {"poll", "stopping", "dirty", "send"}
    /\ power \in BOOLEAN /\ inStop \in BOOLEAN
    /\ track \in [Loco -> Speed] /\ stopIdx \in 0 .. OwnerSlots
    /\ copy \in [loco : Loco \cup {None}, speed : Speed]
    /\ pc0 = "send" => copy.loco \in Loco /\ power
RepoTypes ==
    active \in [Loco -> BOOLEAN] /\ dirty \in [Loco -> BOOLEAN]
RequestTypes ==
    /\ lock \in {"free", "short", "long"}
    /\ pc1 \in {"idle", "dispatch", "unlock"} /\ off \in BOOLEAN
    /\ Len(cmds) <= CommandSlots /\ requests \in 0 .. MaxRequests
HistoryTypes ==
    /\ mustStop \subseteq Loco /\ halted \subseteq Loco
    /\ forgotten \subseteq Loco /\ renewed \subseteq Loco
    /\ overtaken \subseteq Loco /\ unheard \subseteq Loco /\ crossed \subseteq Loco

TInv == TrackTypes /\ RepoTypes /\ RequestTypes /\ HistoryTypes

LEMMA InitTInv == Init => TInv
<1> SUFFICES ASSUME Init PROVE TInv
  OBVIOUS
<1>1. TrackTypes
  <2>1. track \in [Loco -> Speed]
    BY DEF Init, Speed
  <2>2. copy \in [loco : Loco \cup {None}, speed : Speed]
    BY DEF Init, Speed
  <2>3. stopIdx \in 0 .. OwnerSlots
    BY LocoDriveAssumption DEF Init
  <2> QED BY <2>1, <2>2, <2>3 DEF Init, TrackTypes
<1>2. RepoTypes /\ HistoryTypes
  BY DEF Init, RepoTypes, HistoryTypes
<1>3. RequestTypes
  <2>1. cmds = <<>> /\ Len(<<>>) = 0
    BY DEF Init
  <2>2. Len(cmds) <= CommandSlots /\ requests \in 0 .. MaxRequests
    BY <2>1, LocoDriveAssumption DEF Init
  <2> QED BY <2>2 DEF Init, RequestTypes
<1> QED BY <1>1, <1>2, <1>3 DEF TInv

(* The command at the head of the bus, and what is left when it is taken. *)
LEMMA HeadOfBus ==
    ASSUME IInv, TInv, cmds # <<>>, cmds' = Tail(cmds)
    PROVE  /\ Len(cmds') <= CommandSlots
           /\ Head(cmds) \in Cmd
           /\ Head(cmds).type = "speed" =>
                  /\ Head(cmds).loco \in Loco /\ Head(cmds).speed \in Speed
                  /\ Head(cmds).src \in Source
           /\ Head(cmds).type = "power" => Head(cmds).on \in BOOLEAN
<1>1. cmds \in Seq(Cmd) /\ Len(cmds) <= CommandSlots
  BY DEF IInv, QueueOK, TInv, RequestTypes
<1>2. Head(cmds) \in Cmd /\ Len(cmds') = Len(cmds) - 1 /\ Len(cmds) \in Nat
  BY <1>1, HeadTailProperties, LenProperties
<1>3. Len(cmds') <= CommandSlots
  BY <1>1, <1>2, LocoDriveAssumption
<1> QED BY <1>2, <1>3 DEF Cmd

(* Putting a speed on the track. *)
LEMMA SetSpeedTypes ==
    ASSUME TInv, NEW l \in Loco, NEW v \in Speed, SetSpeed(l, v)
    PROVE  /\ track' \in [Loco -> Speed] /\ inStop' \in BOOLEAN
           /\ halted' \subseteq Loco
BY DEF SetSpeed, TInv, TrackTypes, HistoryTypes

LEMMA DeliverKeepsTypes ==
    ASSUME IInv, TInv, DeliverSpeed \/ DeliverEstop \/ DeliverPower \/ DeliverStop
    PROVE  TInv'
<1>1. /\ cmds # <<>> /\ cmds' = Tail(cmds) /\ pc0 = "poll"
      /\ UNCHANGED <<copy, active, dirty, lock, pc1, off, requests>>
  BY DEF DeliverSpeed, DeliverEstop, DeliverPower, DeliverStop, Next0, repo, core1Vars
<1>2. RepoTypes' /\ RequestTypes'
  BY <1>1, HeadOfBus DEF TInv, RepoTypes, RequestTypes
<1>3. CASE DeliverSpeed
  <2> DEFINE c == Head(cmds)
  <2>1. /\ SetSpeed(c.loco, c.speed) /\ pc0' = "poll"
        /\ mustStop' = mustStop \ {c.loco}
        /\ unheard' = IF power THEN unheard ELSE unheard \cup {c.loco}
        /\ UNCHANGED <<power, stopIdx, forgotten, renewed, overtaken, crossed>>
        /\ c.type = "speed"
    BY <1>3, <1>1 DEF DeliverSpeed, Next0
  <2>2. c.loco \in Loco /\ c.speed \in Speed
    BY <1>1, <2>1, HeadOfBus
  <2> HIDE DEF c
  <2>3. /\ track' \in [Loco -> Speed] /\ inStop' \in BOOLEAN
        /\ halted' \subseteq Loco
    BY <2>1, <2>2, SetSpeedTypes
  <2>4. TrackTypes'
    BY <1>1, <2>1, <2>3 DEF TInv, TrackTypes
  <2>5. HistoryTypes'
    BY <2>1, <2>2, <2>3 DEF TInv, HistoryTypes
  <2> QED BY <1>2, <2>4, <2>5 DEF TInv
<1>4. CASE DeliverEstop
  <2>1. track' \in [Loco -> Speed]
    BY <1>4 DEF DeliverEstop, TInv, TrackTypes, Speed
  <2>2. TrackTypes'
    BY <1>1, <1>4, <2>1 DEF DeliverEstop, TInv, TrackTypes
  <2>3. HistoryTypes'
    BY <1>4 DEF DeliverEstop, TInv, HistoryTypes
  <2> QED BY <1>2, <2>2, <2>3 DEF TInv
<1>5. CASE DeliverPower
  <2>1. power' \in BOOLEAN
    BY <1>1, <1>5, HeadOfBus DEF DeliverPower, Next0
  <2>2. TrackTypes'
    BY <1>1, <1>5, <2>1 DEF DeliverPower, TInv, TrackTypes
  <2>3. HistoryTypes'
    BY <1>5 DEF DeliverPower, history, TInv, HistoryTypes
  <2> QED BY <1>2, <2>2, <2>3 DEF TInv
<1>6. CASE DeliverStop
  <2>1. TrackTypes'
    BY <1>1, <1>6, LocoDriveAssumption DEF DeliverStop, TInv, TrackTypes
  <2>2. HistoryTypes'
    BY <1>6 DEF DeliverStop, TInv, HistoryTypes
  <2> QED BY <1>2, <2>1, <2>2 DEF TInv
<1> QED BY <1>3, <1>4, <1>5, <1>6

(* An entry of the module that is stopped is that of a loco. *)
LEMMA EntryOfLoco ==
    ASSUME IInv, stopIdx \in 0 .. OwnerSlots, stopIdx < OwnerSlots, Theirs(stopIdx)
    PROVE  stopIdx \in OwnerIndex /\ owners[stopIdx].addr \in Loco
<1>1. stopIdx \in OwnerIndex
  BY LocoDriveAssumption DEF OwnerIndex
<1> QED BY <1>1 DEF Theirs, IInv, TableOK

LEMMA StopKeepsTypes ==
    ASSUME IInv, TInv, StopEntry \/ StopEntrySkipped \/ StopDone \/ PollDone
    PROVE  TInv'
<1>1. UNCHANGED <<power, track, inStop, copy, lock, pc1, off, requests, cmds, halted,
                  forgotten, renewed, overtaken, unheard>>
  BY DEF StopEntry, StopEntrySkipped, StopDone, PollDone, core1Vars, history
<1>2. RequestTypes'
  BY <1>1 DEF TInv, RequestTypes
<1>3. TrackTypes'
  <2>1. stopIdx' \in 0 .. OwnerSlots
    BY LocoDriveAssumption DEF StopEntry, StopEntrySkipped, StopDone, PollDone,
                               TInv, TrackTypes
  <2>2. pc0' \in {"poll", "stopping", "dirty"}
    BY DEF StopEntry, StopEntrySkipped, StopDone, PollDone
  <2> QED BY <1>1, <2>1, <2>2 DEF TInv, TrackTypes
<1>4. mustStop' \subseteq mustStop
  BY DEF StopEntry, StopEntrySkipped, StopDone, PollDone, history
<1>5. crossed' \subseteq Loco
  <2>1. CASE StopEntry
    BY <2>1, EntryOfLoco DEF StopEntry, TInv, TrackTypes, HistoryTypes
  <2>2. CASE StopEntrySkipped \/ StopDone \/ PollDone
    BY <2>2 DEF StopEntrySkipped, StopDone, PollDone, history, TInv, HistoryTypes
  <2> QED BY <2>1, <2>2
<1>6. RepoTypes'
  <2>1. CASE UNCHANGED repo
    BY <2>1 DEF TInv, RepoTypes, repo
  <2>2. CASE StopEntry /\ Theirs(stopIdx)
    <3>1. StopOwned(owners[stopIdx].addr)
      BY <2>2 DEF StopEntry
    <3> DEFINE l == owners[stopIdx].addr
    <3>2. l \in Loco
      BY <2>2, EntryOfLoco DEF TInv, TrackTypes, StopEntry
    <3>3. active' = [active EXCEPT ![l] = TRUE]
          /\ dirty' = [dirty EXCEPT ![l] = @ \/ speed[l] >= 2]
      BY <3>1 DEF StopOwned
    <3> HIDE DEF l
    <3>4. active' \in [Loco -> BOOLEAN]
      BY <3>3 DEF TInv, RepoTypes
    <3>5. (dirty[l] \/ speed[l] >= 2) \in BOOLEAN
      OBVIOUS
    <3>6. dirty' \in [Loco -> BOOLEAN]
      BY <3>3, <3>5 DEF TInv, RepoTypes
    <3> QED BY <3>4, <3>6 DEF RepoTypes
  <2> QED BY <2>1, <2>2 DEF StopEntry, StopEntrySkipped, StopDone, PollDone
<1> QED BY <1>1, <1>2, <1>3, <1>4, <1>5, <1>6 DEF TInv, HistoryTypes

LEMMA ResendKeepsTypes ==
    ASSUME IInv, TInv, DirtySend \/ DirtyDone \/ \E l \in Loco : DirtyTake(l)
    PROVE  TInv'
<1>1. UNCHANGED <<power, stopIdx, active, lock, pc1, off, requests, cmds, mustStop,
                  forgotten, renewed, unheard, crossed>>
  BY DEF DirtySend, DirtyDone, DirtyTake, core1Vars, history, repo
<1>2. RequestTypes'
  BY <1>1 DEF TInv, RequestTypes
<1>3. RepoTypes'
  BY DEF DirtySend, DirtyDone, DirtyTake, repo, TInv, RepoTypes
<1>4. CASE DirtySend
  <2>1. /\ copy.loco \in Loco /\ copy.speed \in Speed
        /\ SetSpeed(copy.loco, copy.speed)
        /\ copy' = [loco |-> None, speed |-> 0] /\ pc0' = "dirty"
        /\ overtaken' \subseteq overtaken \cup {copy.loco}
    BY <1>4 DEF DirtySend, TInv, TrackTypes
  <2>2. /\ track' \in [Loco -> Speed] /\ inStop' \in BOOLEAN
        /\ halted' \subseteq Loco
    BY <2>1, SetSpeedTypes
  <2>3. copy' \in [loco : Loco \cup {None}, speed : Speed]
    BY <2>1 DEF Speed
  <2>4. TrackTypes'
    BY <1>1, <2>1, <2>2, <2>3 DEF TInv, TrackTypes
  <2>5. HistoryTypes'
    BY <1>1, <2>1, <2>2 DEF TInv, HistoryTypes
  <2> QED BY <1>2, <1>3, <2>4, <2>5 DEF TInv
<1>5. CASE DirtyDone
  BY <1>1, <1>2, <1>3, <1>5 DEF DirtyDone, history, TInv, TrackTypes, HistoryTypes
<1>6. ASSUME NEW l \in Loco, DirtyTake(l)
      PROVE  TInv'
  <2>1. copy' \in [loco : Loco \cup {None}, speed : Speed] /\ copy'.loco \in Loco
    BY <1>6 DEF DirtyTake, IInv, SpeedsOK
  <2>2. TrackTypes'
    BY <1>1, <1>6, <2>1 DEF DirtyTake, TInv, TrackTypes
  <2> QED BY <1>1, <1>2, <1>3, <1>6, <2>2 DEF DirtyTake, history, TInv, HistoryTypes
<1> QED BY <1>4, <1>5, <1>6

LEMMA Core1KeepsTypes ==
    ASSUME IInv, TInv, Core1
    PROVE  TInv'
<1>1. UNCHANGED <<pc0, power, track, inStop, stopIdx, copy, halted, overtaken>>
  BY DEF Core1, Drive, XnDrive, LnDrive, PowerRequest, EmergStop, LanLost, Request,
         Dispatch, LnUnlock, WebLock, WebUnlock, Release, history
<1>2. TrackTypes'
  BY <1>1 DEF TInv, TrackTypes
<1>3. CASE Drive
  <2>1. PICK l \in Loco, v \in Speed :
            /\ WriteSpeed(l, v) /\ pc1' = "dispatch"
            /\ UNCHANGED <<cmds, off, unheard>> /\ lock' \in {lock, "short"}
            /\ requests < MaxRequests /\ requests' = requests + 1
    BY <1>3 DEF Drive, XnDrive, LnDrive, Speed, Receive
  <2>2. RequestTypes'
    BY <2>1, LocoDriveAssumption DEF TInv, RequestTypes
  <2>3. RepoTypes'
    BY <2>1 DEF WriteSpeed, TInv, RepoTypes
  <2>4. HistoryTypes'
    BY <1>1, <2>1 DEF WriteSpeed, TInv, HistoryTypes
  <2> QED BY <1>2, <2>2, <2>3, <2>4 DEF TInv
<1>4. CASE (\E on \in BOOLEAN : PowerRequest(on)) \/ EmergStop \/ LanLost
  <2>1. /\ requests < MaxRequests /\ requests' = requests + 1 /\ pc1' = "dispatch"
        /\ UNCHANGED <<active, dirty, lock, cmds, mustStop, forgotten, unheard,
                      crossed>>
        /\ off' \in BOOLEAN /\ renewed' \subseteq Loco
    BY <1>4 DEF PowerRequest, EmergStop, LanLost, Request, Receive, repo, TInv,
                RequestTypes, HistoryTypes
  <2>2. RequestTypes'
    BY <2>1, LocoDriveAssumption DEF TInv, RequestTypes
  <2> QED BY <1>1, <1>2, <2>1, <2>2 DEF TInv, RepoTypes, HistoryTypes
<1>5. CASE Dispatch
  <2>1. /\ pc1' \in {"unlock", "idle"}
        /\ UNCHANGED <<active, dirty, lock, off, requests, mustStop, forgotten, renewed,
                      crossed>>
    BY <1>5 DEF Dispatch, repo
  <2>2. Len(cmds') <= CommandSlots
    <3>1. cmds \in Seq(Cmd) /\ cur \in Cmd
      BY <1>5 DEF Dispatch, IInv, QueueOK
    <3>2. Len(cmds) \in Nat /\ Len(Append(cmds, cur)) = Len(cmds) + 1
      BY <3>1, AppendProperties, LenProperties
    <3> QED BY <1>5, <3>2, LocoDriveAssumption DEF Dispatch, TInv, RequestTypes
  <2>3. unheard' \subseteq Loco
    <3>1. cur \in Cmd
      BY <1>5 DEF Dispatch, IInv, QueueOK
    <3>2. cur.type = "speed" => cur.loco \in Loco
      BY <3>1 DEF Cmd
    <3> QED BY <1>5, <3>2 DEF Dispatch, TInv, HistoryTypes
  <2>4. RequestTypes'
    BY <2>1, <2>2 DEF TInv, RequestTypes
  <2> QED BY <1>1, <1>2, <2>1, <2>3, <2>4 DEF TInv, RepoTypes, HistoryTypes
<1>6. CASE LnUnlock \/ WebLock \/ WebUnlock
  BY <1>1, <1>2, <1>6 DEF LnUnlock, WebLock, WebUnlock, repo, history, TInv, RepoTypes,
                          RequestTypes, HistoryTypes
<1>7. ASSUME NEW l \in Loco, Release(l)
      PROVE  TInv'
  <2>1. RequestTypes'
    BY <1>7, LocoDriveAssumption DEF Release, Receive, TInv, RequestTypes
  <2>2. RepoTypes'
    BY <1>7 DEF Release, TInv, RepoTypes
  <2>3. HistoryTypes'
    BY <1>7 DEF Release, TInv, HistoryTypes
  <2> QED BY <1>2, <2>1, <2>2, <2>3 DEF TInv
<1> QED BY <1>3, <1>4, <1>5, <1>6, <1>7 DEF Core1

LEMMA SpecTInv == Spec => []TInv
<1>1. IInv /\ TInv /\ [Next]_vars => TInv'
  <2> SUFFICES ASSUME IInv, TInv, [Next]_vars
               PROVE  TInv'
    OBVIOUS
  <2>1. CASE Core0
    BY <2>1, DeliverKeepsTypes, StopKeepsTypes, ResendKeepsTypes DEF Core0
  <2>2. CASE Core1
    BY <2>2, Core1KeepsTypes
  <2>3. CASE UNCHANGED vars
    BY <2>3 DEF vars, repo, core1Vars, history, TInv, TrackTypes, RepoTypes,
                RequestTypes, HistoryTypes
  <2> QED BY <2>1, <2>2, <2>3 DEF Next
<1> QED BY InitTInv, <1>1, SpecIInv, PTL DEF Spec

(* Every variable keeps its type: the index of the owner table and the     *)
(* command bus stay within their size, whatever core 1 requests.           *)
THEOREM TypeCorrect == Spec => []TypeOK
<1>1. IInv /\ TInv => TypeOK
  BY DEF TypeOK, IInv, TableOK, SpeedsOK, TInv, TrackTypes, RepoTypes, RequestTypes,
         HistoryTypes
<1> QED BY <1>1, SpecIInv, SpecTInv, PTL

-----------------------------------------------------------------------------
(* A lost client's locos stop.  Two things are asked for: the owner table   *)
(* has room for every loco (LOCO_OWNERS is 64), so that no entry is          *)
(* recycled, and no entry of the repository is removed (a loco whose entry  *)
(* was removed keeps running, see the README).                              *)
AllKept == /\ IsFiniteSet(Loco) /\ Cardinality(Loco) <= OwnerSlots
           /\ "release" \notin Features

(* Every loco that has been driven has an entry in the table of owners, and *)
(* every loco that has been or will be driven has one in the repository.    *)
Entered(l) == \E i \in OwnerIndex : owners[i].addr = l
DrivenKnown == \A l \in Loco : driver[l] # None => active[l] /\ Entered(l)
QueuedKnown ==
    /\ \A i \in 1 .. Len(cmds) : cmds[i].type = "speed" => active[cmds[i].loco]
    /\ pc1 = "dispatch" /\ cur.type = "speed" => active[cur.loco]

(* A loco to be stopped is further down the table, or is shown as stopped   *)
(* and its stop is on its way to the track: marked, copied out, or there.   *)
Due(l) ==
    /\ pc0 = "stopping" /\ active[l] /\ speed[l] >= 2
    /\ \E i \in OwnerIndex : i >= stopIdx /\ Theirs(i) /\ owners[i].addr = l
Copied(l) == pc0 = "send" /\ copy.loco = l
Caught(l) ==
    /\ active[l] /\ speed[l] < 2
    /\ Copied(l) => copy.speed < 2
    /\ dirty[l] \/ Copied(l) \/ track[l] < 2
StopInv == \A l \in mustStop : Due(l) \/ Caught(l)

LInv == DrivenKnown /\ QueuedKnown /\ StopInv

LEMMA InitLInv == Init => LInv
BY DEF Init, LInv, DrivenKnown, QueuedKnown, StopInv

(* The table has a place for a loco that has none yet: the entries in use   *)
(* are of different locos, and none of them is of this one.                 *)
LEMMA RoomForLoco ==
    ASSUME AllKept, IInv, NEW l \in Loco, ~Entered(l)
    PROVE  \E i \in OwnerIndex : owners[i].addr = None
<1> SUFFICES ASSUME \A i \in OwnerIndex : owners[i].addr # None
             PROVE  FALSE
  OBVIOUS
<1> DEFINE f == [i \in OwnerIndex |-> owners[i].addr]
<1>1. f \in [OwnerIndex -> Loco \ {l}]
  BY DEF Entered, IInv, TableOK
<1>2. IsFiniteSet(OwnerIndex) /\ Cardinality(OwnerIndex) = OwnerSlots
  <2>1. /\ IsFiniteSet(0 .. OwnerSlots - 1)
        /\ Cardinality(0 .. OwnerSlots - 1) = OwnerSlots
    BY FS_Interval, LocoDriveAssumption
  <2> QED BY <2>1 DEF OwnerIndex
<1>3. /\ IsFiniteSet(Loco \ {l}) /\ Cardinality(Loco) \in Nat
      /\ Cardinality(Loco \ {l}) = Cardinality(Loco) - 1
  BY FS_RemoveElement, FS_CardinalityType DEF AllKept
<1>4. Cardinality(Loco \ {l}) < Cardinality(OwnerIndex)
  BY <1>2, <1>3, LocoDriveAssumption DEF AllKept
<1> HIDE DEF f
<1>5. \E i, j \in OwnerIndex : i # j /\ f[i] = f[j]
  BY <1>1, <1>2, <1>3, <1>4, FS_PigeonHole
<1> QED BY <1>5 DEF f, IInv, OneEntry

(* With room for all, _noteOwner() enters its loco and removes no other.    *)
LEMMA NoteOwnerEnters ==
    ASSUME AllKept, IInv, NEW l \in Loco, NEW m \in Source, NoteOwner(l, m)
    PROVE  /\ Entered(l)'
           /\ \A k \in Loco : Entered(k) => Entered(k)'
<1> DEFINE put(i) == owners' = [owners EXCEPT ![i] = [addr |-> l, src |-> m]]
<1>1. PICK i \in OwnerIndex : put(i) /\ owners[i].addr \in {l, None}
  <2> DEFINE known == {i \in OwnerIndex : owners[i].addr = l}
             free  == {i \in OwnerIndex : owners[i].addr = None}
  <2>1. ~(known = {} /\ free = {})
    BY RoomForLoco DEF Entered
  <2>2. \/ \E i \in known : put(i)
        \/ \E i \in free : put(i)
    BY <2>1 DEF NoteOwner
  <2> QED BY <2>2
<1>2. /\ owners'[i].addr = l
      /\ \A j \in OwnerIndex \ {i} : owners'[j] = owners[j]
  BY <1>1 DEF IInv, TableOK
<1>3. Entered(l)'
  BY <1>2 DEF Entered
<1>4. ASSUME NEW k \in Loco, Entered(k)
      PROVE  Entered(k)'
  <2>1. PICK j \in OwnerIndex : owners[j].addr = k
    BY <1>4 DEF Entered
  <2>2. CASE j = i
    BY <1>1, <1>3, <2>1, <2>2, LocoDriveAssumption
  <2>3. CASE j # i
    BY <1>2, <2>1, <2>3 DEF Entered
  <2> QED BY <2>2, <2>3
<1> QED BY <1>3, <1>4

(* The queue when a command is taken. *)
LEMMA QueuedTaken ==
    ASSUME IInv, QueuedKnown, cmds # <<>>, cmds' = Tail(cmds),
           UNCHANGED <<pc1, cur, active>>
    PROVE  /\ QueuedKnown'
           /\ Head(cmds).type = "speed" => active[Head(cmds).loco]
<1>1. cmds \in Seq(Cmd)
  BY DEF IInv, QueueOK
<1>2. /\ Len(cmds) \in Nat \ {0} /\ Len(cmds') = Len(cmds) - 1
      /\ \A i \in 1 .. Len(cmds') : cmds'[i] = cmds[i + 1]
      /\ Head(cmds) = cmds[1]
  BY <1>1, HeadTailProperties, LenProperties, EmptySeq
<1>3. \A i \in 1 .. Len(cmds') : cmds'[i].type = "speed" => active'[cmds'[i].loco]
  BY <1>2 DEF QueuedKnown
<1> QED BY <1>2, <1>3 DEF QueuedKnown

(* A step that leaves the stopping of a loco alone. *)
LEMMA CaughtKept ==
    ASSUME NEW l \in Loco, Caught(l),
           UNCHANGED <<track, copy, active, speed, dirty>>,
           pc0' = pc0 \/ (pc0 # "send" /\ pc0' # "send")
    PROVE  Caught(l)'
BY DEF Caught, Copied

LEMMA DeliverKeepsLInv ==
    ASSUME AllKept, IInv, TInv, LInv,
           DeliverSpeed \/ DeliverEstop \/ DeliverPower \/ DeliverStop
    PROVE  LInv'
<1>1. /\ cmds # <<>> /\ cmds' = Tail(cmds) /\ pc0 = "poll"
      /\ UNCHANGED <<copy, active, speed, dirty, pc1, cur>>
  BY DEF DeliverSpeed, DeliverEstop, DeliverPower, DeliverStop, Next0, repo, core1Vars
<1>2. QueuedKnown' /\ (Head(cmds).type = "speed" => active[Head(cmds).loco])
  BY <1>1, QueuedTaken DEF LInv
<1>3. \A l \in mustStop : Caught(l) /\ l \in Loco
  BY <1>1 DEF LInv, StopInv, Due, TInv, HistoryTypes
<1>4. CASE DeliverSpeed
  <2>1. PICK l \in Loco, m \in Source :
            /\ l = Head(cmds).loco /\ active[l]
            /\ NoteOwner(l, m) /\ SetSpeed(l, Head(cmds).speed)
            /\ driver' = [driver EXCEPT ![l] = m]
            /\ mustStop' = mustStop \ {l} /\ UNCHANGED pc0
    BY <1>1, <1>2, <1>4, HeadOfBus DEF DeliverSpeed, Next0
  <2>2. DrivenKnown'
    <3>1. /\ Entered(l)'
          /\ \A k \in Loco : Entered(k) => Entered(k)'
      BY <2>1, NoteOwnerEnters
    <3>2. \A k \in Loco : k # l => driver'[k] = driver[k]
      BY <2>1 DEF IInv, TableOK
    <3> QED BY <1>1, <2>1, <3>1, <3>2 DEF LInv, DrivenKnown
  <2>3. ASSUME NEW k \in mustStop'
        PROVE  Caught(k)'
    <3>1. k \in mustStop /\ k # l /\ Caught(k) /\ k \in Loco
      BY <1>3, <2>1, <2>3
    <3>2. track'[k] = track[k]
      BY <2>1, <3>1 DEF SetSpeed, TInv, TrackTypes
    <3> QED BY <1>1, <2>1, <3>1, <3>2 DEF Caught, Copied
  <2> QED BY <1>2, <2>2, <2>3 DEF LInv, StopInv
<1>5. CASE DeliverEstop
  <2>1. UNCHANGED <<pc0, mustStop, driver, owners>>
    BY <1>5 DEF DeliverEstop, ownerVars
  <2>2. DrivenKnown'
    BY <1>1, <2>1 DEF LInv, DrivenKnown, Entered
  <2>3. \A l \in Loco : track[l] < 2 => track'[l] < 2
    BY <1>5, LocoDriveAssumption DEF DeliverEstop, TInv, TrackTypes, Speed
  <2>4. \A l \in mustStop : Caught(l)'
    BY <1>1, <1>3, <2>1, <2>3 DEF Caught, Copied
  <2> QED BY <1>2, <2>1, <2>2, <2>4 DEF LInv, StopInv
<1>6. CASE DeliverPower
  <2>1. UNCHANGED <<pc0, track, mustStop, driver, owners>>
    BY <1>6 DEF DeliverPower, ownerVars, history
  <2>2. DrivenKnown'
    BY <1>1, <2>1 DEF LInv, DrivenKnown, Entered
  <2>3. \A l \in mustStop : Caught(l)'
    BY <1>1, <1>3, <2>1, CaughtKept
  <2> QED BY <1>2, <2>1, <2>2, <2>3 DEF LInv, StopInv
<1>7. CASE DeliverStop
  <2>1. /\ pc0' = "stopping" /\ stopIdx' = 0 /\ UNCHANGED <<track, driver, owners>>
        /\ mustStop' = mustStop \cup
               {l \in Loco : /\ driver[l] = "LAN" /\ track[l] >= 2
                             /\ active[l] => speed[l] >= 2}
    BY <1>7 DEF DeliverStop, ownerVars
  <2>2. DrivenKnown'
    BY <1>1, <2>1 DEF LInv, DrivenKnown, Entered
  <2>3. \A l \in mustStop : Caught(l)'
    BY <1>1, <1>3, <2>1, CaughtKept
  <2>4. ASSUME NEW l \in Loco, driver[l] = "LAN", active[l] => speed[l] >= 2
        PROVE  Due(l)'
    <3>1. active[l] /\ Entered(l)
      BY <2>4, LocoDriveAssumption DEF LInv, DrivenKnown
    <3>2. PICK i \in OwnerIndex : owners[i].addr = l
      BY <3>1 DEF Entered
    <3>3. Theirs(i) /\ i >= 0
      BY <2>4, <3>2, LocoDriveAssumption DEF Theirs, IInv, EntryRight, OwnerIndex
    <3> QED BY <1>1, <2>1, <2>4, <3>1, <3>2, <3>3 DEF Due, Theirs
  <2> QED BY <1>2, <2>1, <2>2, <2>3, <2>4 DEF LInv, StopInv
<1> QED BY <1>4, <1>5, <1>6, <1>7


LEMMA StopKeepsLInv ==
    ASSUME AllKept, IInv, TInv, LInv,
           StopEntry \/ StopEntrySkipped \/ StopDone \/ PollDone
    PROVE  LInv'
<1>1. UNCHANGED <<power, track, copy, owners, driver, cmds, pc1, cur>>
  BY DEF StopEntry, StopEntrySkipped, StopDone, PollDone, core1Vars, history, ownerVars
<1>2. mustStop \subseteq Loco /\ stopIdx \in 0 .. OwnerSlots /\ stopIdx \in Nat
  BY LocoDriveAssumption DEF TInv, HistoryTypes, TrackTypes
<1>3. CASE StopEntry
  <2>1. /\ pc0 = "stopping" /\ pc0' = "stopping" /\ stopIdx' = stopIdx + 1
        /\ mustStop' = mustStop /\ stopIdx < OwnerSlots
    BY <1>3 DEF StopEntry, history
  <2>2. CASE ~Theirs(stopIdx)
    <3>1. UNCHANGED <<active, speed, dirty>>
      BY <1>3, <2>2 DEF StopEntry, repo
    <3>2. DrivenKnown' /\ QueuedKnown'
      BY <1>1, <3>1 DEF LInv, DrivenKnown, QueuedKnown, Entered
    <3>3. ASSUME NEW l \in mustStop
          PROVE  Due(l)' \/ Caught(l)'
      <4>1. CASE Due(l)
        <5>1. PICK i \in OwnerIndex : i >= stopIdx /\ Theirs(i) /\ owners[i].addr = l
          BY <4>1 DEF Due
        <5>2. i # stopIdx /\ i >= stopIdx + 1
          BY <1>2, <2>2, <5>1, LocoDriveAssumption DEF OwnerIndex
        <5> QED BY <1>1, <2>1, <3>1, <4>1, <5>1, <5>2 DEF Due, Theirs
      <4>2. CASE Caught(l)
        BY <1>1, <1>2, <2>1, <3>1, <4>2, CaughtKept
      <4> QED BY <4>1, <4>2 DEF LInv, StopInv
    <3> QED BY <2>1, <3>2, <3>3 DEF LInv, StopInv
  <2>3. CASE Theirs(stopIdx)
    <3>1. PICK k \in Loco : k = owners[stopIdx].addr /\ StopOwned(k)
      BY <1>2, <1>3, <2>1, <2>3, EntryOfLoco DEF StopEntry
    <3>2. /\ active'[k] /\ \A l \in Loco : active[l] => active'[l]
          /\ \A l \in Loco : l # k => /\ active'[l] = active[l]
                                      /\ speed'[l] = speed[l] /\ dirty'[l] = dirty[l]
          /\ speed'[k] < 2 /\ dirty'[k] = (dirty[k] \/ speed[k] >= 2)
          /\ speed[k] < 2 => speed'[k] = speed[k]
      <4>1. /\ active \in [Loco -> BOOLEAN] /\ dirty \in [Loco -> BOOLEAN]
            /\ speed \in [Loco -> Speed] /\ speed[k] \in Nat
        <5>1. Speed \subseteq Nat
          BY LocoDriveAssumption DEF Speed
        <5> QED BY <5>1 DEF TInv, RepoTypes, IInv, SpeedsOK
      <4>2. /\ active' = [active EXCEPT ![k] = TRUE]
            /\ speed' = [speed EXCEPT ![k] = IF speed[k] >= 2 THEN 1 ELSE speed[k]]
            /\ dirty' = [dirty EXCEPT ![k] = dirty[k] \/ speed[k] >= 2]
        BY <3>1 DEF StopOwned
      <4>3. speed'[k] < 2 /\ (speed[k] < 2 => speed'[k] = speed[k])
        BY <4>1, <4>2
      <4>4. dirty'[k] = (dirty[k] \/ speed[k] >= 2)
        BY <4>1, <4>2, Zenon
      <4>5. active'[k] /\ \A l \in Loco : active[l] => active'[l]
        BY <4>1, <4>2
      <4>6. \A l \in Loco : l # k => /\ active'[l] = active[l]
                                   /\ speed'[l] = speed[l] /\ dirty'[l] = dirty[l]
        BY <4>1, <4>2
      <4> QED BY <4>3, <4>4, <4>5, <4>6
    <3>3. DrivenKnown'
      BY <1>1, <3>2 DEF LInv, DrivenKnown, Entered
    <3>4. QueuedKnown'
      <4>1. \A i \in 1 .. Len(cmds) : cmds[i].type = "speed" => cmds[i].loco \in Loco
        BY DEF IInv, QueueOK, Cmd
      <4>2. pc1 = "dispatch" /\ cur.type = "speed" => cur.loco \in Loco
        BY DEF IInv, QueueOK, Cmd
      <4> QED BY <1>1, <3>2, <4>1, <4>2 DEF LInv, QueuedKnown
    <3>5. ASSUME NEW l \in mustStop
          PROVE  Due(l)' \/ Caught(l)'
      <4>0. l \in Loco
        BY <1>2
      <4>1. CASE Due(l) /\ l # k
        <5>1. PICK i \in OwnerIndex : i >= stopIdx /\ Theirs(i) /\ owners[i].addr = l
          BY <4>1 DEF Due
        <5>2. i # stopIdx /\ i >= stopIdx + 1
          BY <1>2, <3>1, <4>1, <5>1, LocoDriveAssumption DEF OwnerIndex
        <5> QED BY <1>1, <2>1, <3>2, <4>0, <4>1, <5>1, <5>2 DEF Due, Theirs
      <4>2. CASE Due(l) /\ l = k
        BY <2>1, <3>2, <4>2 DEF Due, Caught, Copied
      <4>3. CASE Caught(l)
        <5>1. active'[l] /\ speed'[l] < 2 /\ (dirty[l] => dirty'[l])
          BY <3>2, <4>0, <4>3 DEF Caught
        <5> QED BY <1>1, <2>1, <4>3, <5>1 DEF Caught, Copied
      <4> QED BY <4>1, <4>2, <4>3 DEF LInv, StopInv
    <3> QED BY <2>1, <3>3, <3>4, <3>5 DEF LInv, StopInv
  <2> QED BY <2>2, <2>3
<1>4. CASE StopEntrySkipped \/ StopDone \/ PollDone
  <2>1. /\ UNCHANGED <<active, speed, dirty>> /\ pc0 # "send" /\ pc0' # "send"
        /\ mustStop' \subseteq mustStop
    BY <1>4 DEF StopEntrySkipped, StopDone, PollDone, repo, history
  <2>2. DrivenKnown' /\ QueuedKnown'
    BY <1>1, <2>1 DEF LInv, DrivenKnown, QueuedKnown, Entered
  <2>3. ASSUME NEW l \in mustStop'
        PROVE  Due(l)' \/ Caught(l)'
    <3>0. l \in mustStop /\ l \in Loco
      BY <1>2, <2>1
    <3>1. CASE Due(l)
      <4>1. PICK i \in OwnerIndex : i >= stopIdx /\ Theirs(i) /\ owners[i].addr = l
        BY <3>1 DEF Due
      <4>2. /\ StopEntrySkipped /\ pc0' = "stopping" /\ stopIdx' = stopIdx + 1
            /\ l # owners[stopIdx].addr
        BY <1>2, <1>4, <3>1, <4>1, LocoDriveAssumption
           DEF StopEntrySkipped, StopDone, PollDone, Due, OwnerIndex
      <4>3. i >= stopIdx + 1
        BY <1>2, <4>1, <4>2, LocoDriveAssumption DEF OwnerIndex
      <4> QED BY <1>1, <2>1, <3>1, <4>1, <4>2, <4>3 DEF Due, Theirs
    <3>2. CASE Caught(l)
      BY <1>1, <2>1, <3>0, <3>2, CaughtKept
    <3> QED BY <3>0, <3>1, <3>2 DEF LInv, StopInv
  <2> QED BY <2>2, <2>3 DEF LInv, StopInv
<1> QED BY <1>3, <1>4

LEMMA ResendKeepsLInv ==
    ASSUME AllKept, IInv, TInv, LInv,
           DirtySend \/ DirtyDone \/ \E l \in Loco : DirtyTake(l)
    PROVE  LInv'
<1>1. /\ UNCHANGED <<power, owners, driver, cmds, pc1, cur, active, speed, mustStop>>
      /\ pc0 # "stopping"
  BY DEF DirtySend, DirtyDone, DirtyTake, core1Vars, history, ownerVars, repo
<1>2. DrivenKnown' /\ QueuedKnown'
  BY <1>1 DEF LInv, DrivenKnown, QueuedKnown, Entered
<1>3. \A l \in mustStop : Caught(l) /\ l \in Loco
  BY <1>1 DEF LInv, StopInv, Due, TInv, HistoryTypes
<1>4. ASSUME NEW l \in mustStop
      PROVE  Caught(l)'
  <2>0. Caught(l) /\ l \in Loco
    BY <1>3
  <2>1. CASE DirtySend
    <3>1. /\ pc0 = "send" /\ power /\ pc0' = "dirty" /\ UNCHANGED dirty
          /\ track' = [track EXCEPT ![copy.loco] = copy.speed]
      BY <2>1 DEF DirtySend, SetSpeed, repo, TInv, TrackTypes
    <3>2. CASE copy.loco = l
      <4>1. track'[l] = copy.speed
        BY <2>0, <3>1, <3>2 DEF TInv, TrackTypes
      <4> QED BY <1>1, <2>0, <3>1, <3>2, <4>1 DEF Caught, Copied
    <3>3. CASE copy.loco # l
      <4>1. track'[l] = track[l]
        BY <2>0, <3>1, <3>3 DEF TInv, TrackTypes
      <4> QED BY <1>1, <2>0, <3>1, <3>3, <4>1 DEF Caught, Copied
    <3> QED BY <3>2, <3>3
  <2>2. CASE DirtyDone
    <3>1. /\ UNCHANGED <<track, copy, dirty>> /\ pc0 # "send" /\ pc0' # "send"
      BY <2>2 DEF DirtyDone, repo
    <3> QED BY <1>1, <2>0, <3>1, CaughtKept
  <2>3. ASSUME NEW k \in Loco, DirtyTake(k)
        PROVE  Caught(l)'
    <3>1. /\ pc0 = "dirty" /\ pc0' = "send" /\ UNCHANGED track
          /\ copy' = [loco |-> k, speed |-> speed[k]]
          /\ dirty' = [dirty EXCEPT ![k] = FALSE]
      BY <2>3 DEF DirtyTake
    <3>2. CASE k = l
      BY <1>1, <2>0, <3>1, <3>2 DEF Caught, Copied
    <3>3. CASE k # l
      <4>1. dirty'[l] = dirty[l]
        BY <2>0, <3>1, <3>3 DEF TInv, RepoTypes
      <4> QED BY <1>1, <2>0, <3>1, <3>3, <4>1 DEF Caught, Copied
    <3> QED BY <3>2, <3>3
  <2> QED BY <2>1, <2>2, <2>3
<1> QED BY <1>1, <1>2, <1>4 DEF LInv, StopInv

LEMMA Core1KeepsLInv ==
    ASSUME AllKept, IInv, TInv, LInv, Core1
    PROVE  LInv'
<1>1. UNCHANGED <<pc0, power, track, copy, owners, driver, stopIdx>>
  BY DEF Core1, Drive, XnDrive, LnDrive, PowerRequest, EmergStop, LanLost, Request,
         Dispatch, LnUnlock, WebLock, WebUnlock, Release, history, ownerVars
<1>2. mustStop \subseteq Loco
  BY DEF TInv, HistoryTypes
<1>3. CASE Drive
  <2>1. PICK l \in Loco, v \in Speed, m \in Source :
            /\ WriteSpeed(l, v) /\ cur' = SpeedCmd(l, v, m) /\ UNCHANGED cmds
    BY <1>3 DEF Drive, XnDrive, LnDrive, Speed, Source
  <2>2. /\ active'[l] /\ \A k \in Loco : active[k] => active'[k]
        /\ \A k \in Loco : k # l => /\ active'[k] = active[k]
                                    /\ speed'[k] = speed[k] /\ dirty'[k] = dirty[k]
        /\ mustStop' = mustStop \ {l}
    BY <2>1 DEF WriteSpeed, TInv, RepoTypes, IInv, SpeedsOK
  <2>3. DrivenKnown'
    BY <1>1, <2>2 DEF LInv, DrivenKnown, Entered
  <2>4. QueuedKnown'
    <3>1. \A i \in 1 .. Len(cmds) : cmds[i].type = "speed" => cmds[i].loco \in Loco
      BY DEF IInv, QueueOK, Cmd
    <3> QED BY <2>1, <2>2, <3>1 DEF LInv, QueuedKnown, SpeedCmd
  <2>5. \A k \in mustStop' : Due(k)' \/ Caught(k)'
    BY <1>1, <1>2, <2>2 DEF LInv, StopInv, Due, Caught, Copied, Theirs
  <2> QED BY <2>3, <2>4, <2>5 DEF LInv, StopInv
<1>4. CASE \/ \E on \in BOOLEAN : PowerRequest(on)
           \/ EmergStop \/ LanLost \/ Dispatch \/ LnUnlock \/ WebLock \/ WebUnlock
  <2>1. UNCHANGED <<active, speed, dirty, mustStop>>
    BY <1>4 DEF PowerRequest, EmergStop, LanLost, Request, Dispatch, LnUnlock,
                WebLock, WebUnlock, repo, history
  <2>2. DrivenKnown' /\ StopInv'
    BY <1>1, <2>1 DEF LInv, DrivenKnown, Entered, StopInv, Due, Caught, Copied, Theirs
  <2>3. QueuedKnown'
    <3>1. CASE Dispatch
      <4>1. /\ cmds \in Seq(Cmd) /\ cur \in Cmd /\ pc1 = "dispatch" /\ pc1' # "dispatch"
            /\ cmds' = cmds \/ cmds' = Append(cmds, cur)
        BY <3>1 DEF Dispatch, IInv, QueueOK
      <4>2. CASE cmds' = cmds
        BY <2>1, <4>1, <4>2 DEF LInv, QueuedKnown
      <4>3. CASE cmds' = Append(cmds, cur)
        <5>1. /\ Len(cmds') = Len(cmds) + 1 /\ Len(cmds) \in Nat
              /\ \A i \in 1 .. Len(cmds) : cmds'[i] = cmds[i]
              /\ cmds'[Len(cmds) + 1] = cur
          BY <4>1, <4>3, AppendProperties, LenProperties
        <5> QED BY <2>1, <4>1, <5>1 DEF LInv, QueuedKnown
      <4> QED BY <4>1, <4>2, <4>3
    <3>2. CASE ~Dispatch
      <4>1. /\ UNCHANGED cmds
            /\ pc1' = "dispatch" /\ cur'.type = "speed" => UNCHANGED <<pc1, cur>>
        BY <1>4, <3>2 DEF PowerRequest, EmergStop, LanLost, Request, LnUnlock,
                          WebLock, WebUnlock
      <4> QED BY <2>1, <4>1 DEF LInv, QueuedKnown
    <3> QED BY <3>1, <3>2
  <2> QED BY <2>2, <2>3 DEF LInv
<1>5. ~\E l \in Loco : Release(l)
  BY DEF AllKept, Release, Receive
<1> QED BY <1>3, <1>4, <1>5 DEF Core1

(* When a LenzLAN client is lost, every moving loco that it drove last is   *)
(* at a stop once nothing is under way, unless it was driven again or the   *)
(* lock could not be had in time: also with power switched off in between,  *)
(* emergency stops, and other clients driving and taking over.              *)
THEOREM LostStopped ==
    ASSUME AllKept
    PROVE  Spec => []LostLocosStop
<1>1. IInv /\ TInv /\ LInv /\ [Next]_vars => LInv'
  <2> SUFFICES ASSUME IInv, TInv, LInv, [Next]_vars
               PROVE  LInv'
    OBVIOUS
  <2>1. CASE Core0
    BY <2>1, DeliverKeepsLInv, StopKeepsLInv, ResendKeepsLInv DEF Core0
  <2>2. CASE Core1
    BY <2>2, Core1KeepsLInv
  <2>3. CASE UNCHANGED vars
    <3>1. UNCHANGED <<pc0, power, track, copy, owners, driver, stopIdx, cmds, pc1, cur,
                      active, speed, dirty, mustStop>>
      BY <2>3 DEF vars, repo, core1Vars, history, ownerVars
    <3> QED BY <3>1 DEF LInv, DrivenKnown, Entered, QueuedKnown, StopInv, Due, Caught,
                        Copied, Theirs
  <2> QED BY <2>1, <2>2, <2>3 DEF Next
<1>2. TInv /\ LInv => LostLocosStop
  BY DEF TInv, HistoryTypes, LInv, StopInv, Due, Caught, Copied, LostLocosStop,
         Quiescent, Resend
<1> QED BY InitLInv, <1>1, <1>2, SpecIInv, SpecTInv, PTL DEF Spec


-----------------------------------------------------------------------------
(* The track follows the repository.  A speed reaches the track in two ways *)
(* that overtake each other, and the stop for a lost client is written to   *)
(* the repository alone; the invariant says what is still on its way.       *)
For(c, l) == c.type = "speed" /\ c.loco = l
Marked(l) == active[l] /\ dirty[l]
LastFor(i, l) == For(cmds[i], l) /\ \A j \in i + 1 .. Len(cmds) : ~For(cmds[j], l)

(* A speed that is not yet dispatched is what the repository shows, or the *)
(* loco was stopped meanwhile,                                              *)
CurCurrent ==
    /\ pc1 # "dispatch" => cur.type # "speed"
    /\ \A l \in Loco : For(cur, l) /\ l \notin crossed => cur.speed = speed[l]
(* and so is the last one in the queue, unless one has been refused since. *)
LastCurrent ==
    \A l \in Loco \ (forgotten \cup unheard \cup crossed) :
        ~For(cur, l) => \A i \in 1 .. Len(cmds) : LastFor(i, l) => cmds[i].speed = speed[l]
(* While a speed waits, the entry is marked, unless it was resent already. *)
WaitingMarked ==
    \A l \in Loco \ (forgotten \cup overtaken) : Waiting(l) => Marked(l) \/ Copied(l)
(* What was copied out is current, or the entry was marked again. *)
CopyCurrent ==
    \A l \in Loco \ forgotten : Copied(l) => Marked(l) \/ copy.speed = speed[l]
(* The track is right, or will be. *)
OnItsWay ==
    \A l \in Loco \ (forgotten \cup halted \cup (overtaken \cap (unheard \cup crossed))) :
        Waiting(l) \/ Marked(l) \/ Copied(l) \/ track[l] = speed[l]

RInv == CurCurrent /\ LastCurrent /\ WaitingMarked /\ CopyCurrent /\ OnItsWay

LEMMA InitRInv == Init => RInv
<1> SUFFICES ASSUME Init PROVE RInv
  OBVIOUS
<1>1. cmds = <<>> /\ Len(cmds) = 0 /\ cur.type = None /\ pc0 = "poll" /\ pc1 = "idle"
  BY DEF Init
<1>2. \A l \in Loco : track[l] = 0 /\ speed[l] = 0
  BY DEF Init
<1>3. \A l \in Loco : ~For(cur, l) /\ ~Copied(l)
  BY <1>1, LocoDriveAssumption DEF For, Copied
<1>4. CurCurrent /\ LastCurrent
  BY <1>1, <1>3, LocoDriveAssumption DEF CurCurrent, LastCurrent
<1>5. WaitingMarked
  BY <1>1, LocoDriveAssumption DEF WaitingMarked, Waiting
<1>6. CopyCurrent /\ OnItsWay
  BY <1>2, <1>3 DEF CopyCurrent, OnItsWay
<1> QED BY <1>4, <1>5, <1>6 DEF RInv

(* What is waiting when the first command is taken, *)
LEMMA TailWaiting ==
    ASSUME cmds \in Seq(Cmd), cmds # <<>>, cmds' = Tail(cmds), cur' = cur, NEW l \in Loco
    PROVE  /\ Waiting(l)' => Waiting(l)
           /\ Waiting(l) /\ ~For(Head(cmds), l) => Waiting(l)'
           /\ For(Head(cmds), l) /\ ~Waiting(l)' => LastFor(1, l) /\ ~For(cur, l)
           /\ \A i \in 1 .. Len(cmds') :
                 LastFor(i, l)' => LastFor(i + 1, l) /\ cmds'[i] = cmds[i + 1]
           /\ Head(cmds) = cmds[1] /\ 1 \in 1 .. Len(cmds)
<1>1. /\ Len(cmds) \in Nat \ {0} /\ Len(cmds') = Len(cmds) - 1
      /\ \A i \in 1 .. Len(cmds') : cmds'[i] = cmds[i + 1]
      /\ Head(cmds) = cmds[1]
  BY HeadTailProperties, LenProperties, EmptySeq
<1>2. \A i \in 2 .. Len(cmds) : (i - 1) \in 1 .. Len(cmds') /\ cmds'[i - 1] = cmds[i]
  <2> TAKE i \in 2 .. Len(cmds)
  <2>1. (i - 1) \in 1 .. Len(cmds') /\ (i - 1) + 1 = i
    BY <1>1
  <2> QED BY <1>1, <2>1
<1>3. Waiting(l)' => Waiting(l)
  BY <1>1 DEF Waiting
<1>4. Waiting(l) /\ ~For(Head(cmds), l) => Waiting(l)'
  <2> SUFFICES ASSUME Waiting(l), ~For(Head(cmds), l), ~For(cur, l)
               PROVE  Waiting(l)'
    BY DEF Waiting, For
  <2>1. PICK i \in 1 .. Len(cmds) : For(cmds[i], l)
    BY DEF Waiting, For
  <2>2. i \in 2 .. Len(cmds)
    BY <1>1, <2>1
  <2> QED BY <1>2, <2>1, <2>2 DEF Waiting, For
<1>5. For(Head(cmds), l) /\ ~Waiting(l)' => LastFor(1, l) /\ ~For(cur, l)
  <2> SUFFICES ASSUME For(Head(cmds), l), ~Waiting(l)'
               PROVE  LastFor(1, l) /\ ~For(cur, l)
    OBVIOUS
  <2>1. \A j \in 2 .. Len(cmds) : ~For(cmds[j], l)
    BY <1>2 DEF Waiting, For
  <2>2. ~For(cur, l)
    BY DEF Waiting, For
  <2> QED BY <1>1, <2>1, <2>2 DEF LastFor
<1>6. ASSUME NEW i \in 1 .. Len(cmds'), LastFor(i, l)'
      PROVE  LastFor(i + 1, l) /\ cmds'[i] = cmds[i + 1]
  <2>1. cmds'[i] = cmds[i + 1] /\ For(cmds[i + 1], l)
    BY <1>1, <1>6 DEF LastFor, For
  <2>2. ASSUME NEW j \in (i + 1) + 1 .. Len(cmds)
        PROVE  ~For(cmds[j], l)
    <3>1. j \in 2 .. Len(cmds) /\ (j - 1) \in i + 1 .. Len(cmds')
      BY <1>1
    <3> QED BY <1>2, <1>6, <3>1 DEF LastFor, For
  <2> QED BY <2>1, <2>2 DEF LastFor
<1> QED BY <1>1, <1>3, <1>4, <1>5, <1>6

(* and when one is added. *)
LEMMA AppendWaiting ==
    ASSUME cmds \in Seq(Cmd), cur \in Cmd, cmds' = Append(cmds, cur),
           cur' = [type |-> None], NEW l \in Loco
    PROVE  /\ Waiting(l)' <=> Waiting(l)
           /\ \A i \in 1 .. Len(cmds') : LastFor(i, l)' =>
                 \/ i = Len(cmds) + 1 /\ cmds'[i] = cur
                 \/ /\ i \in 1 .. Len(cmds) /\ LastFor(i, l) /\ cmds'[i] = cmds[i]
                    /\ ~For(cur, l)
<1>1. /\ Len(cmds') = Len(cmds) + 1 /\ Len(cmds) \in Nat
      /\ \A i \in 1 .. Len(cmds) : cmds'[i] = cmds[i]
      /\ cmds'[Len(cmds) + 1] = cur
  BY AppendProperties, LenProperties
<1>2. ~For(cur', l)
  BY LocoDriveAssumption DEF For
<1>3. Waiting(l)' <=> \E i \in 1 .. Len(cmds') : For(cmds'[i], l)
  BY <1>2 DEF Waiting, For
<1>4. Waiting(l) <=> For(cur, l) \/ \E i \in 1 .. Len(cmds) : For(cmds[i], l)
  BY DEF Waiting, For
<1>5. Waiting(l)' <=> Waiting(l)
  BY <1>1, <1>3, <1>4
<1>6. ASSUME NEW i \in 1 .. Len(cmds'), LastFor(i, l)', i # Len(cmds) + 1
      PROVE  /\ i \in 1 .. Len(cmds) /\ LastFor(i, l) /\ cmds'[i] = cmds[i]
             /\ ~For(cur, l)
  <2>1. i \in 1 .. Len(cmds) /\ cmds'[i] = cmds[i]
    BY <1>1, <1>6
  <2>2. \A j \in i + 1 .. Len(cmds') : ~For(cmds'[j], l)
    BY <1>6 DEF LastFor, For
  <2>3. ~For(cur, l)
    BY <1>1, <2>1, <2>2
  <2>4. \A j \in i + 1 .. Len(cmds) : ~For(cmds[j], l)
    BY <1>1, <2>1, <2>2
  <2> QED BY <1>6, <2>1, <2>3, <2>4 DEF LastFor, For
<1> QED BY <1>1, <1>5, <1>6

LEMMA DeliverKeepsRInv ==
    ASSUME IInv, TInv, RInv,
           DeliverSpeed \/ DeliverEstop \/ DeliverPower \/ DeliverStop
    PROVE  RInv'
<1>1. /\ cmds # <<>> /\ cmds' = Tail(cmds) /\ pc0 = "poll"
      /\ UNCHANGED <<copy, active, speed, dirty, pc1, cur, forgotten, overtaken, crossed>>
  BY DEF DeliverSpeed, DeliverEstop, DeliverPower, DeliverStop, Next0, repo, core1Vars,
         history
<1>2. cmds \in Seq(Cmd)
  BY DEF IInv, QueueOK
<1>3. /\ Len(cmds) \in Nat \ {0} /\ Len(cmds') = Len(cmds) - 1
      /\ \A i \in 1 .. Len(cmds') : cmds'[i] = cmds[i + 1]
      /\ Head(cmds) = cmds[1]
  BY <1>1, <1>2, HeadTailProperties, LenProperties, EmptySeq
<1>5. pc0' # "send" /\ unheard \subseteq unheard'
  BY <1>1 DEF DeliverSpeed, DeliverEstop, DeliverPower, DeliverStop, history
<1>7. CurCurrent'
  BY <1>1 DEF RInv, CurCurrent, For
<1>8. LastCurrent'
  <2> SUFFICES ASSUME NEW l \in Loco, l \notin forgotten', l \notin unheard',
                      l \notin crossed', ~For(cur, l)', NEW i \in 1 .. Len(cmds'), LastFor(i, l)'
               PROVE  cmds'[i].speed = speed'[l]
    BY DEF LastCurrent
  <2>1. LastFor(i + 1, l) /\ cmds'[i] = cmds[i + 1]
    BY <1>1, <1>2, TailWaiting
  <2>2. i + 1 \in 1 .. Len(cmds) /\ ~For(cur, l)
        /\ l \in Loco \ (forgotten \cup unheard \cup crossed)
    BY <1>1, <1>3, <1>5 DEF For
  <2> QED BY <1>1, <2>1, <2>2 DEF RInv, LastCurrent
<1>9. WaitingMarked' /\ CopyCurrent'
  <2>1. \A l \in Loco : Waiting(l)' => Waiting(l)
    BY <1>1, <1>2, TailWaiting
  <2>2. \A l \in Loco : /\ Marked(l)' <=> Marked(l)
                        /\ ~Copied(l) /\ ~Copied(l)'
    BY <1>1, <1>5 DEF Marked, Copied
  <2> QED BY <1>1, <2>1, <2>2 DEF RInv, WaitingMarked, CopyCurrent
<1>10. OnItsWay'
  <2> SUFFICES ASSUME NEW l \in Loco, l \notin forgotten, l \notin halted',
                      ~(l \in overtaken /\ l \in unheard' \cup crossed),
                      ~Waiting(l)', ~Marked(l)
               PROVE  track'[l] = speed[l]
    BY <1>1 DEF OnItsWay, Marked
  <2>0. ~Copied(l)
    BY <1>1 DEF Copied
  <2>1. CASE ~For(Head(cmds), l)
    <3>1. ~Waiting(l)
      BY <1>1, <1>2, <2>1, TailWaiting
    <3>2. /\ l \notin halted /\ track'[l] = track[l]
          /\ l \in unheard => l \in unheard'
      <4>1. CASE DeliverSpeed
        <5>1. PICK k \in Loco : k = Head(cmds).loco /\ k # l /\ SetSpeed(k, Head(cmds).speed)
          BY <1>1, <2>1, <4>1, HeadOfBus DEF DeliverSpeed, Next0, For
        <5> QED BY <1>5, <5>1 DEF SetSpeed, TInv, TrackTypes
      <4>2. CASE DeliverEstop
        BY <4>2 DEF DeliverEstop
      <4>3. CASE DeliverPower
        BY <4>3 DEF DeliverPower, history
      <4>4. CASE DeliverStop
        BY <4>4 DEF DeliverStop
      <4> QED BY <4>1, <4>2, <4>3, <4>4
    <3> QED BY <2>0, <3>1, <3>2 DEF RInv, OnItsWay
  <2>2. CASE For(Head(cmds), l)
    <3>1. LastFor(1, l) /\ ~For(cur, l) /\ 1 \in 1 .. Len(cmds)
      BY <1>1, <1>2, <2>2, TailWaiting
    <3>2. Waiting(l)
      BY <1>3, <2>2 DEF Waiting, For
    <3>3. l \in overtaken
      BY <2>0, <3>2 DEF RInv, WaitingMarked
    <3>4. l \notin unheard /\ l \notin unheard' /\ l \notin crossed
      BY <1>5, <3>3
    <3>5. cmds[1].speed = speed[l]
      BY <3>1, <3>4 DEF RInv, LastCurrent
    <3>6. DeliverSpeed /\ Head(cmds).loco = l
      BY <2>2 DEF DeliverEstop, DeliverPower, DeliverStop, Next0, For
    <3>7. power /\ SetSpeed(l, Head(cmds).speed)
      BY <3>4, <3>6 DEF DeliverSpeed
    <3> QED BY <1>3, <3>5, <3>7 DEF SetSpeed, TInv, TrackTypes
  <2> QED BY <2>1, <2>2
<1> QED BY <1>7, <1>8, <1>9, <1>10 DEF RInv

LEMMA StopKeepsRInv ==
    ASSUME IInv, TInv, RInv, StopEntry
    PROVE  RInv'
<1>1. /\ UNCHANGED <<track, copy, pc1, cur, cmds, forgotten, unheard, halted, overtaken>>
      /\ pc0 = "stopping" /\ pc0' = "stopping"
  BY DEF StopEntry, core1Vars
<1>0. stopIdx \in 0 .. OwnerSlots /\ stopIdx < OwnerSlots
  BY DEF StopEntry, TInv, TrackTypes
<1>2. \A l \in Loco : /\ Waiting(l)' <=> Waiting(l)
                      /\ ~Copied(l) /\ ~Copied(l)'
  BY <1>1 DEF Waiting, Copied
<1>3. crossed \subseteq crossed'
  BY DEF StopEntry
<1>4. ASSUME NEW l \in Loco
      PROVE  /\ Marked(l) => Marked(l)'
             /\ speed'[l] # speed[l] => Marked(l)' /\ (Waiting(l) => l \in crossed')
  <2>1. CASE Theirs(stopIdx)
    <3>0. owners[stopIdx].addr \in Loco
      BY <1>0, <2>1, EntryOfLoco
    <3>1. PICK k \in Loco : /\ k = owners[stopIdx].addr /\ StopOwned(k)
                            /\ crossed' = IF Waiting(k) /\ speed[k] >= 2
                                          THEN crossed \cup {k} ELSE crossed
      BY <2>1, <3>0 DEF StopEntry
    <3>2. \A j \in Loco \ {k} : UNCHANGED <<active[j], speed[j], dirty[j]>>
      BY <3>1 DEF StopOwned, TInv, RepoTypes, IInv, SpeedsOK
    <3>3. CASE l = k
      <4>1. /\ active'[k] /\ dirty'[k] = (dirty[k] \/ speed[k] >= 2)
            /\ ~(speed[k] >= 2) => speed'[k] = speed[k]
        BY <3>1 DEF StopOwned, TInv, RepoTypes, IInv, SpeedsOK
      <4>2. speed[k] >= 2 /\ Waiting(k) => k \in crossed'
        BY <3>1
      <4> QED BY <3>3, <4>1, <4>2 DEF Marked
    <3>4. CASE l # k
      BY <3>2, <3>4 DEF Marked
    <3> QED BY <3>3, <3>4
  <2>2. CASE ~Theirs(stopIdx)
    BY <2>2 DEF StopEntry, Marked, repo
  <2> QED BY <2>1, <2>2
<1>5. \A l \in Loco : For(cur, l) => Waiting(l)
  BY DEF For, Waiting
<1>6. \A l \in Loco, i \in 1 .. Len(cmds) : LastFor(i, l) => Waiting(l)
  BY DEF LastFor, For, Waiting
<1>7. CurCurrent'
  BY <1>1, <1>3, <1>4, <1>5 DEF RInv, CurCurrent, For
<1>8. LastCurrent'
  BY <1>1, <1>3, <1>4, <1>6 DEF RInv, LastCurrent, LastFor, For
<1>9. WaitingMarked' /\ CopyCurrent'
  BY <1>1, <1>2, <1>4 DEF RInv, WaitingMarked, CopyCurrent
<1>10. OnItsWay'
  BY <1>1, <1>2, <1>3, <1>4 DEF RInv, OnItsWay
<1> QED BY <1>7, <1>8, <1>9, <1>10 DEF RInv

LEMMA ResendKeepsRInv ==
    ASSUME IInv, TInv, RInv,
           \/ StopEntrySkipped \/ StopDone \/ PollDone
           \/ DirtySend \/ DirtyDone \/ \E l \in Loco : DirtyTake(l)
    PROVE  RInv'
<1>1. UNCHANGED <<active, speed, pc1, cur, cmds, forgotten, unheard, crossed>>
  BY DEF StopEntrySkipped, StopDone, PollDone, DirtySend, DirtyDone, DirtyTake, core1Vars,
         history, repo
<1>2. CurCurrent' /\ LastCurrent'
  BY <1>1 DEF RInv, CurCurrent, LastCurrent, LastFor, For
<1>3. \A l \in Loco : Waiting(l)' <=> Waiting(l)
  BY <1>1 DEF Waiting
<1>4. CASE StopEntrySkipped \/ StopDone \/ PollDone \/ DirtyDone
  <2>1. /\ UNCHANGED <<track, dirty, halted, overtaken>>
        /\ \A l \in Loco : ~Copied(l) /\ ~Copied(l)'
    BY <1>4 DEF StopEntrySkipped, StopDone, PollDone, DirtyDone, Copied, repo, history
  <2> QED BY <1>1, <1>2, <1>3, <2>1 DEF RInv, WaitingMarked, CopyCurrent, OnItsWay, Marked
<1>5. ASSUME NEW k \in Loco, DirtyTake(k)
      PROVE  RInv'
  <2>1. /\ UNCHANGED <<track, halted, overtaken>>
        /\ copy' = [loco |-> k, speed |-> speed[k]] /\ pc0 = "dirty" /\ pc0' = "send"
        /\ dirty' = [dirty EXCEPT ![k] = FALSE]
    BY <1>5 DEF DirtyTake, history
  <2>2. Copied(k)' /\ copy'.speed = speed'[k]
    BY <1>1, <2>1 DEF Copied
  <2>3. \A l \in Loco \ {k} : ~Copied(l) /\ ~Copied(l)' /\ (Marked(l)' <=> Marked(l))
    BY <1>1, <2>1 DEF Copied, Marked, TInv, RepoTypes
  <2> QED BY <1>1, <1>2, <1>3, <2>1, <2>2, <2>3 DEF RInv, WaitingMarked, CopyCurrent, OnItsWay
<1>6. CASE DirtySend
  <2>1. PICK k \in Loco :
            /\ k = copy.loco /\ power
            /\ track' = [track EXCEPT ![k] = copy.speed] /\ halted' = halted \ {k}
            /\ overtaken' = IF Waiting(k) THEN overtaken \cup {k} ELSE overtaken \ {k}
            /\ UNCHANGED dirty /\ pc0 = "send" /\ pc0' = "dirty"
    BY <1>6 DEF DirtySend, SetSpeed, TInv, TrackTypes, repo
  <2>2. /\ Copied(k) /\ track'[k] = copy.speed
        /\ \A l \in Loco : ~Copied(l)' /\ (Marked(l)' <=> Marked(l))
        /\ \A l \in Loco \ {k} : ~Copied(l) /\ track'[l] = track[l]
    BY <1>1, <2>1 DEF Copied, Marked, TInv, TrackTypes
  <2>3. WaitingMarked' /\ CopyCurrent'
    BY <1>1, <1>3, <2>1, <2>2 DEF RInv, WaitingMarked, CopyCurrent
  <2>4. OnItsWay'
    BY <1>1, <1>3, <2>1, <2>2 DEF RInv, CopyCurrent, OnItsWay
  <2> QED BY <1>2, <2>3, <2>4 DEF RInv
<1> QED BY <1>4, <1>5, <1>6

LEMMA Core1KeepsRInv ==
    ASSUME IInv, TInv, RInv, Core1
    PROVE  RInv'
<1>1. UNCHANGED <<pc0, power, track, copy, halted, overtaken>>
  BY DEF Core1, Drive, XnDrive, LnDrive, PowerRequest, EmergStop, LanLost, Request,
         Dispatch, LnUnlock, WebLock, WebUnlock, Release, history
<1>2. \A l \in Loco : Copied(l)' <=> Copied(l)
  BY <1>1 DEF Copied
<1>3. pc1 # "dispatch" => \A l \in Loco : ~For(cur, l)
  BY DEF RInv, CurCurrent, For
<1>4. CASE Drive
  <2>1. PICK l \in Loco, v \in Speed, m \in Source :
            /\ WriteSpeed(l, v) /\ cur' = SpeedCmd(l, v, m) /\ UNCHANGED <<cmds, unheard>>
            /\ pc1 = "idle" /\ pc1' = "dispatch" /\ crossed' = crossed \ {l}
    BY <1>4 DEF WriteSpeed, Drive, XnDrive, LnDrive, Receive, Speed, Source
  <2>2. /\ Marked(l)' /\ speed'[l] = v /\ forgotten' = forgotten \ {l}
        /\ \A k \in Loco \ {l} : (Marked(k)' <=> Marked(k)) /\ speed'[k] = speed[k]
    BY <2>1 DEF WriteSpeed, Marked, TInv, RepoTypes, IInv, SpeedsOK
  <2>3. /\ For(cur', l) /\ cur'.speed = v /\ cur'.type = "speed"
        /\ \A k \in Loco \ {l} : ~For(cur', k)
    BY <2>1 DEF For, SpeedCmd
  <2>4. Waiting(l)' /\ \A k \in Loco \ {l} : Waiting(k)' <=> Waiting(k)
    BY <1>3, <2>1, <2>3 DEF Waiting, For
  <2>5. CurCurrent'
    BY <2>1, <2>2, <2>3 DEF RInv, CurCurrent, For
  <2>6. LastCurrent'
    BY <1>3, <2>1, <2>2, <2>3 DEF RInv, LastCurrent, LastFor, For
  <2>7. WaitingMarked' /\ CopyCurrent'
    BY <1>1, <1>2, <2>1, <2>2, <2>4 DEF RInv, WaitingMarked, CopyCurrent
  <2>8. OnItsWay'
    BY <1>1, <1>2, <2>1, <2>2, <2>4 DEF RInv, OnItsWay
  <2> QED BY <2>5, <2>6, <2>7, <2>8 DEF RInv
<1>5. CASE (\E on \in BOOLEAN : PowerRequest(on)) \/ EmergStop \/ LanLost
  <2>1. /\ UNCHANGED <<active, speed, dirty, cmds, forgotten, unheard, crossed>>
        /\ pc1 = "idle" /\ pc1' = "dispatch" /\ cur'.type \in {"power", "estop", "stop"}
    BY <1>5 DEF PowerRequest, EmergStop, LanLost, Request, Receive, repo
  <2>2. \A l \in Loco : ~For(cur', l) /\ (Waiting(l)' <=> Waiting(l))
                        /\ (Marked(l)' <=> Marked(l))
    BY <1>3, <2>1 DEF For, Waiting, Marked
  <2>3. CurCurrent'
    BY <2>1, <2>2 DEF RInv, CurCurrent
  <2>4. LastCurrent'
    BY <1>3, <2>1, <2>2 DEF RInv, LastCurrent, LastFor, For
  <2> QED BY <1>1, <1>2, <2>1, <2>2, <2>3, <2>4
             DEF RInv, WaitingMarked, CopyCurrent, OnItsWay
<1>6. CASE Dispatch
  <2>0. /\ cmds \in Seq(Cmd) /\ cur \in Cmd /\ cur' = [type |-> None]
        /\ pc1 = "dispatch" /\ pc1' # "dispatch"
        /\ UNCHANGED <<active, speed, dirty, forgotten, crossed>>
    BY <1>6 DEF Dispatch, IInv, QueueOK, repo
  <2>1. /\ cur'.type # "speed"
        /\ \A l \in Loco : ~For(cur', l) /\ (Marked(l)' <=> Marked(l))
    BY <2>0, LocoDriveAssumption DEF For, Marked
  <2>2. CurCurrent'
    BY <2>1 DEF CurCurrent, For
  <2>3. CASE Len(cmds) < CommandSlots
    <3>1. /\ cmds' = Append(cmds, cur)
          /\ unheard' = unheard \ (IF cur.type = "speed" THEN {cur.loco} ELSE {})
      BY <1>6, <2>3 DEF Dispatch
    <3>2. \A l \in Loco : Waiting(l)' <=> Waiting(l)
      BY <2>0, <3>1, AppendWaiting
    <3>3. \A l \in Loco : l \in unheard /\ l \notin unheard' => For(cur, l)
      BY <3>1 DEF For
    <3>4. \A l \in Loco : For(cur, l) => Waiting(l)'
      BY <3>2 DEF Waiting, For
    <3>5. LastCurrent'
      <4> SUFFICES ASSUME NEW l \in Loco, l \notin forgotten', l \notin unheard',
                          l \notin crossed', NEW i \in 1 .. Len(cmds'), LastFor(i, l)'
                   PROVE  cmds'[i].speed = speed'[l]
        BY DEF LastCurrent
      <4>1. CASE i = Len(cmds) + 1 /\ cmds'[i] = cur
        <5>1. For(cur, l)
          BY <4>1 DEF LastFor, For
        <5> QED BY <2>0, <4>1, <5>1 DEF RInv, CurCurrent
      <4>2. CASE /\ i \in 1 .. Len(cmds) /\ LastFor(i, l) /\ cmds'[i] = cmds[i]
                 /\ ~For(cur, l)
        BY <2>0, <3>3, <4>2 DEF RInv, LastCurrent
      <4> QED BY <2>0, <3>1, <4>1, <4>2, AppendWaiting
    <3>7. WaitingMarked' /\ CopyCurrent'
      BY <1>1, <1>2, <2>0, <2>1, <3>2 DEF RInv, WaitingMarked, CopyCurrent
    <3>8. OnItsWay'
      BY <1>1, <1>2, <2>0, <2>1, <3>2, <3>3, <3>4 DEF RInv, OnItsWay
    <3> QED BY <2>2, <3>5, <3>7, <3>8 DEF RInv
  <2>4. CASE ~(Len(cmds) < CommandSlots)
    <3>1. /\ cmds' = cmds
          /\ unheard' = unheard \cup (IF cur.type = "speed" THEN {cur.loco} ELSE {})
      BY <1>6, <2>4 DEF Dispatch
    <3>2. \A l \in Loco : For(cur, l) => l \in unheard' /\ Waiting(l)
      BY <3>1 DEF For, Waiting
    <3>3. \A l \in Loco : (Waiting(l)' => Waiting(l))
                          /\ (Waiting(l) /\ ~For(cur, l) => Waiting(l)')
      BY <2>1, <3>1 DEF For, Waiting
    <3>5. LastCurrent'
      BY <2>0, <3>1, <3>2 DEF RInv, LastCurrent, LastFor, For
    <3>6. WaitingMarked' /\ CopyCurrent'
      BY <1>1, <1>2, <2>0, <2>1, <3>3 DEF RInv, WaitingMarked, CopyCurrent
    <3>7. OnItsWay'
      BY <1>1, <1>2, <2>0, <2>1, <3>1, <3>2, <3>3 DEF RInv, WaitingMarked, OnItsWay
    <3> QED BY <2>2, <3>5, <3>6, <3>7 DEF RInv
  <2> QED BY <2>3, <2>4
<1>7. CASE LnUnlock \/ WebLock \/ WebUnlock
  <2>1. /\ UNCHANGED <<active, speed, dirty, cmds, cur, forgotten, unheard, crossed>>
        /\ pc1' # "dispatch" \/ pc1' = pc1
    BY <1>7 DEF LnUnlock, WebLock, WebUnlock, repo, history
  <2>2. pc1' # "dispatch" => cur'.type # "speed"
    BY <1>7 DEF LnUnlock, WebLock, WebUnlock, RInv, CurCurrent
  <2>3. CurCurrent' /\ LastCurrent'
    BY <2>1, <2>2 DEF RInv, CurCurrent, LastCurrent, LastFor, For
  <2> QED BY <1>1, <1>2, <2>1, <2>3
             DEF RInv, WaitingMarked, CopyCurrent, OnItsWay, Waiting, Marked
<1>8. ASSUME NEW l \in Loco, Release(l)
      PROVE  RInv'
  <2>1. /\ UNCHANGED <<cmds, cur, pc1, unheard, crossed>> /\ pc1 = "idle"
        /\ forgotten' = forgotten \cup {l}
    BY <1>8 DEF Release, Receive
  <2>2. \A k \in Loco \ {l} : /\ Marked(k)' <=> Marked(k)
                              /\ speed'[k] = speed[k]
                              /\ Waiting(k)' <=> Waiting(k)
    BY <1>8, <2>1 DEF Release, Marked, Waiting, TInv, RepoTypes, IInv, SpeedsOK
  <2>3. CurCurrent' /\ LastCurrent'
    BY <1>3, <2>1, <2>2 DEF RInv, CurCurrent, LastCurrent, LastFor, For
  <2> QED BY <1>1, <1>2, <2>1, <2>2, <2>3 DEF RInv, WaitingMarked, CopyCurrent, OnItsWay
<1> QED BY <1>4, <1>5, <1>6, <1>7, <1>8 DEF Core1

(* Whichever of its two ways to the track a speed took first, and whether   *)
(* or not its command was refused, the track ends up doing what the         *)
(* repository shows: for any locos, queue and number of requests, with      *)
(* emergency stops, switched power, removed entries, lost clients and a     *)
(* full bus.                                                                *)
THEOREM TrackRight == Spec => []TrackFollowsRepo
<1>1. IInv /\ TInv /\ RInv /\ [Next]_vars => RInv'
  <2> SUFFICES ASSUME IInv, TInv, RInv, [Next]_vars
               PROVE  RInv'
    OBVIOUS
  <2>1. CASE Core0
    BY <2>1, DeliverKeepsRInv, StopKeepsRInv, ResendKeepsRInv DEF Core0
  <2>2. CASE Core1
    BY <2>2, Core1KeepsRInv
  <2>3. CASE UNCHANGED vars
    <3>1. UNCHANGED <<pc0, track, copy, cmds, pc1, cur, active, speed, dirty, forgotten,
                      halted, overtaken, unheard, crossed>>
      BY <2>3 DEF vars, repo, core1Vars, history
    <3> QED BY <3>1 DEF RInv, CurCurrent, LastCurrent, LastFor, For,
                        WaitingMarked, CopyCurrent, OnItsWay, Waiting, Marked, Copied
  <2> QED BY <2>1, <2>2, <2>3 DEF Next
<1>2. RInv => TrackFollowsRepo
  <2> SUFFICES ASSUME RInv, Quiescent, NEW l \in Loco,
                      l \notin halted \cup forgotten
                                \cup (overtaken \cap (unheard \cup crossed))
               PROVE  track[l] = speed[l]
    BY DEF TrackFollowsRepo
  <2>1. ~Waiting(l) /\ ~Marked(l) /\ ~Copied(l)
    BY DEF Quiescent, Resend, Waiting, Marked, Copied, RInv, CurCurrent
  <2> QED BY <2>1 DEF RInv, OnItsWay
<1> QED BY InitRInv, <1>1, <1>2, SpecIInv, SpecTInv, PTL DEF Spec

-----------------------------------------------------------------------------
(* Without a client that is lost, nothing has to stop for one. *)
NoneLost ==
    /\ mustStop = {}
    /\ pc1 = "dispatch" => cur.type # "stop"
    /\ \A i \in 1 .. Len(cmds) : cmds[i].type # "stop"

LEMMA NoneLostStep ==
    ASSUME "lost" \notin Features, IInv, NoneLost, [Next]_vars
    PROVE  NoneLost'
<1>1. cmds \in Seq(Cmd) /\ Len(cmds) \in Nat
  BY DEF IInv, QueueOK
<1>2. ~Next0("stop")
  BY <1>1 DEF Next0, NoneLost
<1>3. mustStop' = {}
  BY <1>2 DEF NoneLost, Next, Core0, Core1, Drive, vars, history, DeliverSpeed, DeliverEstop,
     DeliverPower, DeliverStop, StopEntry, StopEntrySkipped, StopDone, PollDone, DirtyTake,
     DirtySend, DirtyDone, XnDrive, LnDrive, WriteSpeed, PowerRequest, EmergStop, LanLost,
     Request, Dispatch, LnUnlock, WebLock, WebUnlock, Release
<1>4. pc1' = "dispatch" => cur'.type # "stop"
  <2>1. ~LanLost
    BY DEF LanLost, Request, Receive
  <2>2. CASE UNCHANGED <<pc1, cur>>
    BY <2>2 DEF NoneLost
  <2>3. CASE Drive \/ (\E on \in BOOLEAN : PowerRequest(on)) \/ EmergStop
    BY <2>3 DEF Drive, XnDrive, LnDrive, SpeedCmd, PowerRequest, EmergStop, Request
  <2>4. CASE Dispatch \/ LnUnlock
    BY <2>4 DEF Dispatch, LnUnlock
  <2> QED BY <2>1, <2>2, <2>3, <2>4 DEF Next, Core0, Core1, vars, core1Vars, DeliverSpeed,
     DeliverEstop, DeliverPower, DeliverStop, StopEntry, StopEntrySkipped, StopDone, PollDone,
     DirtyTake, DirtySend, DirtyDone, WebLock, WebUnlock, Release
<1>5. \A i \in 1 .. Len(cmds') : cmds'[i].type # "stop"
  <2>1. CASE cmds' = cmds
    BY <2>1 DEF NoneLost
  <2>2. CASE cmds # <<>> /\ cmds' = Tail(cmds)
    <3>1. Len(cmds') = Len(cmds) - 1 /\ \A i \in 1 .. Len(cmds') : cmds'[i] = cmds[i + 1]
      BY <1>1, <2>2, HeadTailProperties
    <3> QED BY <1>1, <3>1 DEF NoneLost
  <2>3. CASE pc1 = "dispatch" /\ cmds' = Append(cmds, cur)
    <3>1. cur \in Cmd
      BY <2>3 DEF IInv, QueueOK
    <3>2. /\ Len(cmds') = Len(cmds) + 1 /\ cmds'[Len(cmds) + 1] = cur
          /\ \A i \in 1 .. Len(cmds) : cmds'[i] = cmds[i]
      BY <1>1, <2>3, <3>1, AppendProperties
    <3> QED BY <1>1, <2>3, <3>2 DEF NoneLost
  <2> QED BY <2>1, <2>2, <2>3 DEF Next, Core0, Core1, Drive, vars, DeliverSpeed, DeliverEstop,
     DeliverPower, DeliverStop, StopEntry, StopEntrySkipped, StopDone, PollDone, DirtyTake,
     DirtySend, DirtyDone, XnDrive, LnDrive, Next0, PowerRequest, EmergStop, LanLost, Request,
     Dispatch, LnUnlock, WebLock, WebUnlock, Release
<1> QED BY <1>3, <1>4, <1>5 DEF NoneLost

LEMMA NothingToStop == ASSUME "lost" \notin Features PROVE Spec => []LostLocosStop
<1>1. Init => NoneLost
  <2>1. Len(<<>>) = 0
    OBVIOUS
  <2> QED BY <2>1 DEF Init, NoneLost
<1>2. IInv /\ NoneLost /\ [Next]_vars => NoneLost'
  BY NoneLostStep
<1>3. NoneLost => LostLocosStop
  BY DEF NoneLost, LostLocosStop
<1> QED BY <1>1, <1>2, <1>3, SpecIInv, PTL DEF Spec

===============================================================================
