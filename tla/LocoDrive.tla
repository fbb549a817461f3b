------------------------------ MODULE LocoDrive ------------------------------
(***************************************************************************)
(* How the speed of a loco gets from a handheld or a PC to the track.      *)
(*                                                                         *)
(* A request handled on core 1 takes two ways at once: it is written into  *)
(* the LocoRepository, whose entry becomes dirty, and it is dispatched as  *)
(* a LOCO_SPEED command.  Core 0 first executes the commands (CommandBus   *)
(* ::poll()) and then resends the dirty entries (_processDirtyLocos()).    *)
(* The repository is guarded by a spinlock with a time limit: a holder is  *)
(* either "short" (a waiting core gets it in time) or "long" (a web page   *)
(* is printed under it, and the wait may time out).  Core 0's own critical *)
(* sections are short and are single steps here.                           *)
(*                                                                         *)
(* Speeds are canonical: 0 stop, 1 emergency stop, 2 and more running.     *)
(* Direction, step mode and functions are left out; so is LOCO_ESTOP,      *)
(* which nothing dispatches.                                               *)
(***************************************************************************)
EXTENDS Naturals, Sequences

CONSTANTS
    Loco,           \* loco addresses
    Running,        \* running speeds that may be requested
    Features,       \* what takes part; see the assumption
    OwnerSlots,     \* LOCO_OWNERS
    CommandSlots,   \* capacity of the command bus
    MaxRequests,    \* bound on the number of requests
    None

ASSUME LocoDriveAssumption ==
    /\ Running \subseteq Nat \ {0, 1}
    /\ Features \subseteq {"LAN", "RS485", "LN", "estop", "lost", "power",
                           "web", "release"}
    /\ OwnerSlots \in Nat \ {0} /\ CommandSlots \in Nat /\ MaxRequests \in Nat
    /\ None \notin Loco \cup {"LAN", "RS485", "LN", "speed"}

VARIABLES
    pc0,        \* core 0: "poll", "stopping", "dirty", "send"
    power,      \* DccHal::_power
    track,      \* per loco: the speed last put on the track
    inStop,     \* _inEmergencyStop
    owners,     \* _owners
    ownerNext,  \* _ownerNext
    stopIdx,    \* the entry _stopLocosOf() has reached
    copy,       \* what _processDirtyLocos() copied out under the lock
    active, speed, dirty,   \* the repository, per loco
    lock,       \* its spinlock: "free", or held by core 1 "short" or "long"
    pc1,        \* core 1: "idle", "dispatch", "unlock"
    cur,        \* the command it is about to dispatch
    cmds,       \* the command bus
    off,        \* gCentrale.trackPowerOff
    requests,   \* requests received so far
    driver,     \* history: module of the last LOCO_SPEED executed per loco
    mustStop,   \* history: locos to be stopped for a lost client, not driven since
    halted,     \* history: locos halted by an emergency stop, no speed since
    forgotten,  \* history: locos whose entry was removed, not driven since
    renewed,    \* history: locos driven since the last emergency stop request
    overtaken,  \* history: locos resent while a command for them was queued
    unheard,    \* history: locos with a speed command refused or without effect
    crossed     \* history: locos stopped for a lost client while a speed waited

repo      == <<active, speed, dirty>>
ownerVars == <<owners, ownerNext>>
core1Vars == <<lock, pc1, cur, off, requests>>
history   == <<driver, mustStop, halted, forgotten, renewed, overtaken,
               unheard, crossed>>
vars == <<pc0, power, track, inStop, ownerVars, stopIdx, copy, repo,
          core1Vars, cmds, history>>

OwnerIndex == 0 .. OwnerSlots - 1
Free == [addr |-> None, src |-> None]

Init ==
    /\ pc0 = "poll" /\ power = TRUE /\ inStop = FALSE
    /\ track = [l \in Loco |-> 0]
    /\ owners = [i \in OwnerIndex |-> Free] /\ ownerNext = 0
    /\ stopIdx = 0 /\ copy = [loco |-> None, speed |-> 0]
    /\ active = [l \in Loco |-> FALSE] /\ speed = [l \in Loco |-> 0]
    /\ dirty = [l \in Loco |-> FALSE]
    /\ lock = "free" /\ pc1 = "idle" /\ cur = [type |-> None]
    /\ cmds = <<>> /\ off = FALSE /\ requests = 0
    /\ driver = [l \in Loco |-> None]
    /\ mustStop = {} /\ halted = {} /\ forgotten = {} /\ renewed = {}
    /\ overtaken = {} /\ unheard = {} /\ crossed = {}

-----------------------------------------------------------------------------
(* core 0: the repository and the table of owners *)

(* DccHal::setSpeed() *)
SetSpeed(l, v) ==
    IF power
    THEN /\ track' = [track EXCEPT ![l] = v]
         /\ inStop' = FALSE
         /\ halted' = halted \ {l}
    ELSE UNCHANGED <<track, inStop, halted>>

(* Bug: a loco already in the table keeps its first owner. *)
NoteOwnerFirst(l, m) ==
    LET known == {i \in OwnerIndex : owners[i].addr = l}
        free  == {i \in OwnerIndex : owners[i].addr = None}
        put(i) == owners' = [owners EXCEPT ![i] = [addr |-> l, src |-> m]]
    IN  IF known # {} THEN UNCHANGED ownerVars
        ELSE IF free # {} THEN /\ \E i \in free : put(i) /\ \A j \in free : i <= j
                               /\ UNCHANGED ownerNext
        ELSE /\ put(ownerNext)
             /\ ownerNext' = (ownerNext + 1) % OwnerSlots

(* DccHal::_noteOwner() *)
NoteOwner(l, m) ==
    LET known == {i \in OwnerIndex : owners[i].addr = l}
        free  == {i \in OwnerIndex : owners[i].addr = None}
        put(i) == owners' = [owners EXCEPT ![i] = [addr |-> l, src |-> m]]
    IN  \/ /\ known # {}
           /\ \E i \in known : put(i)
           /\ UNCHANGED ownerNext
        \/ /\ known = {} /\ free # {}
           /\ \E i \in free : put(i) /\ \A j \in free : i <= j
           /\ UNCHANGED ownerNext
        \/ /\ known = {} /\ free = {}
           /\ put(ownerNext)
           /\ ownerNext' = (ownerNext + 1) % OwnerSlots

-----------------------------------------------------------------------------
(* core 0: CommandBus::poll() and DccHal::_onCommand() *)

Next0(type) == pc0 = "poll" /\ cmds # <<>> /\ Head(cmds).type = type

DeliverSpeed ==
    /\ Next0("speed")
    /\ LET c == Head(cmds) IN
         /\ NoteOwner(c.loco, c.src)
         /\ SetSpeed(c.loco, c.speed)
         /\ driver' = [driver EXCEPT ![c.loco] = c.src]
         /\ mustStop' = mustStop \ {c.loco}
         /\ unheard' = IF power THEN unheard ELSE unheard \cup {c.loco}
    /\ cmds' = Tail(cmds)
    /\ UNCHANGED <<pc0, power, stopIdx, copy, repo, core1Vars, forgotten,
                   renewed, overtaken, crossed>>

(* emergencyStop(): the library's broadcast halts every loco. *)
DeliverEstop ==
    /\ Next0("estop")
    /\ track' = [l \in Loco |-> IF track[l] >= 2 THEN 1 ELSE track[l]]
    /\ inStop' = TRUE
    /\ halted' = Loco
    /\ cmds' = Tail(cmds)
    /\ UNCHANGED <<pc0, power, ownerVars, stopIdx, copy, repo, core1Vars,
                   driver, mustStop, forgotten, renewed, overtaken, unheard,
                   crossed>>

DeliverPower ==
    /\ Next0("power")
    /\ power' = Head(cmds).on
    /\ inStop' = FALSE
    /\ cmds' = Tail(cmds)
    /\ UNCHANGED <<pc0, track, ownerVars, stopIdx, copy, repo, core1Vars,
                   history>>

(* _stopLocosOf(LENZ_LAN) begins; *)
DeliverStop ==
    /\ Next0("stop")
    /\ pc0' = "stopping" /\ stopIdx' = 0
    /\ mustStop' = mustStop \cup
            {l \in Loco : /\ driver[l] = "LAN" /\ track[l] >= 2
                          /\ active[l] => speed[l] >= 2}
    /\ cmds' = Tail(cmds)
    /\ UNCHANGED <<power, track, inStop, ownerVars, copy, repo, core1Vars,
                   driver, halted, forgotten, renewed, overtaken, unheard,
                   crossed>>

(* Bug: the generic dirty flag alone (LocoRepository::setSpeed()) does not *)
(* make _processDirtyLocos() send a speed.                                 *)
StopOwnedNotDirty(l) ==
    /\ active' = [active EXCEPT ![l] = TRUE]
    /\ speed' = [speed EXCEPT ![l] = IF @ >= 2 THEN 1 ELSE @]
    /\ UNCHANGED dirty

StopOwned(l) ==
    /\ active' = [active EXCEPT ![l] = TRUE]
    /\ speed' = [speed EXCEPT ![l] = IF @ >= 2 THEN 1 ELSE @]
    /\ dirty' = [dirty EXCEPT ![l] = @ \/ speed[l] >= 2]

(* A speed command for the loco is queued or about to be. *)
Waiting(l) ==
    \/ \E i \in 1 .. Len(cmds) : cmds[i].type = "speed" /\ cmds[i].loco = l
    \/ cur.type = "speed" /\ cur.loco = l

Theirs(i) == owners[i].addr # None /\ owners[i].src = "LAN"

(* it goes through the table, taking the lock for every loco of the module, *)
StopEntry ==
    /\ pc0 = "stopping" /\ stopIdx < OwnerSlots
    /\ LET l == owners[stopIdx].addr IN
         \/ /\ Theirs(stopIdx) /\ lock = "free"
            /\ StopOwned(l)
            /\ crossed' = IF Waiting(l) /\ speed[l] >= 2 THEN crossed \cup {l} ELSE crossed
         \/ ~Theirs(stopIdx) /\ UNCHANGED <<repo, crossed>>
    /\ stopIdx' = stopIdx + 1
    /\ UNCHANGED <<pc0, power, track, inStop, ownerVars, copy, core1Vars, cmds,
                   driver, mustStop, halted, forgotten, renewed, overtaken, unheard>>

(* leaves out those it cannot get it for in time, *)
StopEntrySkipped ==
    /\ pc0 = "stopping" /\ stopIdx < OwnerSlots
    /\ Theirs(stopIdx) /\ lock = "long"
    /\ stopIdx' = stopIdx + 1
    /\ mustStop' = mustStop \ {owners[stopIdx].addr}
    /\ UNCHANGED <<pc0, power, track, inStop, ownerVars, copy, repo,
                   core1Vars, cmds, driver, halted, forgotten, renewed,
                   overtaken, unheard, crossed>>

(* and ends. *)
StopDone ==
    /\ pc0 = "stopping" /\ stopIdx = OwnerSlots
    /\ pc0' = "poll" /\ stopIdx' = 0
    /\ UNCHANGED <<power, track, inStop, ownerVars, copy, repo, core1Vars,
                   cmds, history>>

PollDone ==
    /\ pc0 = "poll" /\ cmds = <<>>
    /\ pc0' = "dirty"
    /\ UNCHANGED <<power, track, inStop, ownerVars, stopIdx, copy, repo,
                   core1Vars, cmds, history>>

-----------------------------------------------------------------------------
(* core 0: DccHal::_processDirtyLocos() *)

Resend == {l \in Loco : active[l] /\ dirty[l]}

(* Bug: the flag is cleared although power is off and nothing is sent. *)
DirtyTakeAnyPower(l) ==
    /\ pc0 = "dirty" /\ lock = "free"
    /\ l \in Resend
    /\ dirty' = [dirty EXCEPT ![l] = FALSE]
    /\ copy' = [loco |-> l, speed |-> speed[l]]
    /\ pc0' = "send"
    /\ UNCHANGED <<power, track, inStop, ownerVars, stopIdx, active, speed,
                   core1Vars, cmds, history>>

DirtyTake(l) ==
    /\ pc0 = "dirty" /\ power /\ lock = "free"
    /\ l \in Resend
    /\ dirty' = [dirty EXCEPT ![l] = FALSE]
    /\ copy' = [loco |-> l, speed |-> speed[l]]
    /\ pc0' = "send"
    /\ UNCHANGED <<power, track, inStop, ownerVars, stopIdx, active, speed,
                   core1Vars, cmds, history>>

DirtySend ==
    /\ pc0 = "send"
    /\ SetSpeed(copy.loco, copy.speed)
    /\ overtaken' = IF Waiting(copy.loco) THEN overtaken \cup {copy.loco}
                                          ELSE overtaken \ {copy.loco}
    /\ copy' = [loco |-> None, speed |-> 0]
    /\ pc0' = "dirty"
    /\ UNCHANGED <<power, ownerVars, stopIdx, repo, core1Vars, cmds, driver,
                   mustStop, forgotten, renewed, unheard, crossed>>

DirtyDone ==
    /\ pc0 = "dirty"
    /\ ~power \/ lock = "long" \/ (lock = "free" /\ Resend = {})
    /\ pc0' = "poll"
    /\ UNCHANGED <<power, track, inStop, ownerVars, stopIdx, copy, repo,
                   core1Vars, cmds, history>>

-----------------------------------------------------------------------------
(* core 1 *)

Receive(feature) ==
    /\ feature \in Features
    /\ pc1 = "idle" /\ lock = "free" /\ requests < MaxRequests
    /\ requests' = requests + 1

WriteSpeed(l, v) ==
    /\ active' = [active EXCEPT ![l] = TRUE]
    /\ speed' = [speed EXCEPT ![l] = v]
    /\ dirty' = [dirty EXCEPT ![l] = TRUE]
    /\ mustStop' = mustStop \ {l}
    /\ forgotten' = forgotten \ {l}
    /\ renewed' = renewed \cup {l}
    /\ crossed' = crossed \ {l}

SpeedCmd(l, v, m) == [type |-> "speed", loco |-> l, speed |-> v, src |-> m]

(* XpressNetHandler::updateLoco(), for a drive command or handleOneLocoStop *)
XnDrive(l, v, m) ==
    /\ Receive(m)
    /\ WriteSpeed(l, v)
    /\ cur' = SpeedCmd(l, v, m)
    /\ pc1' = "dispatch"
    /\ UNCHANGED <<pc0, power, track, inStop, ownerVars, stopIdx, copy, lock,
                   cmds, off, driver, halted, overtaken, unheard>>

(* SlotServer::_handleLocoSpd(): dispatches under the lock. *)
LnDrive(l, v) ==
    /\ Receive("LN")
    /\ WriteSpeed(l, v)
    /\ lock' = "short"
    /\ cur' = SpeedCmd(l, v, "LN")
    /\ pc1' = "dispatch"
    /\ UNCHANGED <<pc0, power, track, inStop, ownerVars, stopIdx, copy,
                   cmds, off, driver, halted, overtaken, unheard>>

Request(feature, c) ==
    /\ Receive(feature)
    /\ cur' = c
    /\ pc1' = "dispatch"
    /\ UNCHANGED <<pc0, power, track, inStop, ownerVars, stopIdx, copy, repo,
                   lock, cmds, driver, mustStop, halted, forgotten, overtaken,
                   unheard, crossed>>

(* handlePowerOn()/handlePowerOff(), handleEmergStop(), _onClientLost()    *)
PowerRequest(on) == /\ Request("power", [type |-> "power", on |-> on])
                    /\ off' = ~on
                    /\ UNCHANGED renewed
EmergStop        == /\ Request("estop", [type |-> "estop"])
                    /\ renewed' = {}
                    /\ UNCHANGED off
LanLost          == /\ ~off
                    /\ Request("lost", [type |-> "stop"])
                    /\ UNCHANGED <<off, renewed>>

(* Bug: the command is queued although the ring is full. *)
DispatchUnchecked ==
    /\ pc1 = "dispatch"
    /\ cmds' = Append(cmds, cur)
    /\ unheard' = IF cur.type = "speed" THEN unheard \ {cur.loco} ELSE unheard
    /\ cur' = [type |-> None]
    /\ pc1' = IF lock = "short" THEN "unlock" ELSE "idle"
    /\ UNCHANGED <<pc0, power, track, inStop, ownerVars, stopIdx, copy, repo,
                   lock, off, requests, driver, mustStop, halted, forgotten,
                   renewed, overtaken, crossed>>

Dispatch ==
    /\ pc1 = "dispatch"
    /\ LET fits == Len(cmds) < CommandSlots
           told == IF cur.type = "speed" THEN {cur.loco} ELSE {}
       IN  /\ cmds' = IF fits THEN Append(cmds, cur) ELSE cmds
           /\ unheard' = IF fits THEN unheard \ told ELSE unheard \cup told
    /\ cur' = [type |-> None]
    /\ pc1' = IF lock = "short" THEN "unlock" ELSE "idle"
    /\ UNCHANGED <<pc0, power, track, inStop, ownerVars, stopIdx, copy, repo,
                   lock, off, requests, driver, mustStop, halted, forgotten,
                   renewed, overtaken, crossed>>

LnUnlock ==
    /\ pc1 = "unlock"
    /\ lock' = "free" /\ pc1' = "idle"
    /\ UNCHANGED <<pc0, power, track, inStop, ownerVars, stopIdx, copy, repo,
                   cur, off, requests, cmds, history>>

(* Webserver::_panelLocos() prints its table under the lock. *)
WebLock ==
    /\ "web" \in Features /\ pc1 = "idle" /\ lock = "free"
    /\ lock' = "long"
    /\ UNCHANGED <<pc0, power, track, inStop, ownerVars, stopIdx, copy, repo,
                   pc1, cur, off, requests, cmds, history>>
WebUnlock ==
    /\ lock = "long"
    /\ lock' = "free"
    /\ UNCHANGED <<pc0, power, track, inStop, ownerVars, stopIdx, copy, repo,
                   pc1, cur, off, requests, cmds, history>>

(* handleStackDelete(): LocoRepository::release() *)
Release(l) ==
    /\ Receive("release") /\ active[l]
    /\ active' = [active EXCEPT ![l] = FALSE]
    /\ speed' = [speed EXCEPT ![l] = 0]
    /\ dirty' = [dirty EXCEPT ![l] = FALSE]
    /\ forgotten' = forgotten \cup {l}
    /\ UNCHANGED <<pc0, power, track, inStop, ownerVars, stopIdx, copy, lock,
                   pc1, cur, off, cmds, driver, mustStop, halted, renewed,
                   overtaken, unheard, crossed>>

-----------------------------------------------------------------------------
Core0 ==
    \/ DeliverSpeed \/ DeliverEstop \/ DeliverPower
    \/ DeliverStop \/ StopEntry \/ StopEntrySkipped \/ StopDone
    \/ PollDone \/ (\E l \in Loco : DirtyTake(l)) \/ DirtySend \/ DirtyDone
Drive ==
    \E l \in Loco, v \in {0, 1} \cup Running :
        XnDrive(l, v, "LAN") \/ XnDrive(l, v, "RS485") \/ LnDrive(l, v)
Core1 ==
    \/ Drive \/ (\E on \in BOOLEAN : PowerRequest(on)) \/ EmergStop \/ LanLost
    \/ Dispatch \/ LnUnlock \/ WebLock \/ WebUnlock
    \/ \E l \in Loco : Release(l)
Next == Core0 \/ Core1

Spec == Init /\ [][Next]_vars

-----------------------------------------------------------------------------
Speed == {0, 1} \cup Running
Source == {"LAN", "RS485", "LN"}

TypeOK ==
    /\ pc0 \in {"poll", "stopping", "dirty", "send"}
    /\ power \in BOOLEAN /\ inStop \in BOOLEAN
    /\ track \in [Loco -> Speed]
    /\ owners \in [OwnerIndex -> [addr : Loco \cup {None}, src : Source \cup {None}]]
    /\ ownerNext \in OwnerIndex /\ stopIdx \in 0 .. OwnerSlots
    /\ copy \in [loco : Loco \cup {None}, speed : Speed]
    /\ active \in [Loco -> BOOLEAN] /\ speed \in [Loco -> Speed]
    /\ dirty \in [Loco -> BOOLEAN]
    /\ lock \in {"free", "short", "long"}
    /\ pc1 \in {"idle", "dispatch", "unlock"}
    /\ off \in BOOLEAN
    /\ Len(cmds) <= CommandSlots /\ requests \in 0 .. MaxRequests
    /\ driver \in [Loco -> Source \cup {None}]
    /\ mustStop \subseteq Loco /\ halted \subseteq Loco
    /\ forgotten \subseteq Loco /\ renewed \subseteq Loco
    /\ overtaken \subseteq Loco /\ unheard \subseteq Loco /\ crossed \subseteq Loco

Quiescent == pc0 = "poll" /\ cmds = <<>> /\ pc1 = "idle" /\ lock = "free" /\ Resend = {}

(* loco_repository.h:16-18: whichever of the two ways came first, the      *)
(* track ends up doing what the repository shows to every client, also     *)
(* after power was off and when commands were refused.  Exempt are locos   *)
(* an emergency stop has halted or whose entry was removed, and those of   *)
(* which a resend overtook a command that waited, if another was lost or   *)
(* the loco was stopped for a lost client while it waited.                 *)
TrackFollowsRepo ==
    Quiescent /\ power =>
        \A l \in Loco \ (halted \cup forgotten
                            \cup (overtaken \cap (unheard \cup crossed))) :
            track[l] = speed[l]

(* dcc_hal.cpp:938-943: when a LenzLAN client is lost, every moving loco   *)
(* whose last command came from there (and which the repository does not   *)
(* show as stopped already) is at a stop once the dust has settled, unless *)
(* it was driven again or the lock could not be had in time.               *)
LostLocosStop ==
    Quiescent /\ power => \A l \in mustStop : track[l] < 2

(* module_arch.h:98-100: a lost LenzLAN client stops no loco that another   *)
(* module drove last, also when the table of owners had to be recycled.    *)
OthersCarryOn ==
    [][\A l \in Loco : stopIdx' > stopIdx /\ speed'[l] # speed[l]
                          => driver[l] = "LAN"]_vars

(* dcc_hal.cpp:1004-1007: after an emergency stop "operation actually      *)
(* resumes" by "the next genuine speed command": a halted loco moves only  *)
(* if it was driven after the stop was asked for.                          *)
StopHolds ==
    [][\A l \in halted : track[l] < 2 /\ track'[l] >= 2 => l \in renewed]_vars
=============================================================================
