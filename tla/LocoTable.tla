------------------------------ MODULE LocoTable ------------------------------
(***************************************************************************)
(* The entries of LocoRepository and their dirty flags, access by access.  *)
(*                                                                         *)
(* Core 0 asks nextDirty() for an entry under the spinlock, copies it and  *)
(* sends what the flags say.  Core 1 writes speeds (XpressNet, LAN) and    *)
(* LocoNet functions under the lock, too: one step each, which waits for   *)
(* core 0.  XpressNetHandler's function commands and its stack delete take *)
(* no lock, so that each of their accesses is a step, also within core 0's *)
(* critical section.  Only core 1 makes entries here; what core 0 does for *)
(* a lost client, the commands and the power are LocoDrive's.              *)
(***************************************************************************)
EXTENDS Naturals

CONSTANTS
    Loco,
    NoLoco,       \* an entry that is not active
    Entries,      \* LOCO_REPO_SIZE
    Speeds,       \* speeds that may be requested, with 0
    FnStates,     \* states of the functions, with 0 for all off
    Deletes,      \* whether entries are deleted
    MaxWrites     \* bound on the requests

VARIABLES
    entry,        \* _locos: address, speed and functions
    dirtyAny, dirtySpeed, dirtyFn,   \* the flags of each entry
    pc0, at,      \* core 0: where it is in nextDirty(), and at which entry
    found,        \* what nextDirty() returned, copied under the lock
    pc1, job,     \* core 1: an access that takes no lock, and for what
    sentSpeed, sentFn,               \* per loco: what core 0 sent last
    stray,        \* history: something was sent for no loco
    driven,       \* history: locos whose speed was marked since their entry was made
    switched,     \* history: locos whose functions were set since then
    locked,       \* history: those set under the lock the last time
    writes        \* requests so far

flags    == <<dirtyAny, dirtySpeed, dirtyFn>>
core0    == <<pc0, at, found, sentSpeed, sentFn, stray>>
core1    == <<pc1, job, driven, switched, locked, writes>>
tableVars == <<entry, flags, core0, core1>>

Index == 0 .. Entries - 1
Fresh(l) == [loco |-> l, speed |-> 0, fn |-> 0]
Nothing  == [loco |-> NoLoco, speed |-> 0, fn |-> 0, speedDirty |-> FALSE, fnDirty |-> FALSE]
NoJob    == [loco |-> NoLoco, fn |-> 0, ix |-> 0]

Init ==
    /\ entry = [i \in Index |-> Fresh(NoLoco)]
    /\ dirtyAny = [i \in Index |-> FALSE]
    /\ dirtySpeed = [i \in Index |-> FALSE] /\ dirtyFn = [i \in Index |-> FALSE]
    /\ pc0 = "idle" /\ at = 0 /\ found = Nothing
    /\ pc1 = "idle" /\ job = NoJob
    /\ sentSpeed = [l \in Loco |-> 0] /\ sentFn = [l \in Loco |-> 0]
    /\ stray = FALSE
    /\ driven = {} /\ switched = {} /\ locked = {} /\ writes = 0

-----------------------------------------------------------------------------
(* core 0: _processDirtyLocos() and, under its lock, nextDirty() *)

Locked0 == pc0 \in {"test", "clear", "fn", "clearFn", "copy"}

TakeLock ==
    /\ pc0 = "idle"
    /\ pc0' = "test" /\ at' = 0
    /\ UNCHANGED <<entry, flags, found, sentSpeed, sentFn, stray, core1>>

TestDirty ==
    /\ pc0 = "test"
    /\ IF at = Entries THEN pc0' = "idle" /\ at' = 0
       ELSE IF dirtyAny[at] /\ entry[at].loco # NoLoco THEN pc0' = "clear" /\ UNCHANGED at
       ELSE at' = at + 1 /\ UNCHANGED pc0
    /\ UNCHANGED <<entry, flags, found, sentSpeed, sentFn, stray, core1>>

ClearDirty ==
    /\ pc0 = "clear"
    /\ dirtyAny' = [dirtyAny EXCEPT ![at] = FALSE]
    /\ found' = [found EXCEPT !.speedDirty = dirtySpeed[at]]
    /\ dirtySpeed' = [dirtySpeed EXCEPT ![at] = FALSE]
    /\ pc0' = "fn"
    /\ UNCHANGED <<entry, dirtyFn, at, sentSpeed, sentFn, stray, core1>>

ReadFn ==
    /\ pc0 = "fn"
    /\ found' = [found EXCEPT !.fnDirty = dirtyFn[at]]
    /\ pc0' = "clearFn"
    /\ UNCHANGED <<entry, flags, at, sentSpeed, sentFn, stray, core1>>

ClearFn ==
    /\ pc0 = "clearFn"
    /\ dirtyFn' = [dirtyFn EXCEPT ![at] = FALSE]
    /\ pc0' = "copy"
    /\ UNCHANGED <<entry, dirtyAny, dirtySpeed, at, found, sentSpeed, sentFn, stray, core1>>

CopyEntry ==
    /\ pc0 = "copy"
    /\ found' = [found EXCEPT !.loco = entry[at].loco, !.speed = entry[at].speed,
                              !.fn = entry[at].fn]
    /\ pc0' = "send"
    /\ UNCHANGED <<entry, flags, at, sentSpeed, sentFn, stray, core1>>

Send ==
    /\ pc0 = "send"
    /\ sentSpeed' = IF found.speedDirty /\ found.loco # NoLoco
                    THEN [sentSpeed EXCEPT ![found.loco] = found.speed] ELSE sentSpeed
    /\ sentFn' = IF found.fnDirty /\ found.loco # NoLoco
                 THEN [sentFn EXCEPT ![found.loco] = found.fn] ELSE sentFn
    /\ stray' = (stray \/ (found.loco = NoLoco /\ (found.speedDirty \/ found.fnDirty)))
    /\ pc0' = "idle" /\ at' = 0 /\ found' = Nothing
    /\ UNCHANGED <<entry, flags, core1>>

-----------------------------------------------------------------------------
(* core 1 *)

Holds(l) == {i \in Index : entry[i].loco = l}

(* findOrCreate(): its entry, else the first that is not active *)
Place(l, i) ==
    \/ i \in Holds(l)
    \/ /\ Holds(l) = {} /\ i \in Holds(NoLoco)
       /\ \A j \in Holds(NoLoco) : i <= j
Entry(l, i) == IF i \in Holds(l) THEN entry[i] ELSE Fresh(l)

Request == pc1 = "idle" /\ writes < MaxWrites /\ writes' = writes + 1

(* Bug: only the generic flag is set, as by setSpeed(). *)
WriteSpeedUnmarked(l, v) ==
    /\ Request /\ ~Locked0
    /\ \E i \in Index :
         /\ Place(l, i)
         /\ entry' = [entry EXCEPT ![i] = [Entry(l, i) EXCEPT !.speed = v]]
         /\ dirtyAny' = [dirtyAny EXCEPT ![i] = TRUE]
    /\ driven' = driven \cup {l}
    /\ UNCHANGED <<dirtySpeed, dirtyFn, core0, pc1, job, switched, locked>>

(* updateLoco(): a speed, written under the lock *)
WriteSpeed(l, v) ==
    /\ Request /\ ~Locked0
    /\ \E i \in Index :
         /\ Place(l, i)
         /\ entry' = [entry EXCEPT ![i] = [Entry(l, i) EXCEPT !.speed = v]]
         /\ dirtyAny' = [dirtyAny EXCEPT ![i] = TRUE]
         /\ dirtySpeed' = [dirtySpeed EXCEPT ![i] = TRUE]
    /\ driven' = driven \cup {l}
    /\ UNCHANGED <<dirtyFn, core0, pc1, job, switched, locked>>

(* SlotServer::_writeSnd(): functions, written under the lock *)
WriteSnd(l, f) ==
    /\ Request /\ ~Locked0
    /\ \E i \in Holds(l) :
         /\ entry' = [entry EXCEPT ![i].fn = f]
         /\ dirtyAny' = [dirtyAny EXCEPT ![i] = TRUE]
         /\ dirtySpeed' = [dirtySpeed EXCEPT ![i] = TRUE]
         /\ dirtyFn' = [dirtyFn EXCEPT ![i] = TRUE]
    /\ driven' = driven \cup {l}
    /\ switched' = switched \cup {l} /\ locked' = locked \cup {l}
    /\ UNCHANGED <<core0, pc1, job>>

(* updateLocoFunctions() takes no lock: it finds the entry, *)
FindEntry(l, f) ==
    /\ Request
    /\ \E i \in Index :
         /\ Place(l, i)
         /\ entry' = [entry EXCEPT ![i] = Entry(l, i)]
         /\ job' = [loco |-> l, fn |-> f, ix |-> i]
    /\ pc1' = "write"
    /\ switched' = switched \cup {l} /\ locked' = locked \ {l}
    /\ UNCHANGED <<flags, core0, driven>>

(* writes the functions, *)
WriteFn ==
    /\ pc1 = "write"
    /\ entry' = [entry EXCEPT ![job.ix].fn = job.fn]
    /\ pc1' = "any"
    /\ UNCHANGED <<flags, core0, job, driven, switched, locked, writes>>

(* and marks the entry in markDirtyFn(), one flag after the other. *)
MarkAny ==
    /\ pc1 = "any"
    /\ dirtyAny' = [dirtyAny EXCEPT ![job.ix] = TRUE]
    /\ pc1' = "fn"
    /\ UNCHANGED <<entry, dirtySpeed, dirtyFn, core0, job, driven, switched, locked, writes>>

MarkFn ==
    /\ pc1 = "fn"
    /\ dirtyFn' = [dirtyFn EXCEPT ![job.ix] = TRUE]
    /\ pc1' = "idle" /\ job' = NoJob
    /\ UNCHANGED <<entry, dirtyAny, dirtySpeed, core0, driven, switched, locked, writes>>

(* release(), without the lock: the entry is zeroed, then its flag cleared *)
ReleaseEntry(l) ==
    /\ Deletes /\ Request
    /\ \E i \in Holds(l) :
         /\ entry' = [entry EXCEPT ![i] = Fresh(NoLoco)]
         /\ job' = [loco |-> l, fn |-> 0, ix |-> i]
    /\ pc1' = "unmark"
    /\ driven' = driven \ {l} /\ switched' = switched \ {l} /\ locked' = locked \ {l}
    /\ UNCHANGED <<flags, core0>>

ReleaseFlag ==
    /\ pc1 = "unmark"
    /\ dirtyAny' = [dirtyAny EXCEPT ![job.ix] = FALSE]
    /\ pc1' = "idle" /\ job' = NoJob
    /\ UNCHANGED <<entry, dirtySpeed, dirtyFn, core0, driven, switched, locked, writes>>

-----------------------------------------------------------------------------
Core0 == TakeLock \/ TestDirty \/ ClearDirty \/ ReadFn \/ ClearFn \/ CopyEntry \/ Send
Core1 ==
    \/ \E l \in Loco, v \in Speeds : WriteSpeed(l, v)
    \/ \E l \in Loco, f \in FnStates : WriteSnd(l, f) \/ FindEntry(l, f)
    \/ WriteFn \/ MarkAny \/ MarkFn
    \/ (\E l \in Loco : ReleaseEntry(l)) \/ ReleaseFlag
Next == Core0 \/ Core1

Spec == Init /\ [][Next]_tableVars

-----------------------------------------------------------------------------
TypeOK ==
    /\ entry \in [Index -> [loco : Loco \cup {NoLoco}, speed : Speeds, fn : FnStates]]
    /\ dirtyAny \in [Index -> BOOLEAN]
    /\ dirtySpeed \in [Index -> BOOLEAN] /\ dirtyFn \in [Index -> BOOLEAN]
    /\ pc0 \in {"idle", "test", "clear", "fn", "clearFn", "copy", "send"}
    /\ at \in 0 .. Entries
    /\ found \in [loco : Loco \cup {NoLoco}, speed : Speeds, fn : FnStates,
                  speedDirty : BOOLEAN, fnDirty : BOOLEAN]
    /\ pc1 \in {"idle", "write", "any", "fn", "unmark"}
    /\ job \in [loco : Loco \cup {NoLoco}, fn : FnStates, ix : Index]
    /\ sentSpeed \in [Loco -> Speeds] /\ sentFn \in [Loco -> FnStates]
    /\ stray \in BOOLEAN
    /\ driven \subseteq Loco /\ locked \subseteq switched /\ switched \subseteq Loco
    /\ writes \in 0 .. MaxWrites

AtRest ==
    /\ pc0 = "idle" /\ pc1 = "idle"
    /\ \A i \in Index : dirtyAny[i] => entry[i].loco = NoLoco

Arrived(l, i) ==
    /\ l \in driven => sentSpeed[l] = entry[i].speed
    /\ l \in locked => sentFn[l] = entry[i].fn

(* loco_repository.h:14-19: what was written under the lock is resent: the  *)
(* speed of a loco, and its functions if a LocoNet device set them last,    *)
(* reach the track, whatever the accesses without the lock, deleted entries *)
(* and flags they leave behind do in between.                               *)
WrittenIsSent == AtRest => \A l \in Loco : \A i \in Holds(l) : Arrived(l, i)

(* loco_repository.h:9-12 and 17-19: access is protected by the spinlock,   *)
(* and a change of functions is resent by the poll of the dirty entries:    *)
(* once all is quiet, the functions on the track are those every client     *)
(* is shown.                                                                *)
FunctionsArrive ==
    AtRest => \A l \in switched : \A i \in Holds(l) : sentFn[l] = entry[i].fn

(* loco_repository.cpp:200-203: the flags that release() leaves are         *)
(* harmless: nextDirty() reports the speed of no loco but of one whose      *)
(* speed was marked since its entry was made.                               *)
OnlyMarkedReported ==
    [][\A i \in Index : pc0 = "clear" /\ at = i /\ found'.speedDirty /\ ~found.speedDirty
            => entry[i].loco \in driven \cup {NoLoco}]_tableVars

(* loco_repository.h:168: an entry may be deleted at any time: core 0       *)
(* sends only for locos of the table.                                       *)
OnlyLocosAddressed == ~stray
=============================================================================
