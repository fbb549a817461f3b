--------------------------- MODULE StationsProofs ---------------------------
(***************************************************************************)
(* The stations that MCLocoDrive puts side by side: what LocoDriveProofs   *)
(* shows of any station holds of each, for any locos and number of         *)
(* requests.  Which of them runs never changes, so a behaviour of all is   *)
(* one of the station that runs; Repo and Re are instances of the same     *)
(* module with the same substitution, so what the one means is what the    *)
(* other means, and so are Crowd and Cr.                                   *)
(***************************************************************************)
EXTENDS MCLocoDrive, LocoDriveProofs

(* The station "repo", with its lemmas. *)
Re == INSTANCE LocoDriveProofs WITH
    Features <- {"RS485", "LN", "estop", "web", "release", "power"},
    CommandSlots <- 2, OwnerSlots <- 1

LEMMA SameInit == Repo!Init => Re!Init
BY DEF Repo!Init, Re!Init, Repo!OwnerIndex, Re!OwnerIndex, Repo!Free, Re!Free

LEMMA SameCore0 == Repo!Core0 => Re!Core0
BY DEF Repo!Core0, Re!Core0, Repo!DeliverSpeed, Re!DeliverSpeed, Repo!DeliverEstop,
       Re!DeliverEstop, Repo!DeliverPower, Re!DeliverPower, Repo!DeliverStop,
       Re!DeliverStop, Repo!StopEntry, Re!StopEntry, Repo!StopEntrySkipped,
       Re!StopEntrySkipped, Repo!StopDone, Re!StopDone, Repo!PollDone, Re!PollDone,
       Repo!DirtyTake, Re!DirtyTake, Repo!DirtySend, Re!DirtySend, Repo!DirtyDone,
       Re!DirtyDone, Repo!SetSpeed, Re!SetSpeed, Repo!NoteOwner, Re!NoteOwner, Repo!Next0,
       Re!Next0, Repo!StopOwned, Re!StopOwned, Repo!Waiting, Re!Waiting, Repo!Theirs,
       Re!Theirs, Repo!Resend, Re!Resend, Repo!OwnerIndex, Re!OwnerIndex, Repo!repo,
       Re!repo, Repo!ownerVars, Re!ownerVars, Repo!core1Vars, Re!core1Vars, Repo!history,
       Re!history

LEMMA SameCore1 == Repo!Core1 => Re!Core1
BY DEF Repo!Core1, Re!Core1, Repo!Drive, Re!Drive, Repo!XnDrive, Re!XnDrive, Repo!LnDrive,
       Re!LnDrive, Repo!PowerRequest, Re!PowerRequest, Repo!EmergStop, Re!EmergStop,
       Repo!LanLost, Re!LanLost, Repo!Request, Re!Request, Repo!Receive, Re!Receive,
       Repo!WriteSpeed, Re!WriteSpeed, Repo!SpeedCmd, Re!SpeedCmd, Repo!Dispatch,
       Re!Dispatch, Repo!LnUnlock, Re!LnUnlock, Repo!WebLock, Re!WebLock, Repo!WebUnlock,
       Re!WebUnlock, Repo!Release, Re!Release, Repo!repo, Re!repo, Repo!ownerVars,
       Re!ownerVars, Repo!core1Vars, Re!core1Vars, Repo!history, Re!history

LEMMA SameVars == Re!vars = vars /\ Re!vars' = vars'
BY DEF vars, ownerVars, repo, core1Vars, history, Re!vars, Re!ownerVars, Re!repo,
       Re!core1Vars, Re!history

(* Its constants are as its lemmas assume. *)
LEMMA SecondStation == Re!LocoDriveAssumption
BY LocoDriveAssumption DEF Re!LocoDriveAssumption

(* The station "crowd", with its lemmas. *)
Cr == INSTANCE LocoDriveProofs WITH
    Features <- {"LAN", "LN", "lost"}, CommandSlots <- 2, OwnerSlots <- 1,
    MaxRequests <- 3

LEMMA SameInitCr == Crowd!Init => Cr!Init
BY DEF Crowd!Init, Cr!Init, Crowd!OwnerIndex, Cr!OwnerIndex, Crowd!Free, Cr!Free

LEMMA SameCore0Cr == Crowd!Core0 => Cr!Core0
BY DEF Crowd!Core0, Cr!Core0, Crowd!DeliverSpeed, Cr!DeliverSpeed, Crowd!DeliverEstop,
       Cr!DeliverEstop, Crowd!DeliverPower, Cr!DeliverPower, Crowd!DeliverStop,
       Cr!DeliverStop, Crowd!StopEntry, Cr!StopEntry, Crowd!StopEntrySkipped,
       Cr!StopEntrySkipped, Crowd!StopDone, Cr!StopDone, Crowd!PollDone, Cr!PollDone,
       Crowd!DirtyTake, Cr!DirtyTake, Crowd!DirtySend, Cr!DirtySend, Crowd!DirtyDone,
       Cr!DirtyDone, Crowd!SetSpeed, Cr!SetSpeed, Crowd!NoteOwner, Cr!NoteOwner, Crowd!Next0,
       Cr!Next0, Crowd!StopOwned, Cr!StopOwned, Crowd!Waiting, Cr!Waiting, Crowd!Theirs,
       Cr!Theirs, Crowd!Resend, Cr!Resend, Crowd!OwnerIndex, Cr!OwnerIndex, Crowd!repo,
       Cr!repo, Crowd!ownerVars, Cr!ownerVars, Crowd!core1Vars, Cr!core1Vars, Crowd!history,
       Cr!history

LEMMA SameCore1Cr == Crowd!Core1 => Cr!Core1
BY DEF Crowd!Core1, Cr!Core1, Crowd!Drive, Cr!Drive, Crowd!XnDrive, Cr!XnDrive, Crowd!LnDrive,
       Cr!LnDrive, Crowd!PowerRequest, Cr!PowerRequest, Crowd!EmergStop, Cr!EmergStop,
       Crowd!LanLost, Cr!LanLost, Crowd!Request, Cr!Request, Crowd!Receive, Cr!Receive,
       Crowd!WriteSpeed, Cr!WriteSpeed, Crowd!SpeedCmd, Cr!SpeedCmd, Crowd!Dispatch,
       Cr!Dispatch, Crowd!LnUnlock, Cr!LnUnlock, Crowd!WebLock, Cr!WebLock, Crowd!WebUnlock,
       Cr!WebUnlock, Crowd!Release, Cr!Release, Crowd!repo, Cr!repo, Crowd!ownerVars,
       Cr!ownerVars, Crowd!core1Vars, Cr!core1Vars, Crowd!history, Cr!history

LEMMA SameVarsCr == Cr!vars = vars /\ Cr!vars' = vars'
BY DEF vars, ownerVars, repo, core1Vars, history, Cr!vars, Cr!ownerVars, Cr!repo,
       Cr!core1Vars, Cr!history

(* Its constants are as its lemmas assume. *)
LEMMA ThirdStation == Cr!LocoDriveAssumption
BY LocoDriveAssumption DEF Cr!LocoDriveAssumption

(* Which station runs does not change. *)
LEMMA OneRuns ==
    /\ DriveSpec /\ part = "clients" => Spec /\ [](part = "clients")
    /\ DriveSpec /\ part = "repo" => Re!Spec /\ [](part = "repo")
    /\ DriveSpec /\ part = "crowd" => Cr!Spec /\ [](part = "crowd")
    /\ DriveSpec => part = "clients" \/ part = "repo" \/ part = "crowd"
<1>1. part = "clients" /\ DriveInit => Init
  BY DEF DriveInit
<1>2. part = "repo" /\ DriveInit => Re!Init
  BY SameInit DEF DriveInit
<1>3. part = "crowd" /\ DriveInit => Cr!Init
  BY SameInitCr DEF DriveInit
<1>4. DriveInit => part = "clients" \/ part = "repo" \/ part = "crowd"
  BY DEF DriveInit
<1>5. part = "clients" /\ [DriveNext]_<<part, vars>> => [Next]_vars /\ (part = "clients")'
  BY DEF DriveNext
<1>6. part = "repo" /\ [DriveNext]_<<part, vars>> => [Re!Next]_Re!vars /\ (part = "repo")'
  BY SameCore0, SameCore1, SameVars DEF DriveNext, Repo!Next, Re!Next
<1>7. part = "crowd" /\ [DriveNext]_<<part, vars>> => [Cr!Next]_Cr!vars /\ (part = "crowd")'
  BY SameCore0Cr, SameCore1Cr, SameVarsCr DEF DriveNext, Crowd!Next, Cr!Next
<1> QED BY <1>1, <1>2, <1>3, <1>4, <1>5, <1>6, <1>7, PTL DEF DriveSpec, Spec, Re!Spec, Cr!Spec

(* The variables of the stations keep their types: the bus, the owner      *)
(* table and the indices into it stay within bounds, with room for all     *)
(* locos or for one.                                                       *)
THEOREM StationsTyped == DriveSpec => []TypesOK
<1>1. TypeOK /\ part = "clients" => TypesOK
  BY DEF TypesOK
<1>2. Re!TypeOK /\ part = "repo" => TypesOK
  BY DEF TypesOK, Repo!TypeOK, Re!TypeOK, Repo!OwnerIndex, Re!OwnerIndex, Repo!Speed, Re!Speed,
     Repo!Source, Re!Source
<1>3. Cr!TypeOK /\ part = "crowd" => TypesOK
  BY DEF TypesOK, Crowd!TypeOK, Cr!TypeOK, Crowd!OwnerIndex, Cr!OwnerIndex, Crowd!Speed, Cr!Speed,
     Crowd!Source, Cr!Source
<1>4. Re!Spec => []Re!TypeOK
  BY SecondStation, Re!TypeCorrect
<1>5. Cr!Spec => []Cr!TypeOK
  BY ThirdStation, Cr!TypeCorrect
<1> QED BY <1>1, <1>2, <1>3, <1>4, <1>5, OneRuns, TypeCorrect, PTL

(* All stations end up with the track doing what the repository shows:     *)
(* LocoNet and handhelds driving, emergency stops, power switched, entries *)
(* removed and the lock held by a web page, with a bus of two commands.    *)
THEOREM StationsFollow == DriveSpec => []TrackFollowsRepo
<1>1. Re!TrackFollowsRepo <=> TrackFollowsRepo
  BY DEF TrackFollowsRepo, Re!TrackFollowsRepo, Quiescent, Re!Quiescent, Resend, Re!Resend
<1>2. Re!Spec => []Re!TrackFollowsRepo
  BY SecondStation, Re!TrackRight
<1>3. Cr!TrackFollowsRepo <=> TrackFollowsRepo
  BY DEF TrackFollowsRepo, Cr!TrackFollowsRepo, Quiescent, Cr!Quiescent, Resend, Cr!Resend
<1>4. Cr!Spec => []Cr!TrackFollowsRepo
  BY ThirdStation, Cr!TrackRight
<1> QED BY <1>1, <1>2, <1>3, <1>4, OneRuns, TrackRight, PTL

(* A lost client stops no loco of another module, at any station, also     *)
(* when the owner table has room for one loco only.                        *)
THEOREM StationsCarryOn == DriveSpec => OthersCarryOn
<1> DEFINE A == \A l \in Loco : stopIdx' > stopIdx /\ speed'[l] # speed[l]
                                 => driver[l] = "LAN"
<1>1. Spec => [][A]_vars
  BY OthersSafe DEF OthersCarryOn
<1>2. Re!Spec => [][A]_Re!vars
  BY SecondStation, Re!OthersSafe DEF Re!OthersCarryOn
<1>3. Cr!Spec => [][A]_Cr!vars
  BY ThirdStation, Cr!OthersSafe DEF Cr!OthersCarryOn
<1>4. ([A]_Re!vars => [A]_vars) /\ ([A]_Cr!vars => [A]_vars)
  BY SameVars, SameVarsCr
<1> QED BY <1>1, <1>2, <1>3, <1>4, OneRuns, PTL DEF OthersCarryOn

(* The locos of a lost client stop.  The station "repo" has no such client *)
(* and nothing to stop; "clients" needs an owner table with room for every *)
(* loco, and no entry of the repository removed.                           *)
THEOREM StationsStop ==
    ASSUME AllKept
    PROVE  DriveSpec => []LostAreStopped
<1>1. Re!LostLocosStop <=> LostLocosStop
  BY DEF LostLocosStop, Re!LostLocosStop, Quiescent, Re!Quiescent, Resend, Re!Resend
<1>2. Re!Spec => []Re!LostLocosStop
  <2>1. "lost" \notin {"RS485", "LN", "estop", "web", "release", "power"}
    OBVIOUS
  <2> QED BY <2>1, SecondStation, Re!NothingToStop
<1>3. Spec => []LostLocosStop
  BY LostStopped
<1>4. (LostLocosStop => LostAreStopped) /\ (part = "crowd" => LostAreStopped)
  BY DEF LostAreStopped
<1> QED BY <1>1, <1>2, <1>3, <1>4, OneRuns, PTL
=============================================================================
