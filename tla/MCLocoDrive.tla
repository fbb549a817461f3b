----------------------------- MODULE MCLocoDrive -----------------------------
(***************************************************************************)
(* Three stations side by side; part says which of them runs:              *)
(*    clients   a LenzLAN client is lost while LocoNet devices drive and   *)
(*              a web page holds the lock of the repository                *)
(*    repo      handhelds and LocoNet devices drive, with emergency stops, *)
(*              power switched, entries deleted, and the lock held         *)
(*    crowd     a LenzLAN client is lost while LocoNet devices drive more  *)
(*              locos than the owner table has room for                    *)
(* Two locos, four requests (three in crowd), and a command bus of three   *)
(* or two commands, which fills.  The owner table has room for both locos  *)
(* or, in repo and crowd, for one, so that its entry is recycled.  Locos   *)
(* are interchangeable.                                                    *)
(***************************************************************************)
EXTENDS LocoDrive, TLC

VARIABLE part

Repo == INSTANCE LocoDrive WITH
    Features <- {"RS485", "LN", "estop", "web", "release", "power"},
    CommandSlots <- 2, OwnerSlots <- 1

Crowd == INSTANCE LocoDrive WITH
    Features <- {"LAN", "LN", "lost"}, CommandSlots <- 2, OwnerSlots <- 1,
    MaxRequests <- 3

DriveInit == \/ part = "clients" /\ Init
             \/ part = "repo" /\ Repo!Init
             \/ part = "crowd" /\ Crowd!Init
DriveNext ==
    /\ UNCHANGED part
    /\ \/ part = "clients" /\ Next
       \/ part = "repo" /\ Repo!Next
       \/ part = "crowd" /\ Crowd!Next
DriveSpec == DriveInit /\ [][DriveNext]_<<part, vars>>

Locos == Permutations(Loco)

\* The variables of all of them have their types.
TypesOK == /\ part = "clients" => TypeOK
           /\ part = "repo" => Repo!TypeOK
           /\ part = "crowd" => Crowd!TypeOK

\* A lost client's locos are stopped, unless the owner table has forgotten
\* whose they are, as it may in crowd.
LostAreStopped == part # "crowd" => LostLocosStop
=============================================================================
