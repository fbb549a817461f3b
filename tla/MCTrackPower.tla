----------------------------- MODULE MCTrackPower -----------------------------
(***************************************************************************)
(* What switches track power: the two cores (TrackPower), and below them   *)
(* the guards of the H-bridges, tick by tick (HBridgeGuard), whose verdict *)
(* is TrackPower's GuardShort.  The models share no variable, so one run   *)
(* checks them side by side: part says which of them moves, the other      *)
(* stays where it begins.                                                  *)
(*                                                                         *)
(* The guards are checked in two instances.  "lone": one bridge, with      *)
(* times long enough for the chain of skipped episodes to run out, and a   *)
(* lasting fault.  "pair": the bridges of both tracks, with service mode   *)
(* handing the pattern from one to the other; its times are constants, so  *)
(* that TrackPowerProofs speaks of all of them.                            *)
(***************************************************************************)
EXTENDS TrackPower

CONSTANTS
    Bridge, IgnoreTime, WatchTime, InrushTime, VerifyTime, Packet, VerifyEdges, SkipItrip,
    ItripMax, Grace, EdgeSlots, MaxLate, MaxSwitches

ASSUME GuardsAssumption ==
    /\ Bridge \subseteq {"DCC", "SM", "CDE"}
    /\ IgnoreTime \in Nat /\ WatchTime \in Nat /\ VerifyTime \in Nat /\ ItripMax \in Nat
    /\ Grace \in Nat /\ Packet \in Nat /\ EdgeSlots \in Nat /\ MaxLate \in Nat
    /\ InrushTime \in Nat \ {0} /\ VerifyEdges \in Nat \ {0} /\ MaxSwitches \in Nat
    /\ SkipItrip \in BOOLEAN

VARIABLES part, hPower, service, guard, turn, edges, pattern, hLate, faulty, switches,
          charged, taken

guardVars == <<hPower, service, guard, turn, edges, pattern, hLate, faulty, switches,
               charged, taken>>

Lone == INSTANCE HBridgeGuard WITH
    Bridge <- {"DCC"}, IgnoreTime <- 3, WatchTime <- 4, InrushTime <- 3, VerifyTime <- 2,
    Packet <- 1, VerifyEdges <- 2, SkipItrip <- TRUE, ItripMax <- 8, Grace <- 3,
    EdgeSlots <- 6, MaxLate <- 2, Resume <- FALSE, LastingOn <- {"DCC"}, MaxSwitches <- 0,
    power <- hPower, late <- hLate

Pair == INSTANCE HBridgeGuard WITH
    Resume <- FALSE, LastingOn <- {}, power <- hPower, late <- hLate

PowerInit ==
    /\ Init
    /\ \/ part = "cores" /\ Lone!Init
       \/ part = "lone" /\ Lone!Init
       \/ part = "pair" /\ Pair!Init

PowerNext ==
    /\ UNCHANGED part
    /\ \/ part = "cores" /\ Next /\ UNCHANGED guardVars
       \/ part = "lone" /\ Lone!Next /\ UNCHANGED vars
       \/ part = "pair" /\ Pair!Next /\ UNCHANGED vars

\* Fairness: that of each model for its own steps.
PowerSpec ==
    /\ PowerInit /\ [][PowerNext]_<<part, vars, guardVars>>
    /\ WF_vars(part = "cores" /\ Core0) /\ WF_vars(part = "cores" /\ Core1)
    /\ WF_vars(part = "cores" /\ Heartbeat)
    /\ WF_vars(part = "cores" /\ RestartFalls) /\ WF_vars(part = "cores" /\ BecomeLate)
    /\ SF_vars(part = "cores" /\ GuardShort)
    /\ SF_guardVars(part = "lone" /\ Lone!TickAny)
    /\ WF_guardVars(part = "lone" /\ Lone!LoopAny)

\* The inrush pattern replaces the DCC signal only while some guard gives a
\* loco time to charge (and the guards' variables have their types).
PatternOwned == part = "pair" => Pair!TypeOK /\ Pair!PatternOwned

\* A guard cuts the power in the verify phase only after the loco had the
\* whole inrush time.
ChargeTime == [][part = "pair" => \A b \in Bridge : Pair!Charges(b)]_guardVars

\* A lasting fault cuts the power, again after every restart.
FaultCutsPower == part = "lone" => Lone!FaultCutsPower
=============================================================================
