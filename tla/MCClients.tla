------------------------------ MODULE MCClients ------------------------------
(***************************************************************************)
(* What the station keeps for its clients and what they know of it:        *)
(*    places    their places in the table of the TCP server (LenzLan)      *)
(*    feedback  what they are told of the feedback modules (FeedbackPath)  *)
(*    power     what they are told of the track power (TrackPower)         *)
(*    settings  the settings they write (EepromStore)                      *)
(*    table     the locos they drive and switch (LocoTable)                *)
(*    z21       their places in the table of the UDP server (Z21Clients)   *)
(* The models share no variable, so one run checks them side by side: part *)
(* says which of them moves, the others stay where they begin.             *)
(*                                                                         *)
(* Two connections for two places, each with up to a frame, half of which  *)
(* overflows the receive buffer; connections are interchangeable.  Two     *)
(* clients and one decoder with two values, and room for two reports and   *)
(* events.                                                                 *)
(* All power modules, with no fault and no bus that fills.  A setting that *)
(* is a number and one that is a string.  Two locos for two entries, which *)
(* are deleted and made again, and four requests.  Three UDP peers for two *)
(* places.                                                                 *)
(***************************************************************************)
EXTENDS Z21Clients, Integers, Sequences, TLC

CONSTANTS
    Conn, NoConn, MaxClients, RxBuf, MaxSent,
    Client, Decoder, Value, FeedbackSlots, MaxReports,
    Setting, Text, Setpoint, Default, Empty,
    CommandSlots, EventSlots, MaxRequests,
    Loco, NoLoco, Entries, Speeds, FnStates, MaxWrites

\* The values of a decoder are those of a nibble, and neither of the two marks.
ASSUME ClientsAssumption ==
    /\ NoConn \notin Conn
    /\ MaxClients \in Nat /\ RxBuf \in Nat /\ MaxSent \in Nat
    /\ Value \subseteq 0 .. 15 /\ 0 \in Value
    /\ FeedbackSlots \in Nat /\ MaxReports \in Nat
    /\ IsFiniteSet(Setting) /\ Default \in Setpoint
    /\ CommandSlots \in Nat /\ EventSlots \in Nat /\ MaxRequests \in Nat
    /\ NoLoco \notin Loco /\ Entries \in Nat \ {0} /\ MaxWrites \in Nat
    /\ 0 \in Speeds /\ 0 \in FnStates

VARIABLES
    part,
    link, sent, read, parsed, clients, connCount, serving, framing, lost,
    running, fbState, reports, lastSent, hand, events, connected, view, fresh, untold,
    value, dirty, recent, file, image, open, changed, late,
    pc0, power, restartPending, restartDue, restartCount, calm, rail, tripped, shorted,
    hung, beat, alive, todo, gOff, gShort, lnPower, resetReq, cmds, railEvents, told,
    requests, offCause,
    entry, dirtyAny, dirtySpeed, dirtyFn, scan, at, found, pc1, job, sentSpeed, sentFn,
    stray, driven, switched, locked, writes

lanVars   == <<link, sent, read, parsed, clients, connCount, serving, framing, lost>>
fbVars    == <<running, fbState, reports, lastSent, hand, events, connected, view, fresh, untold>>
eepVars   == <<value, dirty, recent, file, image, open, changed, late>>
powerVars == <<pc0, power, restartPending, restartDue, restartCount, calm, rail, tripped,
               shorted, hung, beat, alive, todo, gOff, gShort, lnPower, resetReq, cmds,
               railEvents, told, requests, offCause>>
tableVars == <<entry, dirtyAny, dirtySpeed, dirtyFn, scan, at, found, pc1, job, sentSpeed,
               sentFn, stray, driven, switched, locked, writes>>

Lan == INSTANCE LenzLan
Fb  == INSTANCE FeedbackPath
Eep == INSTANCE EepromStore
Power == INSTANCE TrackPower WITH
    Modules <- {"XN", "LN", "LAN"}, Faults <- {}, MaxRestart <- 3, StartupPower <- FALSE,
    Feedback <- FALSE,
    clients <- told, events <- railEvents, running <- alive,
    quiet <- calm

Table == INSTANCE LocoTable WITH Deletes <- TRUE, pc0 <- scan

AnyOrder == Permutations(Conn)

ClientsInit ==
    /\ part \in {"places", "feedback", "settings", "power", "table", "z21"}
    /\ Init /\ Lan!Init /\ Fb!Init /\ Eep!Init /\ Power!Init /\ Table!Init
    /\ part # "settings" => file = [s \in Setting |-> Default]
    /\ part # "z21" => limit = 1

ClientsNext ==
    /\ UNCHANGED part
    /\ \/ /\ part = "places" /\ Lan!Next
          /\ UNCHANGED <<fbVars, eepVars, powerVars, tableVars, z21Vars>>
       \/ /\ part = "feedback" /\ Fb!Next
          /\ UNCHANGED <<lanVars, eepVars, powerVars, tableVars, z21Vars>>
       \/ /\ part = "settings" /\ Eep!Next
          /\ UNCHANGED <<lanVars, fbVars, powerVars, tableVars, z21Vars>>
       \/ /\ part = "power" /\ Power!Next
          /\ UNCHANGED <<lanVars, fbVars, eepVars, tableVars, z21Vars>>
       \/ /\ part = "table" /\ Table!Next
          /\ UNCHANGED <<lanVars, fbVars, eepVars, powerVars, z21Vars>>
       \/ /\ part = "z21" /\ Next
          /\ UNCHANGED <<lanVars, fbVars, eepVars, powerVars, tableVars>>

ClientsSpec ==
    ClientsInit
    /\ [][ClientsNext]_<<part, lanVars, fbVars, eepVars, powerVars, tableVars, z21Vars>>

\* The variables of all of them have their types.
TypesOK == TypeOK /\ Lan!TypeOK /\ Fb!TypeOK /\ Eep!TypeOK /\ Power!TypeOK /\ Table!TypeOK

\* The table of TCP clients is right however a client leaves: the count is that
\* of the places in use, and the loss of a client is handled once.
PlacesAccounted == Lan!PlacesAccounted

\* A client knows the value of every decoder that has reported.
FeedbackTold == Fb!FeedbackTold

\* A setting that differs from the file is still going to be written.
SettingsStored == Eep!SettingsStored

\* When nothing is under way, gCentrale.trackPowerOff and what the clients
\* were last told of the track power say what the track is.
PowerAgreed == Power!FlagTracksPower /\ Power!ClientsKnow

\* What was written to a loco under the lock reaches the track.
WrittenIsSent == Table!WrittenIsSent
=============================================================================
