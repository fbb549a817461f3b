------------------------------- MODULE MCPaths -------------------------------
(***************************************************************************)
(* The ways a command and its news take through the station:               *)
(*    call      a handheld is called on RS-485 (Rs485)                     *)
(*    command   the ring from core 1 to core 0 (CommandBus)                *)
(*    relay     a turnout command and its echo (TurnoutRelay)              *)
(*    event     the ring from core 0 to core 1 (EventBus)                  *)
(*    service   a programming request and its result (ServiceMode)         *)
(* The models share no variable, so one run checks them side by side: part *)
(* says which of them moves, the others stay where they begin.             *)
(*                                                                         *)
(* Rings of three slots (capacity two) under up to five messages: they     *)
(* wrap and fill, and the two-entry log of dropped commands wraps as well. *)
(* Only core 0 publishes events, as event_bus.h says; MCEventBusTwo.cfg    *)
(* has both cores, as the code does.  Three addresses, every other pass a  *)
(* probe, and a count of misses that wraps.  Two turnouts and three         *)
(* requests, of clients and of LocoNet devices, one at a time.  Three      *)
(* programming and power requests of two kinds of client on a bus of two,  *)
(* while shorts, stalls and restarts switch power as well.                 *)
(***************************************************************************)
EXTENDS CommandBus

CONSTANTS
    Event, MaxSlaves, ProbeEvery, ProbeLimit, MissValues,
    Turnout, RelayRequests, Devices, RelaySlots, NoRequest,
    Client, PowerCmds, Faults, Z21, Timeouts, PollFirst, CommandSlots, MaxRequests

VARIABLES
    part,
    eRing, eHead, eTail, ePush, ePushEv, ePushNext, ePop, ePopEv, published, handled,
    attached, present, missCount, overdue, currentSlave, progSlave, cycle, discovery, called,
    orders, states, txQueue, wire, lastSent, awaiting, late, accessories, turnouts, made,
    wanted, unseen,
    phase, power, restartPending, session, expired, main, revived, lib, exit, result,
    progMode, ready, ok, pending, data, pc1, client, cmds, requests, programming

eventVars == <<eRing, eHead, eTail, ePush, ePushEv, ePushNext, ePop, ePopEv,
               published, handled>>
callVars  == <<attached, present, missCount, overdue, currentSlave, progSlave, cycle,
               discovery, called>>
relayVars == <<orders, states, txQueue, wire, lastSent, awaiting, late, accessories,
               turnouts, made, wanted, unseen>>
serviceVars == <<phase, power, restartPending, session, expired, main, revived, lib, exit,
                 result, progMode, ready, ok, pending, data, pc1, client, cmds, requests,
                 programming>>

Events == INSTANCE EventBus WITH
    Publisher <- {0}, MaxPublish <- MaxDispatch,
    ring <- eRing, head <- eHead, tail <- eTail,
    pushPc <- ePush, pushEv <- ePushEv, pushNext <- ePushNext,
    popPc <- ePop, popEv <- ePopEv, accepted <- published, delivered <- handled

Calls == INSTANCE Rs485

Relay == INSTANCE TurnoutRelay WITH OneAtATime <- TRUE

Service == INSTANCE ServiceMode WITH pc0 <- phase, awaiting <- programming

ASSUME PathsAssumption ==
    /\ None \notin Event
    /\ MaxSlaves \in Nat \ {0} /\ ProbeEvery \in Nat \ {0} /\ MissValues \in Nat \ {0}
    /\ ProbeLimit \in Nat
    /\ RelayRequests \in Nat /\ RelaySlots \in Nat \ {0} /\ Devices \in BOOLEAN
    /\ NoRequest \notin [turnout : Turnout, pos : {"thrown", "straight"}]
    /\ Service!ServiceModeAssumption

PathsInit ==
    /\ part \in {"call", "command", "relay", "event", "service"}
    /\ Init /\ Events!Init /\ Calls!Init /\ Relay!Init /\ Service!Init
    /\ part # "call" => attached = {}
    /\ part # "service" => ~power

PathsNext ==
    /\ UNCHANGED part
    /\ \/ /\ part = "call" /\ Calls!Next
          /\ UNCHANGED <<vars, eventVars, relayVars, serviceVars>>
       \/ /\ part = "command" /\ Next
          /\ UNCHANGED <<eventVars, callVars, relayVars, serviceVars>>
       \/ /\ part = "relay" /\ Relay!Next
          /\ UNCHANGED <<vars, eventVars, callVars, serviceVars>>
       \/ /\ part = "event" /\ Events!Next
          /\ UNCHANGED <<vars, callVars, relayVars, serviceVars>>
       \/ /\ part = "service" /\ Service!Next
          /\ UNCHANGED <<vars, eventVars, callVars, relayVars>>

\* Fairness: that of each model for its own steps.
PathsSpec ==
    /\ PathsInit
    /\ [][PathsNext]_<<part, vars, eventVars, callVars, relayVars, serviceVars>>
    /\ WF_callVars(part = "call" /\ Calls!Loop)
    /\ WF_vars(part = "command" /\ Core0)
    /\ WF_vars(part = "command" /\ (PushWrite \/ PushCommit))
    /\ WF_relayVars(part = "relay" /\ Relay!Carry)
    /\ WF_eventVars(part = "event" /\ Events!Poll)
    /\ WF_eventVars(part = "event" /\ (Events!PushWrite(0) \/ Events!PushCommit(0)))
    /\ WF_serviceVars(part = "service" /\ Service!Core0)
    /\ WF_serviceVars(part = "service" /\ Service!Expire)
    /\ WF_serviceVars(part = "service" /\ Service!Handler)
    /\ \A c \in Client :
           SF_serviceVars(part = "service" /\ programming[c] # 0 /\ Service!XnPoll(c))

\* The variables of the other models have their types, too.
TypesOK == Events!TypeOK /\ Calls!TypeOK /\ Relay!TypeOK /\ Service!TypeOK

\* The event ring implements the bus of BusSpec, if only core 0 publishes.
ImplementsEventBus == Events!ImplementsBus

\* Every command and every event that was accepted reaches the handlers.
BothDelivered == AllDelivered /\ Events!AllDelivered

\* Once all is carried out, a turnout is where the last request put it.
LastCommandWins == Relay!LastCommandWins

\* No request is carried round the LocoNet bus for ever.
RelayComesToRest == Relay!RelayComesToRest

\* A handheld that is present is called again.
PresentCalled == Calls!PresentCalled

\* During a programming session the main outputs stay off until track power is
\* switched on.
IsolatedUntilPowerOn == Service!IsolatedUntilPowerOn

\* Outside a session the main outputs follow track power.
MainRestored == Service!MainRestored

\* gCentrale's programming mode always has a session behind it.
ProgModeHasSession == Service!ProgModeHasSession

\* A session is closed whatever the decoder does.
SessionEnds == Service!SessionEnds

\* A client whose programming request was accepted is told the outcome.
Answered == Service!Answered
=============================================================================
