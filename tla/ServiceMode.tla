----------------------------- MODULE ServiceMode -----------------------------
(***************************************************************************)
(* Programming a decoder on the programming track (service mode).          *)
(*                                                                         *)
(* One DCC generator feeds every H-bridge output, so DccHal on core 0      *)
(* takes the main outputs off the track when a session begins              *)
(* (_serviceModeRequested).  Whoever switches track power meanwhile, by a  *)
(* command or on core 0 itself, switches those outputs too.                *)
(*                                                                         *)
(* The XpressNet handlers on core 1 start an operation through the command *)
(* bus and later poll for its result in gCentrale, which core 0 fills in   *)
(* store by store.  Z21 clients start operations too, without gCentrale.   *)
(*                                                                         *)
(* An operation is known by its number; the CV it is about and the value   *)
(* read are both represented by that number, so a reply with another       *)
(* number is another operation's.  Reading and writing a CV have the same  *)
(* control.  The DCC library is external: it works on one operation at a   *)
(* time, may answer or stay silent, and when a second one is handed to it  *)
(* may drop either.                                                        *)
(*                                                                         *)
(* A pass of core 0 is DccHal::loop() in four phases, the stall check at   *)
(* the top of LZ210's loop() belonging to the first.  What makes a short,  *)
(* a stall or a restart come is the subject of TrackPower; here any of     *)
(* them may come in any pass.                                              *)
(***************************************************************************)
EXTENDS Naturals, Sequences

CONSTANTS
    Client,         \* XpressNet/LAN clients that program
    PowerCmds,      \* the power commands that may arrive, a subset of on, off
    Faults,         \* what else switches power: bridge, cde, stall
    Z21,            \* TRUE if a Z21 client programs too
    Timeouts,       \* TRUE if dcc.svc_timeout_ms may pass without an answer
    PollFirst,      \* TRUE if a client fetches a result before asking again
    CommandSlots,   \* capacity of the command bus
    MaxRequests,    \* bound on the number of requests
    None

ServiceModeAssumption ==
    /\ PowerCmds \subseteq {"on", "off"} /\ Faults \subseteq {"bridge", "cde", "stall"}
    /\ Z21 \in BOOLEAN /\ Timeouts \in BOOLEAN /\ PollFirst \in BOOLEAN
    /\ CommandSlots \in Nat /\ MaxRequests \in Nat

VARIABLES
    pc0,        \* core 0's loop: "update", "poll", "guards", "timeout"
    power,      \* DccHal::_power
    restartPending, \* DccHal::_restartPending
    session,    \* _serviceModeRequested
    expired,    \* dcc.svc_timeout_ms has passed since _serviceModeStartMs
    main,       \* HW_DCC_ACTIVE and HW_CDE_ACTIVE
    lib,        \* the operation the DCC library works on
    exit,       \* stores of _exitServiceMode() still to be made
    result,     \* its arguments
    progMode,   \* gCentrale.progModeActive
    ready,      \* gCentrale.progResultReady
    ok,         \* gCentrale.progResultOk
    pending,    \* gCentrale.pendingCvAddr
    data,       \* gCentrale.progResultData
    pc1,        \* core 1: "idle", "pending", "dispatch", "reply"
    client,     \* the client core 1 is serving
    cmds,       \* the command bus
    requests,   \* requests received so far
    revived,    \* history: power has been switched on in this session
    awaiting    \* history: per client, its last accepted operation, until answered

trackVars == <<power, restartPending, main, revived>>
core0Vars == <<trackVars, session, expired, lib>>
prog      == <<progMode, ready, ok, pending, data>>
core1Vars == <<pc1, client, requests, awaiting>>
vars      == <<pc0, core0Vars, exit, result, prog, core1Vars, cmds>>

Init ==
    /\ pc0 = "update" /\ power \in BOOLEAN /\ main = power
    /\ restartPending = FALSE /\ revived = FALSE
    /\ session = FALSE /\ expired = FALSE /\ lib = None
    /\ exit = <<>> /\ result = [ok |-> FALSE, op |-> 0]
    /\ progMode = FALSE /\ ready = FALSE /\ ok = FALSE
    /\ pending = 0 /\ data = 0
    /\ pc1 = "idle" /\ client = None /\ cmds = <<>> /\ requests = 0
    /\ awaiting = [c \in Client |-> 0]

-----------------------------------------------------------------------------
(* Bugs the properties must notice; none of them is used by Next. *)

(* The outputs are switched on again whatever track power is. *)
ExitStartAnyPower(good, n) ==
    IF session
    THEN /\ session' = FALSE /\ revived' = FALSE
         /\ main' = TRUE
         /\ result' = [ok |-> good, op |-> n]
         /\ exit' = <<"progMode", "ready", "ok">> \o
                        (IF good THEN <<"pending", "data">> ELSE <<>>)
    ELSE UNCHANGED <<session, revived, main, result, exit>>

(* A failure is not reported to the clients. *)
ExitStartNoFailure(good, n) ==
    IF session
    THEN /\ session' = FALSE /\ revived' = FALSE
         /\ main' = (main \/ power)
         /\ result' = [ok |-> good, op |-> n]
         /\ exit' = IF good THEN <<"progMode", "ready", "ok", "pending", "data">>
                            ELSE <<"progMode">>
    ELSE UNCHANGED <<session, revived, main, result, exit>>

(* The safety net is missing: only an answer ends a session. *)
TimeoutNever ==
    /\ pc0 = "timeout" /\ exit = <<>>
    /\ pc0' = "update"
    /\ UNCHANGED <<core0Vars, exit, result, prog, core1Vars, cmds>>

(* The main outputs stay on during a session. *)
OpenSessionMainOn == session' = TRUE /\ expired' = FALSE /\ UNCHANGED main

(* A refused request leaves programming mode on. *)
XnRefuseNoUndo == UNCHANGED progMode

-----------------------------------------------------------------------------
(* core 0 *)

(* _exitServiceMode() up to its first store to gCentrale; the others       *)
(* follow in program order.                                                *)
ExitStart(good, n) ==
    IF session
    THEN /\ session' = FALSE /\ revived' = FALSE
         /\ main' = (main \/ power)
         /\ result' = [ok |-> good, op |-> n]
         /\ exit' = <<"progMode", "ready", "ok">> \o
                        (IF good THEN <<"pending", "data">> ELSE <<>>)
    ELSE UNCHANGED <<session, revived, main, result, exit>>

ExitStore ==
    /\ exit # <<>>
    /\ exit' = Tail(exit)
    /\ LET store(field) == Head(exit) = field IN
         /\ progMode' = (IF store("progMode") THEN FALSE ELSE progMode)
         /\ ready'    = (IF store("ready") THEN TRUE ELSE ready)
         /\ ok'       = (IF store("ok") THEN result.ok ELSE ok)
         /\ pending'  = (IF store("pending") THEN result.op ELSE pending)
         /\ data'     = (IF store("data") THEN result.op ELSE data)
    /\ UNCHANGED <<pc0, core0Vars, result, core1Vars, cmds>>

(* _dcc.update(): nothing to report. *)
Update ==
    /\ pc0 = "update" /\ exit = <<>>
    /\ pc0' = "poll"
    /\ UNCHANGED <<core0Vars, exit, result, prog, core1Vars, cmds>>

(* _dcc.update() calls notifyCVVerify() or notifyCVNack(). *)
Answer(good) ==
    /\ pc0 = "update" /\ exit = <<>> /\ lib # None
    /\ ExitStart(good, lib)
    /\ lib' = None
    /\ pc0' = "poll"
    /\ UNCHANGED <<power, restartPending, expired, prog, core1Vars, cmds>>

OpenSession == session' = TRUE /\ expired' = FALSE /\ main' = FALSE

(* DccHal::cvRead() and cvWrite() *)
DeliverOp ==
    /\ pc0 = "poll" /\ exit = <<>>
    /\ cmds # <<>> /\ Head(cmds).type = "program"
    /\ IF session THEN UNCHANGED <<session, expired, main>> ELSE OpenSession
    /\ lib' \in {Head(cmds).op} \cup (IF lib = None THEN {} ELSE {lib})
    /\ cmds' = Tail(cmds)
    /\ UNCHANGED <<pc0, power, restartPending, revived, exit, result, prog, core1Vars>>

(* DccHal::setPower(); pending is what the caller leaves in _restartPending. *)
SetPower(on, restart) ==
    /\ power' = on /\ main' = on
    /\ restartPending' = restart
    /\ revived' = (session /\ (revived \/ on))

DeliverPower ==
    /\ pc0 = "poll" /\ exit = <<>>
    /\ cmds # <<>> /\ Head(cmds).type # "program"
    /\ SetPower(Head(cmds).type = "on", FALSE)
    /\ cmds' = Tail(cmds)
    /\ UNCHANGED <<pc0, session, expired, lib, exit, result, prog, core1Vars>>

PollDone ==
    /\ pc0 = "poll" /\ exit = <<>> /\ cmds = <<>>
    /\ pc0' = "guards"
    /\ UNCHANGED <<core0Vars, exit, result, prog, core1Vars, cmds>>

(* Power switched by core 0 itself, session or not. *)
Core0Switches(on, restart) ==
    /\ SetPower(on, restart)
    /\ UNCHANGED <<session, expired, lib, exit, result, prog, core1Vars, cmds>>

(* _checkCore1Stall(), before DccHal::loop(). *)
StallTrip ==
    /\ pc0 = "update" /\ exit = <<>> /\ "stall" \in Faults /\ power
    /\ Core0Switches(FALSE, FALSE)
    /\ UNCHANGED pc0

(* _checkCdeShort() *)
CdeShort ==
    /\ pc0 = "guards" /\ "cde" \in Faults /\ power
    /\ Core0Switches(FALSE, FALSE)
    /\ pc0' = "timeout"

(* _onGuardShort(): a restart follows if an attempt is left. *)
GuardShort ==
    /\ pc0 = "guards" /\ "bridge" \in Faults /\ power
    /\ \E left \in BOOLEAN : Core0Switches(FALSE, left)
    /\ pc0' = "timeout"

(* _autoRestart() *)
AutoRestart ==
    /\ pc0 = "guards" /\ ~power /\ restartPending
    /\ Core0Switches(TRUE, FALSE)
    /\ pc0' = "timeout"

(* Neither a short nor a restart that is due. *)
GuardsQuiet ==
    /\ pc0 = "guards"
    /\ pc0' = "timeout"
    /\ UNCHANGED <<core0Vars, exit, result, prog, core1Vars, cmds>>

(* DccHal::loop(): the safety net at its end. *)
Timeout ==
    /\ pc0 = "timeout" /\ exit = <<>>
    /\ IF session /\ expired THEN ExitStart(FALSE, 0)
                             ELSE UNCHANGED <<session, revived, main, result, exit>>
    /\ pc0' = "update"
    /\ UNCHANGED <<power, restartPending, expired, lib, prog, core1Vars, cmds>>

Expire ==
    /\ Timeouts /\ session /\ ~expired
    /\ expired' = TRUE
    /\ UNCHANGED <<pc0, trackVars, session, lib, exit, result, prog,
                   core1Vars, cmds>>

-----------------------------------------------------------------------------
(* core 1 *)

Program(n) == [type |-> "program", op |-> n]

(* handleProgRead()/handleProgWrite(): first store, *)
XnStart(c) ==
    /\ pc1 = "idle" /\ requests < MaxRequests
    /\ PollFirst => awaiting[c] = 0
    /\ requests' = requests + 1
    /\ progMode' = TRUE
    /\ client' = c /\ pc1' = "pending"
    /\ UNCHANGED <<pc0, core0Vars, exit, result, ready, ok, pending, data,
                   cmds, awaiting>>

(* second store, *)
XnPending ==
    /\ pc1 = "pending"
    /\ pending' = requests
    /\ pc1' = "dispatch"
    /\ UNCHANGED <<pc0, core0Vars, exit, result, progMode, ready, ok, data,
                   client, cmds, requests, awaiting>>

XnRefuse == progMode' = FALSE

(* and dispatch(), undone if the bus refuses. *)
XnDispatch ==
    /\ pc1 = "dispatch"
    /\ IF Len(cmds) < CommandSlots
       THEN /\ cmds' = Append(cmds, Program(requests))
            /\ awaiting' = [awaiting EXCEPT ![client] = requests]
            /\ UNCHANGED progMode
       ELSE XnRefuse /\ UNCHANGED <<cmds, awaiting>>
    /\ pc1' = "idle" /\ client' = None
    /\ UNCHANGED <<pc0, core0Vars, exit, result, ready, ok, pending, data,
                   requests>>

(* handleProgResult(): the result is claimed ... (a poll that finds none   *)
(* changes nothing)                                                        *)
XnPoll(c) ==
    /\ pc1 = "idle" /\ ready
    /\ ready' = FALSE /\ progMode' = FALSE
    /\ client' = c /\ pc1' = "reply"
    /\ UNCHANGED <<pc0, core0Vars, exit, result, ok, pending, data, cmds,
                   requests, awaiting>>

(* ... and then read: what the client is told is ok, pending and data as    *)
(* they are now (ReplyIsTheResult).                                         *)
XnReply ==
    /\ pc1 = "reply"
    /\ awaiting' = [awaiting EXCEPT ![client] = 0]
    /\ pc1' = "idle" /\ client' = None
    /\ UNCHANGED <<pc0, core0Vars, exit, result, prog, cmds, requests>>

(* Z21Lan::_handleCvRead()/_handleCvWrite(): gCentrale is left alone. *)
Z21Request ==
    /\ Z21 /\ pc1 = "idle" /\ requests < MaxRequests
    /\ requests' = requests + 1
    /\ cmds' = IF Len(cmds) < CommandSlots THEN Append(cmds, Program(requests'))
                                           ELSE cmds
    /\ UNCHANGED <<pc0, core0Vars, exit, result, prog, pc1, client, awaiting>>

(* handlePowerOn()/handlePowerOff(), as far as the outputs are concerned. *)
PowerRequest ==
    /\ pc1 = "idle" /\ requests < MaxRequests
    /\ Len(cmds) < CommandSlots
    /\ requests' = requests + 1
    /\ \E t \in PowerCmds : cmds' = Append(cmds, [type |-> t, op |-> 0])
    /\ UNCHANGED <<pc0, core0Vars, exit, result, prog, pc1, client, awaiting>>

-----------------------------------------------------------------------------
Core0 ==
    \/ ExitStore \/ Update \/ Answer(TRUE) \/ Answer(FALSE)
    \/ DeliverOp \/ DeliverPower \/ PollDone
    \/ StallTrip \/ CdeShort \/ GuardShort \/ AutoRestart \/ GuardsQuiet
    \/ Timeout
Handler == XnPending \/ XnDispatch \/ XnReply
Next ==
    \/ Core0 \/ Expire \/ Handler
    \/ \E c \in Client : XnStart(c) \/ XnPoll(c)
    \/ Z21Request \/ PowerRequest

Spec == Init /\ [][Next]_vars

(* Core 0 loops for ever, handlers run to their end, time passes, and a    *)
(* client that waits for a result keeps asking for it.  The library is not *)
(* obliged to answer.                                                      *)
FairSpec ==
    /\ Spec
    /\ WF_vars(Core0) /\ WF_vars(Expire) /\ WF_vars(Handler)
    /\ \A c \in Client : SF_vars(awaiting[c] # 0 /\ XnPoll(c))

-----------------------------------------------------------------------------
TypeOK ==
    /\ pc0 \in {"update", "poll", "guards", "timeout"}
    /\ power \in BOOLEAN /\ restartPending \in BOOLEAN /\ revived \in BOOLEAN
    /\ session \in BOOLEAN /\ expired \in BOOLEAN
    /\ main \in BOOLEAN /\ lib \in 1 .. MaxRequests \cup {None}
    /\ Len(exit) <= 5
    /\ result \in [ok : BOOLEAN, op : 0 .. MaxRequests]
    /\ progMode \in BOOLEAN /\ ready \in BOOLEAN /\ ok \in BOOLEAN
    /\ pending \in 0 .. MaxRequests /\ data \in 0 .. MaxRequests
    /\ pc1 \in {"idle", "pending", "dispatch", "reply"}
    /\ client \in Client \cup {None}
    /\ cmds \in Seq([type : {"program", "on", "off"}, op : 0 .. MaxRequests])
    /\ Len(cmds) <= CommandSlots
    /\ requests \in 0 .. MaxRequests /\ awaiting \in [Client -> 0 .. MaxRequests]

(* dcc_hal.cpp:596-607: during a session only the programming track carries *)
(* the packets, "otherwise service-mode packets [...] would reach every     *)
(* loco on the whole layout simultaneously".                                *)
MainIsolated == session => ~main

(* The part of it that the code achieves: the main outputs stay off until   *)
(* track power is switched on within the session, by whatever way.          *)
IsolatedUntilPowerOn == session /\ main => revived

(* dcc_hal.cpp:745-748: outside a session the main outputs follow track     *)
(* power, also when power was switched during the session.                  *)
MainRestored == ~session => main = power

(* xpressnet_handler.cpp:1329-1332: the station is not "stuck believing     *)
(* it's in programming mode forever, with no session to ever time out".     *)
ProgModeHasSession ==
    progMode /\ cmds = <<>> /\ pc1 = "idle" /\ exit = <<>> => session

(* dcc_hal.cpp:622-627: a session is closed whatever the decoder does.      *)
SessionEnds == session ~> ~session

(* dcc_hal.h:367-372: a client whose request was accepted is told the       *)
(* outcome "instead of "not ready" forever".                                *)
Answered == \A c \in Client : (awaiting[c] # 0) ~> (awaiting[c] = 0)

(* "otherwise returns the CV value": a successful answer is about the       *)
(* client's own operation, and a failure is reported only if it failed.     *)
ReplyIsTheResult ==
    pc1 = "reply" /\ awaiting[client] # 0 =>
        IF ok THEN pending = awaiting[client] /\ data = awaiting[client]
              ELSE result # [ok |-> TRUE, op |-> awaiting[client]]
=============================================================================
