------------------------------ MODULE TrackPower ------------------------------
(***************************************************************************)
(* Who switches track power, and who knows about it.                       *)
(*                                                                         *)
(* Core 0 owns the track (DccHal::_power).  Its loop(), LZ210.ino:585, is  *)
(* one pass after another through                                          *)
(*    stall   _checkCore1Stall()                                           *)
(*    poll    CommandBus::poll(): commands of core 1, one by one           *)
(*    cde     DccHal::_checkCdeShort()                                     *)
(*    guards  DccHal::_updateGuards(): nFAULT guards and automatic restart *)
(* and core 1 may take any number of steps between two of core 0.          *)
(* Core 1 runs the protocol handlers (XpressNet "XN", LocoNet "LN",        *)
(* LenzLAN "LAN"), which write the flags of gCentrale, dispatch commands   *)
(* and publish events, in that order and one step at a time.               *)
(*                                                                         *)
(* The two buses are taken at their specification (BusSpec), which         *)
(* CommandBus and EventBus implement: bounded, first in first out, a full  *)
(* bus refuses.  Times are abstracted to "has elapsed" booleans.  Which    *)
(* H-bridge outputs are on is the subject of ServiceMode.  A behaviour is  *)
(* one life of the station, from the end of setup() to a watchdog reset.   *)
(***************************************************************************)
EXTENDS Naturals, Sequences

CONSTANTS
    Modules,        \* the protocol modules in use, a subset of XN, LN, LAN
    Faults,         \* the faults that may occur: bridge, cde, stall
    MaxRestart,     \* nf.restart_max
    StartupPower,   \* dcc.startup_power
    CommandSlots,   \* capacity of the command bus
    EventSlots,     \* capacity of the event bus
    Feedback,       \* TRUE if RS-Bus feedback shares the event bus
    MaxRequests     \* bound on the requests core 1 receives

ASSUME TrackPowerAssumption ==
    /\ Modules \subseteq {"XN", "LN", "LAN"}
    /\ Faults \subseteq {"bridge", "cde", "stall"}
    /\ MaxRestart \in Nat /\ MaxRequests \in Nat
    /\ CommandSlots \in Nat /\ EventSlots \in Nat
    /\ StartupPower \in BOOLEAN /\ Feedback \in BOOLEAN

VARIABLES
    pc0,            \* phase of core 0's loop; "spin" once a reset is wanted
    power,          \* DccHal::_power
    restartPending, \* DccHal::_restartPending
    restartDue,     \* millis() has reached _restartAtMs
    restartCount,   \* DccHal::_restartCount
    quiet,          \* 10 s have passed since _lastRestartMs
    rail,           \* sLastRailpowerState
    tripped,        \* sTripped of _checkCore1Stall()
    shorted,        \* there is a short circuit on the track
    hung,           \* core 1 hangs
    beat,           \* age of gCore1LastAliveMs: "new", "old" (the stall check has
                    \* run in a hang since), "late" (older than sys.core1_stall_ms)
    running,        \* gCore1Running
    todo,           \* what core 1's current handler has still to do
    gOff, gShort,   \* gCentrale.trackPowerOff, gCentrale.shortCircuit
    lnPower,        \* TRK_POWER_ON in SlotServer::_trkStatus
    resetReq,       \* gResetRequested
    cmds, events,   \* the two buses
    clients,        \* track state last broadcast to the XpressNet/LAN clients
    requests,       \* requests received so far
    offCause        \* history: what switched power off last; the stall check's
                    \* power-off lapses when core 1 moves again

trackVars   == <<power, restartPending, restartCount, rail, events, offCause>>
centralVars == <<gOff, gShort, lnPower>>
timerVars   == <<restartDue, quiet>>
core1Vars   == <<hung, beat, running, todo, resetReq, clients, requests>>
vars == <<pc0, trackVars, centralVars, timerVars, core1Vars, tripped,
          shorted, cmds>>

(* setup(): LZ210.ino:398-443. *)
Init ==
    /\ pc0 = "stall"
    /\ power = StartupPower
    /\ restartPending = FALSE /\ restartDue = FALSE /\ restartCount = 0
    /\ quiet = FALSE
    /\ rail = IF StartupPower THEN "on" ELSE "unknown"
    /\ events = IF StartupPower /\ EventSlots > 0 THEN <<"on">> ELSE <<>>
    /\ tripped = FALSE
    /\ hung = FALSE /\ beat = "new" /\ running = FALSE /\ todo = <<>>
    /\ gOff = ~StartupPower /\ gShort = FALSE /\ lnPower = FALSE
    /\ resetReq = FALSE
    /\ cmds = <<>>
    /\ clients = "unknown"
    /\ offCause = "boot"
    /\ shorted = FALSE /\ requests = 0

-----------------------------------------------------------------------------
(* EventBus::publish() and notifyRailpower(). *)

Offer(e) == IF Len(events) < EventSlots THEN Append(events, e) ELSE events

Rail(s) ==
    /\ rail' = s
    /\ events' = IF s = rail THEN events ELSE Offer(s)

(* DccHal::setPower().  pending: what the caller leaves in _restartPending; *)
(* count: what it leaves in _restartCount.                                  *)
SetPower(on, pending, count) ==
    /\ power' = on
    /\ restartPending' = pending
    /\ restartCount' = count
    /\ Rail(IF on THEN "on" ELSE "off")

(* Bug: a power-off does not cancel a pending restart. *)
PowerOffKeepsRestart(cause) ==
    /\ SetPower(FALSE, restartPending, restartCount)
    /\ offCause' = cause

PowerOff(cause) ==
    /\ SetPower(FALSE, FALSE, restartCount)
    /\ offCause' = cause

PowerOn ==
    /\ SetPower(TRUE, FALSE, 0)
    /\ UNCHANGED offCause

-----------------------------------------------------------------------------
(* core 0: the top of loop() *)

(* loop() sees gResetRequested and waits for the watchdog. *)
EnterSpin ==
    /\ pc0 = "stall" /\ resetReq
    /\ pc0' = "spin"
    /\ UNCHANGED <<trackVars, centralVars, timerVars, core1Vars, tripped,
                   shorted, cmds>>

(* The limit (2 s) is far longer than a pass of core 0 (milliseconds), so   *)
(* the check runs before a hang makes the heartbeat late.                   *)
Seen == IF hung /\ beat = "new" THEN "old" ELSE beat

(* The power-off lapses at once if core 1 runs again, or has left a POWER_ON *)
(* on the bus, which is delivered right after it.                           *)
StallCause ==
    IF hung /\ \A i \in 1 .. Len(cmds) : cmds[i].type # "on" THEN "stall" ELSE "lapsed"

(* Bug: the trip records the power-off but leaves the outputs on. *)
StallTripFlagOnly ==
    /\ pc0 = "stall" /\ ~resetReq
    /\ running /\ beat = "late" /\ ~tripped
    /\ tripped' = TRUE
    /\ gOff' = TRUE
    /\ offCause' = StallCause
    /\ pc0' = "poll"
    /\ UNCHANGED <<power, restartPending, restartCount, rail, events, gShort,
                   lnPower, timerVars, hung, beat, running, todo, resetReq,
                   clients, requests, shorted, cmds>>

(* Bug: the check is not re-armed when core 1 runs again. *)
StallQuietStaysTripped ==
    /\ pc0 = "stall" /\ ~resetReq
    /\ ~(running /\ beat = "late" /\ ~tripped)
    /\ beat' = Seen
    /\ pc0' = "poll"
    /\ UNCHANGED <<trackVars, centralVars, timerVars, hung, running, todo,
                   resetReq, clients, requests, tripped, shorted, cmds>>

(* _checkCore1Stall(): the limit is passed. *)
StallTrip ==
    /\ pc0 = "stall" /\ ~resetReq
    /\ running /\ beat = "late" /\ ~tripped
    /\ tripped' = TRUE
    /\ IF power THEN PowerOff(StallCause) /\ gOff' = TRUE
                ELSE UNCHANGED <<trackVars, gOff>>
    /\ pc0' = "poll"
    /\ UNCHANGED <<gShort, lnPower, timerVars, hung, beat, running, todo,
                   resetReq, clients, requests, shorted, cmds>>

(* _checkCore1Stall(): nothing to do, or core 1 runs again. *)
StallQuiet ==
    /\ pc0 = "stall" /\ ~resetReq
    /\ ~(running /\ beat = "late" /\ ~tripped)
    /\ tripped' = (tripped /\ (running => beat = "late"))
    /\ beat' = Seen
    /\ pc0' = "poll"
    /\ UNCHANGED <<trackVars, centralVars, timerVars, hung, running, todo,
                   resetReq, clients, requests, shorted, cmds>>

-----------------------------------------------------------------------------
(* core 0: CommandBus::poll() delivers to LocoNetModule::_cmdHandler() and  *)
(* to DccHal::_onCommand(); a command of the LocoNet module skips the       *)
(* former.                                                                  *)

(* Bug: the shadow of the library's rail state is left at "on". *)
EmergencyStopNoShadow ==
    /\ events' = Offer("estop")
    /\ UNCHANGED <<power, restartPending, restartCount, rail, offCause>>

(* DccHal::emergencyStop() *)
EmergencyStop ==
    /\ rail' = "estop"
    /\ events' = Offer("estop")
    /\ UNCHANGED <<power, restartPending, restartCount, offCause>>

LocoNetTold(c, on) == lnPower' = IF c.src = "LN" THEN lnPower ELSE on

Deliver ==
    /\ pc0 = "poll" /\ cmds # <<>>
    /\ LET c == Head(cmds) IN
         \/ /\ c.type = "on"
            /\ LocoNetTold(c, TRUE)
            /\ PowerOn
         \/ /\ c.type = "off"
            /\ LocoNetTold(c, FALSE)
            /\ PowerOff("command")
         \/ /\ c.type = "estop"
            /\ EmergencyStop
            /\ UNCHANGED lnPower
    /\ cmds' = Tail(cmds)
    /\ UNCHANGED <<pc0, gOff, gShort, timerVars, core1Vars, tripped, shorted>>

PollDone ==
    /\ pc0 = "poll" /\ cmds = <<>>
    /\ pc0' = "cde"
    /\ UNCHANGED <<trackVars, centralVars, timerVars, core1Vars, tripped,
                   shorted, cmds>>

-----------------------------------------------------------------------------
(* core 0: DccHal::loop() after poll() *)

(* The POWER_OFF both detectors dispatch on core 0 reaches the LocoNet     *)
(* module at once; DccHal, its source, is skipped.                         *)
FlagShort == gOff' = TRUE /\ gShort' = TRUE /\ lnPower' = FALSE

(* Bug: the booster's short is restarted like a bridge fault. *)
CdeShortRestarts ==
    /\ pc0 = "cde" /\ "cde" \in Faults
    /\ power /\ shorted
    /\ FlagShort
    /\ SetPower(FALSE, restartCount < MaxRestart, restartCount)
    /\ offCause' = "cde"
    /\ pc0' = "guards"
    /\ UNCHANGED <<timerVars, core1Vars, tripped, shorted, cmds>>

(* _checkCdeShort() in mode 0. *)
CdeShort ==
    /\ pc0 = "cde" /\ "cde" \in Faults
    /\ power /\ shorted
    /\ FlagShort
    /\ PowerOff("cde")
    /\ pc0' = "guards"
    /\ UNCHANGED <<timerVars, core1Vars, tripped, shorted, cmds>>

CdeQuiet ==
    /\ pc0 = "cde"
    /\ pc0' = "guards"
    /\ UNCHANGED <<trackVars, centralVars, timerVars, core1Vars, tripped,
                   shorted, cmds>>

(* "A restart that then ran 10s without incident starts the count over." *)
CountAfterQuiet == IF restartCount > 0 /\ quiet THEN 0 ELSE restartCount

(* Bug: one restart more than nf.restart_max allows. *)
GuardShortOneMore ==
    /\ pc0 = "guards" /\ "bridge" \in Faults
    /\ power /\ shorted
    /\ FlagShort
    /\ SetPower(FALSE, CountAfterQuiet <= MaxRestart, CountAfterQuiet)
    /\ offCause' = "guard"
    /\ restartDue' = FALSE
    /\ pc0' = "stall"
    /\ UNCHANGED <<quiet, core1Vars, tripped, shorted, cmds>>

(* _onGuardShort(): power off, then re-arm the restart if any is left. *)
GuardShort ==
    /\ pc0 = "guards" /\ "bridge" \in Faults
    /\ power /\ shorted
    /\ FlagShort
    /\ SetPower(FALSE, CountAfterQuiet < MaxRestart, CountAfterQuiet)
    /\ offCause' = "guard"
    /\ restartDue' = FALSE
    /\ pc0' = "stall"
    /\ UNCHANGED <<quiet, core1Vars, tripped, shorted, cmds>>

GuardQuiet ==
    /\ pc0 = "guards" /\ power
    /\ restartCount' = CountAfterQuiet
    /\ pc0' = "stall"
    /\ UNCHANGED <<power, restartPending, rail, events, offCause, centralVars,
                   timerVars, core1Vars, tripped, shorted, cmds>>

(* Bug: setPower(TRUE) takes the restart for a manual power-on. *)
AutoRestartForgetsCount ==
    /\ pc0 = "guards" /\ ~power
    /\ restartPending /\ restartDue
    /\ gOff' = FALSE /\ gShort' = FALSE /\ lnPower' = TRUE
    /\ SetPower(TRUE, FALSE, 0)
    /\ quiet' = FALSE
    /\ pc0' = "stall"
    /\ UNCHANGED <<offCause, restartDue, core1Vars, tripped, shorted, cmds>>

(* _autoRestart(): the POWER_ON it dispatches reaches LocoNet only. *)
AutoRestart ==
    /\ pc0 = "guards" /\ ~power
    /\ restartPending /\ restartDue
    /\ gOff' = FALSE /\ gShort' = FALSE /\ lnPower' = TRUE
    /\ SetPower(TRUE, FALSE, restartCount + 1)
    /\ quiet' = FALSE
    /\ pc0' = "stall"
    /\ UNCHANGED <<offCause, restartDue, core1Vars, tripped, shorted, cmds>>

GuardsOff ==
    /\ pc0 = "guards" /\ ~power
    /\ ~(restartPending /\ restartDue)
    /\ pc0' = "stall"
    /\ UNCHANGED <<trackVars, centralVars, timerVars, core1Vars, tripped,
                   shorted, cmds>>

-----------------------------------------------------------------------------
(* core 1: the handlers.  Receive(m, ...) is the part of a handler before  *)
(* its dispatch(); the rest is in todo.                                    *)

Cmd(t, s) == [op |-> "dispatch", type |-> t, src |-> s]
Ev(t)     == [op |-> "publish", type |-> t, src |-> "LN"]

Receive(m, rest) ==
    /\ m \in Modules
    /\ ~hung /\ todo = <<>>
    /\ requests < MaxRequests
    /\ requests' = requests + 1
    /\ todo' = rest
    /\ UNCHANGED <<pc0, trackVars, timerVars, hung, beat, running, tripped,
                   shorted, cmds>>

(* XpressNetHandler::handlePowerOn() *)
XnPowerOn ==
    /\ Receive("XN", <<Cmd("on", "XN")>>)
    /\ gOff' = FALSE /\ gShort' = FALSE
    /\ UNCHANGED <<lnPower, resetReq, clients>>

(* XpressNetHandler::handlePowerOff() *)
XnPowerOff ==
    /\ Receive("XN", <<Cmd("off", "XN")>>)
    /\ gOff' = TRUE
    /\ UNCHANGED <<gShort, lnPower, resetReq, clients>>

(* XpressNetHandler::handleEmergStop(); its own broadcast follows a        *)
(* successful dispatch.                                                    *)
XnEmergStop ==
    /\ Receive("XN", <<Cmd("estop", "XN")>>)
    /\ UNCHANGED <<centralVars, resetReq, clients>>

(* XpressNetHandler::handleReset() *)
XnReset ==
    /\ Receive("XN", <<>>)
    /\ gOff' = TRUE
    /\ clients' = "off"
    /\ resetReq' = TRUE
    /\ UNCHANGED <<gShort, lnPower>>

(* SlotServer::_handleGpOn(), past its test for "already on, or blocked". *)
LnGpOn ==
    /\ ~gShort /\ gOff
    /\ Receive("LN", <<Cmd("on", "LN"), Ev("on")>>)
    /\ gOff' = FALSE /\ lnPower' = TRUE
    /\ UNCHANGED <<gShort, resetReq, clients>>

(* SlotServer::_handleGpOff(), past its test for "already off". *)
LnGpOff ==
    /\ ~gOff
    /\ Receive("LN", <<Cmd("off", "LN"), Ev("off")>>)
    /\ gOff' = TRUE /\ lnPower' = FALSE
    /\ UNCHANGED <<gShort, resetReq, clients>>

(* SlotServer::_handleIdle() *)
LnIdle ==
    /\ Receive("LN", <<Cmd("estop", "LN")>>)
    /\ UNCHANGED <<centralVars, resetReq, clients>>

(* LenzLan::_onClientLost() with xn.lan_lost_action = 2. *)
LanClientLost ==
    /\ ~gOff
    /\ Receive("LAN", <<Cmd("off", "LAN")>>)
    /\ gOff' = TRUE
    /\ UNCHANGED <<gShort, lnPower, resetReq, clients>>

(* CommandBus::dispatch() on core 1, and what handleEmergStop() does after. *)
Dispatch ==
    /\ ~hung /\ todo # <<>> /\ Head(todo).op = "dispatch"
    /\ LET c    == Head(todo)
           fits == Len(cmds) < CommandSlots
       IN  /\ cmds' = IF fits THEN Append(cmds, c) ELSE cmds
           /\ clients' = IF fits /\ c.type = "estop" /\ c.src = "XN"
                         THEN "estop" ELSE clients
    /\ todo' = Tail(todo)
    /\ UNCHANGED <<pc0, trackVars, centralVars, timerVars, hung, beat,
                   running, resetReq, requests, tripped, shorted>>

(* SlotServer::_publishPowerEvent() *)
Publish ==
    /\ ~hung /\ todo # <<>> /\ Head(todo).op = "publish"
    /\ events' = Offer(Head(todo).type)
    /\ todo' = Tail(todo)
    /\ UNCHANGED <<pc0, power, restartPending, restartCount, rail, offCause,
                   centralVars, timerVars, hung, beat, running, resetReq,
                   clients, requests, tripped, shorted, cmds>>

(* EventBus::poll() on core 1: the protocol modules broadcast. *)
Broadcast ==
    /\ ~hung /\ todo = <<>> /\ events # <<>>
    /\ clients' = IF Head(events) = "feedback" THEN clients ELSE Head(events)
    /\ events' = Tail(events)
    /\ UNCHANGED <<pc0, power, restartPending, restartCount, rail, offCause,
                   centralVars, timerVars, hung, beat, running, todo,
                   resetReq, requests, tripped, shorted, cmds>>

(* ModuleRegistry::loopCore1() and loop1(): a module call has returned. *)
Heartbeat ==
    /\ ~hung /\ todo = <<>>
    /\ beat' = "new" /\ running' = TRUE
    /\ UNCHANGED <<pc0, trackVars, centralVars, timerVars, hung, todo,
                   resetReq, clients, requests, tripped, shorted, cmds>>

(* A module call on core 1 does not return for a while, or for ever.  One   *)
(* call may hang several times and do something in between: only its return *)
(* is a heartbeat.                                                          *)
Hang ==
    /\ "stall" \in Faults /\ ~hung /\ hung' = TRUE
    /\ UNCHANGED <<pc0, trackVars, centralVars, timerVars, beat, running, todo,
                   resetReq, clients, requests, tripped, shorted, cmds>>

Resume ==
    /\ hung /\ hung' = FALSE
    /\ offCause' = IF offCause = "stall" THEN "lapsed" ELSE offCause
    /\ UNCHANGED <<pc0, power, restartPending, restartCount, rail, events,
                   centralVars, timerVars, beat, running, todo, resetReq,
                   clients, requests, tripped, shorted, cmds>>

(* The limit passes.  Without a hang it does not: core 1's calls are short. *)
BecomeLate ==
    /\ hung /\ beat = "old" /\ beat' = "late"
    /\ UNCHANGED <<pc0, trackVars, centralVars, timerVars, hung, running, todo,
                   resetReq, clients, requests, tripped, shorted, cmds>>

-----------------------------------------------------------------------------
(* the world *)

ShortAppears ==
    /\ Faults \cap {"bridge", "cde"} # {} /\ ~shorted /\ shorted' = TRUE
    /\ UNCHANGED <<pc0, trackVars, centralVars, timerVars, core1Vars, tripped, cmds>>

ShortGoes ==
    /\ shorted /\ shorted' = FALSE
    /\ UNCHANGED <<pc0, trackVars, centralVars, timerVars, core1Vars, tripped, cmds>>

RestartFalls ==
    /\ restartPending /\ ~restartDue /\ restartDue' = TRUE
    /\ UNCHANGED <<pc0, trackVars, centralVars, quiet, core1Vars, tripped,
                   shorted, cmds>>

(* The guards detect a lasting short within tens of milliseconds, so 10 s  *)
(* do not pass while the track is on and shorted.                          *)
TenSecondsPass ==
    /\ restartCount > 0 /\ power /\ ~shorted /\ ~quiet /\ quiet' = TRUE
    /\ UNCHANGED <<pc0, trackVars, centralVars, restartDue, core1Vars, tripped,
                   shorted, cmds>>

(* RsBusHal::loop() on core 0 publishes sensor changes. *)
FeedbackEvent ==
    /\ Feedback /\ Len(events) < EventSlots
    /\ events' = Offer("feedback")
    /\ UNCHANGED <<pc0, power, restartPending, restartCount, rail, offCause,
                   centralVars, timerVars, core1Vars, tripped, shorted, cmds>>

-----------------------------------------------------------------------------
Core0 ==
    \/ EnterSpin \/ StallTrip \/ StallQuiet
    \/ Deliver \/ PollDone
    \/ CdeShort \/ CdeQuiet
    \/ GuardShort \/ GuardQuiet \/ AutoRestart \/ GuardsOff
Requests ==
    \/ XnPowerOn \/ XnPowerOff \/ XnEmergStop \/ XnReset
    \/ LnGpOn \/ LnGpOff \/ LnIdle \/ LanClientLost
Core1 == Dispatch \/ Publish \/ Broadcast
Core1Health == Heartbeat \/ Hang \/ Resume \/ BecomeLate
World ==
    \/ ShortAppears \/ ShortGoes \/ RestartFalls \/ TenSecondsPass
    \/ FeedbackEvent

Next == Core0 \/ Requests \/ Core1 \/ Core1Health \/ World

Spec == Init /\ [][Next]_vars

(* Core 0 loops for ever and so does core 1 unless it hangs; clocks        *)
(* advance; a short that stays is detected.  Nothing makes requests come,  *)
(* core 1 hang or resume, a short appear or go.                            *)
FairSpec ==
    /\ Spec
    /\ WF_vars(Core0) /\ WF_vars(Core1) /\ WF_vars(Heartbeat)
    /\ WF_vars(RestartFalls) /\ WF_vars(BecomeLate)
    /\ SF_vars(GuardShort)

-----------------------------------------------------------------------------
Message == [op : {"dispatch", "publish"}, type : {"on", "off", "estop"},
            src : {"XN", "LN", "LAN"}]

TypeOK ==
    /\ pc0 \in {"stall", "poll", "cde", "guards", "spin"}
    /\ power \in BOOLEAN /\ restartPending \in BOOLEAN /\ restartDue \in BOOLEAN
    /\ restartCount \in 0 .. MaxRestart
    /\ quiet \in BOOLEAN /\ tripped \in BOOLEAN /\ shorted \in BOOLEAN
    /\ rail \in {"unknown", "on", "off", "estop"}
    /\ hung \in BOOLEAN /\ beat \in {"new", "old", "late"} /\ running \in BOOLEAN
    /\ todo \in Seq(Message) /\ cmds \in Seq(Message)
    /\ Len(cmds) <= CommandSlots
    /\ gOff \in BOOLEAN /\ gShort \in BOOLEAN /\ lnPower \in BOOLEAN
    /\ resetReq \in BOOLEAN
    /\ events \in Seq({"on", "off", "estop", "feedback"})
    /\ clients \in {"unknown", "on", "off", "estop"}
    /\ requests \in 0 .. MaxRequests
    /\ offCause \in {"boot", "command", "cde", "guard", "stall", "lapsed"}

(* _onGuardShort()/_autoRestart()/setPower(): an automatic restart is only *)
(* ever outstanding while power is off because a bridge guard cut it; any  *)
(* other power-off, and any power-on, has cancelled it ("any power-off     *)
(* cancels a pending restart"), and attempts are left.                     *)
RestartJustified ==
    restartPending => /\ ~power
                      /\ offCause = "guard"
                      /\ restartCount < MaxRestart

(* The same for steps: power comes on only by a POWER_ON command or by an  *)
(* automatic restart after a guard's power-off, and then the restart uses  *)
(* up one of the MaxRestart attempts.                                      *)
ComesOnBy ==
    \/ pc0 = "poll" /\ cmds # <<>> /\ Head(cmds).type = "on"
    \/ /\ offCause = "guard" /\ restartCount < MaxRestart
       /\ restartCount' = restartCount + 1
PowerOnJustified == [][~power /\ power' => ComesOnBy]_vars

Quiescent == pc0 = "stall" /\ cmds = <<>> /\ todo = <<>>

(* LZ210.ino:515-521: while core 1 has shown no sign of life for longer    *)
(* than the limit, power is off.  "Power stays off if core1 recovers:       *)
(* switching it back on is the user's / Rocrail's decision".                *)
StalledMeansOff == tripped /\ hung /\ beat = "late" => ~power

(* The part of it that the code achieves: power that the check itself has   *)
(* cut stays off until core 1 moves again, unless a POWER_ON was already    *)
(* on the bus; no restart and no other command brings it back.              *)
StallHolds == offCause = "stall" => ~power

(* LZ210.ino:515-517: "as soon as core1 has shown no sign of life for       *)
(* longer than sys.core1_stall_ms [...] core0 switches track power off".    *)
(* Whenever core 1 hangs before the limit has passed, power goes off or     *)
(* core 1 moves; also the second time, after a recovery.                    *)
StallCutsPower ==
    (hung /\ beat # "late" /\ running /\ power /\ ~resetReq) ~> (~power \/ ~hung)

(* slot_server.cpp:957-958, "if track power is already OFF (gCentrale.     *)
(* trackPowerOff already true)": when nothing is under way the flag and    *)
(* the track agree, so that a GPOFF or a lost client is never ignored      *)
(* while power is on.                                                      *)
FlagTracksPower == Quiescent /\ ~resetReq => gOff = ~power

(* notifyRailpower()/emergencyStop(): once the events have been delivered, *)
(* what the clients were last told is what the track last did; the         *)
(* de-duplication has swallowed no genuine change.                         *)
ClientsKnow == Quiescent /\ ~resetReq /\ events = <<>> => clients = rail

(* _onGuardShort(): a short that never goes away is not powered for ever:  *)
(* once the requests have stopped, the attempts run out and power stays    *)
(* off.  (After a reset request core 0 looks after nothing any more.)      *)
LastingShortEndsOff == <>[]shorted /\ []~resetReq => <>[]~power
=============================================================================
