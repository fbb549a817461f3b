--------------------------- MODULE TrackPowerProofs ---------------------------
(***************************************************************************)
(* The automatic restart is never outstanding, and never executed, when it *)
(* should not be: for any modules, faults, bus capacities and number of    *)
(* attempts.  The invariant is RestartJustified itself, together with the  *)
(* types: the bound on restartCount rests on it, since a restart uses up   *)
(* an attempt that must have been left when it was armed.                  *)
(*                                                                         *)
(* Below that, the guards of the H-bridges: the inrush pattern never stays *)
(* behind, and a loco has the whole inrush time to charge.                 *)
(***************************************************************************)
EXTENDS MCTrackPower, SequenceTheorems, TLAPS

Events == {"on", "off", "estop", "feedback"}

(* The types of everything but the three queues. *)
FlagsOK ==
    /\ power \in BOOLEAN /\ restartPending \in BOOLEAN /\ restartDue \in BOOLEAN
    /\ quiet \in BOOLEAN /\ tripped \in BOOLEAN /\ shorted \in BOOLEAN
    /\ hung \in BOOLEAN /\ running \in BOOLEAN /\ resetReq \in BOOLEAN
    /\ gOff \in BOOLEAN /\ gShort \in BOOLEAN /\ lnPower \in BOOLEAN

PhasesOK ==
    /\ pc0 \in {"stall", "poll", "cde", "guards", "spin"}
    /\ rail \in {"unknown", "on", "off", "estop"}
    /\ beat \in {"new", "old", "late"}
    /\ clients \in {"unknown", "on", "off", "estop"}
    /\ offCause \in {"boot", "command", "cde", "guard", "stall", "lapsed"}
    /\ restartCount \in 0 .. MaxRestart
    /\ requests \in 0 .. MaxRequests

QueuesOK ==
    /\ todo \in Seq(Message) /\ cmds \in Seq(Message)
    /\ Len(cmds) <= CommandSlots
    /\ events \in Seq(Events)

IInv == FlagsOK /\ PhasesOK /\ QueuesOK /\ RestartJustified

(* Publishing keeps the event queue a sequence of events. *)
LEMMA OfferType ==
    ASSUME events \in Seq(Events), NEW e \in Events
    PROVE  Offer(e) \in Seq(Events)
BY DEF Offer

(* Taking the head off a queue: what is taken and what is left. *)
LEMMA TakeType ==
    ASSUME NEW S, NEW q \in Seq(S), q # <<>>
    PROVE  /\ Head(q) \in S /\ Tail(q) \in Seq(S)
           /\ Len(Tail(q)) = Len(q) - 1
BY HeadTailProperties

(* setPower() touches the power state, the rail shadow and the event queue. *)
LEMMA SetPowerType ==
    ASSUME IInv, NEW on \in BOOLEAN, NEW p, NEW n, SetPower(on, p, n)
    PROVE  /\ power' = on /\ restartPending' = p /\ restartCount' = n
           /\ rail' \in {"on", "off"}
           /\ events' \in Seq(Events)
<1>1. power' = on /\ restartPending' = p /\ restartCount' = n
  BY DEF SetPower
<1>2. rail' = (IF on THEN "on" ELSE "off")
  BY DEF SetPower, Rail
<1>3. events' \in Seq(Events)
  <2>1. Offer("on") \in Seq(Events) /\ Offer("off") \in Seq(Events)
    BY OfferType DEF IInv, QueuesOK, Events
  <2> QED BY <2>1 DEF SetPower, Rail, IInv, QueuesOK
<1> QED BY <1>1, <1>2, <1>3

(* The initial state, with power on or off. *)
LEMMA InitIInv == Init => IInv
<1> SUFFICES ASSUME Init PROVE IInv
  OBVIOUS
<1>1. FlagsOK
  <2>1. gOff \in BOOLEAN /\ power \in BOOLEAN
    BY TrackPowerAssumption, Zenon DEF Init
  <2>2. /\ restartPending \in BOOLEAN /\ restartDue \in BOOLEAN
        /\ quiet \in BOOLEAN /\ tripped \in BOOLEAN /\ shorted \in BOOLEAN
        /\ hung \in BOOLEAN /\ running \in BOOLEAN /\ resetReq \in BOOLEAN
    BY Zenon DEF Init
  <2>3. gShort \in BOOLEAN /\ lnPower \in BOOLEAN
    BY Zenon DEF Init
  <2> QED BY <2>1, <2>2, <2>3 DEF FlagsOK
<1>2. PhasesOK
  BY TrackPowerAssumption DEF Init, PhasesOK
<1>3. QueuesOK
  <2>1. <<"on">> \in Seq(Events) /\ <<>> \in Seq(Events)
    BY DEF Events
  <2>2. events \in Seq(Events)
    BY <2>1, Zenon DEF Init
  <2>3. todo \in Seq(Message) /\ cmds \in Seq(Message) /\ Len(cmds) = 0
    BY DEF Init
  <2> QED BY <2>2, <2>3, TrackPowerAssumption DEF QueuesOK
<1>4. RestartJustified
  BY DEF Init, RestartJustified
<1> QED BY <1>1, <1>2, <1>3, <1>4 DEF IInv

-----------------------------------------------------------------------------
(* A step that switches nothing, queues nothing and takes nothing. *)
LEMMA FrameKeeps ==
    ASSUME IInv, FlagsOK', PhasesOK', UNCHANGED <<todo, cmds, events>>,
           UNCHANGED <<power, restartPending, restartCount>>,
           UNCHANGED offCause \/ offCause # "guard"
    PROVE  IInv'
<1>1. QueuesOK'
  BY DEF IInv, QueuesOK
<1>2. RestartJustified'
  BY DEF IInv, RestartJustified
<1> QED BY <1>1, <1>2 DEF IInv

-----------------------------------------------------------------------------
(* Core 0 going on to its next phase. *)
LEMMA PhaseKeeps ==
    ASSUME IInv, EnterSpin \/ StallQuiet \/ PollDone \/ CdeQuiet \/ GuardsOff
    PROVE  IInv'
<1>1. CASE EnterSpin
  BY <1>1, FrameKeeps DEF EnterSpin, trackVars, centralVars, timerVars,
     core1Vars, IInv, FlagsOK, PhasesOK
<1>2. CASE StallQuiet
  <2>1. tripped' \in BOOLEAN
    BY <1>2, Zenon DEF StallQuiet
  <2>2. UNCHANGED <<power, restartPending, restartDue, quiet, shorted, hung,
                    running, resetReq, gOff, gShort, lnPower>>
    BY <1>2 DEF StallQuiet, trackVars, centralVars, timerVars
  <2>3. FlagsOK'
    BY <2>1, <2>2 DEF IInv, FlagsOK
  <2>4. PhasesOK'
    BY <1>2 DEF StallQuiet, Seen, trackVars, IInv, PhasesOK
  <2> QED BY <1>2, <2>3, <2>4, FrameKeeps DEF StallQuiet, trackVars
<1>3. CASE PollDone
  BY <1>3, FrameKeeps DEF PollDone, trackVars, centralVars, timerVars,
     core1Vars, IInv, FlagsOK, PhasesOK
<1>4. CASE CdeQuiet
  BY <1>4, FrameKeeps DEF CdeQuiet, trackVars, centralVars, timerVars,
     core1Vars, IInv, FlagsOK, PhasesOK
<1>5. CASE GuardsOff
  BY <1>5, FrameKeeps DEF GuardsOff, trackVars, centralVars, timerVars,
     core1Vars, IInv, FlagsOK, PhasesOK
<1> QED BY <1>1, <1>2, <1>3, <1>4, <1>5

(* Core 1 hanging and coming back. *)
LEMMA HealthKeeps ==
    ASSUME IInv, Heartbeat \/ Hang \/ Resume \/ BecomeLate
    PROVE  IInv'
<1>1. CASE Heartbeat
  <2>1. FlagsOK'
    BY <1>1 DEF Heartbeat, trackVars, centralVars, timerVars, core1Vars,
                IInv, FlagsOK
  <2>2. PhasesOK'
    BY <1>1 DEF Heartbeat, trackVars, core1Vars, IInv, PhasesOK
  <2> QED BY <1>1, <2>1, <2>2, FrameKeeps DEF Heartbeat, trackVars, core1Vars
<1>2. CASE Hang
  BY <1>2, FrameKeeps DEF Hang, trackVars, centralVars, timerVars,
     core1Vars, IInv, FlagsOK, PhasesOK
<1>3. CASE Resume
  <2>1. /\ UNCHANGED <<pc0, power, restartPending, restartCount, rail, events, gOff, gShort,
                       lnPower, restartDue, quiet, beat, running, todo, resetReq,
                       clients, requests, tripped, shorted, cmds>>
        /\ hung' = FALSE
        /\ offCause' = (IF offCause = "stall" THEN "lapsed" ELSE offCause)
    BY <1>3 DEF Resume, centralVars, timerVars
  <2>2. FlagsOK'
    BY <2>1 DEF IInv, FlagsOK
  <2>3. PhasesOK'
    BY <2>1 DEF IInv, PhasesOK
  <2> QED BY <2>1, <2>2, <2>3, FrameKeeps
<1>4. CASE BecomeLate
  BY <1>4, FrameKeeps DEF BecomeLate, trackVars, centralVars, timerVars,
     core1Vars, IInv, FlagsOK, PhasesOK
<1> QED BY <1>1, <1>2, <1>3, <1>4

(* Short circuits and clocks. *)
LEMMA WorldKeeps ==
    ASSUME IInv, ShortAppears \/ ShortGoes \/ RestartFalls \/ TenSecondsPass
    PROVE  IInv'
<1>1. CASE ShortAppears
  BY <1>1, FrameKeeps DEF ShortAppears, trackVars, centralVars, timerVars,
     core1Vars, IInv, FlagsOK, PhasesOK
<1>2. CASE ShortGoes
  <2>1. FlagsOK'
    BY <1>2 DEF ShortGoes, trackVars, centralVars, timerVars, core1Vars,
                IInv, FlagsOK
  <2>2. PhasesOK'
    BY <1>2 DEF ShortGoes, trackVars, core1Vars, IInv, PhasesOK
  <2> QED BY <1>2, <2>1, <2>2, FrameKeeps DEF ShortGoes, trackVars, core1Vars
<1>3. CASE RestartFalls
  BY <1>3, FrameKeeps DEF RestartFalls, trackVars, centralVars, timerVars,
     core1Vars, IInv, FlagsOK, PhasesOK
<1>4. CASE TenSecondsPass
  BY <1>4, FrameKeeps DEF TenSecondsPass, trackVars, centralVars, timerVars,
     core1Vars, IInv, FlagsOK, PhasesOK
<1> QED BY <1>1, <1>2, <1>3, <1>4

-----------------------------------------------------------------------------
(* Core 0 switches power. *)
LEMMA StallTripKeeps ==
    ASSUME IInv, StallTrip
    PROVE  IInv'
<1>0. /\ pc0' = "poll" /\ tripped' = TRUE /\ UNCHANGED beat
      /\ UNCHANGED <<gShort, lnPower, restartDue, quiet, hung, running, todo,
                     resetReq, clients, requests, shorted, cmds>>
  BY DEF StallTrip, timerVars
<1>1. CASE power
  <2>1. SetPower(FALSE, FALSE, restartCount) /\ gOff' = TRUE
        /\ offCause' \in {"stall", "lapsed"}
    BY <1>1 DEF StallTrip, PowerOff, StallCause
  <2>2. /\ power' = FALSE /\ restartPending' = FALSE
        /\ restartCount' = restartCount /\ rail' \in {"on", "off"}
        /\ events' \in Seq(Events)
    BY <2>1, SetPowerType
  <2>3. FlagsOK'
    BY <1>0, <2>1, <2>2 DEF IInv, FlagsOK
  <2>4. PhasesOK'
    BY <1>0, <2>1, <2>2 DEF IInv, PhasesOK
  <2>5. QueuesOK'
    BY <1>0, <2>2 DEF IInv, QueuesOK
  <2>6. RestartJustified'
    BY <2>2 DEF RestartJustified
  <2> QED BY <2>3, <2>4, <2>5, <2>6 DEF IInv
<1>2. CASE ~power
  <2>1. UNCHANGED <<power, restartPending, restartCount, rail, events,
                    offCause, gOff>>
    BY <1>2 DEF StallTrip, trackVars
  <2>2. FlagsOK'
    BY <1>0, <2>1 DEF IInv, FlagsOK
  <2>3. PhasesOK'
    BY <1>0, <2>1 DEF IInv, PhasesOK
  <2> QED BY <1>0, <2>1, <2>2, <2>3, FrameKeeps
<1> QED BY <1>1, <1>2

LEMMA DeliverKeeps ==
    ASSUME IInv, Deliver
    PROVE  IInv'
<1> DEFINE c == Head(cmds)
<1>0. /\ UNCHANGED <<pc0, gOff, gShort, restartDue, quiet, hung, beat, running,
                     todo, resetReq, clients, requests, tripped, shorted>>
      /\ cmds # <<>> /\ cmds' = Tail(cmds)
  BY DEF Deliver, timerVars, core1Vars
<1>1. cmds' \in Seq(Message) /\ Len(cmds') <= CommandSlots
  <2>1. cmds \in Seq(Message) /\ Len(cmds) \in Nat /\ Len(cmds) <= CommandSlots
    BY LenProperties DEF IInv, QueuesOK
  <2>2. cmds' \in Seq(Message) /\ Len(cmds') = Len(cmds) - 1
    BY <1>0, <2>1, TakeType
  <2> QED BY <2>1, <2>2, TrackPowerAssumption
<1>2. ASSUME NEW on \in BOOLEAN, LocoNetTold(c, on)
      PROVE  lnPower' \in BOOLEAN
  BY <1>2, Zenon DEF LocoNetTold, IInv, FlagsOK
<1>3. ASSUME power' \in BOOLEAN, restartPending' \in BOOLEAN,
             lnPower' \in BOOLEAN,
             rail' \in {"on", "off", "estop"},
             restartCount' \in 0 .. MaxRestart, events' \in Seq(Events),
             offCause' \in {offCause, "command"}, RestartJustified'
      PROVE  IInv'
  <2>1. FlagsOK'
    BY <1>0, <1>3 DEF IInv, FlagsOK
  <2>2. PhasesOK'
    BY <1>0, <1>3 DEF IInv, PhasesOK
  <2>3. QueuesOK'
    BY <1>0, <1>1, <1>3 DEF IInv, QueuesOK
  <2> QED BY <1>3, <2>1, <2>2, <2>3 DEF IInv
<1>4. CASE LocoNetTold(c, TRUE) /\ PowerOn
  <2>1. /\ power' = TRUE /\ restartPending' = FALSE /\ restartCount' = 0
        /\ rail' \in {"on", "off"} /\ events' \in Seq(Events)
    BY <1>4, SetPowerType DEF PowerOn
  <2>2. offCause' = offCause
    BY <1>4 DEF PowerOn
  <2>3. RestartJustified'
    BY <2>1 DEF RestartJustified
  <2>4. lnPower' \in BOOLEAN
    BY <1>2, <1>4
  <2>5. restartCount' \in 0 .. MaxRestart
    BY <2>1, TrackPowerAssumption
  <2> QED BY <1>3, <2>1, <2>2, <2>3, <2>4, <2>5
<1>5. CASE LocoNetTold(c, FALSE) /\ PowerOff("command")
  <2>1. /\ power' = FALSE /\ restartPending' = FALSE
        /\ restartCount' = restartCount
        /\ rail' \in {"on", "off"} /\ events' \in Seq(Events)
    BY <1>5, SetPowerType DEF PowerOff
  <2>2. offCause' = "command"
    BY <1>5 DEF PowerOff
  <2>3. RestartJustified'
    BY <2>1 DEF RestartJustified
  <2>4. lnPower' \in BOOLEAN
    BY <1>2, <1>5
  <2> QED BY <1>3, <2>1, <2>2, <2>3, <2>4 DEF IInv, PhasesOK
<1>6. CASE EmergencyStop /\ UNCHANGED lnPower
  <2>1. rail' = "estop" /\ events' \in Seq(Events)
    BY <1>6, OfferType DEF EmergencyStop, IInv, QueuesOK, Events
  <2>2. UNCHANGED <<power, restartPending, restartCount, offCause, lnPower>>
    BY <1>6 DEF EmergencyStop
  <2>3. RestartJustified'
    BY <2>2 DEF IInv, RestartJustified
  <2> QED BY <1>3, <2>1, <2>2, <2>3 DEF IInv, FlagsOK, PhasesOK
<1> QED BY <1>4, <1>5, <1>6 DEF Deliver

(* Both short-circuit detectors: the flags first, then the power. *)
LEMMA CdeShortKeeps ==
    ASSUME IInv, CdeShort
    PROVE  IInv'
<1>1. /\ pc0' = "guards" /\ gOff' = TRUE /\ gShort' = TRUE /\ lnPower' = FALSE
      /\ offCause' = "cde" /\ SetPower(FALSE, FALSE, restartCount)
      /\ UNCHANGED <<restartDue, quiet, hung, beat, running, todo, resetReq,
                     clients, requests, tripped, shorted, cmds>>
  BY DEF CdeShort, FlagShort, PowerOff, timerVars, core1Vars
<1>2. /\ power' = FALSE /\ restartPending' = FALSE
      /\ restartCount' = restartCount
      /\ rail' \in {"on", "off"} /\ events' \in Seq(Events)
  BY <1>1, SetPowerType
<1>3. FlagsOK'
  BY <1>1, <1>2 DEF IInv, FlagsOK
<1>4. PhasesOK'
  BY <1>1, <1>2 DEF IInv, PhasesOK
<1>5. QueuesOK'
  BY <1>1, <1>2 DEF IInv, QueuesOK
<1>6. RestartJustified'
  BY <1>2 DEF RestartJustified
<1> QED BY <1>3, <1>4, <1>5, <1>6 DEF IInv

LEMMA GuardShortKeeps ==
    ASSUME IInv, GuardShort
    PROVE  IInv'
<1> DEFINE n == CountAfterQuiet
<1>1. /\ pc0' = "stall" /\ gOff' = TRUE /\ gShort' = TRUE /\ lnPower' = FALSE
      /\ offCause' = "guard" /\ restartDue' = FALSE
      /\ SetPower(FALSE, n < MaxRestart, n)
      /\ UNCHANGED <<quiet, hung, beat, running, todo, resetReq,
                     clients, requests, tripped, shorted, cmds>>
  BY DEF GuardShort, FlagShort, core1Vars
<1>2. n \in 0 .. MaxRestart
  BY TrackPowerAssumption DEF CountAfterQuiet, IInv, PhasesOK
<1>3. /\ power' = FALSE /\ restartPending' = (n < MaxRestart)
      /\ restartCount' = n
      /\ rail' \in {"on", "off"} /\ events' \in Seq(Events)
  <2> HIDE DEF n
  <2> QED BY <1>1, SetPowerType
<1> HIDE DEF n
<1>4. restartPending' \in BOOLEAN
  <2>1. (n < MaxRestart) \in BOOLEAN
    BY <1>2, TrackPowerAssumption, SMT
  <2> QED BY <1>3, <2>1, Zenon
<1>5. FlagsOK'
  BY <1>1, <1>3, <1>4 DEF IInv, FlagsOK
<1>6. PhasesOK'
  BY <1>1, <1>2, <1>3 DEF IInv, PhasesOK
<1>7. QueuesOK'
  BY <1>1, <1>3 DEF IInv, QueuesOK
<1>8. RestartJustified'
  BY <1>1, <1>3 DEF RestartJustified
<1> QED BY <1>5, <1>6, <1>7, <1>8 DEF IInv

(* While power is on no restart is outstanding, so the count may go. *)
LEMMA GuardQuietKeeps ==
    ASSUME IInv, GuardQuiet
    PROVE  IInv'
<1>1. /\ pc0' = "stall" /\ power /\ restartCount' = CountAfterQuiet
      /\ UNCHANGED <<power, restartPending, rail, events, offCause, gOff, gShort,
                     lnPower, restartDue, quiet, hung, beat, running, todo,
                     resetReq, clients, requests, tripped, shorted, cmds>>
  BY DEF GuardQuiet, centralVars, timerVars, core1Vars
<1>2. restartCount' \in 0 .. MaxRestart
  BY <1>1, TrackPowerAssumption DEF CountAfterQuiet, IInv, PhasesOK
<1>3. FlagsOK'
  BY <1>1 DEF IInv, FlagsOK
<1>4. PhasesOK'
  BY <1>1, <1>2 DEF IInv, PhasesOK
<1>5. QueuesOK'
  BY <1>1 DEF IInv, QueuesOK
<1>6. RestartJustified'
  BY <1>1 DEF IInv, RestartJustified
<1> QED BY <1>3, <1>4, <1>5, <1>6 DEF IInv

(* A restart uses up an attempt that RestartJustified says is left. *)
LEMMA AutoRestartKeeps ==
    ASSUME IInv, AutoRestart
    PROVE  IInv'
<1>1. /\ pc0' = "stall" /\ gOff' = FALSE /\ gShort' = FALSE /\ lnPower' = TRUE
      /\ quiet' = FALSE /\ SetPower(TRUE, FALSE, restartCount + 1)
      /\ restartPending
      /\ UNCHANGED <<offCause, restartDue, hung, beat, running, todo, resetReq,
                     clients, requests, tripped, shorted, cmds>>
  BY DEF AutoRestart, core1Vars
<1>2. restartCount + 1 \in 0 .. MaxRestart
  BY <1>1, TrackPowerAssumption DEF IInv, PhasesOK, RestartJustified
<1>3. /\ power' = TRUE /\ restartPending' = FALSE
      /\ restartCount' = restartCount + 1
      /\ rail' \in {"on", "off"} /\ events' \in Seq(Events)
  BY <1>1, SetPowerType
<1>4. FlagsOK'
  BY <1>1, <1>3 DEF IInv, FlagsOK
<1>5. PhasesOK'
  BY <1>1, <1>2, <1>3 DEF IInv, PhasesOK
<1>6. QueuesOK'
  BY <1>1, <1>3 DEF IInv, QueuesOK
<1>7. RestartJustified'
  BY <1>3 DEF RestartJustified
<1> QED BY <1>4, <1>5, <1>6, <1>7 DEF IInv

-----------------------------------------------------------------------------
(* Core 1: the part of a handler before its dispatch(). *)
LEMMA ReceiveKeeps ==
    ASSUME IInv, NEW m, NEW rest \in Seq(Message), Receive(m, rest),
           gOff' \in BOOLEAN, gShort' \in BOOLEAN, lnPower' \in BOOLEAN,
           resetReq' \in BOOLEAN, clients' \in {clients, "off"}
    PROVE  IInv'
<1>1. /\ todo' = rest /\ requests' = requests + 1 /\ requests < MaxRequests
      /\ UNCHANGED <<pc0, power, restartPending, restartCount, rail, events,
                     offCause, restartDue, quiet, hung, beat, running,
                     tripped, shorted, cmds>>
  BY DEF Receive, trackVars, timerVars
<1>2. FlagsOK'
  BY <1>1 DEF IInv, FlagsOK
<1>3. PhasesOK'
  BY <1>1, TrackPowerAssumption DEF IInv, PhasesOK
<1>4. QueuesOK'
  BY <1>1 DEF IInv, QueuesOK
<1>5. RestartJustified'
  BY <1>1 DEF IInv, RestartJustified
<1> QED BY <1>2, <1>3, <1>4, <1>5 DEF IInv

LEMMA RequestsKeep ==
    ASSUME IInv, Requests
    PROVE  IInv'
<1>0. /\ gOff \in BOOLEAN /\ gShort \in BOOLEAN /\ lnPower \in BOOLEAN
      /\ resetReq \in BOOLEAN
  BY DEF IInv, FlagsOK
<1>1. ASSUME NEW t \in {"on", "off", "estop"}, NEW m \in {"XN", "LN", "LAN"}
      PROVE  /\ <<>> \in Seq(Message) /\ <<Cmd(t, m)>> \in Seq(Message)
             /\ <<Cmd(t, m), Ev(t)>> \in Seq(Message)
  BY DEF Cmd, Ev, Message
<1>2. CASE XnPowerOn
  <2>1. Receive("XN", <<Cmd("on", "XN")>>) /\ <<Cmd("on", "XN")>> \in Seq(Message)
    BY <1>1, <1>2 DEF XnPowerOn
  <2> QED BY <1>0, <1>2, <2>1, ReceiveKeeps DEF XnPowerOn, centralVars
<1>3. CASE XnPowerOff
  <2>1. Receive("XN", <<Cmd("off", "XN")>>) /\ <<Cmd("off", "XN")>> \in Seq(Message)
    BY <1>1, <1>3 DEF XnPowerOff
  <2> QED BY <1>0, <1>3, <2>1, ReceiveKeeps DEF XnPowerOff, centralVars
<1>4. CASE XnEmergStop
  <2>1. Receive("XN", <<Cmd("estop", "XN")>>) /\ <<Cmd("estop", "XN")>> \in Seq(Message)
    BY <1>1, <1>4 DEF XnEmergStop
  <2> QED BY <1>0, <1>4, <2>1, ReceiveKeeps DEF XnEmergStop, centralVars
<1>5. CASE XnReset
  <2>1. Receive("XN", <<>>) /\ <<>> \in Seq(Message)
    BY <1>1, <1>5 DEF XnReset
  <2> QED BY <1>0, <1>5, <2>1, ReceiveKeeps DEF XnReset, centralVars
<1>6. CASE LnGpOn
  <2>1. Receive("LN", <<Cmd("on", "LN"), Ev("on")>>) /\ <<Cmd("on", "LN"), Ev("on")>> \in Seq(Message)
    BY <1>1, <1>6 DEF LnGpOn
  <2> QED BY <1>0, <1>6, <2>1, ReceiveKeeps DEF LnGpOn, centralVars
<1>7. CASE LnGpOff
  <2>1. Receive("LN", <<Cmd("off", "LN"), Ev("off")>>) /\ <<Cmd("off", "LN"), Ev("off")>> \in Seq(Message)
    BY <1>1, <1>7 DEF LnGpOff
  <2> QED BY <1>0, <1>7, <2>1, ReceiveKeeps DEF LnGpOff, centralVars
<1>8. CASE LnIdle
  <2>1. Receive("LN", <<Cmd("estop", "LN")>>) /\ <<Cmd("estop", "LN")>> \in Seq(Message)
    BY <1>1, <1>8 DEF LnIdle
  <2> QED BY <1>0, <1>8, <2>1, ReceiveKeeps DEF LnIdle, centralVars
<1>9. CASE LanClientLost
  <2>1. Receive("LAN", <<Cmd("off", "LAN")>>) /\ <<Cmd("off", "LAN")>> \in Seq(Message)
    BY <1>1, <1>9 DEF LanClientLost
  <2> QED BY <1>0, <1>9, <2>1, ReceiveKeeps DEF LanClientLost, centralVars
<1> QED BY <1>2, <1>3, <1>4, <1>5, <1>6, <1>7, <1>8, <1>9 DEF Requests

(* The buses seen from core 1. *)
LEMMA DispatchKeeps ==
    ASSUME IInv, Dispatch
    PROVE  IInv'
<1> DEFINE c == Head(todo)
<1>1. /\ todo # <<>> /\ todo' = Tail(todo)
      /\ UNCHANGED <<pc0, power, restartPending, restartCount, rail, events,
                     offCause, gOff, gShort, lnPower, restartDue, quiet, hung,
                     beat, running, resetReq, requests, tripped, shorted>>
      /\ cmds' = IF Len(cmds) < CommandSlots THEN Append(cmds, c) ELSE cmds
      /\ clients' \in {clients, "estop"}
  BY DEF Dispatch, trackVars, centralVars, timerVars
<1>2. c \in Message /\ Tail(todo) \in Seq(Message)
  BY <1>1, TakeType DEF IInv, QueuesOK
<1>3. cmds' \in Seq(Message) /\ Len(cmds') <= CommandSlots
  <2>1. cmds \in Seq(Message) /\ Len(cmds) \in Nat /\ Len(cmds) <= CommandSlots
    BY LenProperties DEF IInv, QueuesOK
  <2>2. /\ Append(cmds, c) \in Seq(Message)
        /\ Len(Append(cmds, c)) = Len(cmds) + 1
    BY <1>2, <2>1, AppendProperties
  <2> HIDE DEF c
  <2> QED BY <1>1, <2>1, <2>2, TrackPowerAssumption
<1>4. FlagsOK'
  BY <1>1 DEF IInv, FlagsOK
<1>5. PhasesOK'
  BY <1>1 DEF IInv, PhasesOK
<1>6. QueuesOK'
  BY <1>1, <1>2, <1>3 DEF IInv, QueuesOK
<1>7. RestartJustified'
  BY <1>1 DEF IInv, RestartJustified
<1> QED BY <1>4, <1>5, <1>6, <1>7 DEF IInv

(* No event on the bus but "feedback" is unknown to the clients. *)
LEMMA EventsKeep ==
    ASSUME IInv, Publish \/ Broadcast \/ FeedbackEvent
    PROVE  IInv'
<1>1. /\ UNCHANGED <<pc0, power, restartPending, restartCount, rail, offCause,
                     gOff, gShort, lnPower, restartDue, quiet, hung, beat,
                     running, resetReq, requests, tripped, shorted, cmds>>
      /\ todo' \in Seq(Message) /\ events' \in Seq(Events)
      /\ clients' \in {"unknown", "on", "off", "estop"}
  <2>1. CASE Publish
    <3>1. Head(todo) \in Message /\ Tail(todo) \in Seq(Message)
      BY <2>1, TakeType DEF Publish, IInv, QueuesOK
    <3>2. Head(todo).type \in Events
      BY <3>1 DEF Message, Events
    <3>3. Offer(Head(todo).type) \in Seq(Events)
      BY <3>2, OfferType DEF IInv, QueuesOK
    <3> QED BY <2>1, <3>1, <3>3 DEF Publish, centralVars, timerVars, IInv, PhasesOK
  <2>2. CASE Broadcast
    <3>1. Head(events) \in Events /\ Tail(events) \in Seq(Events)
      BY <2>2, TakeType DEF Broadcast, IInv, QueuesOK
    <3> QED BY <2>2, <3>1 DEF Broadcast, centralVars, timerVars, Events, IInv,
                              PhasesOK, QueuesOK
  <2>3. CASE FeedbackEvent
    <3>1. Offer("feedback") \in Seq(Events)
      BY OfferType DEF Events, IInv, QueuesOK
    <3> QED BY <2>3, <3>1 DEF FeedbackEvent, centralVars, timerVars, core1Vars,
                              IInv, PhasesOK, QueuesOK
  <2> QED BY <2>1, <2>2, <2>3
<1>2. FlagsOK'
  BY <1>1 DEF IInv, FlagsOK
<1>3. PhasesOK'
  BY <1>1 DEF IInv, PhasesOK
<1>4. QueuesOK'
  BY <1>1 DEF IInv, QueuesOK
<1>5. RestartJustified'
  BY <1>1 DEF IInv, RestartJustified
<1> QED BY <1>2, <1>3, <1>4, <1>5 DEF IInv

-----------------------------------------------------------------------------
LEMMA NextIInv == IInv /\ [Next]_vars => IInv'
<1> SUFFICES ASSUME IInv, [Next]_vars
             PROVE  IInv'
  OBVIOUS
<1>1. CASE Core0
  BY <1>1, PhaseKeeps, StallTripKeeps, DeliverKeeps, CdeShortKeeps,
     GuardShortKeeps, GuardQuietKeeps, AutoRestartKeeps DEF Core0
<1>2. CASE Requests
  BY <1>2, RequestsKeep
<1>3. CASE Core1
  BY <1>3, DispatchKeeps, EventsKeep DEF Core1
<1>4. CASE Core1Health
  BY <1>4, HealthKeeps DEF Core1Health
<1>5. CASE World
  BY <1>5, WorldKeeps, EventsKeep DEF World
<1>6. CASE UNCHANGED vars
  <2>1. FlagsOK'
    BY <1>6 DEF vars, trackVars, centralVars, timerVars, core1Vars, IInv, FlagsOK
  <2>2. PhasesOK'
    BY <1>6 DEF vars, trackVars, core1Vars, IInv, PhasesOK
  <2> QED BY <1>6, <2>1, <2>2, FrameKeeps DEF vars, trackVars, core1Vars
<1> QED BY <1>1, <1>2, <1>3, <1>4, <1>5, <1>6 DEF Next

(* The invariant of the station's power state. *)
LEMMA SpecIInv == Spec => []IInv
BY InitIInv, NextIInv, PTL DEF Spec

(* Every variable keeps its type; the count of automatic restarts never    *)
(* exceeds nf.restart_max, whatever else happens to power in between.      *)
THEOREM TypeCorrect == Spec => []TypeOK
<1>1. IInv => TypeOK
  BY DEF IInv, FlagsOK, PhasesOK, QueuesOK, TypeOK, Events
<1> QED BY <1>1, SpecIInv, PTL

(* A restart is outstanding only while power is off because a bridge guard *)
(* cut it, and only while attempts are left: setPower(), the stall check,  *)
(* the booster's short and every client's power command cancel it.         *)
THEOREM RestartSafe == Spec => []RestartJustified
<1>1. IInv => RestartJustified
  BY DEF IInv
<1> QED BY <1>1, SpecIInv, PTL

(* Power comes on only by a POWER_ON command, or by one of the MaxRestart  *)
(* automatic restarts after a guard's power-off.                           *)
THEOREM PowerOnSafe == Spec => PowerOnJustified
<1>1. IInv /\ [Next]_vars => [~power /\ power' => ComesOnBy]_vars
  <2> SUFFICES ASSUME IInv, Next, ~power, power'
               PROVE  ComesOnBy
    BY DEF vars, trackVars
  <2>1. CASE Core0
    <3>1. ~(EnterSpin \/ StallQuiet \/ PollDone \/ CdeQuiet \/ GuardsOff
            \/ GuardQuiet \/ StallTrip \/ CdeShort \/ GuardShort)
      BY DEF EnterSpin, StallQuiet, PollDone, CdeQuiet, GuardsOff, GuardQuiet,
             StallTrip, CdeShort, GuardShort, PowerOff, SetPower, trackVars
    <3>2. CASE Deliver
      <4>1. Head(cmds).type = "on"
        BY <3>2 DEF Deliver, PowerOff, SetPower, EmergencyStop
      <4> QED BY <3>2, <4>1 DEF Deliver, ComesOnBy
    <3>3. CASE AutoRestart
      <4>1. restartPending /\ restartCount' = restartCount + 1
        BY <3>3 DEF AutoRestart, SetPower
      <4> QED BY <4>1 DEF ComesOnBy, IInv, RestartJustified
    <3> QED BY <2>1, <3>1, <3>2, <3>3 DEF Core0
  <2>2. CASE Requests \/ Core1 \/ Core1Health \/ World
    <3>1. UNCHANGED power
      BY <2>2 DEF Requests, XnPowerOn, XnPowerOff, XnEmergStop, XnReset, LnGpOn,
                  LnGpOff, LnIdle, LanClientLost, Receive, Core1, Dispatch,
                  Publish, Broadcast, Core1Health, Heartbeat, Hang, Resume,
                  BecomeLate, World, ShortAppears, ShortGoes,
                  RestartFalls, TenSecondsPass, FeedbackEvent, trackVars
    <3> QED BY <3>1
  <2> QED BY <2>1, <2>2 DEF Next
<1> QED BY <1>1, SpecIInv, PTL DEF Spec, PowerOnJustified

-----------------------------------------------------------------------------
(* Power after a stall.  A power-off by the check lasts as long as core 1  *)
(* does not move: there is no POWER_ON on the bus, none can come, and no   *)
(* restart is outstanding.                                                 *)
NoneOn == \A i \in 1 .. Len(cmds) : cmds[i].type # "on"
CutByStall == offCause = "stall" => ~power /\ hung /\ NoneOn

HInv == IInv /\ CutByStall

LEMMA InitCut == Init => CutByStall
BY DEF Init, CutByStall

(* core 0: only a command or a restart switches power on, and neither is   *)
(* there while power is off for a stall that lasts.                        *)
LEMMA Core0Cut ==
    ASSUME HInv, Core0
    PROVE  CutByStall'
<1> USE DEF HInv, CutByStall
<1>1. CASE StallTrip
  <2>1. UNCHANGED <<hung, cmds>>
    BY <1>1 DEF StallTrip
  <2>2. CASE power
    <3>1. ~power' /\ (offCause' = "stall" => hung /\ NoneOn)
      BY <1>1, <2>2 DEF StallTrip, PowerOff, SetPower, StallCause, NoneOn
    <3> QED BY <2>1, <3>1 DEF NoneOn
  <2>3. CASE ~power
    <3>1. UNCHANGED <<power, offCause>>
      BY <1>1, <2>3 DEF StallTrip, trackVars
    <3> QED BY <2>1, <2>3, <3>1 DEF NoneOn
  <2> QED BY <2>2, <2>3
<1>2. CASE Deliver
  <2>1. /\ cmds # <<>> /\ cmds' = Tail(cmds) /\ UNCHANGED hung
        /\ cmds \in Seq(Message)
    BY <1>2 DEF Deliver, core1Vars, IInv, QueuesOK
  <2>2. /\ Len(cmds) \in Nat \ {0} /\ Len(cmds') = Len(cmds) - 1
        /\ \A i \in 1 .. Len(cmds') : cmds'[i] = cmds[i + 1]
        /\ Head(cmds) = cmds[1]
    BY <2>1, HeadTailProperties, LenProperties, EmptySeq
  <2>3. NoneOn => NoneOn' /\ Head(cmds).type # "on"
    BY <2>2 DEF NoneOn
  <2>4. \/ Head(cmds).type = "on" /\ UNCHANGED offCause
        \/ offCause' = "command"
        \/ UNCHANGED <<power, offCause>>
    BY <1>2 DEF Deliver, PowerOn, PowerOff, EmergencyStop
  <2> QED BY <2>1, <2>3, <2>4
<1>3. CASE CdeShort \/ GuardShort
  BY <1>3 DEF CdeShort, GuardShort, PowerOff
<1>4. CASE GuardQuiet \/ AutoRestart
  <2>1. UNCHANGED offCause /\ (power \/ restartPending)
    BY <1>4 DEF GuardQuiet, AutoRestart
  <2> QED BY <2>1 DEF IInv, RestartJustified
<1>5. CASE EnterSpin \/ StallQuiet \/ PollDone \/ CdeQuiet \/ GuardsOff
  <2>1. UNCHANGED <<hung, cmds, offCause, power>>
    BY <1>5 DEF EnterSpin, StallQuiet, PollDone, CdeQuiet, GuardsOff, core1Vars,
                trackVars
  <2> QED BY <2>1 DEF NoneOn
<1> QED BY <1>1, <1>2, <1>3, <1>4, <1>5 DEF Core0

(* core 1 and the world: power is left alone; a hung core 1 does nothing,  *)
(* and once it moves again the power-off lapses.                           *)
LEMMA OthersCut ==
    ASSUME HInv, Requests \/ Core1 \/ Core1Health \/ World
    PROVE  CutByStall'
<1> USE DEF HInv, CutByStall
<1>1. CASE Requests \/ World \/ BecomeLate
  <2>1. UNCHANGED <<power, offCause, hung, cmds>>
    BY <1>1 DEF Requests, XnPowerOn, XnPowerOff, XnEmergStop, XnReset, LnGpOn,
                LnGpOff, LnIdle, LanClientLost, Receive, World, ShortAppears,
                ShortGoes, RestartFalls, TenSecondsPass, FeedbackEvent,
                BecomeLate, trackVars, core1Vars
  <2> QED BY <2>1 DEF NoneOn
<1>2. CASE Core1 \/ Heartbeat \/ Hang
  <2>1. ~hung /\ UNCHANGED offCause
    BY <1>2 DEF Core1, Dispatch, Publish, Broadcast, Heartbeat, Hang, trackVars
  <2> QED BY <2>1
<1>3. CASE Resume
  BY <1>3 DEF Resume
<1> QED BY <1>1, <1>2, <1>3 DEF Core1Health

LEMMA NextHInv == HInv /\ [Next]_vars => HInv'
<1> SUFFICES ASSUME HInv, [Next]_vars
             PROVE  HInv'
  OBVIOUS
<1>1. IInv'
  BY NextIInv DEF HInv
<1>2. CASE UNCHANGED vars
  BY <1>1, <1>2 DEF vars, trackVars, core1Vars, HInv, CutByStall, NoneOn
<1> QED BY <1>1, <1>2, Core0Cut, OthersCut DEF Next, HInv

(* Power that the stall check has cut stays off until core 1 moves again,  *)
(* however often it hangs within one call, unless a POWER_ON was on the    *)
(* bus already.  With one, or with a restart pending when the hang began,  *)
(* power comes on although core 1 hangs: MCPowerStalled.cfg and            *)
(* MCPowerStallRestart.cfg.                                                *)
THEOREM StallSafe == Spec => []StallHolds
<1>1. Init => HInv
  BY InitIInv, InitCut DEF HInv
<1>2. HInv => StallHolds
  BY DEF HInv, CutByStall, StallHolds
<1> QED BY <1>1, <1>2, NextHInv, PTL DEF Spec

-----------------------------------------------------------------------------
(* The guards of the H-bridges, for any bridges, times, size of the edge   *)
(* ring and delay of loop(): the part "pair" of MCTrackPower.  What a      *)
(* guard computes is a machine: the guard and the pattern.                 *)
GuardRecord(Sta, Age, Few, Count, Bit, Why) ==
    [state : Sta, t0 : Age, since : Age, base : Age, ignored : Few, seen : Count,
     chain : Bit, chainStart : Age, chainLast : Age, reset : Age, why : Why]
GuardRec ==
    GuardRecord(Pair!Phase, Int, Nat, 0 .. VerifyEdges - 1, BOOLEAN,
                {"none", "verify", "power"})
GuardMachine == [g : GuardRec, pattern : BOOLEAN]

InInrush(m) == m.g.state = "Inrush"

(* The ways the fields of a guard are written together. *)
LEMMA GuardPut ==
    ASSUME NEW Sta, NEW Age, NEW Few, NEW Count, NEW Bit, NEW Why,
           NEW g \in GuardRecord(Sta, Age, Few, Count, Bit, Why),
           NEW s \in Sta, NEW a \in Age, NEW b \in Age, NEW c \in Age, NEW d \in Few,
           NEW e \in Count
    PROVE  /\ [g EXCEPT !.state = s, !.t0 = a, !.since = b, !.base = c, !.ignored = d,
                        !.seen = e] \in GuardRecord(Sta, Age, Few, Count, Bit, Why)
           /\ [g EXCEPT !.state = s, !.since = b, !.base = c, !.seen = e]
                 \in GuardRecord(Sta, Age, Few, Count, Bit, Why)
BY DEF GuardRecord

LEMMA StatePut ==
    ASSUME NEW Sta, NEW Age, NEW Few, NEW Count, NEW Bit, NEW Why,
           NEW g \in GuardRecord(Sta, Age, Few, Count, Bit, Why), NEW s \in Sta
    PROVE  /\ \A a \in Age : /\ [g EXCEPT !.state = s, !.since = a]
                                   \in GuardRecord(Sta, Age, Few, Count, Bit, Why)
                             /\ [g EXCEPT !.state = s, !.t0 = a]
                                   \in GuardRecord(Sta, Age, Few, Count, Bit, Why)
           /\ \A w \in Why : [g EXCEPT !.state = s, !.why = w]
                                   \in GuardRecord(Sta, Age, Few, Count, Bit, Why)
BY DEF GuardRecord

LEMMA CountPut ==
    ASSUME NEW Sta, NEW Age, NEW Few, NEW Count, NEW Bit, NEW Why,
           NEW g \in GuardRecord(Sta, Age, Few, Count, Bit, Why)
    PROVE  /\ \A d \in Few : [g EXCEPT !.ignored = d]
                                   \in GuardRecord(Sta, Age, Few, Count, Bit, Why)
           /\ \A e \in Count, a \in Age : [g EXCEPT !.seen = e, !.base = a]
                                   \in GuardRecord(Sta, Age, Few, Count, Bit, Why)
BY DEF GuardRecord

LEMMA ChainPut ==
    ASSUME NEW Sta, NEW Age, NEW Few, NEW Count, NEW Bit, NEW Why,
           NEW g \in GuardRecord(Sta, Age, Few, Count, Bit, Why),
           NEW f \in Bit, NEW a \in Age, NEW b \in Age
    PROVE  /\ [g EXCEPT !.chain = f, !.chainLast = a, !.chainStart = b]
                 \in GuardRecord(Sta, Age, Few, Count, Bit, Why)
           /\ [g EXCEPT !.chain = f, !.chainStart = b, !.chainLast = a]
                 \in GuardRecord(Sta, Age, Few, Count, Bit, Why)
BY DEF GuardRecord

LEMMA AgesPut ==
    ASSUME NEW Sta, NEW Age, NEW Few, NEW Count, NEW Bit, NEW Why,
           NEW g \in GuardRecord(Sta, Age, Few, Count, Bit, Why),
           NEW a \in Age, NEW b \in Age, NEW c \in Age, NEW d \in Age, NEW e \in Age,
           NEW f \in Age
    PROVE  [g EXCEPT !.t0 = a, !.since = b, !.base = c, !.chainStart = d, !.chainLast = e,
                     !.reset = f] \in GuardRecord(Sta, Age, Few, Count, Bit, Why)
BY DEF GuardRecord

LEMMA GuardFields ==
    ASSUME NEW g \in GuardRec
    PROVE  /\ g.state \in Pair!Phase /\ g.t0 \in Int /\ g.since \in Int /\ g.base \in Int
           /\ g.ignored \in Nat /\ g.seen \in 0 .. VerifyEdges - 1 /\ g.chain \in BOOLEAN
           /\ g.chainStart \in Int /\ g.chainLast \in Int /\ g.reset \in Int
           /\ DOMAIN g = {"state", "t0", "since", "base", "ignored", "seen", "chain",
                          "chainStart", "chainLast", "reset", "why"}
BY DEF GuardRec, GuardRecord

(* The values the guard writes belong to their fields. *)
LEMMA Values ==
    /\ 0 \in Int /\ 0 \in Nat /\ 0 \in 0 .. VerifyEdges - 1 /\ -Packet \in Int
    /\ "Normal" \in Pair!Phase /\ "Ignore" \in Pair!Phase /\ "Watch" \in Pair!Phase
    /\ "Inrush" \in Pair!Phase /\ "Verify" \in Pair!Phase /\ "Shorted" \in Pair!Phase
    /\ "none" \in {"none", "verify", "power"} /\ TRUE \in BOOLEAN
BY GuardsAssumption DEF Pair!Phase

(* A machine whose guard is replaced keeps the pattern. *)
LEMMA PutGuard ==
    ASSUME NEW m \in GuardMachine, NEW h \in GuardRec
    PROVE  /\ [m EXCEPT !.g = h] \in GuardMachine
           /\ [m EXCEPT !.g = h].g = h /\ [m EXCEPT !.g = h].pattern = m.pattern
<1> HIDE DEF GuardRec
<1> QED BY DEF GuardMachine

LEMMA FreshType == Pair!Fresh \in GuardRec /\ Pair!Fresh.state = "Normal"
BY GuardsAssumption DEF Pair!Fresh, GuardRec, GuardRecord, Pair!Phase

LEMMA SetNormalType ==
    ASSUME NEW m \in GuardMachine
    PROVE  /\ Pair!SetNormal(m) \in GuardMachine
           /\ Pair!SetNormal(m).pattern = m.pattern
           /\ Pair!SetNormal(m).g.state = "Normal"
<1> DEFINE g == m.g
           h == [g EXCEPT !.state = "Normal", !.t0 = 0, !.since = 0, !.base = 0,
                          !.ignored = 0, !.seen = 0]
<1>1. g \in GuardRec
  BY DEF GuardMachine
<1>2. Pair!SetNormal(m) = [m EXCEPT !.g = h]
  BY DEF Pair!SetNormal
<1> HIDE DEF g
<1>3. h \in GuardRec
  BY <1>1, Values, GuardPut, Zenon DEF GuardRec
<1>4. h.state = "Normal"
  BY <1>1, GuardFields
<1> HIDE DEF h
<1> QED BY <1>2, <1>3, <1>4, PutGuard

LEMMA GoShortType ==
    ASSUME NEW m \in GuardMachine, NEW why \in {"verify", "power"}
    PROVE  /\ Pair!GoShort(m, why) \in GuardMachine
           /\ Pair!GoShort(m, why).pattern = (m.pattern /\ ~InInrush(m))
           /\ Pair!GoShort(m, why).g.state = "Shorted"
<1> DEFINE h == [Pair!Fresh EXCEPT !.state = "Shorted", !.why = why]
<1>1. h \in GuardRec /\ h.state = "Shorted"
  <2> DEFINE g == Pair!Fresh
  <2>1. g \in GuardRec /\ why \in {"none", "verify", "power"}
    BY FreshType
  <2> HIDE DEF g
  <2>2. [g EXCEPT !.state = "Shorted", !.why = why] \in GuardRec
    BY <2>1, Values, StatePut, Zenon DEF GuardRec
  <2>3. [g EXCEPT !.state = "Shorted", !.why = why].state = "Shorted"
    BY <2>1, GuardFields
  <2> QED BY <2>2, <2>3 DEF g
<1>2. (m.pattern /\ m.g.state # "Inrush") \in BOOLEAN
  OBVIOUS
<1>3. Pair!GoShort(m, why) = [g |-> h, pattern |-> m.pattern /\ m.g.state # "Inrush"]
  BY DEF Pair!GoShort
<1> HIDE DEF h
<1> QED BY <1>1, <1>2, <1>3 DEF GuardMachine, InInrush

LEMMA FinishType ==
    ASSUME NEW m \in GuardMachine
    PROVE  /\ Pair!FinishInrush(m) \in GuardMachine
           /\ ~Pair!FinishInrush(m).pattern
           /\ Pair!FinishInrush(m).g.state = "Verify"
<1> DEFINE g == m.g
           h == [g EXCEPT !.state = "Verify", !.since = -Packet, !.base = -Packet, !.seen = 0]
<1>1. g \in GuardRec
  BY DEF GuardMachine
<1>2. Pair!FinishInrush(m) = [g |-> h, pattern |-> FALSE]
  BY DEF Pair!FinishInrush
<1> HIDE DEF g
<1>3. h \in GuardRec
  BY <1>1, Values, GuardPut, Zenon DEF GuardRec
<1>4. h.state = "Verify"
  BY <1>1, GuardFields
<1> HIDE DEF h
<1> QED BY <1>2, <1>3, <1>4 DEF GuardMachine

LEMMA RepeatType ==
    ASSUME NEW m \in GuardMachine, NEW a, NEW allowed \in BOOLEAN
    PROVE  /\ Pair!Repeat(m, a, allowed) \in GuardMachine
           /\ \/ /\ allowed /\ Pair!Repeat(m, a, allowed).pattern
                 /\ InInrush(Pair!Repeat(m, a, allowed))
                 /\ Pair!Repeat(m, a, allowed).g.since = 0
              \/ /\ Pair!Repeat(m, a, allowed).pattern = m.pattern
                 /\ Pair!Repeat(m, a, allowed).g.state = "Verify"
<1> DEFINE g == m.g
           h == [g EXCEPT !.state = "Inrush", !.since = 0]
           k == [g EXCEPT !.state = "Verify", !.since = 0, !.base = 0, !.seen = 0]
<1>1. g \in GuardRec
  BY DEF GuardMachine
<1>2. Pair!Repeat(m, a, allowed) = IF allowed THEN [g |-> h, pattern |-> TRUE]
                                   ELSE [m EXCEPT !.g = k]
  BY DEF Pair!Repeat
<1> HIDE DEF g
<1>3. h \in GuardRec
  BY <1>1, Values, StatePut, Zenon DEF GuardRec
<1>4. k \in GuardRec
  BY <1>1, Values, GuardPut, Zenon DEF GuardRec
<1>5. h.state = "Inrush" /\ h.since = 0 /\ k.state = "Verify"
  BY <1>1, GuardFields
<1> HIDE DEF h, k
<1>6. CASE allowed
  <2> DEFINE n == Pair!Repeat(m, a, allowed)
  <2>1. n = [g |-> h, pattern |-> TRUE]
    BY <1>2, <1>6
  <2> HIDE DEF n
  <2>2. n \in GuardMachine /\ n.pattern = TRUE /\ n.g = h
    BY <1>3, <2>1 DEF GuardMachine
  <2>3. InInrush(n) /\ n.g.since = 0
    BY <1>5, <2>2 DEF InInrush
  <2> QED BY <1>6, <2>2, <2>3 DEF n
<1>7. CASE ~allowed
  BY <1>2, <1>4, <1>5, <1>7, PutGuard
<1> QED BY <1>6, <1>7

(* One phase that is over: only the end of an inrush switches the pattern. *)
LEMMA ExpireType ==
    ASSUME NEW m \in GuardMachine, NEW a \in Nat
    PROVE  /\ Pair!Expire(m, a) \in GuardMachine
           /\ \/ Pair!Expire(m, a) = m
              \/ /\ ~InInrush(m) /\ m.g.state # "Shorted"
                 /\ Pair!Expire(m, a).pattern = m.pattern
                 /\ Pair!Expire(m, a).g.state \in {"Normal", "Watch"}
                 /\ m.g.state = "Verify" => Pair!Expire(m, a).g.state = "Normal"
              \/ /\ InInrush(m) /\ m.g.since >= InrushTime
                 /\ ~Pair!Expire(m, a).pattern
                 /\ Pair!Expire(m, a).g.state = "Verify"
<1>1. CASE m.g.state = "Ignore" /\ Pair!Reached(a, m.g.t0, IgnoreTime)
  <2> DEFINE g == m.g
             v == g.t0 - IgnoreTime
             h == [g EXCEPT !.state = "Watch", !.since = v]
  <2>1. Pair!Expire(m, a) = [m EXCEPT !.g = h]
    BY <1>1 DEF Pair!Expire
  <2>2. g \in GuardRec
    BY DEF GuardMachine
  <2> HIDE DEF g
  <2>3. v \in Int
    BY <2>2, GuardFields, GuardsAssumption
  <2> HIDE DEF v
  <2>4. h \in GuardRec
    BY <2>2, <2>3, Values, StatePut, Zenon DEF GuardRec
  <2>5. h.state = "Watch"
    BY <2>2, GuardFields
  <2> HIDE DEF h
  <2> QED BY <1>1, <2>1, <2>4, <2>5, PutGuard DEF InInrush
<1>2. CASE m.g.state = "Watch" /\ Pair!Reached(a, m.g.since, WatchTime)
  <2>1. Pair!Expire(m, a) = Pair!SetNormal(m)
    BY <1>2 DEF Pair!Expire
  <2> QED BY <1>2, <2>1, SetNormalType DEF InInrush
<1>3. CASE m.g.state = "Inrush" /\ Pair!Reached(a, m.g.since, InrushTime)
  <2>1. Pair!Expire(m, a) = Pair!FinishInrush(m)
    BY <1>3 DEF Pair!Expire
  <2>2. m.g.since >= InrushTime
    <3>1. m.g \in GuardRec
      BY DEF GuardMachine
    <3>2. m.g.since \in Int
      BY <3>1, GuardFields
    <3> QED BY <1>3, <3>2, GuardsAssumption DEF Pair!Reached
  <2> QED BY <1>3, <2>1, <2>2, FinishType DEF InInrush
<1>4. CASE m.g.state = "Verify" /\ Pair!Reached(a, m.g.base, VerifyTime)
  <2>1. Pair!Expire(m, a) = Pair!SetNormal(m)
    BY <1>4 DEF Pair!Expire
  <2> QED BY <1>4, <2>1, SetNormalType DEF InInrush
<1>5. CASE Pair!Expire(m, a) = m
  BY <1>5
<1> QED BY <1>1, <1>2, <1>3, <1>4, <1>5 DEF Pair!Expire

LEMMA AdvanceType ==
    ASSUME NEW m \in GuardMachine, NEW a \in Nat
    PROVE  /\ Pair!Advance(m, a) \in GuardMachine
           /\ InInrush(m) \/ m.g.state = "Shorted" =>
                 \/ Pair!Advance(m, a) = m
                 \/ /\ InInrush(m) /\ m.g.since >= InrushTime
                    /\ ~Pair!Advance(m, a).pattern
                    /\ Pair!Advance(m, a).g.state \in {"Verify", "Normal"}
           /\ ~InInrush(m) => /\ ~InInrush(Pair!Advance(m, a))
                              /\ Pair!Advance(m, a).pattern = m.pattern
<1> DEFINE n == Pair!Expire(m, a)
           k == Pair!Expire(n, a)
<1>1. Pair!Advance(m, a) = k
  BY DEF Pair!Advance
<1>2. n \in GuardMachine /\ k \in GuardMachine
  BY ExpireType
<1>3. \/ n = m
      \/ /\ ~InInrush(m) /\ m.g.state # "Shorted" /\ n.pattern = m.pattern
         /\ n.g.state \in {"Normal", "Watch"}
      \/ /\ InInrush(m) /\ m.g.since >= InrushTime /\ ~n.pattern /\ n.g.state = "Verify"
  BY ExpireType
<1>4. \/ k = n
      \/ /\ ~InInrush(n) /\ n.g.state # "Shorted" /\ k.pattern = n.pattern
         /\ k.g.state \in {"Normal", "Watch"} /\ (n.g.state = "Verify" => k.g.state = "Normal")
      \/ /\ InInrush(n) /\ n.g.since >= InrushTime /\ ~k.pattern /\ k.g.state = "Verify"
  BY <1>2, ExpireType
<1> HIDE DEF n, k
<1> QED BY <1>1, <1>2, <1>3, <1>4 DEF InInrush

(* An edge switches the pattern on only in the watch time of a guard that  *)
(* may do so, and never switches it off.                                   *)
LEMMA WatchEdgeType ==
    ASSUME NEW m \in GuardMachine, ~InInrush(m), NEW a \in Nat, NEW allowed \in BOOLEAN
    PROVE  LET n == Pair!WatchEdge(m, a, allowed)
           IN  /\ n \in GuardMachine
               /\ \/ ~InInrush(n) /\ n.pattern = m.pattern
                  \/ allowed /\ InInrush(n) /\ n.g.since = 0 /\ n.pattern
<1> DEFINE c == Pair!Chain(m.g, a)
           cleared == [c EXCEPT !.chain = FALSE, !.chainStart = 0, !.chainLast = 0]
           skip == [m EXCEPT !.g = c]
           again == [m EXCEPT !.g = cleared]
<1>1. c \in GuardRec
  <2> DEFINE g == m.g
             v == IF g.chain /\ g.chainLast - a <= WatchTime THEN g.chainStart ELSE g.t0
  <2>1. g \in GuardRec
    BY DEF GuardMachine
  <2>2. c = [g EXCEPT !.chain = TRUE, !.chainLast = a, !.chainStart = v]
    BY DEF Pair!Chain
  <2> HIDE DEF g, c
  <2>3. v \in Int /\ a \in Int
    BY <2>1, GuardFields
  <2> HIDE DEF v
  <2>4. [g EXCEPT !.chain = TRUE, !.chainLast = a, !.chainStart = v] \in GuardRec
    BY <2>1, <2>3, ChainPut, Zenon DEF GuardRec
  <2> QED BY <2>2, <2>4
<1> HIDE DEF c
<1>2. cleared \in GuardRec
  BY <1>1, Values, ChainPut, Zenon DEF GuardRec
<1> HIDE DEF cleared
<1>3. /\ skip \in GuardMachine /\ skip.pattern = m.pattern
      /\ again \in GuardMachine /\ again.pattern = m.pattern
  BY <1>1, <1>2, PutGuard
<1>4. \/ Pair!WatchEdge(m, a, allowed) = Pair!SetNormal(skip)
      \/ Pair!WatchEdge(m, a, allowed) = Pair!Repeat(again, a, allowed)
      \/ Pair!WatchEdge(m, a, allowed) = Pair!Repeat(m, a, allowed)
  BY DEF Pair!WatchEdge, c, cleared
<1> HIDE DEF skip, again
<1>5. /\ Pair!SetNormal(skip) \in GuardMachine /\ ~InInrush(Pair!SetNormal(skip))
      /\ Pair!SetNormal(skip).pattern = m.pattern
  BY <1>3, SetNormalType DEF InInrush
<1>6. ASSUME NEW k \in GuardMachine, k.pattern = m.pattern
      PROVE  LET n == Pair!Repeat(k, a, allowed)
             IN  /\ n \in GuardMachine
                 /\ \/ ~InInrush(n) /\ n.pattern = m.pattern
                    \/ allowed /\ InInrush(n) /\ n.g.since = 0 /\ n.pattern
  <2> DEFINE n == Pair!Repeat(k, a, allowed)
  <2>1. /\ n \in GuardMachine
        /\ \/ allowed /\ n.pattern /\ InInrush(n) /\ n.g.since = 0
           \/ n.pattern = k.pattern /\ n.g.state = "Verify"
    BY RepeatType
  <2> HIDE DEF n
  <2>2. n \in GuardMachine /\ (\/ ~InInrush(n) /\ n.pattern = m.pattern
                               \/ allowed /\ InInrush(n) /\ n.g.since = 0 /\ n.pattern)
    BY <1>6, <2>1 DEF InInrush
  <2> QED BY <2>2 DEF n
<1>7. CASE Pair!WatchEdge(m, a, allowed) = Pair!SetNormal(skip)
  BY <1>5, <1>7
<1>8. CASE Pair!WatchEdge(m, a, allowed) = Pair!Repeat(again, a, allowed)
  BY <1>3, <1>6, <1>8
<1>9. CASE Pair!WatchEdge(m, a, allowed) = Pair!Repeat(m, a, allowed)
  BY <1>6, <1>9
<1> QED BY <1>4, <1>7, <1>8, <1>9

LEMMA VerifyEdgeType ==
    ASSUME NEW m \in GuardMachine, ~InInrush(m), NEW a \in Nat
    PROVE  LET n == Pair!VerifyEdge(m, a)
           IN  n \in GuardMachine /\ (m.g.state = "Verify" => ~InInrush(n))
               /\ n.pattern = m.pattern
<1> DEFINE g == m.g
           h == [g EXCEPT !.seen = @ + 1, !.base = a]
<1>1. g \in GuardRec /\ m.pattern \in BOOLEAN
  BY DEF GuardMachine
<1>2. CASE Pair!VerifyEdge(m, a) = m
  BY <1>2 DEF InInrush
<1>3. CASE Pair!VerifyEdge(m, a) = Pair!GoShort(m, "verify")
  <2>1. /\ Pair!GoShort(m, "verify") \in GuardMachine
        /\ Pair!GoShort(m, "verify").pattern = (m.pattern /\ ~InInrush(m))
        /\ Pair!GoShort(m, "verify").g.state = "Shorted"
    BY GoShortType
  <2>2. (m.pattern /\ ~InInrush(m)) = m.pattern
    BY <1>1
  <2> QED BY <1>3, <2>1, <2>2 DEF InInrush
<1>4. CASE ~(m.g.since < a) /\ ~(m.g.seen + 1 >= VerifyEdges)
  <2>1. Pair!VerifyEdge(m, a) = [m EXCEPT !.g = h]
    BY <1>4 DEF Pair!VerifyEdge
  <2>2. ~(g.seen + 1 >= VerifyEdges)
    BY <1>4
  <2>3. g.state = m.g.state
    OBVIOUS
  <2> HIDE DEF g
  <2>4. g.seen + 1 \in 0 .. VerifyEdges - 1 /\ a \in Int
    BY <1>1, <2>2, GuardFields, GuardsAssumption
  <2> DEFINE v == g.seen + 1
             k == [g EXCEPT !.seen = v, !.base = a]
  <2>5. h = k
    OBVIOUS
  <2> HIDE DEF v
  <2>6. v \in 0 .. VerifyEdges - 1
    BY <2>4 DEF v
  <2>7. k \in GuardRec
    BY <1>1, <2>4, <2>6, CountPut, Zenon DEF GuardRec
  <2>8. k.state = g.state
    BY <1>1, GuardFields
  <2> HIDE DEF h, k
  <2> QED BY <2>1, <2>3, <2>5, <2>7, <2>8, PutGuard DEF InInrush
<1> QED BY <1>2, <1>3, <1>4 DEF Pair!VerifyEdge

LEMMA OnEdgeType ==
    ASSUME NEW m \in GuardMachine, NEW a \in Nat, NEW allowed \in BOOLEAN
    PROVE  LET n == Pair!OnEdge(m, a, allowed)
           IN  /\ n \in GuardMachine
               /\ InInrush(m) \/ m.g.state = "Shorted" => n = m
               /\ ~InInrush(m) =>
                    \/ ~InInrush(n) /\ n.pattern = m.pattern
                    \/ /\ m.g.state = "Watch" /\ allowed
                       /\ InInrush(n) /\ n.g.since = 0 /\ n.pattern
<1> DEFINE g == m.g
           h == [g EXCEPT !.state = "Ignore", !.t0 = a]
           k == [g EXCEPT !.ignored = IF @ < 2 THEN @ + 1 ELSE @]
<1>1. g \in GuardRec
  BY DEF GuardMachine
<1>2. CASE m.g.state = "Normal"
  <2>1. Pair!OnEdge(m, a, allowed) = [m EXCEPT !.g = h]
    BY <1>2 DEF Pair!OnEdge
  <2> HIDE DEF g
  <2>2. a \in Int
    OBVIOUS
  <2>3. h \in GuardRec
    BY <1>1, <2>2, Values, StatePut, Zenon DEF GuardRec
  <2>4. h.state = "Ignore"
    BY <1>1, GuardFields
  <2> HIDE DEF h
  <2> QED BY <1>2, <2>1, <2>3, <2>4, PutGuard DEF InInrush
<1>3. CASE m.g.state = "Ignore"
  <2>1. Pair!OnEdge(m, a, allowed) = [m EXCEPT !.g = k]
    BY <1>3 DEF Pair!OnEdge
  <2>2. g.state = "Ignore"
    BY <1>3
  <2> HIDE DEF g
  <2> DEFINE v == IF g.ignored < 2 THEN g.ignored + 1 ELSE g.ignored
             l == [g EXCEPT !.ignored = v]
  <2>3. k = l
    OBVIOUS
  <2>4. v \in Nat
    BY <1>1, GuardFields
  <2> HIDE DEF v
  <2>5. l \in GuardRec
    BY <1>1, <2>4, CountPut, Zenon DEF GuardRec
  <2>6. l.state = "Ignore"
    BY <1>1, <2>2, GuardFields
  <2> HIDE DEF k, l
  <2> QED BY <1>3, <2>1, <2>3, <2>5, <2>6, PutGuard DEF InInrush
<1>4. CASE m.g.state = "Watch"
  <2>1. Pair!OnEdge(m, a, allowed) = Pair!WatchEdge(m, a, allowed)
    BY <1>4 DEF Pair!OnEdge
  <2>2. ~InInrush(m)
    BY <1>4 DEF InInrush
  <2> QED BY <1>4, <2>1, <2>2, WatchEdgeType
<1>5. CASE m.g.state = "Verify"
  <2>1. Pair!OnEdge(m, a, allowed) = Pair!VerifyEdge(m, a)
    BY <1>5 DEF Pair!OnEdge
  <2>2. ~InInrush(m) /\ m.g.state # "Shorted"
    BY <1>5 DEF InInrush
  <2> QED BY <1>5, <2>1, <2>2, VerifyEdgeType
<1>6. CASE m.g.state \in {"Inrush", "Shorted"}
  <2>1. Pair!OnEdge(m, a, allowed) = m
    BY <1>6 DEF Pair!OnEdge
  <2> QED BY <1>6, <2>1 DEF InInrush
<1>7. g.state \in Pair!Phase
  BY <1>1, GuardFields
<1> QED BY <1>2, <1>3, <1>4, <1>5, <1>6, <1>7 DEF Pair!Phase

(* The present ends the inrush of a guard that may no longer do it. *)
LEMMA StageType ==
    ASSUME NEW m \in GuardMachine, NEW allowed \in BOOLEAN, NEW over \in BOOLEAN
    PROVE  LET n == Pair!Stage(m, allowed, over)
           IN  /\ n \in GuardMachine
               /\ InInrush(m) => IF allowed THEN n = m
                                 ELSE n.g.state = "Normal" /\ ~n.pattern
               /\ ~InInrush(m) => ~InInrush(n) /\ n.pattern = m.pattern
               /\ m.g.state = "Shorted" => n = m
<1>1. m.pattern \in BOOLEAN
  BY DEF GuardMachine
<1>2. CASE m.g.state = "Normal" /\ over
  <2> DEFINE n == Pair!GoShort(m, "power")
  <2>1. Pair!Stage(m, allowed, over) = n
    BY <1>2 DEF Pair!Stage
  <2>2. ~InInrush(m) /\ m.g.state # "Shorted"
    BY <1>2 DEF InInrush
  <2>3. n \in GuardMachine /\ n.pattern = (m.pattern /\ ~InInrush(m)) /\ n.g.state = "Shorted"
    BY GoShortType
  <2>4. n.pattern = m.pattern
    BY <1>1, <2>2, <2>3
  <2> HIDE DEF n
  <2> QED BY <2>1, <2>2, <2>3, <2>4 DEF InInrush
<1>3. CASE m.g.state = "Inrush" /\ ~allowed
  <2> DEFINE k == Pair!SetNormal(m)
             n == [k EXCEPT !.pattern = FALSE]
  <2>1. Pair!Stage(m, allowed, over) = n
    BY <1>3 DEF Pair!Stage
  <2>2. k \in GuardMachine /\ k.g.state = "Normal"
    BY SetNormalType
  <2> HIDE DEF k
  <2>3. n \in GuardMachine /\ n.g = k.g /\ n.pattern = FALSE
    BY <2>2 DEF GuardMachine
  <2> HIDE DEF n
  <2> QED BY <1>3, <2>1, <2>2, <2>3 DEF InInrush
<1>4. CASE ~(m.g.state = "Normal" /\ over) /\ ~(m.g.state = "Inrush" /\ ~allowed)
  <2>1. Pair!Stage(m, allowed, over) = m
    BY <1>4 DEF Pair!Stage
  <2> QED BY <1>4, <2>1 DEF InInrush
<1> QED BY <1>2, <1>3, <1>4

-----------------------------------------------------------------------------
(* The invariant of the guards.  The pattern has an owner; while service   *)
(* mode has not begun or ended since it was switched on, the guard in its  *)
(* inrush phase is the one that may be, and no older than the pattern.     *)
(* Two guards can be in the phase for a moment: when service mode has just *)
(* ended, between the turn of the main track and that of the other one.    *)
GuardsTyped ==
    /\ hPower \in BOOLEAN /\ service \in BOOLEAN /\ pattern \in BOOLEAN
    /\ taken \in BOOLEAN
    /\ guard \in [Bridge -> GuardRec] /\ edges \in [Bridge -> Seq(Nat)]
    /\ \A b \in Bridge : Len(edges[b]) <= EdgeSlots
    /\ turn \in 0 .. 3 /\ (turn # 0 => Pair!Order[turn] \in Bridge)
    /\ hLate \in 0 .. MaxLate /\ faulty = {} /\ charged \in 0 .. InrushTime

Charging(b) == guard[b].state = "Inrush"
Owned == pattern => hPower /\ \E b \in Bridge : Charging(b)
OnTracks == \A b \in Bridge : Charging(b) => b \in {"DCC", "SM"}
CutOff == turn # 0 /\ ~hPower => guard[Pair!Order[turn]].state = "Shorted"
WholeTime ==
    \A b \in Bridge : Charging(b) /\ ~taken =>
        /\ Pair!Allowed(b) /\ pattern
        /\ guard[b].since <= charged \/ charged = InrushTime
MainFirst == "DCC" \in Bridge /\ Charging("DCC") /\ turn > 1 => ~service
ProgHasPattern == "SM" \in Bridge /\ Charging("SM") => pattern
Both ==
    {"DCC", "SM"} \subseteq Bridge /\ Charging("DCC") /\ Charging("SM") =>
        guard["DCC"].since = 0 /\ ~service /\ turn \in {1, 2}

Patterned == Owned /\ OnTracks /\ WholeTime /\ ProgHasPattern
GuardsInv == GuardsTyped /\ Patterned /\ CutOff /\ MainFirst /\ Both

LEMMA Places ==
    /\ Pair!Order[1] = "DCC" /\ Pair!Order[2] = "SM" /\ Pair!Order[3] = "CDE"
BY DEF Pair!Order

LEMMA TurnAfterIs ==
    ASSUME NEW i \in 0 .. 3
    PROVE  /\ Pair!TurnAfter(i) \in 0 .. 3
           /\ Pair!TurnAfter(i) # 0 => /\ Pair!TurnAfter(i) > i
                                       /\ Pair!Order[Pair!TurnAfter(i)] \in Bridge
           /\ \A j \in 1 .. 3 : j > i /\ Pair!Order[j] \in Bridge =>
                    Pair!TurnAfter(i) # 0 /\ Pair!TurnAfter(i) <= j
<1> DEFINE left == {j \in 1 .. 3 : j > i /\ Pair!Order[j] \in Bridge}
<1>1. CASE left = {}
  BY <1>1 DEF Pair!TurnAfter
<1>2. CASE left # {}
  <2>1. \E j \in left : \A k \in left : j <= k
    <3>1. left \subseteq {1, 2, 3}
      OBVIOUS
    <3> HIDE DEF left
    <3>2. CASE 1 \in left
      BY <3>1, <3>2
    <3>3. CASE 1 \notin left /\ 2 \in left
      BY <3>1, <3>3
    <3>4. CASE 1 \notin left /\ 2 \notin left
      <4>1. PICK j \in left : TRUE
        BY <1>2
      <4>2. 3 \in left /\ \A k \in left : k = 3
        BY <3>1, <3>4, <4>1
      <4> QED BY <4>2
    <3> QED BY <3>2, <3>3, <3>4
  <2>2. Pair!TurnAfter(i) = CHOOSE j \in left : \A k \in left : j <= k
    BY <1>2 DEF Pair!TurnAfter
  <2>3. Pair!TurnAfter(i) \in left /\ \A k \in left : Pair!TurnAfter(i) <= k
    BY <2>1, <2>2
  <2> QED BY <2>3
<1> QED BY <1>1, <1>2

LEMMA AllowedIs ==
    ASSUME NEW b \in Bridge, service \in BOOLEAN
    PROVE  /\ Pair!Allowed(b) \in BOOLEAN
           /\ Pair!Allowed(b) => b \in {"DCC", "SM"}
           /\ b = "DCC" => (Pair!Allowed(b) <=> ~service)
           /\ b = "SM" => (Pair!Allowed(b) <=> service)
BY DEF Pair!Allowed

LEMMA MachineType ==
    ASSUME GuardsTyped, NEW b \in Bridge
    PROVE  /\ Pair!Machine(b) \in GuardMachine
           /\ Pair!Machine(b).g = guard[b] /\ Pair!Machine(b).pattern = pattern
BY DEF GuardsTyped, GuardMachine, Pair!Machine

(* What the guard of b can come to in a pass. *)
Outcome(b, n) ==
    /\ n \in GuardMachine
    /\ guard[b].state = "Shorted" => n.g = guard[b]
    /\ \/ Charging(b) /\ n.g = guard[b] /\ n.pattern = pattern
       \/ ~Charging(b) /\ ~InInrush(n) /\ n.pattern = pattern
       \/ /\ ~Charging(b) /\ guard[b].state # "Shorted" /\ InInrush(n)
          /\ Pair!Allowed(b) /\ n.g.since = 0 /\ n.pattern
       \/ /\ Charging(b) /\ ~InInrush(n) /\ ~n.pattern
          /\ \/ guard[b].since >= InrushTime
             \/ ~Pair!Allowed(b) /\ n.g.state = "Normal"

LEMMA PopOutcome ==
    ASSUME GuardsTyped, NEW b \in Bridge, NEW a \in Nat
    PROVE  Outcome(b, Pair!OnEdge(Pair!Advance(Pair!Machine(b), a), a, Pair!Allowed(b)))
<1> DEFINE m == Pair!Machine(b)
           k == Pair!Advance(m, a)
           n == Pair!OnEdge(k, a, Pair!Allowed(b))
<1> SUFFICES Outcome(b, n)
  OBVIOUS
<1>1. m \in GuardMachine /\ m.g = guard[b] /\ m.pattern = pattern
  BY MachineType
<1>2. Pair!Allowed(b) \in BOOLEAN
  BY AllowedIs DEF GuardsTyped
<1> HIDE DEF m
<1>3. /\ k \in GuardMachine
      /\ InInrush(m) \/ m.g.state = "Shorted" =>
            \/ k = m
            \/ /\ InInrush(m) /\ m.g.since >= InrushTime
               /\ ~k.pattern /\ k.g.state \in {"Verify", "Normal"}
      /\ ~InInrush(m) => ~InInrush(k) /\ k.pattern = m.pattern
  BY <1>1, AdvanceType
<1> HIDE DEF k
<1>4. /\ n \in GuardMachine
      /\ InInrush(k) \/ k.g.state = "Shorted" => n = k
      /\ ~InInrush(k) => \/ ~InInrush(n) /\ n.pattern = k.pattern
                         \/ /\ k.g.state = "Watch" /\ Pair!Allowed(b)
                            /\ InInrush(n) /\ n.g.since = 0 /\ n.pattern
  BY <1>2, <1>3, OnEdgeType
<1> HIDE DEF n
<1>5. CASE InInrush(m) /\ k = m
  BY <1>1, <1>4, <1>5, Zenon DEF Outcome, Charging, InInrush
<1>6. CASE InInrush(m) /\ k # m
  <2>1. ~InInrush(k) /\ k.g.state # "Watch" /\ m.g.since >= InrushTime /\ ~k.pattern
    BY <1>3, <1>6 DEF InInrush
  <2>2. ~InInrush(n) /\ ~n.pattern
    BY <1>4, <2>1
  <2> QED BY <1>1, <1>4, <1>6, <2>1, <2>2, Zenon DEF Outcome, Charging, InInrush
<1>7. CASE ~InInrush(m)
  <2>1. m.g.state = "Shorted" => n = m
    BY <1>3, <1>4, <1>7
  <2>2. \/ ~InInrush(n) /\ n.pattern = m.pattern
        \/ Pair!Allowed(b) /\ InInrush(n) /\ n.g.since = 0 /\ n.pattern
    BY <1>3, <1>4, <1>7
  <2>3. ~Charging(b) /\ (InInrush(n) => guard[b].state # "Shorted")
    BY <1>1, <1>7, <2>1 DEF Charging, InInrush
  <2> QED BY <1>1, <1>4, <2>1, <2>2, <2>3, Zenon DEF Outcome
<1> QED BY <1>5, <1>6, <1>7

LEMMA EndOutcome ==
    ASSUME GuardsTyped, NEW b \in Bridge, NEW over \in BOOLEAN
    PROVE  LET n == Pair!Stage(Pair!Advance(Pair!Machine(b), 0), Pair!Allowed(b), over)
           IN  Outcome(b, n) /\ (InInrush(n) => Pair!Allowed(b))
<1> DEFINE m == Pair!Machine(b)
           k == Pair!Advance(m, 0)
           n == Pair!Stage(k, Pair!Allowed(b), over)
<1> SUFFICES Outcome(b, n) /\ (InInrush(n) => Pair!Allowed(b))
  OBVIOUS
<1>1. m \in GuardMachine /\ m.g = guard[b] /\ m.pattern = pattern
  BY MachineType
<1>2. Pair!Allowed(b) \in BOOLEAN
  BY AllowedIs DEF GuardsTyped
<1> HIDE DEF m
<1>3. /\ k \in GuardMachine
      /\ InInrush(m) \/ m.g.state = "Shorted" =>
            \/ k = m
            \/ /\ InInrush(m) /\ m.g.since >= InrushTime
               /\ ~k.pattern /\ k.g.state \in {"Verify", "Normal"}
      /\ ~InInrush(m) => ~InInrush(k) /\ k.pattern = m.pattern
  BY <1>1, AdvanceType
<1> HIDE DEF k
<1>4. /\ n \in GuardMachine
      /\ InInrush(k) => IF Pair!Allowed(b) THEN n = k
                        ELSE n.g.state = "Normal" /\ ~n.pattern
      /\ ~InInrush(k) => ~InInrush(n) /\ n.pattern = k.pattern
      /\ k.g.state = "Shorted" => n = k
  BY <1>2, <1>3, StageType
<1> HIDE DEF n
<1>5. CASE InInrush(m) /\ k = m
  BY <1>1, <1>4, <1>5, Zenon DEF Outcome, Charging, InInrush
<1>6. CASE InInrush(m) /\ k # m
  <2>1. ~InInrush(k) /\ m.g.since >= InrushTime /\ ~k.pattern
    BY <1>3, <1>6 DEF InInrush
  <2>2. ~InInrush(n) /\ ~n.pattern
    BY <1>4, <2>1
  <2> QED BY <1>1, <1>4, <1>6, <2>1, <2>2, Zenon DEF Outcome, Charging, InInrush
<1>7. CASE ~InInrush(m)
  <2>1. m.g.state = "Shorted" => n = m
    BY <1>3, <1>4, <1>7
  <2>2. ~InInrush(n) /\ n.pattern = m.pattern
    BY <1>3, <1>4, <1>7
  <2>3. ~Charging(b)
    BY <1>1, <1>7 DEF Charging, InInrush
  <2> QED BY <1>1, <1>4, <2>1, <2>2, <2>3, Zenon DEF Outcome
<1> QED BY <1>5, <1>6, <1>7

(* What a pass writes when the guard does not cut the power, as formulas,  *)
Kept(b, n) ==
    /\ guard' = [guard EXCEPT ![b] = n.g]
    /\ hPower' = hPower /\ service' = service /\ hLate' = hLate /\ faulty' = faulty
    /\ pattern' = n.pattern
    /\ charged' = IF n.pattern /\ ~pattern THEN 0 ELSE charged
    /\ taken' = (taken /\ (pattern \/ ~n.pattern))

(* and where the pass goes on.                                             *)
Moves(b, n) ==
    \/ turn' = turn
    \/ turn' = (IF hPower' THEN Pair!TurnAfter(turn) ELSE 0)
       /\ (InInrush(n) => Pair!Allowed(b))

LEMMA KeptIs ==
    ASSUME GuardsTyped, NEW b \in Bridge, NEW n \in GuardMachine, Kept(b, n)
    PROVE  /\ guard' \in [Bridge -> GuardRec] /\ guard'[b] = n.g
           /\ \A c \in Bridge \ {b} : guard'[c] = guard[c]
           /\ Charging(b)' <=> InInrush(n)
           /\ \A c \in Bridge \ {b} : Charging(c)' <=> Charging(c)
           /\ pattern' \in BOOLEAN /\ (pattern' <=> n.pattern)
           /\ taken' \in BOOLEAN /\ (taken' <=> taken /\ (pattern \/ ~n.pattern))
           /\ charged' \in 0 .. InrushTime
           /\ n.pattern = pattern => charged' = charged
<1>1. n.g \in GuardRec /\ n.pattern \in BOOLEAN
  BY DEF GuardMachine
<1>2. guard \in [Bridge -> GuardRec] /\ pattern \in BOOLEAN /\ taken \in BOOLEAN
      /\ charged \in 0 .. InrushTime
  BY DEF GuardsTyped
<1> HIDE DEF GuardRec
<1>3. /\ guard' \in [Bridge -> GuardRec] /\ guard'[b] = n.g
      /\ \A c \in Bridge \ {b} : guard'[c] = guard[c]
  BY <1>1, <1>2 DEF Kept
<1>4. /\ Charging(b)' <=> InInrush(n)
      /\ \A c \in Bridge \ {b} : Charging(c)' <=> Charging(c)
  BY <1>3 DEF Charging, InInrush
<1>5. pattern' \in BOOLEAN /\ (pattern' <=> n.pattern)
  BY <1>1 DEF Kept
<1>6. taken' \in BOOLEAN /\ (taken' <=> taken /\ (pattern \/ ~n.pattern))
  BY Zenon DEF Kept
<1>7. charged' \in 0 .. InrushTime
  BY <1>2, GuardsAssumption DEF Kept
<1>8. n.pattern = pattern => charged' = charged
  BY DEF Kept
<1> QED BY <1>3, <1>4, <1>5, <1>6, <1>7, <1>8

(* At the turn of a guard, which one it is.                                *)
LEMMA AtTurn ==
    ASSUME GuardsTyped, turn # 0
    PROVE  /\ Pair!Order[turn] \in Bridge
           /\ Pair!Order[turn] = "DCC" <=> turn = 1
           /\ Pair!Order[turn] = "SM" <=> turn = 2
<1>1. turn \in {1, 2, 3}
  BY DEF GuardsTyped
<1> QED BY <1>1, Places DEF GuardsTyped

(* The places a pass can go to from where it is.                           *)
LEMMA MovesTo ==
    ASSUME GuardsTyped, turn # 0, NEW b, b = Pair!Order[turn], NEW n, Moves(b, n)
    PROVE  /\ turn' \in 0 .. 3 /\ (turn' # 0 => Pair!Order[turn'] \in Bridge)
           /\ turn' # turn => (InInrush(n) => Pair!Allowed(b))
           /\ turn' # turn /\ ~hPower' => turn' = 0
           /\ turn' = turn \/ turn' = 0 \/ turn' > turn
           /\ turn' # turn /\ turn = 1 /\ hPower' /\ "SM" \in Bridge => turn' = 2
<1>1. turn \in 1 .. 3 /\ turn \in 0 .. 3 /\ 0 \in 0 .. 3 /\ Pair!Order[turn] \in Bridge
  BY DEF GuardsTyped
<1>2. CASE turn' = turn
  BY <1>1, <1>2
<1>3. CASE turn' # turn /\ ~hPower'
  BY <1>1, <1>3 DEF Moves
<1>4. CASE turn' # turn /\ hPower'
  <2>1. turn' = Pair!TurnAfter(turn) /\ (InInrush(n) => Pair!Allowed(b))
    BY <1>4 DEF Moves
  <2>2. /\ turn' \in 0 .. 3
        /\ turn' # 0 => turn' > turn /\ Pair!Order[turn'] \in Bridge
        /\ \A j \in 1 .. 3 : j > turn /\ Pair!Order[j] \in Bridge => turn' # 0 /\ turn' <= j
    BY <1>1, <2>1, TurnAfterIs
  <2>3. turn = 1 /\ "SM" \in Bridge => turn' = 2
    BY <2>2, Places
  <2> QED BY <1>4, <2>1, <2>2, <2>3
<1> QED BY <1>2, <1>3, <1>4

(* The ways a guard can come out of its turn keep the invariant: it goes   *)
(* on charging,                                                            *)
LEMMA StillCharging ==
    ASSUME GuardsInv, turn # 0, NEW b, b = Pair!Order[turn], NEW n \in GuardMachine,
           Kept(b, n), Moves(b, n), Charging(b), n.g = guard[b], n.pattern = pattern
    PROVE  Patterned' /\ CutOff' /\ MainFirst' /\ Both'
<1>1. b \in Bridge /\ (b = "DCC" <=> turn = 1) /\ (b = "SM" <=> turn = 2)
  BY AtTurn DEF GuardsInv
<1>2. /\ turn' \in 0 .. 3 /\ (turn' # 0 => Pair!Order[turn'] \in Bridge)
      /\ turn' # turn => (InInrush(n) => Pair!Allowed(b))
      /\ turn' # turn /\ ~hPower' => turn' = 0
      /\ turn' = turn \/ turn' = 0 \/ turn' > turn
      /\ turn' # turn /\ turn = 1 /\ hPower' /\ "SM" \in Bridge => turn' = 2
  BY MovesTo DEF GuardsInv
<1>3. guard' = guard
  BY <1>1 DEF Kept, GuardsInv, GuardsTyped
<1>4. /\ pattern' = pattern /\ charged' = charged /\ hPower' = hPower
      /\ service' = service
  BY DEF Kept
<1>5. taken' = taken
  BY <1>1, KeptIs DEF Kept, GuardsInv, GuardsTyped
<1>6. Patterned'
  BY <1>3, <1>4, <1>5 DEF GuardsInv, Patterned, Owned, OnTracks, WholeTime, ProgHasPattern,
     Charging, Pair!Allowed
<1>7. hPower
  BY <1>1 DEF GuardsInv, CutOff, Charging
<1>8. CutOff'
  BY <1>4, <1>7 DEF CutOff
<1>9. CASE turn' = turn
  BY <1>3, <1>4, <1>8, <1>6, <1>9 DEF GuardsInv, MainFirst, Both, Charging
<1>10. CASE turn' # turn
  <2>1. Pair!Allowed(b)
    BY <1>2, <1>10 DEF Charging, InInrush
  <2>2. turn \in 1 .. 3 /\ service \in BOOLEAN
    BY DEF GuardsInv, GuardsTyped
  <2>3. (turn = 1 => ~service) /\ (turn = 2 => service)
    BY <1>1, <2>1, <2>2, AllowedIs
  <2>4. MainFirst'
    BY <1>3, <1>4, <2>2, <2>3 DEF GuardsInv, MainFirst, Charging
  <2>5. Both'
    BY <1>2, <1>3, <1>4, <1>7, <1>10, <2>2, <2>3 DEF GuardsInv, Both, Charging
  <2> QED BY <1>6, <1>8, <2>4, <2>5
<1> QED BY <1>9, <1>10

(* was not charging and is not now,                                        *)
LEMMA StillNot ==
    ASSUME GuardsInv, turn # 0, NEW b, b = Pair!Order[turn], NEW n \in GuardMachine,
           Kept(b, n), Moves(b, n), ~Charging(b), ~InInrush(n), n.pattern = pattern,
           guard[b].state = "Shorted" => n.g = guard[b]
    PROVE  Patterned' /\ CutOff' /\ MainFirst' /\ Both'
<1>1. b \in Bridge /\ (b = "DCC" <=> turn = 1) /\ (b = "SM" <=> turn = 2)
  BY AtTurn DEF GuardsInv
<1>2. /\ turn' \in 0 .. 3 /\ (turn' # 0 => Pair!Order[turn'] \in Bridge)
      /\ turn' # turn /\ ~hPower' => turn' = 0
      /\ turn' = turn \/ turn' = 0 \/ turn' > turn
  BY MovesTo DEF GuardsInv
<1>3. /\ guard'[b] = n.g /\ \A c \in Bridge : Charging(c)' <=> Charging(c)
      /\ \A c \in Bridge : Charging(c) => guard'[c] = guard[c]
  BY <1>1, KeptIs DEF GuardsInv
<1>4. /\ pattern' = pattern /\ charged' = charged /\ hPower' = hPower
      /\ service' = service
  BY DEF Kept
<1>5. taken' = taken
  BY <1>1, KeptIs DEF Kept, GuardsInv, GuardsTyped
<1>6. Patterned'
  <2>1. \A c \in Bridge : Pair!Allowed(c)' <=> Pair!Allowed(c)
    BY <1>4 DEF Pair!Allowed
  <2>2. Owned' /\ OnTracks' /\ ProgHasPattern'
    BY <1>3, <1>4 DEF GuardsInv, Patterned, Owned, OnTracks, ProgHasPattern
  <2>3. WholeTime'
    BY <1>3, <1>4, <1>5, <2>1 DEF GuardsInv, Patterned, WholeTime
  <2> QED BY <2>2, <2>3 DEF Patterned
<1>7. CutOff'
  <2>1. CASE turn' = turn
    BY <1>3, <1>4, <2>1 DEF GuardsInv, CutOff
  <2>2. CASE turn' # turn
    BY <1>2, <2>2 DEF CutOff
  <2> QED BY <2>1, <2>2
<1>8. turn \in 1 .. 3
  BY DEF GuardsInv, GuardsTyped
<1>9. MainFirst'
  BY <1>1, <1>2, <1>3, <1>4, <1>8 DEF GuardsInv, MainFirst
<1>10. Both'
  <2>1. CASE turn' = turn
    BY <1>3, <1>4, <2>1 DEF GuardsInv, Both
  <2>2. CASE turn' # turn
    BY <1>1, <1>3, <1>8, <2>2 DEF GuardsInv, Both
  <2> QED BY <2>1, <2>2
<1> QED BY <1>6, <1>7, <1>9, <1>10

(* begins to charge,                                                       *)
LEMMA BeginsCharging ==
    ASSUME GuardsInv, turn # 0, NEW b, b = Pair!Order[turn], NEW n \in GuardMachine,
           Kept(b, n), Moves(b, n), ~Charging(b), guard[b].state # "Shorted",
           InInrush(n), Pair!Allowed(b), n.g.since = 0, n.pattern
    PROVE  Patterned' /\ CutOff' /\ MainFirst' /\ Both'
<1>1. b \in Bridge /\ (b = "DCC" <=> turn = 1) /\ (b = "SM" <=> turn = 2)
  BY AtTurn DEF GuardsInv
<1>2. /\ turn' \in 0 .. 3 /\ (turn' # 0 => Pair!Order[turn'] \in Bridge)
      /\ turn' = turn \/ turn' = 0 \/ turn' > turn
      /\ turn' # turn /\ turn = 1 /\ hPower' /\ "SM" \in Bridge => turn' = 2
  BY MovesTo DEF GuardsInv
<1>3. /\ guard'[b] = n.g /\ \A c \in Bridge \ {b} : guard'[c] = guard[c]
      /\ Charging(b)' /\ \A c \in Bridge \ {b} : Charging(c)' <=> Charging(c)
  BY <1>1, KeptIs DEF GuardsInv
<1>4. pattern' /\ (taken' <=> taken /\ pattern) /\ charged' \in 0 .. InrushTime
  BY <1>1, KeptIs DEF GuardsInv
<1>5. hPower' = hPower /\ service' = service /\ hPower
  BY <1>1 DEF Kept, GuardsInv, CutOff
<1>6. \A c \in Bridge : Pair!Allowed(c)' <=> Pair!Allowed(c)
  BY <1>5 DEF Pair!Allowed
<1>7. /\ turn \in 1 .. 3 /\ b \in {"DCC", "SM"}
      /\ (turn = 1 => ~service) /\ (turn = 2 => service)
  BY <1>1, AllowedIs DEF GuardsInv, GuardsTyped
<1>8. Owned' /\ OnTracks' /\ ProgHasPattern'
  BY <1>1, <1>3, <1>4, <1>5, <1>7 DEF GuardsInv, Patterned, Owned, OnTracks, ProgHasPattern
<1>9. MainFirst'
  BY <1>1, <1>3, <1>5, <1>7 DEF GuardsInv, MainFirst
(* No other guard is charging, unless service mode has just begun or ended. *)
<1>10. ASSUME NEW c \in Bridge, c # b, Charging(c), ~taken'
       PROVE  FALSE
  <2>1. c \in {"DCC", "SM"}
    BY <1>10 DEF GuardsInv, Patterned, OnTracks
  <2>2. CASE ~taken
    <3>1. Pair!Allowed(c)
      BY <1>10, <2>2 DEF GuardsInv, Patterned, WholeTime
    <3> QED BY <1>7, <1>1, <1>10, <2>1, <3>1, AllowedIs DEF GuardsInv, GuardsTyped
  <2>3. CASE ~pattern
    <3>1. CASE c = "SM"
      BY <1>10, <2>3, <3>1 DEF GuardsInv, Patterned, ProgHasPattern
    <3>2. CASE c = "DCC"
      BY <1>1, <1>7, <1>10, <3>2 DEF GuardsInv, MainFirst
    <3> QED BY <2>1, <3>1, <3>2
  <2> QED BY <1>4, <1>10, <2>2, <2>3
<1>11. WholeTime'
  <2> SUFFICES ASSUME NEW c \in Bridge, Charging(c)', ~taken'
               PROVE  Pair!Allowed(c)' /\ pattern'
                      /\ (guard'[c].since <= charged' \/ charged' = InrushTime)
    BY DEF WholeTime
  <2>1. c = b
    BY <1>3, <1>10
  <2>2. guard'[c].since = 0
    BY <1>3, <2>1
  <2>3. 0 <= charged'
    BY <1>4
  <2> QED BY <1>4, <1>6, <2>1, <2>2, <2>3
<1>12. Both'
  <2> SUFFICES ASSUME {"DCC", "SM"} \subseteq Bridge, Charging("DCC")', Charging("SM")'
               PROVE  guard'["DCC"].since = 0 /\ ~service' /\ turn' \in {1, 2}
    BY DEF Both
  <2>1. CASE b = "DCC"
    <3>1. turn = 1
      BY <1>1, <2>1
    <3>2. turn' \in {1, 2}
      <4>1. CASE turn' = turn
        BY <3>1, <4>1
      <4>2. CASE turn' # turn
        BY <1>2, <1>5, <3>1, <4>2
      <4> QED BY <4>1, <4>2
    <3> QED BY <1>3, <1>5, <1>7, <2>1, <3>1, <3>2
  <2>2. CASE b = "SM"
    <3>1. turn = 2 /\ Charging("DCC")
      BY <1>1, <1>3, <2>2
    <3> QED BY <1>7, <3>1 DEF GuardsInv, MainFirst
  <2> QED BY <1>7, <2>1, <2>2
<1>13. CutOff'
  BY <1>5 DEF CutOff
<1> QED BY <1>8, <1>9, <1>11, <1>12, <1>13 DEF Patterned

(* or has ended, and the pattern with it.                                  *)
LEMMA EndsCharging ==
    ASSUME GuardsInv, turn # 0, NEW b, b = Pair!Order[turn], NEW n \in GuardMachine,
           Kept(b, n), Moves(b, n), Charging(b), ~InInrush(n), ~n.pattern,
           guard[b].since >= InrushTime \/ ~Pair!Allowed(b)
    PROVE  Patterned' /\ CutOff' /\ MainFirst' /\ Both'
<1>1. b \in Bridge /\ (b = "DCC" <=> turn = 1) /\ (b = "SM" <=> turn = 2)
  BY AtTurn DEF GuardsInv
<1>2. turn' \in 0 .. 3 /\ (turn' = turn \/ turn' = 0 \/ turn' > turn)
  BY MovesTo DEF GuardsInv
<1>3. /\ \A c \in Bridge \ {b} : guard'[c] = guard[c]
      /\ ~Charging(b)' /\ \A c \in Bridge \ {b} : Charging(c)' <=> Charging(c)
  BY <1>1, KeptIs DEF GuardsInv
<1>4. ~pattern' /\ (taken' <=> taken)
  BY <1>1, KeptIs DEF GuardsInv
<1>5. hPower' = hPower /\ service' = service /\ hPower
  BY <1>1 DEF Kept, GuardsInv, CutOff, Charging
<1>6. turn \in 1 .. 3 /\ b \in {"DCC", "SM"}
  BY <1>1 DEF GuardsInv, GuardsTyped, Patterned, OnTracks
<1>7. Owned' /\ CutOff'
  BY <1>4, <1>5 DEF Owned, CutOff
<1>8. OnTracks'
  BY <1>3 DEF GuardsInv, Patterned, OnTracks
<1>9. MainFirst'
  BY <1>1, <1>3, <1>5, <1>6 DEF GuardsInv, MainFirst
<1>10. Both'
  BY <1>3, <1>6 DEF Both
<1>11. ProgHasPattern'
  <2> SUFFICES ASSUME "SM" \in Bridge, Charging("SM")' PROVE FALSE
    BY DEF ProgHasPattern
  <2>1. b = "DCC" /\ Charging("SM")
    BY <1>3, <1>6
  <2>2. guard["DCC"].since = 0 /\ ~service
    BY <1>1, <2>1 DEF GuardsInv, Both
  <2>3. Pair!Allowed("DCC")
    BY <1>1, <2>1, <2>2, AllowedIs DEF GuardsInv, GuardsTyped
  <2>4. guard["DCC"].since >= InrushTime
    BY <2>1, <2>3
  <2> QED BY <2>2, <2>4, GuardsAssumption
<1>12. WholeTime'
  <2> SUFFICES ASSUME NEW c \in Bridge, Charging(c)', ~taken' PROVE FALSE
    BY DEF WholeTime
  <2>1. c # b /\ Charging(c) /\ ~taken
    BY <1>3, <1>4
  <2>2. Pair!Allowed(c) /\ Pair!Allowed(b)
    BY <1>1, <2>1 DEF GuardsInv, Patterned, WholeTime
  <2>3. c \in {"DCC", "SM"}
    BY <2>1 DEF GuardsInv, Patterned, OnTracks
  <2> QED BY <1>1, <1>6, <2>1, <2>2, <2>3, AllowedIs DEF GuardsInv, GuardsTyped
<1> QED BY <1>7, <1>8, <1>9, <1>10, <1>11, <1>12 DEF Patterned

(* When the power goes off, no guard is left charging and the pattern has  *)
(* ended: the guards that may have switched it on are those of the tracks. *)
LEMMA PowerCut ==
    ASSUME NEW guards \in [Bridge -> GuardRec], NEW pat \in BOOLEAN,
           \A c \in Bridge : guards[c].state = "Inrush" => c \in {"DCC", "SM"},
           pat => \E c \in Bridge : guards[c].state = "Inrush",
           Pair!SetPowerOff(guards, pat)
    PROVE  /\ ~hPower' /\ ~pattern' /\ ~taken' /\ charged' = 0
           /\ hPower' \in BOOLEAN /\ pattern' \in BOOLEAN /\ taken' \in BOOLEAN
           /\ guard' \in [Bridge -> GuardRec] /\ \A c \in Bridge : ~Charging(c)'
           /\ \A c \in Bridge : guards[c].state = "Shorted" => guard'[c] = guards[c]
           /\ \A c \in Bridge : guards[c].state # "Shorted" => guard'[c].state = "Normal"
<1>1. /\ hPower' = FALSE /\ taken' = FALSE /\ charged' = 0
      /\ pattern' = (pat /\ ~\E b \in Bridge \ {"CDE"} : guards[b].state = "Inrush")
      /\ guard' = [b \in Bridge |-> IF guards[b].state = "Shorted" THEN guards[b]
                                    ELSE Pair!Fresh]
  BY DEF Pair!SetPowerOff
<1>2. pattern' = FALSE
  <2>1. ~(pat /\ ~\E b \in Bridge \ {"CDE"} : guards[b].state = "Inrush")
    OBVIOUS
  <2> QED BY <1>1, <2>1
<1> HIDE DEF GuardRec
<1>3. /\ guard' \in [Bridge -> GuardRec]
      /\ \A c \in Bridge : guards[c].state = "Shorted" => guard'[c] = guards[c]
      /\ \A c \in Bridge : guards[c].state # "Shorted" => guard'[c].state = "Normal"
  BY <1>1, FreshType
<1>4. \A c \in Bridge : ~Charging(c)'
  BY <1>3 DEF Charging
<1> QED BY <1>1, <1>2, <1>3, <1>4

LEMMA QuietRest ==
    ASSUME ~pattern', \A c \in Bridge : ~Charging(c)'
    PROVE  Patterned' /\ MainFirst' /\ Both'
BY DEF Patterned, Owned, OnTracks, WholeTime, ProgHasPattern, MainFirst, Both

(* A guard that has charged for the inrush time has had the pattern for    *)
(* as long.                                                                *)
LEMMA SinceCharged ==
    ASSUME GuardsInv, NEW b \in Bridge, Charging(b), guard[b].since >= InrushTime
    PROVE  charged = InrushTime \/ taken
<1>1. guard[b].since \in Int
  BY GuardFields DEF GuardsInv, GuardsTyped
<1>2. charged \in 0 .. InrushTime
  BY DEF GuardsInv, GuardsTyped
<1>3. ~taken => guard[b].since <= charged \/ charged = InrushTime
  BY DEF GuardsInv, Patterned, WholeTime
<1> QED BY <1>1, <1>2, <1>3, GuardsAssumption

(* What a pass leaves of the rest.                                         *)
PassTyped ==
    /\ edges' \in [Bridge -> Seq(Nat)] /\ \A b \in Bridge : Len(edges'[b]) <= EdgeSlots
    /\ service' = service /\ hLate' = hLate /\ faulty' = faulty

LEMMA BecomesKeeps ==
    ASSUME GuardsInv, turn # 0, NEW b, b = Pair!Order[turn], NEW n, Outcome(b, n),
           Moves(b, n), Pair!Becomes(b, n), PassTyped
    PROVE  GuardsInv' /\ \A c \in Bridge : Pair!Charges(c)
<1>1. b \in Bridge /\ n \in GuardMachine /\ GuardsTyped /\ n.g \in GuardRec
      /\ n.pattern \in BOOLEAN /\ guard \in [Bridge -> GuardRec]
  BY AtTurn DEF GuardsInv, GuardsTyped, Outcome, GuardMachine
<1>2. turn' \in 0 .. 3 /\ (turn' # 0 => Pair!Order[turn'] \in Bridge)
      /\ (turn' # turn /\ ~hPower' => turn' = 0)
  BY <1>1, MovesTo
<1>3. /\ service' \in BOOLEAN /\ hLate' \in 0 .. MaxLate /\ faulty' = {}
      /\ edges' \in [Bridge -> Seq(Nat)] /\ \A c \in Bridge : Len(edges'[c]) <= EdgeSlots
  BY <1>1 DEF PassTyped, GuardsTyped
<1> HIDE DEF GuardRec
<1>4. CASE n.g.state = "Shorted" /\ guard[b].state # "Shorted"
  <2> DEFINE guards == [guard EXCEPT ![b] = n.g]
  <2>1. Pair!SetPowerOff(guards, n.pattern)
    BY <1>4 DEF Pair!Becomes
  <2>2. /\ guards \in [Bridge -> GuardRec] /\ guards[b] = n.g
        /\ \A c \in Bridge \ {b} : guards[c] = guard[c]
    BY <1>1
  <2> HIDE DEF guards
  <2>3. ~InInrush(n)
    BY <1>4 DEF InInrush
  <2>4. \A c \in Bridge : guards[c].state = "Inrush" =>
            c # b /\ Charging(c) /\ c \in {"DCC", "SM"}
    BY <1>4, <2>2 DEF Charging, GuardsInv, Patterned, OnTracks
  <2>5. n.pattern => \E c \in Bridge : guards[c].state = "Inrush"
    <3> SUFFICES ASSUME n.pattern PROVE \E c \in Bridge : guards[c].state = "Inrush"
      OBVIOUS
    <3>1. ~Charging(b) /\ pattern
      <4>1. n.pattern = pattern /\ ~Charging(b)
        BY <2>3 DEF Outcome, Charging, InInrush
      <4> QED BY <4>1
    <3>2. PICK c \in Bridge : Charging(c)
      BY <3>1 DEF GuardsInv, Patterned, Owned
    <3>3. guards[c] = guard[c]
      BY <2>2, <3>1, <3>2
    <3> QED BY <3>2, <3>3 DEF Charging
  <2>6. /\ ~hPower' /\ ~pattern' /\ ~taken' /\ charged' = 0
        /\ hPower' \in BOOLEAN /\ pattern' \in BOOLEAN /\ taken' \in BOOLEAN
        /\ guard' \in [Bridge -> GuardRec] /\ \A c \in Bridge : ~Charging(c)'
        /\ \A c \in Bridge : guards[c].state = "Shorted" => guard'[c] = guards[c]
        /\ \A c \in Bridge : guards[c].state # "Shorted" => guard'[c].state = "Normal"
    BY <1>1, <2>1, <2>2, <2>4, <2>5, PowerCut
  <2>7. Patterned' /\ MainFirst' /\ Both'
    BY <2>6, QuietRest
  <2>8. CutOff'
    <3>1. CASE turn' = turn
      <4>1. guard'[b].state = "Shorted"
        BY <1>1, <1>4, <2>2, <2>6
      <4> QED BY <3>1, <4>1 DEF CutOff
    <3>2. CASE turn' # turn
      BY <1>2, <2>6, <3>2 DEF CutOff
    <3> QED BY <3>1, <3>2
  <2>9. GuardsTyped'
    BY <1>2, <1>3, <2>6, GuardsAssumption DEF GuardsTyped
  <2>10. ASSUME NEW c \in Bridge PROVE Pair!Charges(c)
    <3> SUFFICES ASSUME Charging(c), guard'[c].state \in {"Verify", "Shorted"}
                 PROVE  charged = InrushTime \/ taken
      BY DEF Pair!Charges, Charging
    <3>1. c = b
      BY <2>2, <2>6 DEF Charging
    <3>2. guard[b].since >= InrushTime
      BY <1>4, <3>1, <2>3 DEF Outcome
    <3> QED BY <3>1, <3>2, <1>1, SinceCharged
  <2> QED BY <2>7, <2>8, <2>9, <2>10 DEF GuardsInv
<1>5. CASE ~(n.g.state = "Shorted" /\ guard[b].state # "Shorted")
  <2>1. Kept(b, n)
    BY <1>5 DEF Pair!Becomes, Kept, PassTyped
  <2>2. /\ guard' \in [Bridge -> GuardRec] /\ guard'[b] = n.g
        /\ \A c \in Bridge \ {b} : guard'[c] = guard[c]
        /\ pattern' \in BOOLEAN /\ taken' \in BOOLEAN /\ charged' \in 0 .. InrushTime
    BY <1>1, <2>1, KeptIs
  <2>3. hPower' \in BOOLEAN
    BY <1>1, <2>1 DEF Kept, GuardsTyped
  <2>4. GuardsTyped'
    BY <1>2, <1>3, <2>2, <2>3 DEF GuardsTyped
  <2>5. Patterned' /\ CutOff' /\ MainFirst' /\ Both'
    <3>1. CASE Charging(b) /\ n.g = guard[b] /\ n.pattern = pattern
      BY <1>1, <2>1, <3>1, StillCharging
    <3>2. CASE ~Charging(b) /\ ~InInrush(n) /\ n.pattern = pattern
      BY <1>1, <2>1, <3>2, StillNot DEF Outcome
    <3>3. CASE /\ ~Charging(b) /\ guard[b].state # "Shorted" /\ InInrush(n)
               /\ Pair!Allowed(b) /\ n.g.since = 0 /\ n.pattern
      BY <1>1, <2>1, <3>3, BeginsCharging
    <3>4. CASE /\ Charging(b) /\ ~InInrush(n) /\ ~n.pattern
               /\ \/ guard[b].since >= InrushTime
                  \/ ~Pair!Allowed(b) /\ n.g.state = "Normal"
      BY <1>1, <2>1, <3>4, EndsCharging
    <3> QED BY <3>1, <3>2, <3>3, <3>4 DEF Outcome
  <2>6. ASSUME NEW c \in Bridge PROVE Pair!Charges(c)
    <3> SUFFICES ASSUME Charging(c), guard'[c].state \in {"Verify", "Shorted"}
                 PROVE  charged = InrushTime \/ taken
      BY DEF Pair!Charges, Charging
    <3>1. c = b
      BY <2>2 DEF Charging
    <3>2. ~InInrush(n) /\ n.g.state # "Normal"
      BY <2>2, <3>1 DEF InInrush
    <3>3. guard[b].since >= InrushTime
      BY <3>1, <3>2 DEF Outcome, Charging, InInrush
    <3> QED BY <3>1, <3>3, <1>1, SinceCharged
  <2> QED BY <2>4, <2>5, <2>6 DEF GuardsInv
<1> QED BY <1>4, <1>5

(* The steps between two turns.                                            *)
LEMMA LoopBeginsKeeps ==
    ASSUME GuardsInv, Pair!LoopBegins
    PROVE  GuardsInv' /\ \A c \in Bridge : Pair!Charges(c)
<1>1. /\ hPower' = hPower /\ service' = service /\ guard' = guard /\ pattern' = pattern
      /\ faulty' = faulty /\ charged' = charged /\ taken' = taken /\ turn = 0 /\ hLate' = 0
      /\ IF hPower THEN turn' = Pair!TurnAfter(0) /\ edges' = edges
         ELSE edges' = [b \in Bridge |-> <<>>] /\ turn' = turn
  BY DEF Pair!LoopBegins
<1>2. /\ turn' \in 0 .. 3 /\ (turn' # 0 => Pair!Order[turn'] \in Bridge)
      /\ turn' # 0 => hPower
      /\ "DCC" \in Bridge => turn' \in {0, 1}
  <2>1. CASE hPower
    BY <1>1, <2>1, TurnAfterIs, Places
  <2>2. CASE ~hPower
    BY <1>1, <2>2
  <2> QED BY <2>1, <2>2
<1>3. edges' \in [Bridge -> Seq(Nat)] /\ \A b \in Bridge : Len(edges'[b]) <= EdgeSlots
  <2>1. CASE hPower
    BY <1>1, <2>1 DEF GuardsInv, GuardsTyped
  <2>2. CASE ~hPower
    <3>1. <<>> \in Seq(Nat) /\ Len(<<>>) = 0
      OBVIOUS
    <3>2. edges' = [b \in Bridge |-> <<>>]
      BY <1>1, <2>2
    <3> QED BY <3>1, <3>2, GuardsAssumption
  <2> QED BY <2>1, <2>2
<1>4. GuardsTyped'
  BY <1>1, <1>2, <1>3, GuardsAssumption DEF GuardsInv, GuardsTyped
<1>5. Patterned'
  BY <1>1 DEF GuardsInv, Patterned, Owned, OnTracks, WholeTime, ProgHasPattern, Charging,
     Pair!Allowed
<1>6. CutOff' /\ MainFirst'
  BY <1>1, <1>2 DEF CutOff, MainFirst
<1>7. Both'
  BY <1>1 DEF GuardsInv, Both, Charging
<1>8. \A c \in Bridge : Pair!Charges(c)
  BY <1>1 DEF Pair!Charges
<1> QED BY <1>4, <1>5, <1>6, <1>7, <1>8 DEF GuardsInv

LEMMA PopFallKeeps ==
    ASSUME GuardsInv, Pair!PopFall
    PROVE  GuardsInv' /\ \A c \in Bridge : Pair!Charges(c)
<1> DEFINE b == Pair!Order[turn]
           a == Head(edges[b])
           n == Pair!OnEdge(Pair!Advance(Pair!Machine(b), a), a, Pair!Allowed(b))
<1>1. /\ turn # 0 /\ edges[b] # <<>> /\ edges' = [edges EXCEPT ![b] = Tail(@)]
      /\ Pair!Becomes(b, n) /\ turn' = turn
      /\ service' = service /\ hLate' = hLate /\ faulty' = faulty
  BY DEF Pair!PopFall
<1>2. b \in Bridge /\ edges \in [Bridge -> Seq(Nat)] /\ Len(edges[b]) <= EdgeSlots
  BY <1>1, AtTurn DEF GuardsInv, GuardsTyped
<1>3. a \in Nat /\ Tail(edges[b]) \in Seq(Nat) /\ Len(Tail(edges[b])) <= EdgeSlots
  <2>1. edges[b] \in Seq(Nat) /\ edges[b] # <<>>
    BY <1>1, <1>2
  <2>2. /\ Head(edges[b]) \in Nat /\ Tail(edges[b]) \in Seq(Nat)
        /\ Len(Tail(edges[b])) = Len(edges[b]) - 1 /\ Len(edges[b]) \in Nat
    BY <2>1, HeadTailProperties
  <2> QED BY <1>2, <2>2, GuardsAssumption
<1>4. PassTyped
  <2>1. edges' \in [Bridge -> Seq(Nat)]
    BY <1>1, <1>2, <1>3
  <2>2. \A c \in Bridge : Len(edges'[c]) <= EdgeSlots
    BY <1>1, <1>2, <1>3 DEF GuardsInv, GuardsTyped
  <2> QED BY <1>1, <2>1, <2>2 DEF PassTyped
<1>5. Outcome(b, n)
  BY <1>2, <1>3, PopOutcome DEF GuardsInv
<1>6. Moves(b, n)
  BY <1>1 DEF Moves
<1> HIDE DEF b, n
<1>7. b = Pair!Order[turn]
  BY DEF b
<1> QED BY <1>1, <1>4, <1>5, <1>6, <1>7, BecomesKeeps

LEMMA UpdateEndsKeeps ==
    ASSUME GuardsInv, NEW over \in BOOLEAN, Pair!UpdateEnds(over)
    PROVE  GuardsInv' /\ \A c \in Bridge : Pair!Charges(c)
<1> DEFINE b == Pair!Order[turn]
           n == Pair!Stage(Pair!Advance(Pair!Machine(b), 0), Pair!Allowed(b), over)
<1>1. /\ turn # 0 /\ Pair!Becomes(b, n)
      /\ turn' = IF hPower' THEN Pair!TurnAfter(turn) ELSE 0
      /\ service' = service /\ hLate' = hLate /\ faulty' = faulty /\ edges' = edges
  BY DEF Pair!UpdateEnds
<1>2. b \in Bridge
  BY <1>1, AtTurn DEF GuardsInv
<1>3. PassTyped
  BY <1>1 DEF PassTyped, GuardsInv, GuardsTyped
<1>4. Outcome(b, n) /\ (InInrush(n) => Pair!Allowed(b))
  BY <1>2, EndOutcome DEF GuardsInv
<1>5. Moves(b, n)
  BY <1>1, <1>4 DEF Moves
<1> HIDE DEF b, n
<1>6. b = Pair!Order[turn]
  BY DEF b
<1> QED BY <1>1, <1>3, <1>4, <1>5, <1>6, BecomesKeeps

LEMMA PowerOnKeeps ==
    ASSUME GuardsInv, Pair!PowerOn
    PROVE  GuardsInv' /\ \A c \in Bridge : Pair!Charges(c)
<1>1. /\ turn = 0 /\ ~hPower /\ hPower' = TRUE /\ guard' = [b \in Bridge |-> Pair!Fresh]
      /\ edges' = [b \in Bridge |-> <<>>] /\ service' = service /\ turn' = turn
      /\ pattern' = pattern /\ hLate' = hLate /\ faulty' = faulty /\ charged' = charged
      /\ taken' = taken
  BY DEF Pair!PowerOn
<1>2. ~pattern'
  BY <1>1 DEF GuardsInv, Patterned, Owned
<1> HIDE DEF GuardRec
<1>3. /\ guard' \in [Bridge -> GuardRec] /\ \A c \in Bridge : guard'[c].state = "Normal"
  BY <1>1, FreshType
<1>4. \A c \in Bridge : ~Charging(c)' /\ Pair!Charges(c)
  BY <1>3 DEF Charging, Pair!Charges
<1>5. <<>> \in Seq(Nat) /\ Len(<<>>) = 0
  OBVIOUS
<1>6. edges' \in [Bridge -> Seq(Nat)] /\ \A b \in Bridge : Len(edges'[b]) <= EdgeSlots
  BY <1>1, <1>5, GuardsAssumption
<1>7. GuardsTyped'
  BY <1>1, <1>3, <1>6 DEF GuardsInv, GuardsTyped
<1>8. CutOff'
  BY <1>1 DEF CutOff
<1> QED BY <1>2, <1>4, <1>7, <1>8, QuietRest DEF GuardsInv

LEMMA PowerOffKeeps ==
    ASSUME GuardsInv, Pair!PowerOff
    PROVE  GuardsInv' /\ \A c \in Bridge : Pair!Charges(c)
<1>1. /\ turn = 0 /\ Pair!SetPowerOff(guard, pattern) /\ service' = service /\ turn' = turn
      /\ edges' = edges /\ hLate' = hLate /\ faulty' = faulty
  BY DEF Pair!PowerOff
<1>2. guard \in [Bridge -> GuardRec] /\ pattern \in BOOLEAN
  BY DEF GuardsInv, GuardsTyped
<1>3. /\ \A c \in Bridge : guard[c].state = "Inrush" => c \in {"DCC", "SM"}
      /\ pattern => \E c \in Bridge : guard[c].state = "Inrush"
  BY DEF GuardsInv, Patterned, Owned, OnTracks, Charging
<1> HIDE DEF GuardRec
<1>4. /\ ~hPower' /\ ~pattern' /\ ~taken' /\ charged' = 0
      /\ hPower' \in BOOLEAN /\ pattern' \in BOOLEAN /\ taken' \in BOOLEAN
      /\ guard' \in [Bridge -> GuardRec] /\ \A c \in Bridge : ~Charging(c)'
      /\ \A c \in Bridge : guard[c].state = "Shorted" => guard'[c] = guard[c]
      /\ \A c \in Bridge : guard[c].state # "Shorted" => guard'[c].state = "Normal"
  BY <1>1, <1>2, <1>3, PowerCut
<1>5. GuardsTyped'
  BY <1>1, <1>4, GuardsAssumption DEF GuardsInv, GuardsTyped
<1>6. Patterned' /\ MainFirst' /\ Both'
  BY <1>4, QuietRest
<1>7. CutOff'
  BY <1>1 DEF CutOff
<1>8. \A c \in Bridge : Pair!Charges(c)
  BY <1>4 DEF Pair!Charges
<1> QED BY <1>5, <1>6, <1>7, <1>8 DEF GuardsInv

LEMMA ServiceModeKeeps ==
    ASSUME GuardsInv, Pair!ServiceMode
    PROVE  GuardsInv' /\ \A c \in Bridge : Pair!Charges(c)
<1>1. /\ turn = 0 /\ service' = ~service /\ taken' = TRUE /\ hPower' = hPower
      /\ guard' = guard /\ turn' = turn /\ edges' = edges /\ pattern' = pattern
      /\ hLate' = hLate /\ faulty' = faulty /\ charged' = charged
  BY DEF Pair!ServiceMode
<1>2. service' \in BOOLEAN /\ taken' \in BOOLEAN /\ taken'
  BY <1>1, Zenon
<1>3. GuardsTyped'
  BY <1>1, <1>2 DEF GuardsInv, GuardsTyped
<1>4. Patterned'
  BY <1>1, <1>2 DEF GuardsInv, Patterned, Owned, OnTracks, WholeTime, ProgHasPattern, Charging
<1>5. CutOff' /\ MainFirst' /\ Both'
  BY <1>1 DEF GuardsInv, CutOff, MainFirst, Both, Charging
<1>6. \A c \in Bridge : Pair!Charges(c)
  BY <1>1 DEF Pair!Charges
<1> QED BY <1>3, <1>4, <1>5, <1>6 DEF GuardsInv

(* An interrupt adds at most one edge, and none to a full ring.            *)
LEMMA IsrEdgeType ==
    ASSUME GuardsTyped, NEW b \in Bridge, NEW S
    PROVE  Pair!IsrEdge(b, S) \in Seq(Nat) /\ Len(Pair!IsrEdge(b, S)) <= EdgeSlots
<1> DEFINE q == edges[b]
           aged == [i \in DOMAIN q |-> q[i] + 1]
<1>1. q \in Seq(Nat) /\ Len(q) <= EdgeSlots
  BY DEF GuardsTyped
<1>2. Pair!IsrEdge(b, S) = IF b \in S /\ Len(aged) < EdgeSlots THEN Append(aged, 0) ELSE aged
  BY DEF Pair!IsrEdge
<1> HIDE DEF q
<1>3. aged \in Seq(Nat) /\ Len(aged) = Len(q)
  <2>1. Len(q) \in Nat /\ DOMAIN q = 1 .. Len(q) /\ \A i \in 1 .. Len(q) : q[i] \in Nat
    BY <1>1
  <2>2. DOMAIN aged = 1 .. Len(q) /\ \A i \in 1 .. Len(q) : aged[i] \in Nat
    BY <2>1
  <2>3. aged \in [1 .. Len(q) -> Nat]
    BY <2>1, <2>2
  <2> QED BY <2>1, <2>3, SeqDef, LenProperties
<1> HIDE DEF aged
<1>4. CASE b \in S /\ Len(aged) < EdgeSlots
  <2>1. Append(aged, 0) \in Seq(Nat) /\ Len(Append(aged, 0)) = Len(aged) + 1
    BY <1>3, AppendProperties
  <2>2. Len(aged) \in Nat
    BY <1>3, LenProperties
  <2> QED BY <1>2, <1>4, <2>1, <2>2, GuardsAssumption
<1>5. CASE ~(b \in S /\ Len(aged) < EdgeSlots)
  BY <1>1, <1>2, <1>3, <1>5
<1> QED BY <1>4, <1>5

LEMMA OlderIs ==
    ASSUME NEW a \in Int
    PROVE  Pair!Older(a) \in Int /\ Pair!Older(a) <= a + 1
BY DEF Pair!Older

(* In a tick a guard stays in its phase and gets no more than a tick older. *)
LEMMA AgedType ==
    ASSUME NEW g \in GuardRec
    PROVE  /\ Pair!Aged(g) \in GuardRec
           /\ Pair!Aged(g).state = g.state
           /\ g.state = "Inrush" => Pair!Aged(g).since <= g.since + 1
<1> DEFINE t0 == IF g.state \in {"Ignore", "Watch"} THEN Pair!Older(g.t0) ELSE 0
           since == IF g.state \in {"Watch", "Inrush", "Verify"} THEN Pair!Older(g.since)
                    ELSE 0
           base == IF g.state = "Verify" THEN Pair!Older(g.base) ELSE 0
           start == IF g.chain THEN Pair!Older(g.chainStart) ELSE 0
           last == IF g.chain THEN Pair!Older(g.chainLast) ELSE 0
           reset == IF g.state # "Shorted" /\ g.reset < Grace + MaxLate THEN g.reset + 1
                    ELSE g.reset
           k == [g EXCEPT !.t0 = t0, !.since = since, !.base = base, !.chainStart = start,
                          !.chainLast = last, !.reset = reset]
<1>1. Pair!Aged(g) = k
  BY DEF Pair!Aged
<1>2. t0 \in Int /\ since \in Int /\ base \in Int /\ start \in Int /\ last \in Int
  BY GuardFields, OlderIs
<1>3. reset \in Int
  BY GuardFields
<1>4. g.state = "Inrush" => since <= g.since + 1
  BY GuardFields, OlderIs
<1> HIDE DEF t0, since, base, start, last, reset
<1>5. k \in GuardRec
  BY <1>2, <1>3, AgesPut, Zenon DEF GuardRec
<1>6. k.state = g.state /\ k.since = since
  BY GuardFields
<1> QED BY <1>1, <1>4, <1>5, <1>6

LEMMA TickKeeps ==
    ASSUME GuardsInv, NEW S, Pair!Tick(S)
    PROVE  GuardsInv' /\ \A c \in Bridge : Pair!Charges(c)
<1>1. /\ turn = 0 /\ hLate < MaxLate /\ hLate' = hLate + 1
      /\ edges' = [b \in Bridge |-> Pair!IsrEdge(b, S)]
      /\ guard' = [b \in Bridge |-> Pair!Aged(guard[b])]
      /\ charged' = IF pattern /\ charged < InrushTime THEN charged + 1 ELSE charged
      /\ hPower' = hPower /\ service' = service /\ turn' = turn /\ pattern' = pattern
      /\ faulty' = faulty /\ taken' = taken
  BY DEF Pair!Tick
<1>2. edges' \in [Bridge -> Seq(Nat)] /\ \A b \in Bridge : Len(edges'[b]) <= EdgeSlots
  BY <1>1, IsrEdgeType DEF GuardsInv
<1>3. \A b \in Bridge : guard[b] \in GuardRec
  BY DEF GuardsInv, GuardsTyped
<1>4. \A b \in Bridge : guard[b].since \in Int
  BY <1>3, GuardFields
<1> HIDE DEF GuardRec
<1>5. /\ guard' \in [Bridge -> GuardRec]
      /\ \A b \in Bridge : guard'[b].state = guard[b].state
      /\ \A b \in Bridge : Charging(b) => guard'[b].since <= guard[b].since + 1
  BY <1>1, <1>3, AgedType DEF Charging
<1>6. \A b \in Bridge : Charging(b)' <=> Charging(b)
  BY <1>5 DEF Charging
<1>7. charged \in 0 .. InrushTime /\ hLate \in 0 .. MaxLate
  BY DEF GuardsInv, GuardsTyped
<1>8. charged' \in 0 .. InrushTime /\ hLate' \in 0 .. MaxLate
  BY <1>1, <1>7, GuardsAssumption
<1>9. GuardsTyped'
  BY <1>1, <1>2, <1>5, <1>8 DEF GuardsInv, GuardsTyped
<1>10. WholeTime'
  <2> SUFFICES ASSUME NEW b \in Bridge, Charging(b)', ~taken'
               PROVE  Pair!Allowed(b)' /\ pattern'
                      /\ (guard'[b].since <= charged' \/ charged' = InrushTime)
    BY DEF WholeTime
  <2>1. Charging(b) /\ ~taken
    BY <1>1, <1>6
  <2>2. Pair!Allowed(b) /\ pattern /\ (guard[b].since <= charged \/ charged = InrushTime)
    BY <2>1 DEF GuardsInv, Patterned, WholeTime
  <2>3. guard'[b].since \in Int
    BY <1>5, GuardFields
  <2>4. guard'[b].since <= charged' \/ charged' = InrushTime
    BY <1>1, <1>4, <1>5, <1>7, <2>1, <2>2, <2>3, GuardsAssumption
  <2>5. Pair!Allowed(b)'
    BY <1>1, <2>2 DEF Pair!Allowed
  <2> QED BY <1>1, <2>2, <2>4, <2>5
<1>11. Owned' /\ OnTracks' /\ ProgHasPattern'
  BY <1>1, <1>6 DEF GuardsInv, Patterned, Owned, OnTracks, ProgHasPattern
<1>12. CutOff' /\ MainFirst' /\ Both'
  BY <1>1, <1>6 DEF CutOff, MainFirst, GuardsInv, Both
<1>13. \A c \in Bridge : Pair!Charges(c)
  BY <1>5 DEF Pair!Charges
<1> QED BY <1>9, <1>10, <1>11, <1>12, <1>13 DEF GuardsInv, Patterned

(* The invariant of the guards for every step.                             *)
LEMMA GuardsInit == Pair!Init => GuardsInv
<1> SUFFICES ASSUME Pair!Init PROVE GuardsInv
  OBVIOUS
<1>1. /\ hPower = FALSE /\ service = FALSE /\ guard = [b \in Bridge |-> Pair!Fresh]
      /\ turn = 0 /\ edges = [b \in Bridge |-> <<>>] /\ pattern = FALSE /\ hLate = 0
      /\ faulty = {} /\ charged = 0 /\ taken = FALSE
  BY DEF Pair!Init
<1>2. <<>> \in Seq(Nat) /\ Len(<<>>) = 0
  OBVIOUS
<1> HIDE DEF GuardRec
<1>3. guard \in [Bridge -> GuardRec] /\ \A b \in Bridge : ~Charging(b)
  BY <1>1, FreshType DEF Charging
<1>4. edges \in [Bridge -> Seq(Nat)] /\ \A b \in Bridge : Len(edges[b]) <= EdgeSlots
  BY <1>1, <1>2, GuardsAssumption
<1>5. /\ hPower \in BOOLEAN /\ service \in BOOLEAN /\ pattern \in BOOLEAN
      /\ taken \in BOOLEAN
  BY <1>1
<1>6. GuardsTyped
  BY <1>1, <1>3, <1>4, <1>5, GuardsAssumption DEF GuardsTyped
<1> QED BY <1>1, <1>3, <1>6 DEF GuardsInv, Patterned, Owned, OnTracks, WholeTime,
        ProgHasPattern, CutOff, MainFirst, Both

LEMMA GuardsStep ==
    ASSUME GuardsInv, Pair!Next
    PROVE  GuardsInv' /\ \A c \in Bridge : Pair!Charges(c)
<1>1. CASE Pair!TickAny
  BY <1>1, TickKeeps DEF Pair!TickAny
<1>2. CASE Pair!LoopAny
  BY <1>2, LoopBeginsKeeps, PopFallKeeps, UpdateEndsKeeps DEF Pair!LoopAny
<1>3. CASE Pair!PowerOn
  BY <1>3, PowerOnKeeps
<1>4. CASE Pair!PowerOff
  BY <1>4, PowerOffKeeps
<1>5. CASE Pair!ServiceMode
  BY <1>5, ServiceModeKeeps
<1> QED BY <1>1, <1>2, <1>3, <1>4, <1>5 DEF Pair!Next

LEMMA GuardsFrame ==
    ASSUME GuardsInv, UNCHANGED guardVars
    PROVE  GuardsInv' /\ \A c \in Bridge : Pair!Charges(c)
BY DEF guardVars, GuardsInv, GuardsTyped, Patterned, Owned, OnTracks, WholeTime,
   ProgHasPattern, CutOff, MainFirst, Both, Charging, Pair!Allowed, Pair!Charges

PairInv == part = "pair" => GuardsInv

LEMMA PairStep ==
    ASSUME PairInv, [PowerNext]_<<part, vars, guardVars>>
    PROVE  PairInv' /\ (part = "pair" => \A c \in Bridge : Pair!Charges(c))
<1>1. CASE part = "pair" /\ UNCHANGED guardVars
  BY <1>1, GuardsFrame DEF PairInv
<1>2. CASE part = "pair" /\ Pair!Next
  BY <1>2, GuardsStep DEF PairInv
<1>3. part' = part
  BY DEF PowerNext
<1>4. part = "pair" => UNCHANGED guardVars \/ Pair!Next
  BY DEF PowerNext
<1> QED BY <1>1, <1>2, <1>3, <1>4 DEF PairInv

LEMMA PairHolds == PowerSpec => []PairInv
<1>1. PowerInit => PairInv
  BY GuardsInit DEF PowerInit, PairInv
<1>2. PairInv /\ [PowerNext]_<<part, vars, guardVars>> => PairInv'
  BY PairStep
<1> QED BY <1>1, <1>2, PTL DEF PowerSpec

(* While the packet engine repeats the inrush pattern, the power is on and *)
(* some guard is in its inrush phase, whatever bridges there are, however  *)
(* the times are set, however late loop() runs and wherever service mode   *)
(* begins or ends between two passes: no path out of the phase (the time   *)
(* over, a short circuit, the power off, a bridge that may no longer drive *)
(* the track) leaves the pattern behind.  The types hold with it: no guard *)
(* counts past nf.verify_edges, and no ring of edges overflows.            *)
THEOREM PatternSafe == PowerSpec => []PatternOwned
<1>1. PairInv => PatternOwned
  <2> SUFFICES ASSUME GuardsInv PROVE Pair!TypeOK /\ Pair!PatternOwned
    BY DEF PairInv, PatternOwned
  <2>1. \A b \in Bridge : guard[b].state \in Pair!Phase /\ guard[b].seen < VerifyEdges
    <3> SUFFICES ASSUME NEW b \in Bridge
                 PROVE  guard[b].state \in Pair!Phase /\ guard[b].seen < VerifyEdges
      OBVIOUS
    <3>1. guard[b] \in GuardRec
      BY DEF GuardsInv, GuardsTyped
    <3> QED BY <3>1, GuardFields, GuardsAssumption
  <2>2. Pair!TypeOK
    BY <2>1 DEF Pair!TypeOK, GuardsInv, GuardsTyped
  <2>3. Pair!PatternOwned
    BY DEF Pair!PatternOwned, GuardsInv, Patterned, Owned, Charging
  <2> QED BY <2>2, <2>3
<1> QED BY <1>1, PairHolds, PTL

(* A guard that leaves its inrush phase for the verify phase, or cuts the  *)
(* power there, has had the pattern for the whole inrush time, unless      *)
(* service mode began or ended meanwhile.                                  *)
THEOREM ChargeSafe == PowerSpec => ChargeTime
<1>1. PairInv /\ [PowerNext]_<<part, vars, guardVars>>
        => [part = "pair" => \A b \in Bridge : Pair!Charges(b)]_guardVars
  BY PairStep
<1> QED BY <1>1, PairHolds, PTL DEF PowerSpec, ChargeTime
=============================================================================
