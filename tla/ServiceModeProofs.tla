--------------------------- MODULE ServiceModeProofs ---------------------------
(***************************************************************************)
(* Programming sessions leave the layout as they found it, for any clients *)
(* and any number of requests: the main outputs follow track power again,  *)
(* and no client is left believing the station is in programming mode.     *)
(* During a session the main outputs are off until track power is switched *)
(* on, by whatever way.                                                    *)
(***************************************************************************)
EXTENDS ServiceMode, TLAPS, SequenceTheorems

Entry == [type : {"program", "on", "off"}, op : Nat]

QueueOK == cmds \in Seq(Entry) /\ requests \in Nat /\ power \in BOOLEAN

(* A power-on in the middle of a session may switch the main outputs on    *)
(* (run MCServiceMain), but never with power off.                          *)
MainInv == (main => power) /\ MainRestored

(* progModeActive is set for a reason that is still there: a handler that  *)
(* has not dispatched yet, a queued operation, an open session, or the end *)
(* of a session that is about to clear it.                                 *)
QueuedOp == \E i \in 1 .. Len(cmds) : cmds[i].type = "program"
Closing  == exit # <<>> /\ Head(exit) = "progMode"
ProgInv  == progMode => \/ pc1 \in {"pending", "dispatch"}
                        \/ QueuedOp \/ session \/ Closing

IInv == QueueOK /\ MainInv /\ ProgInv

LEMMA InitIInv == Init => IInv
<1> SUFFICES ASSUME Init PROVE IInv
  OBVIOUS
<1>1. QueueOK
  BY DEF Init, QueueOK
<1>2. MainInv
  BY DEF Init, MainInv, MainRestored
<1>3. ProgInv
  BY DEF Init, ProgInv
<1> QED BY <1>1, <1>2, <1>3 DEF IInv

(* Appending to the queue loses no operation, and an appended one is found. *)
LEMMA AppendQueued ==
    ASSUME cmds \in Seq(Entry), NEW e \in Entry, cmds' = Append(cmds, e),
           QueuedOp \/ e.type = "program"
    PROVE  QueuedOp'
<1>1. /\ Len(cmds') = Len(cmds) + 1 /\ Len(cmds) \in Nat
      /\ \A i \in 1 .. Len(cmds) : cmds'[i] = cmds[i]
      /\ cmds'[Len(cmds) + 1] = e
  BY AppendProperties, LenProperties
<1> QED BY <1>1 DEF QueuedOp

(* Taking a power command leaves a queued operation where it is. *)
LEMMA TakeQueued ==
    ASSUME cmds \in Seq(Entry), cmds # <<>>, Head(cmds).type # "program",
           cmds' = Tail(cmds), QueuedOp
    PROVE  QueuedOp'
<1>1. /\ Len(cmds) \in Nat /\ Len(cmds') = Len(cmds) - 1
      /\ \A i \in 1 .. Len(cmds') : cmds'[i] = cmds[i + 1]
      /\ Head(cmds) = cmds[1]
  BY HeadTailProperties, LenProperties
<1>2. PICK i \in 1 .. Len(cmds) : cmds[i].type = "program"
  BY DEF QueuedOp
<1>3. i # 1 /\ (i - 1) \in 1 .. Len(cmds') /\ (i - 1) + 1 = i
  BY <1>1, <1>2
<1>4. cmds'[i - 1] = cmds[i]
  BY <1>1, <1>3
<1> QED BY <1>2, <1>3, <1>4 DEF QueuedOp

(* The end of a session, however it comes about. *)
LEMMA ExitStartKeeps ==
    ASSUME IInv, NEW good \in BOOLEAN, NEW n, ExitStart(good, n), exit = <<>>,
           UNCHANGED <<power, progMode, pc1, cmds>>
    PROVE  MainInv' /\ ProgInv'
<1>1. CASE session
  <2>1. MainInv'
    BY <1>1 DEF ExitStart, IInv, QueueOK, MainInv, MainRestored
  <2>2. exit' = <<"progMode", "ready", "ok">> \o
                   (IF good THEN <<"pending", "data">> ELSE <<>>)
    BY <1>1 DEF ExitStart
  <2>3. Closing'
    BY <2>2 DEF Closing
  <2> QED BY <2>1, <2>3 DEF ProgInv
<1>2. CASE ~session
  <2>1. UNCHANGED <<session, main, exit>>
    BY <1>2 DEF ExitStart
  <2>2. MainInv'
    BY <2>1 DEF IInv, MainInv, MainRestored
  <2>3. ProgInv'
    BY <2>1 DEF IInv, ProgInv, QueuedOp, Closing
  <2> QED BY <2>2, <2>3
<1> QED BY <1>1, <1>2

LEMMA Core0Keeps ==
    ASSUME IInv, Core0
    PROVE  IInv'
<1>1. CASE ExitStore
  <2>1. UNCHANGED <<power, session, main, pc1, cmds, requests>>
    BY <1>1 DEF ExitStore, core0Vars, trackVars, core1Vars
  <2>2. Closing => ~progMode'
    BY <1>1 DEF ExitStore, Closing
  <2>3. progMode' => progMode
    BY <1>1, Zenon DEF ExitStore
  <2>4. ProgInv'
    BY <2>1, <2>2, <2>3 DEF IInv, ProgInv, QueuedOp
  <2> QED BY <2>1, <2>4 DEF IInv, QueueOK, MainInv, MainRestored
<1>2. CASE Update \/ PollDone \/ GuardsQuiet
  BY <1>2 DEF Update, PollDone, GuardsQuiet, core0Vars, trackVars, core1Vars, prog, IInv, QueueOK,
              MainInv, MainRestored, ProgInv, QueuedOp, Closing
<1>3. CASE Answer(TRUE) \/ Answer(FALSE)
  <2>1. PICK good \in BOOLEAN : Answer(good)
    BY <1>3
  <2>2. /\ ExitStart(good, lib) /\ exit = <<>>
        /\ UNCHANGED <<power, progMode, pc1, cmds, requests>>
    BY <2>1 DEF Answer, prog, core1Vars
  <2> QED BY <2>2, ExitStartKeeps DEF IInv, QueueOK
<1>4. CASE DeliverOp
  <2>1. /\ cmds # <<>> /\ cmds' = Tail(cmds)
        /\ UNCHANGED <<power, progMode, pc1, exit, requests>>
    BY <1>4 DEF DeliverOp, prog, core1Vars
  <2>2. cmds' \in Seq(Entry)
    BY <2>1, HeadTailProperties DEF IInv, QueueOK
  <2>3. session' /\ (main' => main)
    BY <1>4 DEF DeliverOp, OpenSession
  <2> QED BY <2>1, <2>2, <2>3 DEF IInv, QueueOK, MainInv, MainRestored, ProgInv
<1>5. CASE DeliverPower
  <2>1. /\ cmds # <<>> /\ Head(cmds).type # "program" /\ cmds' = Tail(cmds)
        /\ power' = (Head(cmds).type = "on") /\ main' = power'
        /\ UNCHANGED <<progMode, pc1, exit, session, requests>>
    BY <1>5 DEF DeliverPower, SetPower, prog, core1Vars
  <2>2. cmds' \in Seq(Entry)
    BY <2>1, HeadTailProperties DEF IInv, QueueOK
  <2>3. power' \in BOOLEAN
    BY <2>1, Zenon
  <2>4. QueuedOp => QueuedOp'
    BY <2>1, TakeQueued DEF IInv, QueueOK
  <2>5. MainInv'
    BY <2>1 DEF MainInv, MainRestored
  <2>6. ProgInv'
    BY <2>1, <2>4 DEF IInv, ProgInv, Closing
  <2> QED BY <2>1, <2>2, <2>3, <2>5, <2>6 DEF IInv, QueueOK
<1>6. CASE Timeout
  <2>1. exit = <<>> /\ UNCHANGED <<power, progMode, pc1, cmds, requests>>
    BY <1>6 DEF Timeout, prog, core1Vars
  <2>2. CASE session /\ expired
    BY <1>6, <2>1, <2>2, ExitStartKeeps DEF Timeout, IInv, QueueOK
  <2>3. CASE ~(session /\ expired)
    <3>1. UNCHANGED <<session, main, exit>>
      BY <1>6, <2>3 DEF Timeout
    <3> QED BY <2>1, <3>1 DEF IInv, QueueOK, MainInv, MainRestored, ProgInv,
                              QueuedOp, Closing
  <2> QED BY <2>2, <2>3
<1>7. CASE StallTrip \/ CdeShort \/ GuardShort \/ AutoRestart
  <2>1. PICK on \in BOOLEAN, restart \in BOOLEAN : Core0Switches(on, restart)
    BY <1>7 DEF StallTrip, CdeShort, GuardShort, AutoRestart
  <2>2. /\ power' = on /\ main' = on
        /\ UNCHANGED <<session, exit, progMode, pc1, cmds, requests>>
    BY <2>1 DEF Core0Switches, SetPower, prog, core1Vars
  <2> QED BY <2>2 DEF IInv, QueueOK, MainInv, MainRestored, ProgInv, QueuedOp, Closing
<1> QED BY <1>1, <1>2, <1>3, <1>4, <1>5, <1>6, <1>7 DEF Core0

(* A handler switches nothing; whatever it queues is an entry of the queue, *)
(* and progModeActive is on afterwards only for one of the reasons.         *)
LEMMA Core1Frame ==
    ASSUME IInv, UNCHANGED <<power, session, main, exit>>,
           requests' \in Nat, cmds' \in Seq(Entry), QueuedOp => QueuedOp',
           progMode' => \/ pc1' \in {"pending", "dispatch"} \/ QueuedOp'
                        \/ progMode /\ pc1 \notin {"pending", "dispatch"}
    PROVE  IInv'
<1>1. MainInv'
  BY DEF IInv, MainInv, MainRestored
<1>2. ProgInv'
  BY DEF IInv, ProgInv, Closing
<1>3. QueueOK'
  BY DEF IInv, QueueOK
<1> QED BY <1>1, <1>2, <1>3 DEF IInv

LEMMA Core1Keeps ==
    ASSUME ServiceModeAssumption, IInv, Handler \/ Z21Request \/ PowerRequest \/ Expire
                 \/ \E c \in Client : XnStart(c) \/ XnPoll(c)
    PROVE  IInv'
<1>0. requests \in Nat /\ cmds \in Seq(Entry)
  BY DEF IInv, QueueOK
<1>1. CASE XnPending
  <2>1. UNCHANGED <<power, session, main, exit, requests, cmds, progMode>>
        /\ pc1' = "dispatch"
    BY <1>1 DEF XnPending, core0Vars, trackVars
  <2>2. QueuedOp => QueuedOp'
    BY <2>1 DEF QueuedOp
  <2> QED BY <1>0, <2>1, <2>2, Core1Frame
<1>2. CASE XnDispatch
  <2>1. UNCHANGED <<power, session, main, exit, requests>>
    BY <1>2 DEF XnDispatch, core0Vars, trackVars
  <2>2. CASE Len(cmds) < CommandSlots
    <3>1. cmds' = Append(cmds, Program(requests))
      BY <1>2, <2>2 DEF XnDispatch
    <3>2. Program(requests) \in Entry /\ Program(requests).type = "program"
      BY <1>0 DEF Program, Entry
    <3>3. cmds' \in Seq(Entry) /\ QueuedOp'
      BY <1>0, <3>1, <3>2, AppendQueued, AppendProperties
    <3> QED BY <1>0, <2>1, <3>3, Core1Frame
  <2>3. CASE ~(Len(cmds) < CommandSlots)
    <3>1. cmds' = cmds /\ progMode' = FALSE
      BY <1>2, <2>3 DEF XnDispatch, XnRefuse
    <3>2. QueuedOp => QueuedOp'
      BY <3>1 DEF QueuedOp
    <3> QED BY <1>0, <2>1, <3>1, <3>2, Core1Frame
  <2> QED BY <2>2, <2>3
<1>3. CASE XnReply \/ Expire
  <2>1. UNCHANGED <<power, session, main, exit, requests, cmds, progMode>>
        /\ (pc1' = pc1 \/ pc1 = "reply")
    BY <1>3 DEF XnReply, Expire, core0Vars, trackVars, core1Vars, prog
  <2>2. QueuedOp => QueuedOp'
    BY <2>1 DEF QueuedOp
  <2> QED BY <1>0, <2>1, <2>2, Core1Frame
<1>4. CASE Z21Request \/ PowerRequest
  <2>1. /\ UNCHANGED <<power, session, main, exit, progMode, pc1>>
        /\ requests' = requests + 1 /\ pc1 = "idle"
    BY <1>4 DEF Z21Request, PowerRequest, core0Vars, trackVars, prog
  <2>2. \/ cmds' = cmds
        \/ \E e \in Entry : cmds' = Append(cmds, e)
    <3>1. CASE Z21Request
      <4>1. Program(requests') \in Entry
        BY <1>0, <2>1 DEF Program, Entry
      <4> QED BY <3>1, <4>1 DEF Z21Request
    <3>2. CASE PowerRequest
      <4>1. PICK t \in PowerCmds : cmds' = Append(cmds, [type |-> t, op |-> 0])
        BY <3>2 DEF PowerRequest
      <4>2. [type |-> t, op |-> 0] \in Entry
        BY DEF ServiceModeAssumption, Entry
      <4> QED BY <4>1, <4>2
    <3> QED BY <1>4, <3>1, <3>2
  <2>3. cmds' \in Seq(Entry) /\ (QueuedOp => QueuedOp')
    <3>1. CASE cmds' = cmds
      BY <1>0, <3>1 DEF QueuedOp
    <3>2. CASE \E e \in Entry : cmds' = Append(cmds, e)
      BY <1>0, <3>2, AppendQueued, AppendProperties
    <3> QED BY <2>2, <3>1, <3>2
  <2> QED BY <1>0, <2>1, <2>3, Core1Frame
<1>5. ASSUME NEW c \in Client, XnStart(c) \/ XnPoll(c)
      PROVE  IInv'
  <2>1. /\ UNCHANGED <<power, session, main, exit, cmds>>
        /\ requests' \in {requests, requests + 1}
        /\ progMode' => pc1' = "pending"
    BY <1>5 DEF XnStart, XnPoll, core0Vars, trackVars
  <2>2. QueuedOp => QueuedOp'
    BY <2>1 DEF QueuedOp
  <2> QED BY <1>0, <2>1, <2>2, Core1Frame
<1> QED BY <1>1, <1>2, <1>3, <1>4, <1>5 DEF Handler

LEMMA NextIInv ==
    ASSUME ServiceModeAssumption, IInv, [Next]_vars
    PROVE  IInv'
<1>1. CASE Core0
  BY <1>1, Core0Keeps
<1>2. CASE Handler \/ Z21Request \/ PowerRequest \/ Expire
           \/ \E c \in Client : XnStart(c) \/ XnPoll(c)
  BY <1>2, Core1Keeps
<1>3. CASE UNCHANGED vars
  BY <1>3 DEF vars, core0Vars, trackVars, core1Vars, prog, IInv, QueueOK, MainInv,
              MainRestored, ProgInv, QueuedOp, Closing
<1> QED BY <1>1, <1>2, <1>3 DEF Next

LEMMA SpecIInv ==
    ASSUME ServiceModeAssumption
    PROVE  Spec => []IInv
<1>1. IInv /\ [Next]_vars => IInv'
  BY NextIInv
<1> QED BY InitIInv, <1>1, PTL DEF Spec

(* Once a session is over the main outputs follow track power, also when   *)
(* power was switched during the session, however the session ended.       *)
THEOREM MainRestoredAlways ==
    ASSUME ServiceModeAssumption
    PROVE  Spec => []MainRestored
<1>1. IInv => MainRestored
  BY DEF IInv, MainInv
<1> QED BY <1>1, SpecIInv, PTL

(* gCentrale.progModeActive is never left set with nothing queued, no      *)
(* handler at work and no session that would time out.                     *)
THEOREM ProgModeBacked ==
    ASSUME ServiceModeAssumption
    PROVE  Spec => []ProgModeHasSession
<1>1. IInv => ProgModeHasSession
  <2> SUFFICES ASSUME IInv, progMode, cmds = <<>>, pc1 = "idle", exit = <<>>
               PROVE  session
    BY DEF ProgModeHasSession
  <2>1. ~QueuedOp
    BY DEF QueuedOp
  <2> QED BY <2>1 DEF IInv, ProgInv, Closing
<1> QED BY <1>1, SpecIInv, PTL

-----------------------------------------------------------------------------
(* The types.  TypeOK is not inductive: an operation taken from the queue   *)
(* has the number of a request, a handler that is at work has a client and  *)
(* a request, and what is left of _exitServiceMode() is the end of one of   *)
(* two lists of stores.                                                     *)
Op    == 1 .. MaxRequests
Count == 0 .. MaxRequests
Field == {"progMode", "ready", "ok", "pending", "data"}
Message == [type : {"program", "on", "off"}, op : Count]

Core0Types ==
    /\ pc0 \in {"update", "poll", "guards", "timeout"}
    /\ power \in BOOLEAN /\ restartPending \in BOOLEAN /\ revived \in BOOLEAN
    /\ session \in BOOLEAN /\ expired \in BOOLEAN
    /\ main \in BOOLEAN /\ lib \in Op \cup {None}
ExitTypes ==
    /\ exit \in Seq(Field) /\ Len(exit) <= 5
    /\ result \in [ok : BOOLEAN, op : Count]
ProgTypes ==
    /\ progMode \in BOOLEAN /\ ready \in BOOLEAN /\ ok \in BOOLEAN
    /\ pending \in Count /\ data \in Count
QueueTypes ==
    /\ cmds \in Seq(Message) /\ Len(cmds) <= CommandSlots
    /\ \A i \in 1 .. Len(cmds) : cmds[i].type = "program" => cmds[i].op \in Op
Core1Types ==
    /\ pc1 \in {"idle", "pending", "dispatch", "reply"}
    /\ client \in Client \cup {None}
    /\ pc1 # "idle" => client \in Client
    /\ pc1 \in {"pending", "dispatch"} => requests # 0
    /\ requests \in Count /\ awaiting \in [Client -> Count]

TInv == Core0Types /\ ExitTypes /\ ProgTypes /\ QueueTypes /\ Core1Types

LEMMA InitTInv ==
    ASSUME ServiceModeAssumption, Init
    PROVE  TInv
<1>1. Core0Types
  BY DEF Init, Core0Types
<1>2. ExitTypes /\ ProgTypes
  <2>1. /\ exit = <<>> /\ result = [ok |-> FALSE, op |-> 0] /\ 0 \in Count
        /\ pending = 0 /\ data = 0 /\ ~progMode /\ ~ready /\ ~ok
    BY DEF ServiceModeAssumption, Init, Count
  <2>2. exit \in Seq(Field) /\ Len(exit) = 0
    BY <2>1
  <2>3. result \in [ok : BOOLEAN, op : Count]
    BY <2>1
  <2>4. ProgTypes
    BY <2>1 DEF ServiceModeAssumption, Init, ProgTypes
  <2> QED BY <2>2, <2>3, <2>4 DEF ExitTypes
<1>3. QueueTypes
  BY DEF ServiceModeAssumption, Init, QueueTypes
<1>4. Core1Types
  BY DEF ServiceModeAssumption, Init, Core1Types, Count
<1> QED BY <1>1, <1>2, <1>3, <1>4 DEF TInv

(* _exitServiceMode() is entered with nothing left of an earlier call.      *)
LEMMA ExitStartTypes ==
    ASSUME TInv, NEW good \in BOOLEAN, NEW n \in Count, ExitStart(good, n)
    PROVE  ExitTypes' /\ session' \in BOOLEAN /\ main' \in BOOLEAN /\ revived' \in BOOLEAN
<1>1. CASE session
  <2>1. result' \in [ok : BOOLEAN, op : Count]
    BY <1>1 DEF ExitStart
  <2>2. exit' = <<"progMode", "ready", "ok">> \o
                   (IF good THEN <<"pending", "data">> ELSE <<>>)
    BY <1>1 DEF ExitStart
  <2> DEFINE first == <<"progMode", "ready", "ok">>
             last  == IF good THEN <<"pending", "data">> ELSE <<>>
  <2>3. first \in Seq(Field) /\ Len(first) = 3
    BY DEF Field
  <2>4. last \in Seq(Field) /\ Len(last) <= 2 /\ Len(last) \in Nat
    <3>1. CASE good
      BY <3>1 DEF Field
    <3>2. CASE ~good
      BY <3>2
    <3> QED BY <3>1, <3>2
  <2> HIDE DEF first, last
  <2>5. first \o last \in Seq(Field) /\ Len(first \o last) = Len(first) + Len(last)
    BY <2>3, <2>4, ConcatProperties
  <2>6. exit' = first \o last
    BY <2>2 DEF first, last
  <2>7. session' \in BOOLEAN /\ main' \in BOOLEAN /\ revived' \in BOOLEAN
    BY <1>1 DEF ExitStart, TInv, Core0Types
  <2> QED BY <2>1, <2>3, <2>4, <2>5, <2>6, <2>7 DEF ExitTypes
<1>2. CASE ~session
  BY <1>2 DEF ExitStart, TInv, ExitTypes, Core0Types
<1> QED BY <1>1, <1>2

(* Both ends of the queue. *)
LEMMA TakeTypes ==
    ASSUME ServiceModeAssumption, QueueTypes, cmds # <<>>, cmds' = Tail(cmds)
    PROVE  /\ QueueTypes'
           /\ Head(cmds) \in Message
           /\ Head(cmds).type = "program" => Head(cmds).op \in Op
<1>1. cmds \in Seq(Message)
  BY DEF QueueTypes
<1>2. /\ cmds' \in Seq(Message) /\ Len(cmds) \in Nat \ {0}
      /\ Len(cmds') = Len(cmds) - 1
      /\ \A i \in 1 .. Len(cmds') : cmds'[i] = cmds[i + 1]
      /\ Head(cmds) = cmds[1] /\ Head(cmds) \in Message
  BY <1>1, HeadTailProperties, LenProperties, EmptySeq
<1>3. Len(cmds') <= CommandSlots
  BY <1>2 DEF ServiceModeAssumption, QueueTypes
<1>4. \A i \in 1 .. Len(cmds') : cmds'[i].type = "program" => cmds'[i].op \in Op
  BY <1>2 DEF QueueTypes
<1> QED BY <1>2, <1>3, <1>4 DEF QueueTypes

LEMMA PutTypes ==
    ASSUME ServiceModeAssumption, QueueTypes, Len(cmds) < CommandSlots, NEW e \in Message,
           e.type = "program" => e.op \in Op, cmds' = Append(cmds, e)
    PROVE  QueueTypes'
<1>1. cmds \in Seq(Message)
  BY DEF QueueTypes
<1>2. /\ cmds' \in Seq(Message)
      /\ Len(cmds') = Len(cmds) + 1 /\ Len(cmds) \in Nat
      /\ \A i \in 1 .. Len(cmds) : cmds'[i] = cmds[i]
      /\ cmds'[Len(cmds) + 1] = e
  BY <1>1, AppendProperties, LenProperties
<1>3. Len(cmds') <= CommandSlots
  BY <1>2 DEF ServiceModeAssumption
<1>4. \A i \in 1 .. Len(cmds') : cmds'[i].type = "program" => cmds'[i].op \in Op
  BY <1>2 DEF QueueTypes
<1> QED BY <1>2, <1>3, <1>4 DEF QueueTypes

LEMMA Core0KeepsTypes ==
    ASSUME ServiceModeAssumption, TInv, Core0 \/ Expire
    PROVE  TInv'
<1> USE DEF TInv
<1>0. Op \subseteq Count /\ 0 \in Count
  BY DEF ServiceModeAssumption, Op, Count
<1>1. CASE ExitStore
  <2>1. exit # <<>> /\ exit \in Seq(Field) /\ exit' = Tail(exit)
    BY <1>1 DEF ExitStore, ExitTypes
  <2>2. exit' \in Seq(Field) /\ Len(exit') = Len(exit) - 1 /\ Len(exit) \in Nat
    BY <2>1, HeadTailProperties, LenProperties
  <2>3. ExitTypes'
    BY <1>1, <2>2 DEF ExitStore, ExitTypes
  <2>4. UNCHANGED <<pc0, core0Vars, core1Vars, cmds>>
    BY <1>1 DEF ExitStore
  <2>5. ProgTypes'
    BY <1>1 DEF ExitStore, ProgTypes, ExitTypes
  <2> QED BY <2>3, <2>4, <2>5 DEF core0Vars, trackVars, core1Vars, Core0Types, QueueTypes,
                                  Core1Types
<1>2. CASE Update \/ PollDone \/ GuardsQuiet \/ Expire
  <2>1. UNCHANGED <<power, restartPending, revived, session, main, lib, exit, result, progMode, ready, ok,
                    pending, data, pc1, client, requests, awaiting, cmds>>
    BY <1>2 DEF Update, PollDone, GuardsQuiet, Expire, core0Vars, trackVars, core1Vars, prog
  <2>2. pc0' \in {"update", "poll", "guards", "timeout"} /\ expired' \in BOOLEAN
    BY <1>2 DEF Update, PollDone, GuardsQuiet, Expire, core0Vars, trackVars, Core0Types
  <2> QED BY <2>1, <2>2 DEF Core0Types, ExitTypes, ProgTypes, QueueTypes, Core1Types
<1>3. CASE Answer(TRUE) \/ Answer(FALSE)
  <2>1. PICK good \in BOOLEAN : Answer(good)
    BY <1>3
  <2>2. /\ ExitStart(good, lib) /\ lib # None /\ lib' = None /\ pc0' = "poll"
        /\ UNCHANGED <<power, restartPending, expired, progMode, ready, ok, pending,
                       data, pc1, client, requests, awaiting, cmds>>
    BY <2>1 DEF Answer, prog, core1Vars
  <2>3. lib \in Count
    BY <1>0, <2>2 DEF Core0Types
  <2>4. /\ ExitTypes' /\ session' \in BOOLEAN /\ main' \in BOOLEAN
        /\ revived' \in BOOLEAN
    BY <2>2, <2>3, ExitStartTypes
  <2> QED BY <2>2, <2>4 DEF Core0Types, ProgTypes, QueueTypes, Core1Types
<1>4. CASE DeliverOp
  <2>1. /\ cmds # <<>> /\ Head(cmds).type = "program" /\ cmds' = Tail(cmds)
        /\ lib' \in {Head(cmds).op} \cup (IF lib = None THEN {} ELSE {lib})
        /\ UNCHANGED <<pc0, power, restartPending, revived, exit, result, progMode, ready, ok, pending,
                       data, pc1, client, requests, awaiting>>
    BY <1>4 DEF DeliverOp, prog, core1Vars
  <2>2. QueueTypes' /\ Head(cmds).op \in Op
    BY <2>1, TakeTypes
  <2>3. /\ session' \in BOOLEAN /\ expired' \in BOOLEAN /\ main' \in BOOLEAN
    BY <1>4 DEF DeliverOp, OpenSession, Core0Types
  <2>4. lib' \in Op \cup {None}
    BY <2>1, <2>2 DEF Core0Types
  <2> QED BY <2>1, <2>2, <2>3, <2>4 DEF Core0Types, ExitTypes, ProgTypes, Core1Types
<1>5. CASE DeliverPower
  <2>1. /\ cmds # <<>> /\ cmds' = Tail(cmds)
        /\ power' = (Head(cmds).type = "on") /\ main' = power' /\ restartPending' = FALSE
        /\ revived' = (session /\ (revived \/ (Head(cmds).type = "on")))
        /\ UNCHANGED <<pc0, session, expired, lib, exit, result, progMode, ready,
                       ok, pending, data, pc1, client, requests, awaiting>>
    BY <1>5 DEF DeliverPower, SetPower, prog, core1Vars
  <2>2. power' \in BOOLEAN /\ main' \in BOOLEAN /\ revived' \in BOOLEAN
    BY <2>1, Zenon
  <2>3. QueueTypes'
    BY <2>1, TakeTypes
  <2> QED BY <2>1, <2>2, <2>3 DEF Core0Types, ExitTypes, ProgTypes, Core1Types
<1>6. CASE Timeout
  <2>1. /\ pc0' = "update"
        /\ UNCHANGED <<power, restartPending, expired, lib, progMode, ready, ok, pending, data, pc1,
                       client, requests, awaiting, cmds>>
    BY <1>6 DEF Timeout, prog, core1Vars
  <2>2. /\ ExitTypes' /\ session' \in BOOLEAN /\ main' \in BOOLEAN
        /\ revived' \in BOOLEAN
    <3>1. CASE session /\ expired
      BY <1>0, <1>6, <3>1, ExitStartTypes DEF Timeout
    <3>2. CASE ~(session /\ expired)
      BY <1>6, <3>2 DEF Timeout, ExitTypes, Core0Types
    <3> QED BY <3>1, <3>2
  <2> QED BY <2>1, <2>2 DEF Core0Types, ProgTypes, QueueTypes, Core1Types
<1>7. CASE StallTrip \/ CdeShort \/ GuardShort \/ AutoRestart
  <2>1. PICK on \in BOOLEAN, restart \in BOOLEAN : Core0Switches(on, restart)
    BY <1>7 DEF StallTrip, CdeShort, GuardShort, AutoRestart
  <2>2. /\ power' = on /\ main' = on /\ restartPending' = restart
        /\ revived' = (session /\ (revived \/ on)) /\ pc0' \in {pc0, "timeout"}
        /\ UNCHANGED <<session, expired, lib, exit, result, progMode, ready, ok,
                       pending, data, pc1, client, requests, awaiting, cmds>>
    BY <1>7, <2>1 DEF StallTrip, CdeShort, GuardShort, AutoRestart, Core0Switches,
                      SetPower, prog, core1Vars
  <2>3. revived' \in BOOLEAN
    BY <2>2, Zenon
  <2> QED BY <2>2, <2>3 DEF Core0Types, ExitTypes, ProgTypes, QueueTypes, Core1Types
<1> QED BY <1>1, <1>2, <1>3, <1>4, <1>5, <1>6, <1>7 DEF Core0

LEMMA Core1KeepsTypes ==
    ASSUME ServiceModeAssumption, TInv, Handler \/ Z21Request \/ PowerRequest
                 \/ \E c \in Client : XnStart(c) \/ XnPoll(c)
    PROVE  TInv'
<1> USE DEF TInv
<1>0. /\ UNCHANGED <<pc0, power, restartPending, revived, session, expired, main, lib, exit, result>>
      /\ Core0Types' /\ ExitTypes'
  BY DEF Handler, XnPending, XnDispatch, XnReply, Z21Request, PowerRequest,
         XnStart, XnPoll, core0Vars, trackVars, Core0Types, ExitTypes
<1>1. CASE XnPending
  <2>1. ProgTypes'
    BY <1>1 DEF XnPending, ProgTypes, Core1Types
  <2> QED BY <1>0, <1>1, <2>1 DEF XnPending, QueueTypes, Core1Types
<1>2. CASE XnDispatch
  <2>1. requests \in Op /\ requests \in Count /\ client \in Client
    BY <1>2 DEF ServiceModeAssumption, XnDispatch, Core1Types, Op, Count
  <2>2. Core1Types'
    BY <1>2, <2>1 DEF XnDispatch, Core1Types
  <2>3. ProgTypes'
    BY <1>2 DEF XnDispatch, XnRefuse, ProgTypes
  <2>4. QueueTypes'
    <3>1. CASE Len(cmds) < CommandSlots
      <4>1. cmds' = Append(cmds, Program(requests))
        BY <1>2, <3>1 DEF XnDispatch
      <4>2. Program(requests) \in Message /\ Program(requests).op \in Op
        BY <2>1 DEF Program, Message
      <4> QED BY <3>1, <4>1, <4>2, PutTypes
    <3>2. CASE ~(Len(cmds) < CommandSlots)
      BY <1>2, <3>2 DEF XnDispatch, QueueTypes
    <3> QED BY <3>1, <3>2
  <2> QED BY <1>0, <2>2, <2>3, <2>4
<1>3. CASE XnReply
  <2>1. client \in Client /\ 0 \in Count
    BY <1>3 DEF ServiceModeAssumption, XnReply, Core1Types, Count
  <2>2. awaiting' \in [Client -> Count]
    BY <1>3, <2>1 DEF XnReply, Core1Types
  <2> QED BY <1>0, <1>3, <2>2 DEF XnReply, prog, ProgTypes, QueueTypes, Core1Types
<1>4. CASE Z21Request \/ PowerRequest
  <2>1. /\ UNCHANGED <<progMode, ready, ok, pending, data, pc1, client, awaiting>>
        /\ requests' = requests + 1 /\ requests < MaxRequests /\ pc1 = "idle"
    BY <1>4 DEF Z21Request, PowerRequest, core0Vars, trackVars, prog
  <2>2. requests' \in Op /\ requests' \in Count
    BY <2>1 DEF ServiceModeAssumption, Core1Types, Op, Count
  <2>3. QueueTypes'
    <3>1. CASE Z21Request
      <4>1. Program(requests') \in Message /\ Program(requests').op \in Op
        BY <2>2 DEF Program, Message
      <4>2. CASE Len(cmds) < CommandSlots
        BY <3>1, <4>1, <4>2, PutTypes DEF Z21Request
      <4>3. CASE ~(Len(cmds) < CommandSlots)
        BY <3>1, <4>3 DEF Z21Request, QueueTypes
      <4> QED BY <4>2, <4>3
    <3>2. CASE PowerRequest
      <4>1. PICK t \in PowerCmds : cmds' = Append(cmds, [type |-> t, op |-> 0])
        BY <3>2 DEF PowerRequest
      <4>2. /\ [type |-> t, op |-> 0] \in Message
            /\ [type |-> t, op |-> 0].type # "program"
        BY DEF ServiceModeAssumption, Message, Count
      <4> QED BY <3>2, <4>1, <4>2, PutTypes DEF PowerRequest
    <3> QED BY <1>4, <3>1, <3>2
  <2> QED BY <1>0, <2>1, <2>2, <2>3 DEF ProgTypes, Core1Types
<1>5. ASSUME NEW c \in Client, XnStart(c) \/ XnPoll(c)
      PROVE  TInv'
  <2>1. QueueTypes'
    BY <1>5 DEF XnStart, XnPoll, QueueTypes
  <2>2. ProgTypes'
    BY <1>5 DEF XnStart, XnPoll, ProgTypes
  <2>3. Core1Types'
    BY <1>5 DEF ServiceModeAssumption, XnStart, XnPoll, Core1Types, Count
  <2> QED BY <1>0, <2>1, <2>2, <2>3
<1> QED BY <1>1, <1>2, <1>3, <1>4, <1>5 DEF Handler

LEMMA SpecTInv ==
    ASSUME ServiceModeAssumption
    PROVE  Spec => []TInv
<1>1. TInv /\ [Next]_vars => TInv'
  <2> SUFFICES ASSUME TInv, [Next]_vars
               PROVE  TInv'
    OBVIOUS
  <2>1. CASE Next
    BY <2>1, Core0KeepsTypes, Core1KeepsTypes DEF Next
  <2>2. CASE UNCHANGED vars
    BY <2>2 DEF vars, core0Vars, trackVars, core1Vars, prog, TInv, Core0Types, ExitTypes,
                ProgTypes, QueueTypes, Core1Types
  <2> QED BY <2>1, <2>2
<1>2. Init => TInv
  BY InitTInv
<1> QED BY <1>1, <1>2, PTL DEF Spec

(* Every variable keeps its type: the queue its length, the result of an    *)
(* operation a request's number, and _exitServiceMode() makes at most its   *)
(* five stores.                                                             *)
THEOREM TypeCorrect ==
    ASSUME ServiceModeAssumption
    PROVE  Spec => []TypeOK
<1>1. TInv => TypeOK
  BY DEF TInv, TypeOK, Core0Types, ExitTypes, ProgTypes, QueueTypes, Core1Types,
         Op, Count, Message
<1> QED BY <1>1, SpecTInv, PTL

-----------------------------------------------------------------------------
(* What isolation there is: a session begins with the main outputs off,    *)
(* and within it only setPower(true) switches them on, whoever calls it.   *)
(* Runs on MCServiceMain show a caller, and violate MainIsolated.          *)
LEMMA IsolatedInit == Init => IsolatedUntilPowerOn
BY DEF Init, IsolatedUntilPowerOn

LEMMA IsolatedStep ==
    ASSUME IsolatedUntilPowerOn, [Next]_vars
    PROVE  IsolatedUntilPowerOn'
<1> USE DEF IsolatedUntilPowerOn
<1>1. CASE DeliverOp
  BY <1>1 DEF DeliverOp, OpenSession
<1>2. ASSUME NEW on, NEW restart, SetPower(on, restart), UNCHANGED session
      PROVE  IsolatedUntilPowerOn'
  BY <1>2 DEF SetPower
<1>3. CASE DeliverPower \/ StallTrip \/ CdeShort \/ GuardShort \/ AutoRestart
  BY <1>2, <1>3 DEF DeliverPower, StallTrip, CdeShort, GuardShort, AutoRestart,
                    Core0Switches
<1>4. CASE Answer(TRUE) \/ Answer(FALSE) \/ Timeout
  BY <1>4 DEF Answer, Timeout, ExitStart
<1>5. CASE \/ ExitStore \/ Update \/ PollDone \/ GuardsQuiet \/ Expire \/ Handler
           \/ Z21Request \/ PowerRequest
           \/ \E c \in Client : XnStart(c) \/ XnPoll(c)
  BY <1>5 DEF ExitStore, Update, PollDone, GuardsQuiet, Expire, Handler, XnPending,
              XnDispatch, XnReply, Z21Request, PowerRequest, XnStart, XnPoll,
              core0Vars, trackVars
<1>6. CASE UNCHANGED vars
  BY <1>6 DEF vars, core0Vars, trackVars
<1> QED BY <1>1, <1>3, <1>4, <1>5, <1>6 DEF Next, Core0

(* Whatever is requested, answered or left unanswered during a session, and *)
(* whatever shorts, stalls and restarts come, the programming packets reach *)
(* the main track only after track power was switched on in the session.    *)
THEOREM IsolatedSafe == Spec => []IsolatedUntilPowerOn
BY IsolatedInit, IsolatedStep, PTL DEF Spec
===============================================================================
