---------------------------- MODULE TurnoutRelay ----------------------------
(***************************************************************************)
(* A turnout command on its way from a client to the track, to the table   *)
(* that answers queries, and to the LocoNet bus.                           *)
(*                                                                         *)
(* handleTurnout() and _handleSwReq() on core 1 dispatch ACCESSORY_SET;    *)
(* core 0 sets the turnout and publishes ACCESSORY_STATE; on core 1        *)
(* SlotServer::onEvent() puts it on LocoNet as OPC_SW_REQ.  LocoNet is a   *)
(* shared wire, so the station receives its own message again, and         *)
(* _handleSwReq() must tell this echo from a request of another device.    *)
(*                                                                         *)
(* A request is a turnout with the position it is set to.  The wire keeps  *)
(* the order of the messages; the 1000 ms in which an echo is expected are *)
(* a bit (late).                                                           *)
(***************************************************************************)
EXTENDS Naturals, Sequences, FiniteSets

CONSTANTS
    Turnout,
    RelayRequests,  \* bound on the requests of clients and devices
    OneAtATime,     \* TRUE if a request waits until the last one is done
    Devices,        \* TRUE if other LocoNet devices set turnouts too
    RelaySlots,     \* capacity of the command bus
    NoRequest

Position == {"thrown", "straight"}
Request  == [turnout : Turnout, pos : Position]

VARIABLES
    orders,     \* command bus: ACCESSORY_SET commands for core 0
    states,     \* event bus: ACCESSORY_STATE events for core 1
    txQueue,    \* OPC_SW_REQ messages the station has queued
    wire,       \* OPC_SW_REQ messages not yet read from the bus
    lastSent,   \* _lastSentSw1, _lastSentSw2
    awaiting,   \* _awaitingOwnSwReqEcho
    late,       \* 1000 ms have passed since _lastSentSwReqMs
    accessories, \* gAccessories: position, or "unknown"
    turnouts,   \* the position the track has been sent last
    made,       \* number of requests so far
    wanted,     \* history: the position last requested, by an accepted request
    unseen      \* history: turnouts the table is not told about

relayVars == <<orders, states, txQueue, wire, lastSent, awaiting, late,
               accessories, turnouts, made, wanted, unseen>>

Init ==
    /\ orders = <<>> /\ states = <<>> /\ txQueue = <<>> /\ wire = <<>>
    /\ lastSent = NoRequest /\ awaiting = FALSE /\ late = FALSE
    /\ accessories = [t \in Turnout |-> "unknown"]
    /\ turnouts = [t \in Turnout |-> "straight"]
    /\ made = 0 /\ wanted = [t \in Turnout |-> "straight"] /\ unseen = {}

Settled == orders = <<>> /\ states = <<>> /\ txQueue = <<>> /\ wire = <<>>

MayRequest == made < RelayRequests /\ (OneAtATime => Settled)

\* CommandBus::dispatch(): refused when the bus is full.
Room == Len(orders) < RelaySlots

\* An XpressNet or Z21 client sets a turnout.  The table is written first,
\* also when the command is then refused because other commands fill the bus
\* (the client gets "busy").
HandleTurnout(r) ==
    /\ MayRequest /\ made' = made + 1
    /\ accessories' = [accessories EXCEPT ![r.turnout] = r.pos]
    /\ \/ /\ Room
          /\ orders' = Append(orders, r)
          /\ wanted' = [wanted EXCEPT ![r.turnout] = r.pos]
          /\ unseen' = unseen \ {r.turnout}
       \/ /\ unseen' = unseen \cup {r.turnout}
          /\ UNCHANGED <<orders, wanted>>
    /\ UNCHANGED <<states, txQueue, wire, lastSent, awaiting, late, turnouts>>

\* Another device puts a request on the bus.
DeviceRequest(r) ==
    /\ Devices /\ MayRequest /\ made' = made + 1
    /\ wire' = Append(wire, r)
    /\ wanted' = [wanted EXCEPT ![r.turnout] = r.pos]
    /\ unseen' = unseen \cup {r.turnout}
    /\ UNCHANGED <<orders, states, txQueue, lastSent, awaiting, late,
                   accessories, turnouts>>

(* Bug: any request is taken for the echo while one is awaited. *)
OwnEchoAny(r) == awaiting /\ ~late

(* Bug: the echo is never recognised. *)
OwnEchoNever(r) == FALSE

OwnEcho(r) == awaiting /\ ~late /\ r = lastSent

\* _handleSwReq(): an echo is dropped, anything else is a command.  The
\* event it publishes itself does not come back to onEvent().
HandleSwReq ==
    /\ wire # <<>>
    /\ wire' = Tail(wire)
    /\ \/ /\ OwnEcho(Head(wire))
          /\ awaiting' = FALSE
          /\ UNCHANGED orders
       \/ /\ ~OwnEcho(Head(wire))
          /\ orders' = IF Room THEN Append(orders, Head(wire)) ELSE orders
          /\ UNCHANGED awaiting
    /\ UNCHANGED <<states, txQueue, lastSent, late, accessories, turnouts,
                   made, wanted, unseen>>

\* Core 0: DccHal::setAccessory().
SetAccessory ==
    /\ orders # <<>>
    /\ orders' = Tail(orders)
    /\ LET r == Head(orders)
       IN  /\ turnouts' = [turnouts EXCEPT ![r.turnout] = r.pos]
           /\ states' = Append(states, r)
    /\ UNCHANGED <<txQueue, wire, lastSent, awaiting, late, accessories, made,
                   wanted, unseen>>

OnEvent ==
    /\ states # <<>>
    /\ states' = Tail(states)
    /\ lastSent' = Head(states) /\ awaiting' = TRUE /\ late' = FALSE
    /\ txQueue' = Append(txQueue, Head(states))
    /\ UNCHANGED <<orders, wire, accessories, turnouts, made, wanted, unseen>>

\* The bus takes the next message.  The station hears it like any other,
\* unless it collides.
Transmit ==
    /\ txQueue # <<>>
    /\ txQueue' = Tail(txQueue)
    /\ wire' \in {wire, Append(wire, Head(txQueue))}
    /\ UNCHANGED <<orders, states, lastSent, awaiting, late, accessories,
                   turnouts, made, wanted, unseen>>

\* The time to expect an echo runs out; an echo takes less than that.
EchoWindow ==
    /\ awaiting /\ ~late /\ Settled
    /\ late' = TRUE
    /\ UNCHANGED <<orders, states, txQueue, wire, lastSent, awaiting,
                   accessories, turnouts, made, wanted, unseen>>

\* The web page forgets the positions.
ClearAccessories ==
    /\ \E t \in Turnout : accessories[t] # "unknown"
    /\ accessories' = [t \in Turnout |-> "unknown"]
    /\ UNCHANGED <<orders, states, txQueue, wire, lastSent, awaiting, late,
                   turnouts, made, wanted, unseen>>

Carry == HandleSwReq \/ SetAccessory \/ OnEvent \/ Transmit

Next == \/ \E r \in Request : HandleTurnout(r) \/ DeviceRequest(r)
        \/ Carry \/ EchoWindow \/ ClearAccessories

Spec == Init /\ [][Next]_relayVars
----------------------------------------------------------------------------
TypeOK ==
    /\ orders \in Seq(Request) /\ Len(orders) <= RelaySlots
    /\ states \in Seq(Request) /\ txQueue \in Seq(Request) /\ wire \in Seq(Request)
    /\ lastSent \in Request \cup {NoRequest}
    /\ awaiting \in BOOLEAN /\ late \in BOOLEAN
    /\ accessories \in [Turnout -> Position \cup {"unknown"}]
    /\ turnouts \in [Turnout -> Position] /\ wanted \in [Turnout -> Position]
    /\ made \in 0 .. RelayRequests /\ unseen \subseteq Turnout

\* Once all is carried out, a turnout is where the last accepted request put
\* it, and a query answers that position, unless it was set from LocoNet or
\* the last request for it was refused.
LastCommandWins ==
    Settled => \A t \in Turnout :
                  /\ turnouts[t] = wanted[t]
                  /\ accessories[t] = "unknown" \/ t \in unseen
                     \/ accessories[t] = turnouts[t]

\* Between two requests the relay comes to rest: a request is not carried
\* round the bus for ever.
RelayComesToRest == []<>Settled
=============================================================================
