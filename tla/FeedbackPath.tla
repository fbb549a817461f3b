---------------------------- MODULE FeedbackPath ----------------------------
(***************************************************************************)
(* The state of a feedback module on its way from the RS-Bus to the        *)
(* XpressNet clients on TCP.                                               *)
(*                                                                         *)
(* The RS-Bus library (external) keeps the last value of every nibble and  *)
(* queues the reports.  RsBusHal::loop() on core 0 drops a report that     *)
(* repeats what was sent before and publishes the others; LenzLan on core  *)
(* 1 forwards them, and tells a new client everything the library knows.   *)
(* RsBusHal::onEvent() and the web pages run on core 1 and reset what      *)
(* loop() compares with while it runs.                                     *)
(*                                                                         *)
(* A decoder is one nibble.  The reports of a poll are handled one at a    *)
(* time and published each in an event of its own.                         *)
(***************************************************************************)
EXTENDS Integers, Sequences

CONSTANTS
    Decoder, Value,     \* 0 \in Value
    Client,
    FeedbackSlots,      \* capacity of the event bus, as far as it is free
    MaxReports          \* bound on the reports the library holds

Sentinel == 255
Unseen   == -1

VARIABLES
    running,    \* the RS-Bus is started
    fbState,    \* rsBus.fbState: the last value, or Unseen
    reports,    \* queue of the library
    lastSent,   \* _lastSent
    hand,       \* the report loop() is at: sequence of at most one
    events,     \* event bus, from core 0 to core 1
    connected,  \* clients of LenzLan
    view,       \* what a client was told of a decoder last
    fresh,      \* history: decoders that have reported since the RS-Bus was started
    untold      \* history: <<c, d>> if, since then, something c should know of d was lost

fbVars == <<running, fbState, reports, lastSent, hand, events, connected, view, fresh, untold>>

Report == [decoder : Decoder, value : Value]

Init ==
    /\ running = FALSE
    /\ fbState = [d \in Decoder |-> Unseen] /\ reports = <<>>
    /\ lastSent = [d \in Decoder |-> 0] /\ hand = <<>> /\ events = <<>>
    /\ connected = {} /\ view = [c \in Client |-> [d \in Decoder |-> Unseen]]
    /\ fresh = {} /\ untold = {}

\* loop() still has an earlier report of d to handle.
Old(d) == \/ hand # <<>> /\ hand[1].report.decoder = d
          \/ \E i \in DOMAIN reports : reports[i].decoder = d

----------------------------------------------------------------------------
\* A decoder reports.  The interrupt handler of the library takes it in.
DecoderReports(r) ==
    /\ running /\ Len(reports) < MaxReports
    /\ reports' = Append(reports, r)
    /\ fbState' = [fbState EXCEPT ![r.decoder] = r.value]
    /\ fresh' = fresh \cup {r.decoder}
    /\ UNCHANGED <<running, lastSent, hand, events, connected, view, untold>>

\* loop(): the report is compared with what was sent last,
Compare ==
    /\ hand = <<>> /\ reports # <<>>
    /\ reports' = Tail(reports)
    /\ hand' = << [report  |-> Head(reports), stored |-> FALSE,
                   changed |-> lastSent[Head(reports).decoder] # Head(reports).value] >>
    /\ UNCHANGED <<running, fbState, lastSent, events, connected, view, fresh, untold>>

\* which it replaces,
Store(deltaFilter) ==
    /\ hand # <<>> /\ ~hand[1].stored
    /\ lastSent' = [lastSent EXCEPT ![hand[1].report.decoder] = hand[1].report.value]
    /\ hand' = IF deltaFilter /\ ~hand[1].changed THEN <<>>
               ELSE << [hand[1] EXCEPT !.stored = TRUE] >>
    /\ UNCHANGED <<running, fbState, reports, events, connected, view, fresh, untold>>

\* and published.  What publish() returns is not looked at.
Publish ==
    /\ hand # <<>> /\ hand[1].stored
    /\ hand' = <<>>
    /\ LET r == hand[1].report
       IN  \/ /\ Len(events) < FeedbackSlots
              /\ events' = Append(events, [type |-> "feedback", report |-> r])
              /\ UNCHANGED untold
           \/ /\ Len(events) = FeedbackSlots
              /\ untold' = untold \cup (Client \X {r.decoder})
              /\ UNCHANGED events
    /\ UNCHANGED <<running, fbState, reports, lastSent, connected, view, fresh>>

\* Core 0 switches the track power.
PowerChanges(type) ==
    /\ hand = <<>> /\ Len(events) < FeedbackSlots
    /\ events' = Append(events, [type |-> type])
    /\ UNCHANGED <<running, fbState, reports, lastSent, hand, connected, view, fresh, untold>>

----------------------------------------------------------------------------
\* Core 1.  clearAll() forgets the state, and what was sent is then 0.
ClearAll ==
    /\ lastSent' = [d \in Decoder |-> 0]
    /\ fbState' = [d \in Decoder |-> Unseen]

(* Bug: after power on the filter still takes a 0 for known. *)
OnPowerOnKeepsZero ==
    /\ events # <<>> /\ Head(events).type = "on"
    /\ events' = Tail(events)
    /\ running' = TRUE /\ fresh' = {}
    /\ lastSent' = [d \in Decoder |-> 0]
    /\ untold' = Client \X {d \in Decoder : Old(d)}
    /\ UNCHANGED <<fbState, reports, hand, connected, view>>

\* Power on: the next report of every decoder is sent, whatever it says.  If
\* that is an earlier one, the first of the new ones may not be.
OnPowerOn ==
    /\ events # <<>> /\ Head(events).type = "on"
    /\ events' = Tail(events)
    /\ running' = TRUE /\ fresh' = {}
    /\ lastSent' = [d \in Decoder |-> Sentinel]
    /\ untold' = Client \X {d \in Decoder : Old(d)}
    /\ UNCHANGED <<fbState, reports, hand, connected, view>>

\* Power off, with or without rsbus.clear_on_power.
OnPowerOff(clearOnPower) ==
    /\ events # <<>> /\ Head(events).type = "off"
    /\ events' = Tail(events)
    /\ running' = FALSE
    /\ reports' \in {reports, <<>>}
    /\ IF clearOnPower THEN ClearAll ELSE UNCHANGED <<lastSent, fbState>>
    /\ UNCHANGED <<hand, connected, view, fresh, untold>>

\* LenzLan::onEvent(): a client whose transmit buffer is full misses it.
OnFeedback(full) ==
    /\ events # <<>> /\ Head(events).type = "feedback" /\ full \subseteq connected
    /\ events' = Tail(events)
    /\ LET r == Head(events).report
       IN  /\ view' = [c \in Client |-> IF c \in connected \ full
                                        THEN [view[c] EXCEPT ![r.decoder] = r.value]
                                        ELSE view[c]]
           /\ untold' = untold \cup (full \X {r.decoder})
    /\ UNCHANGED <<running, fbState, reports, lastSent, hand, connected, fresh>>

\* LenzLan::_acceptNew() dumps what the library knows.
ClientConnects(c) ==
    /\ c \notin connected
    /\ connected' = connected \cup {c}
    /\ view' = [view EXCEPT ![c] = fbState]
    /\ UNCHANGED <<running, fbState, reports, lastSent, hand, events, fresh, untold>>

ClientLeaves(c) ==
    /\ c \in connected
    /\ connected' = connected \ {c}
    /\ view' = [view EXCEPT ![c] = [d \in Decoder |-> Unseen]]
    /\ UNCHANGED <<running, fbState, reports, lastSent, hand, events, fresh, untold>>

\* The web pages /clear/feedback and /fabriek.
WebClear ==
    /\ ClearAll
    /\ untold' = Client \X Decoder
    /\ UNCHANGED <<running, reports, hand, events, connected, view, fresh>>

Next ==
    \/ \E r \in Report : DecoderReports(r)
    \/ Compare \/ Publish \/ \E filter \in BOOLEAN : Store(filter)
    \/ \E type \in {"on", "off"} : PowerChanges(type)
    \/ OnPowerOn \/ \E clear \in BOOLEAN : OnPowerOff(clear)
    \/ \E full \in SUBSET connected : OnFeedback(full)
    \/ \E c \in Client : ClientConnects(c) \/ ClientLeaves(c)
    \/ WebClear

Spec == Init /\ [][Next]_fbVars
----------------------------------------------------------------------------
TypeOK ==
    /\ running \in BOOLEAN
    /\ fbState \in [Decoder -> Value \cup {Unseen}]
    /\ reports \in Seq(Report) /\ Len(reports) <= MaxReports
    /\ lastSent \in [Decoder -> Value \cup {Sentinel}]
    /\ Len(hand) <= 1 /\ Len(events) <= FeedbackSlots
    /\ connected \subseteq Client
    /\ view \in [Client -> [Decoder -> Value \cup {Unseen}]]
    /\ fresh \subseteq Decoder /\ untold \subseteq Client \X Decoder

\* With the track on and nothing on its way, a client knows the value of every
\* decoder that has reported since the power came on, although only changes
\* are sent: unless, since then, an event was refused, the client had no room
\* for it, or the table was cleared from the web page.
FeedbackTold ==
    running /\ reports = <<>> /\ hand = <<>> /\ events = <<>> =>
        \A c \in connected, d \in fresh :
            <<c, d>> \in untold \/ fbState[d] = Unseen \/ view[c][d] = fbState[d]
=============================================================================
