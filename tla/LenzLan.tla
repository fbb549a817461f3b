------------------------------ MODULE LenzLan ------------------------------
(***************************************************************************)
(* The XpressNet server on TCP: its table of clients, what it reads from   *)
(* them, and how a client leaves.                                          *)
(*                                                                         *)
(* loop() accepts one connection, serves the places of the table in order  *)
(* and checks for clients that stay silent.  Serving a place is a loop     *)
(* over the frames in its buffer; every frame may be answered, and sending *)
(* may itself drop a client whose transmit buffer has been full for too    *)
(* long.                                                                   *)
(*                                                                         *)
(* The bytes of a connection are numbered halves of frames: an odd one     *)
(* starts a frame, an even one ends it.  Of a connection c, halves up to   *)
(* sent[c] have arrived, up to read[c] have been moved to the receive      *)
(* buffer, and up to parsed[c] are dealt with.                             *)
(***************************************************************************)
EXTENDS Integers, FiniteSets

CONSTANTS
    Conn,           \* connections, in the order they are made
    MaxClients,     \* LENZ_LAN_MAX_CLIENTS
    RxBuf,          \* LENZ_LAN_RX_BUF, in halves of frames
    MaxSent,        \* bound on the halves a client sends
    NoConn

Place == 1 .. MaxClients

VARIABLES
    link,       \* state of the peer: "none", "asking", "up", "closed", "dead", "refused"
    sent, read, parsed,
    clients,    \* _clients: active, conn, frame (frameStartMs), idle (lastActMs), stuck (txStuckSinceMs)
    connCount,  \* _connCount
    serving,    \* the place being served; 0 before, MaxClients + 1 after all
    framing,    \* the frames of that place are being handled
    lost        \* history: calls of _onClientLost() for a connection

stream  == <<sent, read, parsed>>
lanVars == <<link, stream, clients, connCount, serving, framing, lost>>

Init ==
    /\ link = [c \in Conn |-> "none"]
    /\ sent = [c \in Conn |-> 0]
    /\ read = [c \in Conn |-> 0] /\ parsed = [c \in Conn |-> 0]
    /\ clients = [p \in Place |-> [active |-> FALSE, conn |-> NoConn, frame |-> "none",
                                   idle |-> FALSE, stuck |-> "no"]]
    /\ connCount = 0 /\ serving = 0 /\ framing = FALSE
    /\ lost = [c \in Conn |-> 0]

Active == {p \in Place : clients[p].active}
The(p) == clients[p].conn

----------------------------------------------------------------------------
\* The peers.
Connect(c) ==
    /\ link[c] = "none"
    /\ link' = [link EXCEPT ![c] = "asking"]
    /\ UNCHANGED <<stream, clients, connCount, serving, framing, lost>>

Send(c) ==
    /\ link[c] = "up" /\ sent[c] < MaxSent
    /\ sent' = [sent EXCEPT ![c] = @ + 1]
    /\ UNCHANGED <<link, read, parsed, clients, connCount, serving, framing, lost>>

Leave(c) ==
    /\ link[c] = "up"
    /\ link' \in {[link EXCEPT ![c] = how] : how \in {"closed", "dead"}}
    /\ UNCHANGED <<stream, clients, connCount, serving, framing, lost>>

\* Time: 250 ms for a frame, 5 s for a full buffer, a minute without a frame.
Elapse(p) ==
    /\ clients[p].active
    /\ \/ /\ clients[p].frame = "running"
          /\ clients' = [clients EXCEPT ![p].frame = "late"]
       \/ /\ clients[p].stuck = "since"
          /\ clients' = [clients EXCEPT ![p].stuck = "long"]
       \/ /\ ~clients[p].idle
          /\ clients' = [clients EXCEPT ![p].idle = TRUE]
    /\ UNCHANGED <<link, stream, connCount, serving, framing, lost>>

----------------------------------------------------------------------------
\* _sendRaw() to the clients at places S, of which those in full have no
\* room in their transmit buffer: they are dropped if that lasts.
Connected(p) == clients[p].active /\ link[The(p)] = "up"

Dropped(S, full) == {p \in S \cap full : Connected(p) /\ clients[p].stuck = "long"}

Sent(S, full) ==
    [p \in Place |->
        IF p \in Dropped(S, full) THEN [clients[p] EXCEPT !.active = FALSE]
        ELSE IF p \notin S \/ ~Connected(p) THEN clients[p]
        ELSE IF p \notin full THEN [clients[p] EXCEPT !.stuck = "no"]
        ELSE [clients[p] EXCEPT !.stuck = IF @ = "no" THEN "since" ELSE @]]

OnClientLost(places) ==
    lost' = [c \in Conn |-> lost[c] + Cardinality({p \in places : The(p) = c})]

\* _acceptNew(): the first free place, and the welcome message.  The frame
\* timer of the place is left as it was.
AcceptNew(c) ==
    /\ serving = 0 /\ link[c] = "asking"
    /\ \/ /\ Active = Place
          /\ link' = [link EXCEPT ![c] = "refused"]
          /\ UNCHANGED <<clients, connCount>>
       \/ /\ Active # Place
          /\ LET p == CHOOSE q \in Place \ Active : \A r \in Place \ Active : q <= r
             IN  clients' = [clients EXCEPT ![p] =
                               [@ EXCEPT !.active = TRUE, !.conn = c, !.idle = FALSE,
                                         !.stuck = "no"]]
          /\ connCount' = connCount + 1
          /\ link' = [link EXCEPT ![c] = "up"]
    /\ serving' = 1
    /\ UNCHANGED <<stream, framing, lost>>

NobodyAsks ==
    /\ serving = 0
    /\ serving' = 1
    /\ UNCHANGED <<link, stream, clients, connCount, framing, lost>>

NextPlace == serving' = serving + 1 /\ framing' = FALSE

AtPlace(p) == serving = p /\ ~framing

SkipPlace(p) ==
    /\ AtPlace(p) /\ ~clients[p].active
    /\ NextPlace
    /\ UNCHANGED <<link, stream, clients, connCount, lost>>

\* The socket is closed and empty: a client that closed it is forgotten, one
\* that no longer answers is lost.
Gone(p) ==
    /\ AtPlace(p) /\ clients[p].active
    /\ link[The(p)] \in {"closed", "dead"} /\ read[The(p)] = sent[The(p)]
    /\ clients' = [clients EXCEPT ![p].active = FALSE]
    /\ connCount' = connCount - 1
    /\ OnClientLost(IF link[The(p)] = "dead" THEN {p} ELSE {})
    /\ NextPlace
    /\ UNCHANGED <<link, stream>>

Gets(p) == AtPlace(p) /\ clients[p].active
           /\ (link[The(p)] = "up" \/ read[The(p)] < sent[The(p)])

\* What arrived is read into the buffer,
Receive(p) ==
    /\ Gets(p) /\ sent[The(p)] - parsed[The(p)] <= RxBuf
    /\ read' = [read EXCEPT ![The(p)] = sent[The(p)]]
    /\ framing' = TRUE
    /\ UNCHANGED <<link, sent, parsed, clients, connCount, serving, lost>>

\* or, if it does not fit, it is thrown away with what the buffer holds.
Overflow(p, full) ==
    /\ Gets(p) /\ sent[The(p)] - parsed[The(p)] > RxBuf
    /\ read' = [read EXCEPT ![The(p)] = sent[The(p)]]
    /\ parsed' = [parsed EXCEPT ![The(p)] = sent[The(p)]]
    /\ clients' = [Sent({p}, full) EXCEPT ![p].frame = "none"]
    /\ connCount' = connCount - Cardinality(Dropped({p}, full))
    /\ OnClientLost(Dropped({p}, full))
    /\ NextPlace
    /\ UNCHANGED <<link, sent>>

Whole(c)   == parsed[c] % 2 = 0 /\ parsed[c] + 2 <= read[c]
Garbage(c) == parsed[c] % 2 = 1 /\ parsed[c] < read[c]

\* A frame is handled, answered, and what it changes is broadcast to the
\* clients in S.  Whether the client is still there is not looked at.
HandleFrame(p, S, full) ==
    /\ serving = p /\ framing /\ Whole(The(p))
    /\ parsed' = [parsed EXCEPT ![The(p)] = @ + 2]
    /\ LET to == {p} \cup S
       IN  /\ clients' = [Sent(to, full) EXCEPT ![p].idle = FALSE]
           /\ connCount' = connCount - Cardinality(Dropped(to, full))
           /\ OnClientLost(Dropped(to, full))
    /\ UNCHANGED <<link, sent, read, serving, framing>>

SkipGarbage(p) ==
    /\ serving = p /\ framing /\ Garbage(The(p))
    /\ parsed' = [parsed EXCEPT ![The(p)] = @ + 1]
    /\ UNCHANGED <<link, sent, read, clients, connCount, serving, framing, lost>>

\* The rest of the buffer is the beginning of a frame, which may take 250 ms.
EndPlace(p, full) ==
    /\ serving = p /\ framing /\ ~Whole(The(p)) /\ ~Garbage(The(p))
    /\ LET empty == parsed[The(p)] = read[The(p)]
           late  == ~empty /\ clients[p].frame = "late"
           out   == IF late THEN {p} ELSE {}
       IN  /\ clients' = [Sent(out, full) EXCEPT ![p].frame =
                            IF empty \/ late THEN "none"
                            ELSE IF @ = "none" THEN "running" ELSE @]
           /\ parsed' = IF late THEN [parsed EXCEPT ![The(p)] = read[The(p)]] ELSE parsed
           /\ connCount' = connCount - Cardinality(Dropped(out, full))
           /\ OnClientLost(Dropped(out, full))
    /\ NextPlace
    /\ UNCHANGED <<link, sent, read>>

\* An event is broadcast between two passes.
OnEvent(full) ==
    /\ serving = 0 /\ full \subseteq Active /\ Active # {}
    /\ clients' = Sent(Active, full)
    /\ connCount' = connCount - Cardinality(Dropped(Active, full))
    /\ OnClientLost(Dropped(Active, full))
    /\ UNCHANGED <<link, stream, serving, framing>>

(* Bug: places whose client is gone already time out too. *)
CheckTimeoutsAll ==
    LET silent == {p \in Place : The(p) # NoConn /\ clients[p].idle}
    IN  /\ serving = MaxClients + 1 /\ serving' = 0
        /\ clients' = [p \in Place |-> IF p \in silent THEN [clients[p] EXCEPT !.active = FALSE]
                                       ELSE clients[p]]
        /\ connCount' = connCount - Cardinality(silent)
        /\ OnClientLost(silent)
        /\ UNCHANGED <<link, stream, framing>>

CheckTimeouts ==
    LET silent == {p \in Active : clients[p].idle}
    IN  /\ serving = MaxClients + 1 /\ serving' = 0
        /\ clients' = [p \in Place |-> IF p \in silent THEN [clients[p] EXCEPT !.active = FALSE]
                                       ELSE clients[p]]
        /\ connCount' = connCount - Cardinality(silent)
        /\ OnClientLost(silent)
        /\ UNCHANGED <<link, stream, framing>>

Next ==
    \/ \E c \in Conn : Connect(c) \/ Send(c) \/ Leave(c) \/ AcceptNew(c)
    \/ NobodyAsks \/ CheckTimeouts
    \/ \E p \in Place : Elapse(p) \/ SkipPlace(p) \/ Gone(p) \/ Receive(p) \/ SkipGarbage(p)
    \/ \E full \in SUBSET Place :
          \/ OnEvent(full)
          \/ \E p \in Place : Overflow(p, full) \/ EndPlace(p, full)
          \/ \E p \in Place, S \in {{}, Active} : HandleFrame(p, S, full)

Spec == Init /\ [][Next]_lanVars
----------------------------------------------------------------------------
TypeOK ==
    /\ link \in [Conn -> {"none", "asking", "up", "closed", "dead", "refused"}]
    /\ \A c \in Conn : 0 <= parsed[c] /\ parsed[c] <= read[c] /\ read[c] <= sent[c]
    /\ clients \in [Place -> [active : BOOLEAN, conn : Conn \cup {NoConn},
                              frame : {"none", "running", "late"}, idle : BOOLEAN,
                              stuck : {"no", "since", "long"}]]
    /\ connCount \in 0 .. MaxClients /\ serving \in 0 .. MaxClients + 1

\* The number of connections is the number of active places, whichever of the
\* four ways a client leaves by: with a count of zero feedback is not sent.
ConnCountExact == connCount = Cardinality(Active)

\* A client that was served and is gone has been reported lost exactly once,
\* unless it closed the connection itself; one that is still served has not.
LostOnce ==
    \A c \in Conn :
       LET served == \E p \in Active : The(p) = c
           was    == link[c] \in {"up", "closed", "dead"}
       IN  /\ served \/ ~was => lost[c] = 0
           /\ was /\ ~served => lost[c] = 1 \/ (link[c] = "closed" /\ lost[c] = 0)

\* The table of clients is right however a client leaves.
PlacesAccounted == ConnCountExact /\ LostOnce
=============================================================================
