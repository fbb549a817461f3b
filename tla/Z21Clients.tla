----------------------------- MODULE Z21Clients -----------------------------
(***************************************************************************)
(* The table of UDP clients of Z21Lan.  A client has no connection: it is   *)
(* entered by its first packet, subscribes to broadcasts by setting flags,  *)
(* and is forgotten when it logs off or has been silent for too long.  The  *)
(* limit is read from the settings in every pass, so that it may change     *)
(* under the clients.                                                       *)
(*                                                                          *)
(* An action is a pass of loop(): at most one packet, then the check of the *)
(* time limits.  Time passes in ticks; what a request asks for and what is  *)
(* sent in reply is left out.                                               *)
(***************************************************************************)
EXTENDS Naturals, FiniteSets

CONSTANTS
    Peer,         \* addresses and ports that packets come from
    Nobody,       \* a place that is not active
    Places,       \* Z21_MAX_CLIENTS
    Flag,         \* values of the broadcast flags, with
    SystemState,  \* those of a client that never set any
    Limits        \* time limits that may be configured, in ticks

(* Any limit will do, as long as there is a longest (a 16-bit setting). *)
ASSUME Z21Assumption ==
    /\ Nobody \notin Peer /\ Places \in Nat /\ SystemState \in Flag
    /\ Limits \subseteq Nat
    /\ \E n \in Limits : \A m \in Limits : m <= n

VARIABLES
    client,       \* _clients: who, flags, and ticks since it was last seen
    clientCount,  \* _clientCount
    limit,        \* z21.client_timeout_s
    quiet,        \* history: ticks since the last proper packet of a peer
    wants,        \* history: the flags a peer that keeps in touch set last
    inTouch       \* history: peers that were served and not silent since

z21Vars == <<client, clientCount, limit, quiet, wants, inTouch>>

Place == 1 .. Places
Unused == [who |-> Nobody, flags |-> SystemState, idle |-> 0]
Longest == CHOOSE n \in Limits : \A m \in Limits : m <= n

Init ==
    /\ client = [p \in Place |-> Unused] /\ clientCount = 0
    /\ limit \in Limits
    /\ quiet = [c \in Peer |-> 0] /\ wants = [c \in Peer |-> SystemState]
    /\ inTouch = {}

-----------------------------------------------------------------------------
Of(table, c) == {p \in Place : table[p].who = c}

(* _findOrAddClient(): the place it has, else the first that is free *)
Entered(c) ==
    LET free == Of(client, Nobody)
    IN  IF Of(client, c) # {} \/ free = {} THEN client
        ELSE [client EXCEPT ![CHOOSE p \in free : \A q \in free : p <= q] =
                  [Unused EXCEPT !.who = c]]

Joins(c) == IF Of(client, c) = {} /\ Of(client, Nobody) # {} THEN 1 ELSE 0

(* _checkTimeouts() *)
Expired(table) == {p \in Place : table[p].who # Nobody /\ table[p].idle > limit}
CheckTimeouts(table, n) ==
    /\ client' = [p \in Place |-> IF p \in Expired(table) THEN Unused ELSE table[p]]
    /\ clientCount' = n - Cardinality(Expired(table))

Changed(table, c, new(_)) ==
    [p \in Place |-> IF table[p].who = c THEN new(table[p]) ELSE table[p]]

(* Bug: only the first packet of a client counts. *)
SeenOnce(r) == r

Seen(r) == [r EXCEPT !.idle = 0]

(* history: who keeps in touch, once the limits were checked *)
StillInTouch(peers) == inTouch' = {c \in peers : quiet'[c] <= limit}

(* A packet whose length is wrong makes an entry and is ignored. *)
BadPacket(c) ==
    /\ CheckTimeouts(Entered(c), clientCount + Joins(c))
    /\ UNCHANGED <<limit, quiet, wants>>
    /\ StillInTouch(inTouch)

Served(c) == Of(Entered(c), c) # {}
Heard(c) ==
    /\ quiet' = [quiet EXCEPT ![c] = 0]
    /\ StillInTouch(IF Served(c) THEN inTouch \cup {c} ELSE inTouch)

(* any request that leaves the table alone, LAN_LOGON among them *)
Packet(c) ==
    /\ CheckTimeouts(Changed(Entered(c), c, Seen), clientCount + Joins(c))
    /\ Heard(c)
    /\ wants' = IF c \in inTouch THEN wants ELSE [wants EXCEPT ![c] = SystemState]
    /\ UNCHANGED limit

(* LAN_SET_BROADCASTFLAGS *)
SetBcFlags(c, f) ==
    /\ LET Subscribed(r) == [Seen(r) EXCEPT !.flags = f]
       IN  CheckTimeouts(Changed(Entered(c), c, Subscribed), clientCount + Joins(c))
    /\ Heard(c)
    /\ wants' = [wants EXCEPT ![c] = f]
    /\ UNCHANGED limit

(* LAN_LOGOFF, which a peer without a place is given one for *)
Logoff(c) ==
    /\ Served(c)
    /\ LET Left(r) == Unused
       IN  CheckTimeouts(Changed(Entered(c), c, Left), clientCount + Joins(c) - 1)
    /\ quiet' = [quiet EXCEPT ![c] = 0]
    /\ StillInTouch(inTouch \ {c})
    /\ UNCHANGED <<limit, wants>>

Tick ==
    /\ LET Older(r) == IF r.who = Nobody \/ r.idle > Longest THEN r
                       ELSE [r EXCEPT !.idle = @ + 1]
       IN  CheckTimeouts([p \in Place |-> Older(client[p])], clientCount)
    /\ quiet' = [c \in Peer |-> IF quiet[c] > Longest THEN quiet[c] ELSE quiet[c] + 1]
    /\ StillInTouch(inTouch)
    /\ UNCHANGED <<limit, wants>>

(* The settings page changes the limit; the next pass uses it. *)
SetLimit(n) ==
    /\ limit' = n
    /\ UNCHANGED <<client, clientCount, quiet, wants, inTouch>>

Next ==
    \/ \E c \in Peer : BadPacket(c) \/ Packet(c) \/ Logoff(c)
    \/ \E c \in Peer, f \in Flag : SetBcFlags(c, f)
    \/ Tick
    \/ \E n \in Limits : SetLimit(n)

Spec == Init /\ [][Next]_z21Vars

-----------------------------------------------------------------------------
TypeOK ==
    /\ client \in [Place -> [who : Peer \cup {Nobody}, flags : Flag,
                             idle : 0 .. Longest + 1]]
    /\ clientCount \in 0 .. Places
    /\ limit \in Limits
    /\ quiet \in [Peer -> 0 .. Longest + 1] /\ wants \in [Peer -> Flag]
    /\ inTouch \subseteq Peer

(* z21_lan.h:39-50: a client that is heard within the limit keeps its one    *)
(* place and the flags it has set, whoever comes, goes, sends rubbish or     *)
(* changes the limit, and the count that the web page shows is that of the   *)
(* places in use.                                                            *)
SubscriptionKept ==
    /\ \A c \in inTouch : \E p \in Place :
          Of(client, c) = {p} /\ client[p].flags = wants[c]
    /\ clientCount = Cardinality(Place \ Of(client, Nobody))
=============================================================================
