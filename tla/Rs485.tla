------------------------------- MODULE Rs485 -------------------------------
(***************************************************************************)
(* The XpressNet master on RS-485: which address is called next.           *)
(*                                                                         *)
(* A handheld may only speak when its address is called.  One pass of      *)
(* loop() calls one address, waits for the answer, and picks the address   *)
(* of the next pass: most passes go round the addresses known to be        *)
(* present, every eighth probes one that is not.  While a handheld is      *)
(* programming, only its address is called.                                *)
(***************************************************************************)
EXTENDS Integers, FiniteSets

CONSTANTS
    MaxSlaves,      \* XN_RS485_MAX_SLAVES
    ProbeEvery,     \* passes between two probes, 8
    ProbeLimit,     \* misses after which an address is not probed, 3
    MissValues      \* values of missCount, 256

Address == 1 .. MaxSlaves

VARIABLES
    attached,   \* devices on the bus
    present, missCount,
    overdue,    \* addresses whose last answer is longer ago than rs485.presence_to_ms
    currentSlave,
    progSlave,  \* _progModeSlave, 0 unless _progModeActive
    cycle,      \* sCycleCount, modulo ProbeEvery
    discovery,  \* sDiscoveryAddr
    called      \* the address called last; 0 before the first

rsVars == <<attached, present, missCount, overdue, currentSlave, progSlave, cycle,
            discovery, called>>

Init ==
    /\ attached \in SUBSET Address
    /\ present = {} /\ missCount = [a \in Address |-> 0] /\ overdue = {}
    /\ currentSlave = 1 /\ progSlave = 0 /\ cycle = 0 /\ discovery = 1 /\ called = 0

\* A handheld is plugged in or unplugged.
Plug(a) ==
    /\ attached' = IF a \in attached THEN attached \ {a} ELSE attached \cup {a}
    /\ UNCHANGED <<present, missCount, overdue, currentSlave, progSlave, cycle,
                   discovery, called>>

\* The presence timeout of a runs out.
Elapse(a) ==
    /\ a \in present \ overdue
    /\ overdue' = overdue \cup {a}
    /\ UNCHANGED <<attached, present, missCount, currentSlave, progSlave, cycle,
                   discovery, called>>

----------------------------------------------------------------------------
\* The first address of S after a, round the bus; a itself comes last.
After(a, S) ==
    LET steps(b) == (b - a - 1 + MaxSlaves) % MaxSlaves
    IN  CHOOSE b \in S : \A c \in S : steps(b) <= steps(c)

(* Bug: the search for a present address always starts at address 1. *)
NextSlaveFirst(pres, miss) ==
    /\ cycle' = (cycle + 1) % ProbeEvery
    /\ LET unknown == {a \in Address \ pres : miss[a] < ProbeLimit}
       IN  \/ /\ cycle' = 0 /\ unknown # {}
              /\ discovery' = After(discovery, unknown)
              /\ currentSlave' = discovery'
           \/ /\ cycle' # 0 \/ unknown = {}
              /\ pres # {}
              /\ currentSlave' = After(MaxSlaves, pres)
              /\ UNCHANGED discovery
           \/ /\ cycle' # 0 \/ unknown = {}
              /\ pres = {}
              /\ discovery' = After(discovery, Address)
              /\ currentSlave' = discovery'

\* _nextSlave(), after a call that left pres present and miss counted.  The
\* fallback does not look at the misses.
NextSlave(pres, miss) ==
    /\ cycle' = (cycle + 1) % ProbeEvery
    /\ LET unknown == {a \in Address \ pres : miss[a] < ProbeLimit}
       IN  \/ /\ cycle' = 0 /\ unknown # {}
              /\ discovery' = After(discovery, unknown)
              /\ currentSlave' = discovery'
           \/ /\ cycle' # 0 \/ unknown = {}
              /\ pres # {}
              /\ currentSlave' = After(currentSlave, pres)
              /\ UNCHANGED discovery
           \/ /\ cycle' # 0 \/ unknown = {}
              /\ pres = {}
              /\ discovery' = After(discovery, Address)
              /\ currentSlave' = discovery'

\* No answer from a: absent once it has been silent for the whole timeout.
NoAnswer(a) ==
    /\ IF a \in present \cap overdue
       THEN /\ present' = present \ {a}
            /\ missCount' = [missCount EXCEPT ![a] = 0]
       ELSE /\ missCount' = [missCount EXCEPT ![a] = (@ + 1) % MissValues]
            /\ UNCHANGED present
    /\ overdue' = overdue \ {a}
    /\ UNCHANGED progSlave

\* a answers: a programming request, power on, another request, or nothing
\* readable.
Answer(a) ==
    /\ a \in attached
    /\ present' = present \cup {a}
    /\ missCount' = [missCount EXCEPT ![a] = 0]
    /\ overdue' = overdue \ {a}
    /\ progSlave' \in {IF progSlave = 0 THEN a ELSE progSlave, 0, progSlave}

\* One pass of loop().
Loop ==
    LET a == IF progSlave # 0 THEN progSlave ELSE currentSlave
    IN  /\ called' = a
        /\ NoAnswer(a) \/ Answer(a)
        /\ IF progSlave' = 0 THEN NextSlave(present', missCount')
           ELSE UNCHANGED <<currentSlave, cycle, discovery>>
        /\ UNCHANGED attached

Next == Loop \/ \E a \in Address : Plug(a) \/ Elapse(a)

Spec == Init /\ [][Next]_rsVars /\ WF_rsVars(Loop)
----------------------------------------------------------------------------
TypeOK ==
    /\ attached \subseteq Address /\ present \subseteq Address
    /\ missCount \in [Address -> 0 .. MissValues - 1]
    /\ overdue \subseteq present
    /\ currentSlave \in Address /\ progSlave \in Address \cup {0}
    /\ cycle \in 0 .. ProbeEvery - 1 /\ discovery \in Address
    /\ called \in Address \cup {0}

\* A handheld that is present is called again, unless one is programming:
\* the probes take turns from the round but do not make it skip an address
\* for ever.
PresentCalled ==
    \A a \in Address : a \in present ~> (called = a \/ a \notin present \/ progSlave # 0)

\* What the class comment says of discovery: a handheld that is plugged in is
\* found.
AttachedCalled ==
    \A a \in Address : a \in attached ~> (called = a \/ a \notin attached \/ progSlave # 0)
=============================================================================
