---------------------------- MODULE HBridgeGuard ----------------------------
(***************************************************************************)
(* The nFAULT guards (hbridge_guard.h), the edges an interrupt records for *)
(* them (nfault_source.h), and what DccHal makes of their verdict.         *)
(*                                                                         *)
(* Every H-bridge has a guard.  An edge on nFAULT starts an episode: it is *)
(* ignored for a while, watched for a repeat, given an inrush pattern that *)
(* lets a loco charge its capacitor, and verified; an edge in the verify   *)
(* time cuts the power.  There is one pattern for all bridges, switched by *)
(* the guard of the bridge that drives the track.                          *)
(*                                                                         *)
(* The guards decide on the time of an edge, but only when loop() runs,    *)
(* which may be up to MaxLate ticks later.  A moment is kept as its age in *)
(* ticks, up to Horizon; a negative age lies ahead.  The rule that skips   *)
(* isolated pairs (nf.skip_other) is left out.                             *)
(***************************************************************************)
EXTENDS Integers, Sequences

CONSTANTS
    Bridge,         \* subset of {"DCC", "SM", "CDE"}
    IgnoreTime, WatchTime, InrushTime, VerifyTime,  \* nf.*_us, nf.*_ms in ticks
    Packet,         \* INRUSH_PACKET_US
    VerifyEdges,    \* nf.verify_edges
    SkipItrip,      \* ~nf.inrush_itrip
    ItripMax, Grace, \* nf.itrip_max_ms, nf.pon_grace_ms
    EdgeSlots,      \* capacity of the ring of edges, 63
    MaxLate,        \* bound on the time between two passes of loop()
    Resume,         \* TRUE if POWER_ON also comes while the power is on
    LastingOn,      \* bridges on which a fault may last
    MaxSwitches     \* bound on the times service mode begins or ends

Phase == {"Normal", "Ignore", "Watch", "Inrush", "Verify", "Shorted"}

\* An age that every duration has passed at, whenever loop() runs.
Horizon == IgnoreTime + WatchTime + InrushTime + VerifyTime + ItripMax + Grace + MaxLate

VARIABLES
    power,      \* _power
    service,    \* _serviceModeRequested
    guard,      \* _state, _t0, _watchStart etc. (since), _verifyBase, counters, the ITRIP chain
    turn,       \* the place of the guard being updated, 0 outside _updateGuards()
    edges,      \* the ring of an NFaultSource: ages of falling edges
    pattern,    \* the packet engine is in inrush mode
    late,       \* ticks since loop() ran
    faulty,     \* bridges with a lasting fault: an edge in every tick
    switches,   \* times service mode began or ended
    charged,    \* history: ticks the pattern has lasted
    taken       \* history: service mode began or ended since the pattern was switched on

hbVars == <<power, service, guard, turn, edges, pattern, late, faulty, switches,
            charged, taken>>

\* reset()
Fresh == [state |-> "Normal", t0 |-> 0, since |-> 0, base |-> 0, ignored |-> 0, seen |-> 0,
          chain |-> FALSE, chainStart |-> 0, chainLast |-> 0, reset |-> 0, why |-> "none"]

Init ==
    /\ power = FALSE /\ service = FALSE
    /\ guard = [b \in Bridge |-> Fresh] /\ turn = 0 /\ edges = [b \in Bridge |-> <<>>]
    /\ pattern = FALSE /\ late = 0 /\ faulty = {} /\ switches = 0
    /\ charged = 0 /\ taken = FALSE

----------------------------------------------------------------------------
\* The guard.  What it computes is a guard and the pattern; a is the age of
\* the moment the guard has come to, d of a moment at or before it.
Reached(a, d, time) == d - a >= time

SetNormal(m) ==
    [m EXCEPT !.g = [@ EXCEPT !.state = "Normal", !.t0 = 0, !.since = 0, !.base = 0,
                              !.ignored = 0, !.seen = 0]]

(* Bug: the pattern is left on. *)
FinishInrushPatternOn(m) ==
    [m EXCEPT !.g = [@ EXCEPT !.state = "Verify", !.since = -Packet, !.base = -Packet,
                              !.seen = 0]]

\* finishInrush(): edges count when the last packet of the pattern is out.
FinishInrush(m) ==
    [g |-> [m.g EXCEPT !.state = "Verify", !.since = -Packet, !.base = -Packet, !.seen = 0],
     pattern |-> FALSE]

\* advance(): one phase that is over at age a,
Expire(m, a) ==
    CASE m.g.state = "Ignore" /\ Reached(a, m.g.t0, IgnoreTime) ->
            [m EXCEPT !.g = [@ EXCEPT !.state = "Watch", !.since = m.g.t0 - IgnoreTime]]
      [] m.g.state = "Watch" /\ Reached(a, m.g.since, WatchTime) -> SetNormal(m)
      [] m.g.state = "Inrush" /\ Reached(a, m.g.since, InrushTime) -> FinishInrush(m)
      [] m.g.state = "Verify" /\ Reached(a, m.g.base, VerifyTime) -> SetNormal(m)
      [] OTHER -> m

\* and the one after it.
Advance(m, a) == Expire(Expire(m, a), a)

\* goShort(), the guard's part of it.
GoShort(m, why) ==
    [g |-> [Fresh EXCEPT !.state = "Shorted", !.why = why],
     pattern |-> m.pattern /\ m.g.state # "Inrush"]

(* Bug: the inrush time counts from the edge, not from this pass. *)
RepeatFromEdge(m, a, allowed) ==
    IF allowed THEN [g |-> [m.g EXCEPT !.state = "Inrush", !.since = a], pattern |-> TRUE]
    ELSE [m EXCEPT !.g = [@ EXCEPT !.state = "Verify", !.since = 0, !.base = 0, !.seen = 0]]

\* enterInrush(), or enterVerifyDirect() for a bridge that cannot do it.
Repeat(m, a, allowed) ==
    IF allowed THEN [g |-> [m.g EXCEPT !.state = "Inrush", !.since = 0], pattern |-> TRUE]
    ELSE [m EXCEPT !.g = [@ EXCEPT !.state = "Verify", !.since = 0, !.base = 0, !.seen = 0]]

\* classify(): several edges in the ignore time.
Itrip(g) == g.ignored >= 2

(* Bug: every episode begins a chain of its own. *)
ChainFromHere(g, a) ==
    [g EXCEPT !.chain = TRUE, !.chainLast = a, !.chainStart = g.t0]

\* itripSkippable(): the chain of skipped episodes goes on, or begins at t0.
Chain(g, a) ==
    [g EXCEPT !.chain = TRUE, !.chainLast = a,
              !.chainStart = IF g.chain /\ g.chainLast - a <= WatchTime THEN @ ELSE g.t0]

\* An edge of age a in the watch time.
WatchEdge(m, a, allowed) ==
    IF SkipItrip /\ allowed /\ Itrip(m.g) /\ m.g.reset - a >= Grace
    THEN LET g == Chain(m.g, a)
         IN  IF g.chainStart - a < ItripMax THEN SetNormal([m EXCEPT !.g = g])
             ELSE Repeat([m EXCEPT !.g = [g EXCEPT !.chain = FALSE, !.chainStart = 0,
                                                   !.chainLast = 0]], a, allowed)
    ELSE Repeat(m, a, allowed)

VerifyEdge(m, a) ==
    IF m.g.since < a THEN m
    ELSE IF m.g.seen + 1 >= VerifyEdges THEN GoShort(m, "verify")
    ELSE [m EXCEPT !.g = [m.g EXCEPT !.seen = @ + 1, !.base = a]]

OnEdge(m, a, allowed) ==
    CASE m.g.state = "Normal" -> [m EXCEPT !.g = [@ EXCEPT !.state = "Ignore", !.t0 = a]]
      [] m.g.state = "Ignore" ->
            [m EXCEPT !.g = [m.g EXCEPT !.ignored = IF @ < 2 THEN @ + 1 ELSE @]]
      [] m.g.state = "Watch"  -> WatchEdge(m, a, allowed)
      [] m.g.state = "Verify" -> VerifyEdge(m, a)
      [] OTHER -> m

\* stage(): the power estimate may be over the limit (over), or the bridge
\* no longer drives the track.
Stage(m, allowed, over) ==
    IF m.g.state = "Normal" /\ over THEN GoShort(m, "power")
    ELSE IF m.g.state = "Inrush" /\ ~allowed THEN [SetNormal(m) EXCEPT !.pattern = FALSE]
    ELSE m

\* setPower(FALSE): the guards are reset, except one that has just reported a
\* short circuit, and the pattern ends.
SetPowerOff(guards, pat) ==
    /\ power' = FALSE
    /\ guard' = [b \in Bridge |-> IF guards[b].state = "Shorted" THEN guards[b] ELSE Fresh]
    /\ pattern' = (pat /\ ~\E b \in Bridge \ {"CDE"} : guards[b].state = "Inrush")
    /\ charged' = 0 /\ taken' = FALSE

\* What the guard of b has come to: it may have cut the power.
Becomes(b, m) ==
    IF m.g.state = "Shorted" /\ guard[b].state # "Shorted"
    THEN SetPowerOff([guard EXCEPT ![b] = m.g], m.pattern)
    ELSE /\ guard' = [guard EXCEPT ![b] = m.g] /\ pattern' = m.pattern
         /\ charged' = IF m.pattern /\ ~pattern THEN 0 ELSE charged
         /\ taken' = (taken /\ (pattern \/ ~m.pattern))
         /\ UNCHANGED power

Allowed(b) == CASE b = "DCC" -> ~service [] b = "SM" -> service [] OTHER -> FALSE

Machine(b) == [g |-> guard[b], pattern |-> pattern]

\* loop(): _updateGuards() runs one guard after the other while the power is
\* on; edges are forgotten while it is off.
Order == <<"DCC", "SM", "CDE">>

TurnAfter(i) ==
    LET left == {j \in 1 .. 3 : j > i /\ Order[j] \in Bridge}
    IN  IF left = {} THEN 0 ELSE CHOOSE j \in left : \A k \in left : j <= k

LoopBegins ==
    /\ turn = 0
    /\ late' = 0
    /\ IF power THEN turn' = TurnAfter(0) /\ UNCHANGED edges
       ELSE edges' = [b \in Bridge |-> <<>>] /\ UNCHANGED turn
    /\ UNCHANGED <<power, service, guard, pattern, faulty, switches, charged, taken>>

\* update(): the edges in the order they came,
PopFall ==
    /\ turn # 0
    /\ LET b == Order[turn]
       IN  /\ edges[b] # <<>>
           /\ edges' = [edges EXCEPT ![b] = Tail(@)]
           /\ \E m \in {Advance(Machine(b), Head(edges[b]))} :
                 Becomes(b, OnEdge(m, Head(edges[b]), Allowed(b)))
    /\ UNCHANGED <<service, late, faulty, switches, turn>>

\* then the present.  The power estimate may be over the limit; there is none
\* for the CDE output.  The pass ends when a guard has cut the power.
UpdateEnds(over) ==
    /\ turn # 0
    /\ LET b == Order[turn]
       IN  /\ edges[b] = <<>> /\ (over => b # "CDE")
           /\ \E m \in {Advance(Machine(b), 0)} : Becomes(b, Stage(m, Allowed(b), over))
    /\ turn' = IF power' THEN TurnAfter(turn) ELSE 0
    /\ UNCHANGED <<service, edges, late, faulty, switches>>

\* POWER_ON, of a client or of the automatic restart; it also comes while the
\* power is on, to end an emergency stop.
PowerOn ==
    /\ turn = 0 /\ (~power \/ Resume)
    /\ power' = TRUE
    /\ guard' = [b \in Bridge |-> Fresh] /\ edges' = [b \in Bridge |-> <<>>]
    /\ UNCHANGED <<service, turn, pattern, late, faulty, switches, charged, taken>>

PowerOff ==
    /\ turn = 0 /\ power
    /\ SetPowerOff(guard, pattern)
    /\ UNCHANGED <<service, turn, edges, late, faulty, switches>>

\* A service mode operation begins or ends.
ServiceMode ==
    /\ turn = 0 /\ {"DCC", "SM"} \subseteq Bridge /\ switches < MaxSwitches
    /\ service' = ~service /\ switches' = switches + 1 /\ taken' = TRUE
    /\ UNCHANGED <<power, guard, turn, edges, pattern, late, faulty, charged>>

----------------------------------------------------------------------------
\* isrEdge(): an edge is lost when the ring is full.
IsrEdge(b, S) ==
    LET aged == [i \in DOMAIN edges[b] |-> edges[b][i] + 1]
    IN  IF b \in S /\ Len(aged) < EdgeSlots THEN Append(aged, 0) ELSE aged

Older(age) == IF age < Horizon THEN age + 1 ELSE age

\* Ages that no longer say anything are not counted on.
Aged(g) ==
    [g EXCEPT !.t0 = IF g.state \in {"Ignore", "Watch"} THEN Older(@) ELSE 0,
              !.since = IF g.state \in {"Watch", "Inrush", "Verify"} THEN Older(@) ELSE 0,
              !.base = IF g.state = "Verify" THEN Older(@) ELSE 0,
              !.chainStart = IF g.chain THEN Older(@) ELSE 0,
              !.chainLast = IF g.chain THEN Older(@) ELSE 0,
              !.reset = IF g.state # "Shorted" /\ @ < Grace + MaxLate THEN @ + 1 ELSE @]

\* A tick, with an edge on the bridges in S.
Tick(S) ==
    /\ turn = 0 /\ late < MaxLate
    /\ late' = late + 1
    /\ IF power THEN faulty \subseteq S ELSE S = {}
    /\ edges' = [b \in Bridge |-> IsrEdge(b, S)]
    /\ guard' = [b \in Bridge |-> Aged(guard[b])]
    /\ charged' = IF pattern /\ charged < InrushTime THEN charged + 1 ELSE charged
    /\ UNCHANGED <<power, service, turn, pattern, faulty, switches, taken>>

\* A lasting fault appears, or is repaired.
Fault(b) ==
    /\ faulty' \in {faulty \cup {b}, faulty \ {b}} \ {faulty}
    /\ UNCHANGED <<power, service, guard, turn, edges, pattern, late, switches, charged,
                   taken>>

TickAny == \E S \in SUBSET Bridge : Tick(S)
LoopAny == LoopBegins \/ PopFall \/ \E over \in BOOLEAN : UpdateEnds(over)

Next ==
    \/ TickAny \/ LoopAny
    \/ PowerOn \/ PowerOff \/ ServiceMode
    \/ \E b \in LastingOn : Fault(b)

Spec == Init /\ [][Next]_hbVars /\ SF_hbVars(TickAny) /\ WF_hbVars(LoopAny)
----------------------------------------------------------------------------
TypeOK ==
    /\ power \in BOOLEAN /\ service \in BOOLEAN /\ pattern \in BOOLEAN
    /\ \A b \in Bridge : guard[b].state \in Phase /\ guard[b].seen < VerifyEdges
    /\ \A b \in Bridge : Len(edges[b]) <= EdgeSlots
    /\ turn \in 0 .. 3 /\ (turn # 0 => Order[turn] \in Bridge)
    /\ late \in 0 .. MaxLate /\ faulty \subseteq Bridge /\ charged \in 0 .. InrushTime

\* The pattern replaces the DCC signal only while some guard gives a loco time
\* to charge: it never stays behind, whichever bridge drives the track.
PatternOwned == pattern => power /\ \E b \in Bridge : guard[b].state = "Inrush"

\* A guard that has switched the pattern on cuts the power in the verify phase
\* only after the loco had the whole inrush time, also when loop() is late.
\* (When service mode ends, the guard of the programming track takes the
\* pattern from that of the main track.)
Charges(b) ==
    guard[b].state = "Inrush" /\ guard'[b].state \in {"Verify", "Shorted"}
    /\ guard'[b].why # "power" => charged = InrushTime \/ taken

ChargeTime == [][\A b \in Bridge : Charges(b)]_hbVars

\* A lasting fault cuts the power, again after every restart, also when the
\* first episodes of the chip chopping are skipped: as long as the ring holds
\* the edges of one late pass.
FaultCutsPower == \A b \in LastingOn : <>[](b \in faulty) => []<>~power

\* What the comment in setPower() says: the pattern does not outlive the power.
PatternEndsWithPower == pattern => power
=============================================================================
