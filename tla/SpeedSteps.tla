----------------------------- MODULE SpeedSteps -----------------------------
(***************************************************************************)
(* Speed steps.  Between the interfaces and the track a speed is canonical: *)
(* 0 stop, 1 emergency stop, 2 to 127 running.  XpressNet sends 14 or 28    *)
(* steps, which XpressNetHandler converts; DccHal converts back for the     *)
(* decoder, and the answers to clients convert back as well.  With 14 steps *)
(* 0 is stop, 1 emergency stop; with 28 steps each of them has two values,  *)
(* 0 and 1, 2 and 3, and the lowest bit travels above the others.           *)
(*                                                                          *)
(* Pure functions: they are proved about and need no run.                   *)
(***************************************************************************)
EXTENDS Integers, TLAPS

Canonical == 0 .. 127
Mode == {14, 28}
Wire(mode) == IF mode = 14 THEN 0 .. 15 ELSE 0 .. 31

\* the first running step of a mode; the last one is the last value
First(mode) == IF mode = 14 THEN 2 ELSE 4
Last(mode)  == IF mode = 14 THEN 15 ELSE 31

AtMost(x, limit) == IF x > limit THEN limit ELSE x

NemToCanonical(nem, mode) ==
    IF mode = 14
    THEN IF nem <= 1 THEN nem
         ELSE AtMost(2 + ((nem - 2) * 125 + 6) \div 13, 127)
    ELSE IF nem <= 1 THEN 0
         ELSE IF nem <= 3 THEN 1
         ELSE AtMost(2 + ((nem - 4) * 125 + 13) \div 27, 127)

(* canonicalToNem() and DccHal::_scaleSpeed() *)
ScaleSpeed(speed, mode) ==
    IF mode = 14
    THEN IF speed <= 1 THEN speed
         ELSE AtMost(2 + ((speed - 2) * 13 + 62) \div 125, 15)
    ELSE IF speed = 0 THEN 0
         ELSE IF speed = 1 THEN 2
         ELSE AtMost(4 + ((speed - 2) * 27 + 62) \div 125, 31)

xn28Shuffle(canon)  == (canon % 2) * 16 + ((canon \div 2) % 16)
xn28Unshuffle(wire) == ((wire \div 16) % 2) + (wire % 16) * 2

(* handleLocoSpeed(): the step that is asked for, and its canonical speed  *)
Asked(wire, mode) == IF mode = 14 THEN wire ELSE xn28Unshuffle(wire)
Requested(wire, mode) == NemToCanonical(Asked(wire, mode), mode)

-----------------------------------------------------------------------------
(* The two ways to place the bit of 28 steps are inverse to each other.    *)
THEOREM ShuffleInverse ==
    \A s \in 0 .. 31 : /\ xn28Shuffle(s) \in 0 .. 31
                       /\ xn28Unshuffle(s) \in 0 .. 31
                       /\ xn28Unshuffle(xn28Shuffle(s)) = s
                       /\ xn28Shuffle(xn28Unshuffle(s)) = s
BY DEF xn28Shuffle, xn28Unshuffle

(* of the two values for stop and for emergency stop the lower one is sent *)
Plain(n, mode) == IF mode = 28 /\ n \in {1, 3} THEN n - 1 ELSE n

LEMMA Kept14 == \A n \in 0 .. 15 : ScaleSpeed(NemToCanonical(n, 14), 14) = n
BY DEF ScaleSpeed, NemToCanonical, AtMost

LEMMA Kept28 ==
    \A n \in 0 .. 31 : ScaleSpeed(NemToCanonical(n, 28), 28) = Plain(n, 28)
BY DEF ScaleSpeed, NemToCanonical, AtMost, Plain

(* xpressnet_handler.cpp:820-823: no "systematic distortion occurs on the  *)
(* return conversion": the step asked for over XpressNet is the step sent  *)
(* to the decoder and shown to clients, whether it is running or a stop.   *)
THEOREM StepKept ==
    \A mode \in Mode : \A wire \in Wire(mode) :
        ScaleSpeed(Requested(wire, mode), mode) = Plain(Asked(wire, mode), mode)
<1> SUFFICES ASSUME NEW mode \in Mode, NEW wire \in Wire(mode)
             PROVE  ScaleSpeed(Requested(wire, mode), mode)
                        = Plain(Asked(wire, mode), mode)
    OBVIOUS
<1>1. CASE mode = 14
    <2>1. wire \in 0 .. 15 BY <1>1 DEF Wire
    <2>2. QED BY <1>1, <2>1, Kept14 DEF Requested, Asked, Plain
<1>2. CASE mode = 28
    <2>1. Asked(wire, mode) \in 0 .. 31
        BY <1>2, ShuffleInverse DEF Wire, Asked
    <2>2. QED BY <1>2, <2>1, Kept28 DEF Requested
<1>3. QED BY <1>1, <1>2 DEF Mode

(* dcc_hal.cpp, _scaleSpeed(): a decoder is sent a value that it reads as  *)
(* stop or emergency stop for stop and emergency stop only, not for a low  *)
(* running step, and each as what it is.                                   *)
THEOREM OnlyStopsStop ==
    \A mode \in Mode : \A v \in Canonical :
        /\ ScaleSpeed(v, mode) \in Wire(mode)
        /\ ScaleSpeed(v, mode) >= First(mode) <=> v >= 2
        /\ ScaleSpeed(v, mode) = 0 <=> v = 0
BY DEF Mode, Canonical, ScaleSpeed, Wire, First, AtMost

(* Faster is never slower.                                                 *)
THEOREM ScaleMonotone ==
    \A mode \in Mode : \A v, w \in Canonical :
        v <= w => ScaleSpeed(v, mode) <= ScaleSpeed(w, mode)
BY DEF Mode, Canonical, ScaleSpeed, AtMost
=============================================================================
