------------------------------- MODULE BusSpec -------------------------------
(***************************************************************************)
(* What a bus between the two cores promises to its users, whatever the    *)
(* ring does: a message whose dispatch() / publish() returned true is      *)
(* received exactly once, in the order of acceptance, and at most Capacity *)
(* accepted messages wait at any time.  A refused message leaves no trace. *)
(***************************************************************************)
EXTENDS Naturals, Sequences

CONSTANTS Message, Capacity

VARIABLES
    sent,    \* messages accepted so far, in order
    got      \* messages received so far, in order

busVars == <<sent, got>>

Init == sent = <<>> /\ got = <<>>

Accept(m) ==
    /\ Len(sent) - Len(got) < Capacity
    /\ sent' = Append(sent, m)
    /\ UNCHANGED got

Receive ==
    /\ Len(got) < Len(sent)
    /\ got' = Append(got, sent[Len(got) + 1])
    /\ UNCHANGED sent

Next == (\E m \in Message : Accept(m)) \/ Receive

Spec == Init /\ [][Next]_busVars
=============================================================================
