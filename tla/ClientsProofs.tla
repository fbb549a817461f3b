---------------------------- MODULE ClientsProofs ----------------------------
(***************************************************************************)
(* What the station keeps for its clients, for any number of connections   *)
(* and places, settings and locos: proofs about the specification that     *)
(* MCClients puts together, one part after the other.                      *)
(*                                                                         *)
(* The parts share no variable, so an invariant of one is kept by the      *)
(* steps of the others: each part has its own inductive invariant, about   *)
(* its own Init and Next.                                                  *)
(***************************************************************************)
EXTENDS MCClients, TLAPS, FiniteSetTheorems, SequenceTheorems, WellFoundedInduction

(* Every part counts with the same Cardinality. *)
LEMMA LanCardinality == \A S : Lan!Cardinality(S) = Cardinality(S)
BY DEF Lan!Cardinality, Cardinality

-----------------------------------------------------------------------------
(* The places of the TCP server.                                           *)
(*                                                                         *)
(* Places are left in six ways, most of them from deep inside something    *)
(* else.  DropKeeps says what all of them have in common: the places D are *)
(* left, the count goes down by as many, and those of them that did not    *)
(* close the connection themselves are reported lost.                      *)
Ended  == {"up", "closed", "dead"}
LanRow == [active : BOOLEAN, conn : Conn \cup {NoConn},
           frame : {"none", "running", "late"}, idle : BOOLEAN,
           stuck : {"no", "since", "long"}]

LanTypes ==
    /\ link \in [Conn -> {"none", "asking", "refused"} \cup Ended]
    /\ clients \in [Lan!Place -> LanRow]
    /\ lost \in [Conn -> Nat]

(* A place in use is that of a connection that was made, and of one only. *)
PlacesOK ==
    /\ \A p \in Lan!Active : Lan!The(p) \in Conn /\ link[Lan!The(p)] \in Ended
    /\ \A p, q \in Lan!Active : Lan!The(p) = Lan!The(q) => p = q

LanInv == LanTypes /\ PlacesOK /\ Lan!PlacesAccounted

LEMMA ActiveFinite ==
    /\ IsFiniteSet(Lan!Place) /\ IsFiniteSet(Lan!Active)
    /\ \A S : S \subseteq Lan!Active => IsFiniteSet(S) /\ Cardinality(S) \in Nat
<1>1. IsFiniteSet(Lan!Place)
  BY ClientsAssumption, FS_Interval DEF Lan!Place
<1>2. Lan!Active \subseteq Lan!Place
  BY DEF Lan!Active
<1>3. IsFiniteSet(Lan!Active)
  BY <1>1, <1>2, FS_Subset
<1> QED BY <1>1, <1>3, FS_Subset, FS_CardinalityType

(* One connection is reported lost at most once by one call. *)
LEMMA LostBy ==
    ASSUME PlacesOK, LanTypes, NEW D, D \subseteq Lan!Active, Lan!OnClientLost(D)
    PROVE  /\ lost' \in [Conn -> Nat]
           /\ \A c \in Conn :
                lost'[c] = lost[c] + IF \E p \in D : Lan!The(p) = c THEN 1 ELSE 0
<1> DEFINE of(c) == {p \in D : Lan!The(p) = c}
<1>1. \A c \in Conn : lost'[c] = lost[c] + Cardinality(of(c))
  BY LanCardinality DEF Lan!OnClientLost
<1>2. ASSUME NEW c \in Conn
      PROVE  Cardinality(of(c)) = IF \E p \in D : Lan!The(p) = c THEN 1 ELSE 0
  <2>1. CASE \E p \in D : Lan!The(p) = c
    <3>1. PICK p \in D : Lan!The(p) = c
      BY <2>1
    <3>2. of(c) = {p}
      BY <3>1 DEF PlacesOK
    <3> QED BY <2>1, <3>2, FS_Singleton
  <2>2. CASE ~\E p \in D : Lan!The(p) = c
    <3>1. of(c) = {}
      BY <2>2
    <3> QED BY <2>2, <3>1, FS_EmptySet
  <2> QED BY <2>1, <2>2
<1> HIDE DEF of
<1>3. \A c \in Conn : lost'[c] = lost[c] + IF \E p \in D : Lan!The(p) = c THEN 1 ELSE 0
  BY <1>1, <1>2
<1>4. lost' = [c \in Conn |-> lost'[c]]
  BY DEF Lan!OnClientLost
<1>5. \A c \in Conn : lost'[c] \in Nat
  BY <1>3 DEF LanTypes
<1> QED BY <1>3, <1>4, <1>5

LEMMA DropKeeps ==
    ASSUME LanInv, NEW D, D \subseteq Lan!Active, NEW L, L \subseteq D,
           \A p \in D \ L : link[Lan!The(p)] = "closed",
           link' = link, clients' \in [Lan!Place -> LanRow],
           \A p \in Lan!Place : /\ clients'[p].conn = clients[p].conn
                                /\ clients'[p].active <=> p \in Lan!Active \ D,
           connCount' = connCount - Cardinality(D), Lan!OnClientLost(L)
    PROVE  LanInv'
<1>1. /\ Lan!Active' = Lan!Active \ D
      /\ \A p \in Lan!Place : clients'[p].conn = Lan!The(p)
  BY DEF Lan!Active, Lan!The
<1>2. connCount' = Cardinality(Lan!Active \ D)
  <2>1. Lan!Active \cap D = D
    OBVIOUS
  <2>2. connCount = Cardinality(Lan!Active)
    BY LanCardinality DEF LanInv, Lan!PlacesAccounted, Lan!ConnCountExact
  <2>3. Cardinality(Lan!Active \ D) = Cardinality(Lan!Active) - Cardinality(D)
    <3>1. Cardinality(Lan!Active \ D) = Cardinality(Lan!Active) - Cardinality(Lan!Active \cap D)
      BY ActiveFinite, FS_Difference
    <3> QED BY <2>1, <3>1
  <2> QED BY <2>2, <2>3
<1>3. PlacesOK'
  <2>1. \A p \in Lan!Active' : p \in Lan!Active /\ Lan!The(p)' = Lan!The(p)
    BY <1>1 DEF Lan!The, Lan!Active
  <2> QED BY <2>1 DEF LanInv, PlacesOK
<1>4. /\ lost' \in [Conn -> Nat]
      /\ \A c \in Conn : lost'[c] = lost[c] + IF \E p \in L : Lan!The(p) = c THEN 1 ELSE 0
  BY LostBy DEF LanInv
<1>5. Lan!LostOnce'
  <2> SUFFICES ASSUME NEW c \in Conn
               PROVE  LET served == \E p \in Lan!Active' : clients'[p].conn = c
                          was    == link'[c] \in Ended
                      IN  /\ served \/ ~was => lost'[c] = 0
                          /\ was /\ ~served =>
                                lost'[c] = 1 \/ (link'[c] = "closed" /\ lost'[c] = 0)
    BY DEF Lan!LostOnce, Lan!The, Ended
  <2>1. LET served == \E p \in Lan!Active : Lan!The(p) = c
            was    == link[c] \in Ended
        IN  /\ served \/ ~was => lost[c] = 0
            /\ was /\ ~served => lost[c] = 1 \/ (link[c] = "closed" /\ lost[c] = 0)
    BY DEF LanInv, Lan!PlacesAccounted, Lan!LostOnce, Ended
  <2>2. CASE \E p \in D : Lan!The(p) = c
    <3>1. PICK p \in D : Lan!The(p) = c
      BY <2>2
    <3>2. /\ link[c] \in Ended /\ lost[c] = 0
          /\ \A q \in Lan!Active : Lan!The(q) = c => q = p
      BY <2>1, <3>1 DEF LanInv, PlacesOK
    <3>3. ~\E q \in Lan!Active' : clients'[q].conn = c
      BY <1>1, <3>1, <3>2 DEF Lan!Active
    <3>4. CASE p \in L
      BY <1>4, <3>1, <3>2, <3>3, <3>4
    <3>5. CASE p \notin L
      <4>1. link[c] = "closed"
        BY <3>1, <3>5
      <4>2. ~\E q \in L : Lan!The(q) = c
        BY <3>1, <3>2, <3>5
      <4> QED BY <1>4, <3>2, <3>3, <4>1, <4>2
    <3> QED BY <3>4, <3>5
  <2>3. CASE ~\E p \in D : Lan!The(p) = c
    <3>1. lost'[c] = lost[c]
      BY <1>4, <2>3 DEF LanInv, LanTypes
    <3>2. (\E p \in Lan!Active' : clients'[p].conn = c) <=>
              \E p \in Lan!Active : Lan!The(p) = c
      BY <1>1, <2>3 DEF Lan!Active
    <3> QED BY <2>1, <3>1, <3>2
  <2> QED BY <2>2, <2>3
<1>6. Lan!ConnCountExact'
  BY <1>1, <1>2, LanCardinality DEF Lan!ConnCountExact
<1> QED BY <1>3, <1>4, <1>5, <1>6 DEF LanInv, LanTypes, Lan!PlacesAccounted

(* Nobody leaves. *)
LEMMA PlacesKept ==
    ASSUME LanInv, link' = link, clients' \in [Lan!Place -> LanRow],
           \A p \in Lan!Place : /\ clients'[p].conn = clients[p].conn
                                /\ clients'[p].active = clients[p].active,
           UNCHANGED <<connCount, lost>>
    PROVE  LanInv'
<1>1. Lan!Active' = Lan!Active /\ \A p \in Lan!Active : Lan!The(p)' = Lan!The(p)
  BY DEF Lan!Active, Lan!The
<1>2. PlacesOK'
  BY <1>1 DEF LanInv, PlacesOK
<1>3. Lan!LostOnce'
  BY <1>1 DEF LanInv, Lan!PlacesAccounted, Lan!LostOnce
<1>4. Lan!ConnCountExact'
  BY <1>1 DEF LanInv, Lan!PlacesAccounted, Lan!ConnCountExact
<1> QED BY <1>2, <1>3, <1>4 DEF LanInv, LanTypes, Lan!PlacesAccounted

(* What _sendRaw() does to the table. *)
LEMMA SentTable ==
    ASSUME LanInv, NEW S, S \subseteq Lan!Place, NEW full
    PROVE  /\ Lan!Dropped(S, full) \subseteq Lan!Active
           /\ Lan!Sent(S, full) \in [Lan!Place -> LanRow]
           /\ \A p \in Lan!Place :
                /\ Lan!Sent(S, full)[p].conn = clients[p].conn
                /\ Lan!Sent(S, full)[p].active <=>
                       p \in Lan!Active \ Lan!Dropped(S, full)
<1>1. Lan!Dropped(S, full) \subseteq Lan!Active
  BY DEF Lan!Dropped, Lan!Connected, Lan!Active
<1>2. clients \in [Lan!Place -> LanRow]
  BY DEF LanInv, LanTypes
<1> DEFINE T == Lan!Sent(S, full)
           row(p) == IF p \in Lan!Dropped(S, full) THEN [clients[p] EXCEPT !.active = FALSE]
                     ELSE IF p \notin S \/ ~Lan!Connected(p) THEN clients[p]
                     ELSE IF p \notin full THEN [clients[p] EXCEPT !.stuck = "no"]
                     ELSE [clients[p] EXCEPT !.stuck = IF @ = "no" THEN "since" ELSE @]
<1>3. T = [p \in Lan!Place |-> row(p)]
  BY DEF Lan!Sent
<1>4. ASSUME NEW p \in Lan!Place
      PROVE  /\ row(p) \in LanRow
             /\ row(p).conn = clients[p].conn
             /\ row(p).active <=> p \in Lan!Active \ Lan!Dropped(S, full)
  <2>1. clients[p] \in LanRow /\ (clients[p].active <=> p \in Lan!Active)
    BY <1>2 DEF Lan!Active
  <2> DEFINE r == clients[p]
  <2>2. r \in LanRow /\ (r.active <=> p \in Lan!Active)
    BY <2>1
  <2> HIDE DEF r
  <2>3. /\ [r EXCEPT !.active = FALSE] \in LanRow
        /\ [r EXCEPT !.active = FALSE].conn = r.conn
        /\ ~[r EXCEPT !.active = FALSE].active
    BY <2>2 DEF LanRow
  <2>4. ASSUME NEW w \in {"no", "since", "long"}
        PROVE  /\ [r EXCEPT !.stuck = w] \in LanRow
               /\ [r EXCEPT !.stuck = w].conn = r.conn
               /\ [r EXCEPT !.stuck = w].active = r.active
    BY <2>2 DEF LanRow
  <2>5. r.stuck \in {"no", "since", "long"}
    BY <2>2 DEF LanRow
  <2>6. CASE p \in Lan!Dropped(S, full)
    BY <2>3, <2>6 DEF r
  <2>7. CASE p \notin Lan!Dropped(S, full)
    <3>1. CASE p \notin S \/ ~Lan!Connected(p)
      BY <2>2, <2>7, <3>1 DEF r
    <3>2. CASE ~(p \notin S \/ ~Lan!Connected(p)) /\ p \notin full
      <4>1. row(p) = [r EXCEPT !.stuck = "no"]
        BY <2>7, <3>2 DEF r
      <4> HIDE DEF row
      <4> QED BY <4>1, <2>2, <2>4, <2>7 DEF r
    <3>3. CASE ~(p \notin S \/ ~Lan!Connected(p)) /\ p \in full
      <4>1. PICK w \in {"no", "since", "long"} : row(p) = [r EXCEPT !.stuck = w]
        BY <2>5, <2>7, <3>3 DEF r
      <4> HIDE DEF row
      <4> QED BY <4>1, <2>2, <2>4, <2>7 DEF r
    <3> QED BY <3>1, <3>2, <3>3
  <2> QED BY <2>6, <2>7
<1> HIDE DEF row
<1>5. T \in [Lan!Place -> LanRow] /\ \A p \in Lan!Place : T[p] = row(p)
  BY <1>3, <1>4
<1> QED BY <1>1, <1>4, <1>5

(* A row whose frame timer or idle time changes is the same row of the table. *)
SameRows(U, T) ==
    /\ U \in [Lan!Place -> LanRow]
    /\ \A q \in Lan!Place : U[q].conn = T[q].conn /\ U[q].active = T[q].active

LEMMA FrameTouched ==
    ASSUME NEW T \in [Lan!Place -> LanRow], NEW p \in Lan!Place,
           NEW f \in {"none", "running", "late"}
    PROVE  SameRows([T EXCEPT ![p].frame = f], T)
<1> DEFINE r == T[p]
           U == [T EXCEPT ![p] = [r EXCEPT !.frame = f]]
<1>1. r \in LanRow
  OBVIOUS
<1> HIDE DEF r
<1>2. /\ [r EXCEPT !.frame = f] \in LanRow /\ [r EXCEPT !.frame = f].conn = r.conn
      /\ [r EXCEPT !.frame = f].active = r.active
  BY <1>1 DEF LanRow
<1>3. SameRows(U, T)
  BY <1>2 DEF SameRows, r
<1> QED BY <1>3 DEF r

LEMMA IdleTouched ==
    ASSUME NEW T \in [Lan!Place -> LanRow], NEW p \in Lan!Place, NEW i \in BOOLEAN
    PROVE  SameRows([T EXCEPT ![p].idle = i], T)
<1> DEFINE r == T[p]
           U == [T EXCEPT ![p] = [r EXCEPT !.idle = i]]
<1>1. r \in LanRow
  OBVIOUS
<1> HIDE DEF r
<1>2. /\ [r EXCEPT !.idle = i] \in LanRow /\ [r EXCEPT !.idle = i].conn = r.conn
      /\ [r EXCEPT !.idle = i].active = r.active
  BY <1>1 DEF LanRow
<1>3. SameRows(U, T)
  BY <1>2 DEF SameRows, r
<1> QED BY <1>3 DEF r

(* Those that sending drops are left with the loss reported. *)
LEMMA SendingKeeps ==
    ASSUME LanInv, NEW S, S \subseteq Lan!Place, NEW full, link' = link,
           clients' \in [Lan!Place -> LanRow],
           \A p \in Lan!Place : /\ clients'[p].conn = Lan!Sent(S, full)[p].conn
                                /\ clients'[p].active = Lan!Sent(S, full)[p].active,
           connCount' = connCount - Cardinality(Lan!Dropped(S, full)),
           Lan!OnClientLost(Lan!Dropped(S, full))
    PROVE  LanInv'
<1> DEFINE D == Lan!Dropped(S, full)
<1>1. /\ D \subseteq Lan!Active
      /\ \A p \in Lan!Place : /\ clients'[p].conn = clients[p].conn
                              /\ clients'[p].active <=> p \in Lan!Active \ D
  BY SentTable
<1>2. \A p \in D \ D : link[Lan!The(p)] = "closed"
  OBVIOUS
<1>3. connCount' = connCount - Cardinality(D) /\ Lan!OnClientLost(D)
  OBVIOUS
<1> HIDE DEF D
<1> QED BY <1>1, <1>2, <1>3, DropKeeps

(* What a connection does before it has a place and after it has ended. *)
LEMMA LinkMoves ==
    ASSUME LanInv, NEW c \in Conn, Lan!Connect(c) \/ Lan!Leave(c)
    PROVE  LanInv'
<1>1. /\ UNCHANGED <<clients, connCount, lost>>
      /\ \A d \in Conn : d # c => link'[d] = link[d]
      /\ \/ link[c] = "none" /\ link'[c] = "asking"
         \/ link[c] = "up" /\ link'[c] \in {"closed", "dead"}
      /\ link' \in [Conn -> {"none", "asking", "refused"} \cup Ended]
  BY DEF Lan!Connect, Lan!Leave, LanInv, LanTypes, Ended
<1>2. Lan!Active' = Lan!Active /\ \A p \in Lan!Active : Lan!The(p)' = Lan!The(p)
  BY <1>1 DEF Lan!Active, Lan!The
<1>3. PlacesOK'
  BY <1>1, <1>2 DEF LanInv, PlacesOK, Ended
<1>4. Lan!LostOnce'
  <2> SUFFICES ASSUME NEW d \in Conn
               PROVE  LET served == \E p \in Lan!Active : Lan!The(p) = d
                          was    == link'[d] \in Ended
                      IN  /\ served \/ ~was => lost[d] = 0
                          /\ was /\ ~served =>
                                lost[d] = 1 \/ (link'[d] = "closed" /\ lost[d] = 0)
    BY <1>1, <1>2 DEF Lan!LostOnce, Ended
  <2>1. LET served == \E p \in Lan!Active : Lan!The(p) = d
            was    == link[d] \in Ended
        IN  /\ served \/ ~was => lost[d] = 0
            /\ was /\ ~served => lost[d] = 1 \/ (link[d] = "closed" /\ lost[d] = 0)
    BY DEF LanInv, Lan!PlacesAccounted, Lan!LostOnce, Ended
  <2>2. (\E p \in Lan!Active : Lan!The(p) = d) => link[d] \in Ended
    BY DEF LanInv, PlacesOK
  <2> QED BY <1>1, <2>1, <2>2 DEF Ended
<1>5. Lan!ConnCountExact'
  BY <1>1, <1>2 DEF LanInv, Lan!PlacesAccounted, Lan!ConnCountExact
<1> QED BY <1>1, <1>3, <1>4, <1>5 DEF LanInv, LanTypes, Lan!PlacesAccounted

(* The search for the first free place finds one. *)
LEMMA FirstFree ==
    ASSUME NEW S, S \subseteq Lan!Place, S # {}
    PROVE  (CHOOSE p \in S : \A q \in S : p <= q) \in S
<1> DEFINE Below == {pair \in Nat \X Nat : pair[1] < pair[2]}
<1>1. S \subseteq Nat
  BY ClientsAssumption DEF Lan!Place
<1>2. IsWellFoundedOn(Below, Nat)
  BY NatLessThanWellFounded DEF OpToRel
<1>3. PICK p \in S : \A q \in S : <<q, p>> \notin Below
  BY <1>1, <1>2, WFMin
<1>4. \A q \in S : p <= q
  <2> SUFFICES ASSUME NEW q \in S, q < p PROVE FALSE
    BY <1>1
  <2>1. <<q, p>> \in Below
    BY <1>1
  <2> QED BY <1>3, <2>1
<1> QED BY <1>4

LEMMA AcceptKeeps ==
    ASSUME LanInv, NEW c \in Conn, Lan!AcceptNew(c)
    PROVE  LanInv'
<1>1. link[c] = "asking" /\ lost' = lost
  BY DEF Lan!AcceptNew
<1>2. lost[c] = 0 /\ \A p \in Lan!Active : Lan!The(p) # c
  BY <1>1 DEF LanInv, PlacesOK, Lan!PlacesAccounted, Lan!LostOnce, Ended
<1>3. CASE Lan!Active = Lan!Place /\ link' = [link EXCEPT ![c] = "refused"]
           /\ UNCHANGED <<clients, connCount>>
  <2>1. Lan!Active' = Lan!Active /\ \A p \in Lan!Active : Lan!The(p)' = Lan!The(p)
    BY <1>3 DEF Lan!Active, Lan!The
  <2>2. /\ link' \in [Conn -> {"none", "asking", "refused"} \cup Ended]
        /\ \A d \in Conn \ {c} : link'[d] = link[d]
        /\ link'[c] = "refused"
    BY <1>3 DEF LanInv, LanTypes
  <2>3. PlacesOK'
    BY <1>2, <2>1, <2>2 DEF LanInv, PlacesOK
  <2>4. Lan!LostOnce'
    BY <1>1, <1>2, <2>1, <2>2 DEF LanInv, Lan!PlacesAccounted, Lan!LostOnce
  <2>5. Lan!ConnCountExact'
    BY <1>3, <2>1 DEF LanInv, Lan!PlacesAccounted, Lan!ConnCountExact
  <2> QED BY <1>1, <1>3, <2>2, <2>3, <2>4, <2>5
          DEF LanInv, LanTypes, Lan!PlacesAccounted
<1>4. CASE Lan!Active # Lan!Place
  <2> DEFINE free == Lan!Place \ Lan!Active
             low  == CHOOSE q \in free : \A r \in free : q <= r
  <2>1. free \subseteq Lan!Place /\ free # {}
    BY <1>4 DEF Lan!Active
  <2>2. low \in free
    <3> HIDE DEF free
    <3> QED BY <2>1, FirstFree
  <2>3. /\ clients' = [clients EXCEPT ![low] = [@ EXCEPT !.active = TRUE, !.conn = c,
                                                         !.idle = FALSE, !.stuck = "no"]]
        /\ connCount' = connCount + 1
        /\ link' = [link EXCEPT ![c] = "up"]
    BY <1>4 DEF Lan!AcceptNew
  <2>4. PICK p \in Lan!Place \ Lan!Active : p = low
    BY <2>2
  <2> HIDE DEF low, free
  <2>5. clients[p] \in LanRow /\ clients \in [Lan!Place -> LanRow]
    BY <2>4 DEF LanInv, LanTypes
  <2> DEFINE r == clients[p]
             new == [r EXCEPT !.active = TRUE, !.conn = c, !.idle = FALSE, !.stuck = "no"]
  <2>6. clients' = [clients EXCEPT ![p] = new]
    BY <2>3, <2>4
  <2>7. r \in LanRow
    BY <2>5
  <2>8. new \in LanRow /\ new.active /\ new.conn = c
    <3> HIDE DEF r
    <3> QED BY <2>7 DEF LanRow
  <2> HIDE DEF r, new
  <2>9. /\ clients' \in [Lan!Place -> LanRow]
        /\ clients'[p] = new
        /\ \A q \in Lan!Place \ {p} : clients'[q] = clients[q]
    BY <2>5, <2>6, <2>8
  <2>10. Lan!Active' = Lan!Active \cup {p}
    BY <2>8, <2>9 DEF Lan!Active
  <2>11. Lan!The(p)' = c /\ \A q \in Lan!Active : Lan!The(q)' = Lan!The(q)
    BY <2>4, <2>8, <2>9 DEF Lan!The, Lan!Active
  <2>12. /\ link' \in [Conn -> {"none", "asking", "refused"} \cup Ended]
         /\ \A d \in Conn \ {c} : link'[d] = link[d]
         /\ link'[c] = "up"
    BY <2>3 DEF LanInv, LanTypes, Ended
  <2>13. PlacesOK'
    BY <1>2, <2>10, <2>11, <2>12 DEF LanInv, PlacesOK, Ended
  <2>14. Lan!LostOnce'
    <3> SUFFICES ASSUME NEW d \in Conn
                 PROVE  LET served == \E q \in Lan!Active' : Lan!The(q)' = d
                            was    == link'[d] \in {"up", "closed", "dead"}
                        IN  /\ served \/ ~was => lost'[d] = 0
                            /\ was /\ ~served =>
                                  lost'[d] = 1 \/ (link'[d] = "closed" /\ lost'[d] = 0)
      BY DEF Lan!LostOnce
    <3>1. CASE d = c
      <4>1. (\E q \in Lan!Active' : Lan!The(q)' = d) /\ lost'[d] = 0
        BY <1>1, <1>2, <2>10, <2>11, <3>1
      <4> QED BY <4>1
    <3>2. CASE d # c
      <4>1. (\E q \in Lan!Active' : Lan!The(q)' = d) <=> (\E q \in Lan!Active : Lan!The(q) = d)
        BY <2>10, <2>11, <3>2
      <4>2. link'[d] = link[d] /\ lost'[d] = lost[d]
        BY <1>1, <2>12, <3>2
      <4> QED BY <4>1, <4>2 DEF LanInv, Lan!PlacesAccounted, Lan!LostOnce
    <3> QED BY <3>1, <3>2
  <2>15. Lan!ConnCountExact'
    <3>1. Cardinality(Lan!Active \cup {p}) = Cardinality(Lan!Active) + 1
      BY <2>4, ActiveFinite, FS_AddElement
    <3>2. connCount = Cardinality(Lan!Active)
      BY LanCardinality DEF LanInv, Lan!PlacesAccounted, Lan!ConnCountExact
    <3> QED BY <2>3, <2>10, <3>1, <3>2, LanCardinality DEF Lan!ConnCountExact
  <2> QED BY <1>1, <2>9, <2>12, <2>13, <2>14, <2>15
          DEF LanInv, LanTypes, Lan!PlacesAccounted
<1> QED BY <1>3, <1>4 DEF Lan!AcceptNew

LEMMA ElapseKeeps ==
    ASSUME LanInv, NEW p \in Lan!Place, Lan!Elapse(p)
    PROVE  LanInv'
<1>1. clients \in [Lan!Place -> LanRow] /\ UNCHANGED <<link, connCount, lost>>
  BY DEF Lan!Elapse, LanInv, LanTypes
<1>2. \/ clients' = [clients EXCEPT ![p].frame = "late"]
      \/ clients' = [clients EXCEPT ![p].stuck = "long"]
      \/ clients' = [clients EXCEPT ![p].idle = TRUE]
  BY DEF Lan!Elapse
<1>3. CASE clients' = [clients EXCEPT ![p].stuck = "long"]
  <2> DEFINE r == clients[p]
  <2>1. r \in LanRow
    BY <1>1
  <2>2. clients' = [clients EXCEPT ![p] = [r EXCEPT !.stuck = "long"]]
    BY <1>3
  <2> HIDE DEF r
  <2>3. /\ [r EXCEPT !.stuck = "long"] \in LanRow
        /\ [r EXCEPT !.stuck = "long"].conn = r.conn
        /\ [r EXCEPT !.stuck = "long"].active = r.active
    BY <2>1 DEF LanRow
  <2>4. /\ clients' \in [Lan!Place -> LanRow]
        /\ \A q \in Lan!Place : /\ clients'[q].conn = clients[q].conn
                                /\ clients'[q].active = clients[q].active
    BY <1>1, <2>2, <2>3 DEF r
  <2> QED BY <1>1, <2>4, PlacesKept
<1>4. CASE ~(clients' = [clients EXCEPT ![p].stuck = "long"])
  <2>1. SameRows(clients', clients)
    BY <1>1, <1>2, <1>4, FrameTouched, IdleTouched
  <2> QED BY <1>1, <2>1, PlacesKept DEF SameRows
<1> QED BY <1>3, <1>4

(* A client that closed the connection is forgotten, a dead one is lost. *)
LEMMA GoneKeeps ==
    ASSUME LanInv, NEW p \in Lan!Place, Lan!Gone(p)
    PROVE  LanInv'
<1> DEFINE L == IF link[Lan!The(p)] = "dead" THEN {p} ELSE {}
<1>1. /\ p \in Lan!Active /\ link[Lan!The(p)] \in {"closed", "dead"}
      /\ clients' = [clients EXCEPT ![p].active = FALSE]
      /\ connCount' = connCount - 1 /\ Lan!OnClientLost(L) /\ link' = link
  BY DEF Lan!Gone, Lan!Active
<1>2. {p} \subseteq Lan!Active /\ L \subseteq {p}
  BY <1>1
<1>3. \A q \in {p} \ L : link[Lan!The(q)] = "closed"
  BY <1>1
<1>4. connCount' = connCount - Cardinality({p})
  BY <1>1, FS_Singleton
<1> DEFINE r == clients[p]
<1>5. clients \in [Lan!Place -> LanRow] /\ r \in LanRow
  BY DEF LanInv, LanTypes
<1>6. clients' = [clients EXCEPT ![p] = [r EXCEPT !.active = FALSE]]
  BY <1>1
<1>7. /\ [r EXCEPT !.active = FALSE] \in LanRow
      /\ [r EXCEPT !.active = FALSE].conn = r.conn
      /\ ~[r EXCEPT !.active = FALSE].active
  <2> HIDE DEF r
  <2> QED BY <1>5 DEF LanRow
<1>8. /\ clients' \in [Lan!Place -> LanRow]
      /\ clients'[p] = [r EXCEPT !.active = FALSE]
      /\ \A q \in Lan!Place \ {p} : clients'[q] = clients[q]
  <2> HIDE DEF r
  <2> QED BY <1>5, <1>6, <1>7
<1>9. \A q \in Lan!Place : /\ clients'[q].conn = clients[q].conn
                           /\ clients'[q].active <=> q \in Lan!Active \ {p}
  BY <1>7, <1>8 DEF Lan!Active
<1> HIDE DEF L, r
<1> QED BY <1>1, <1>2, <1>3, <1>4, <1>8, <1>9, DropKeeps

LEMMA OverflowKeeps ==
    ASSUME LanInv, NEW p \in Lan!Place, NEW full, Lan!Overflow(p, full)
    PROVE  LanInv'
<1> DEFINE T == Lan!Sent({p}, full)
<1>1. T \in [Lan!Place -> LanRow]
  BY SentTable
<1>2. /\ clients' = [T EXCEPT ![p].frame = "none"] /\ link' = link
      /\ connCount' = connCount - Cardinality(Lan!Dropped({p}, full))
      /\ Lan!OnClientLost(Lan!Dropped({p}, full))
  BY LanCardinality DEF Lan!Overflow
<1>3. SameRows(clients', T)
  <2> HIDE DEF T
  <2> QED BY <1>1, <1>2, FrameTouched
<1> QED BY <1>2, <1>3, SendingKeeps DEF SameRows

LEMMA FrameKeeps ==
    ASSUME LanInv, NEW p \in Lan!Place, NEW S, S \subseteq Lan!Place, NEW full,
           Lan!HandleFrame(p, S, full)
    PROVE  LanInv'
<1> DEFINE to == {p} \cup S
           T  == Lan!Sent(to, full)
<1>1. to \subseteq Lan!Place
  OBVIOUS
<1>2. /\ clients' = [T EXCEPT ![p].idle = FALSE] /\ link' = link
      /\ connCount' = connCount - Cardinality(Lan!Dropped(to, full))
      /\ Lan!OnClientLost(Lan!Dropped(to, full))
  BY LanCardinality DEF Lan!HandleFrame
<1> HIDE DEF to
<1>3. T \in [Lan!Place -> LanRow]
  BY <1>1, SentTable
<1>4. SameRows(clients', T)
  <2> HIDE DEF T
  <2> QED BY <1>2, <1>3, IdleTouched
<1> QED BY <1>1, <1>2, <1>4, SendingKeeps DEF SameRows

LEMMA EndKeeps ==
    ASSUME LanInv, NEW p \in Lan!Place, NEW full, Lan!EndPlace(p, full)
    PROVE  LanInv'
<1> DEFINE none == parsed[Lan!The(p)] = read[Lan!The(p)]
           over == ~none /\ clients[p].frame = "late"
           out  == IF over THEN {p} ELSE {}
           T    == Lan!Sent(out, full)
           mark == IF none \/ over THEN "none"
                   ELSE IF T[p].frame = "none" THEN "running" ELSE T[p].frame
<1>1. out \subseteq Lan!Place
  OBVIOUS
<1>2. /\ clients' = [T EXCEPT ![p].frame = IF none \/ over THEN "none"
                               ELSE IF @ = "none" THEN "running" ELSE @]
      /\ connCount' = connCount - Cardinality(Lan!Dropped(out, full))
      /\ Lan!OnClientLost(Lan!Dropped(out, full)) /\ link' = link
  BY LanCardinality DEF Lan!EndPlace
<1> HIDE DEF out
<1>3. T \in [Lan!Place -> LanRow]
  BY <1>1, SentTable
<1> HIDE DEF none, over, T
<1>4. clients' = [T EXCEPT ![p].frame = mark]
  BY <1>2
<1>5. mark \in {"none", "running", "late"}
  <2>1. T[p] \in LanRow
    BY <1>3
  <2> QED BY <2>1 DEF LanRow
<1> HIDE DEF mark
<1>6. SameRows(clients', T)
  BY <1>3, <1>4, <1>5, FrameTouched
<1> QED BY <1>1, <1>2, <1>6, SendingKeeps DEF T, SameRows

LEMMA EventKeeps ==
    ASSUME LanInv, NEW full, Lan!OnEvent(full)
    PROVE  LanInv'
<1>1. Lan!Active \subseteq Lan!Place
  BY DEF Lan!Active
<1>2. /\ clients' = Lan!Sent(Lan!Active, full) /\ link' = link
      /\ connCount' = connCount - Cardinality(Lan!Dropped(Lan!Active, full))
      /\ Lan!OnClientLost(Lan!Dropped(Lan!Active, full))
  BY LanCardinality DEF Lan!OnEvent
<1>3. clients' \in [Lan!Place -> LanRow]
  BY <1>1, <1>2, SentTable
<1> QED BY <1>1, <1>2, <1>3, SendingKeeps

LEMMA TimeoutsKeep ==
    ASSUME LanInv, Lan!CheckTimeouts
    PROVE  LanInv'
<1> DEFINE D == {p \in Lan!Active : clients[p].idle}
<1>1. /\ clients' = [p \in Lan!Place |-> IF p \in D THEN [clients[p] EXCEPT !.active = FALSE]
                                         ELSE clients[p]]
      /\ connCount' = connCount - Cardinality(D) /\ Lan!OnClientLost(D) /\ link' = link
  BY LanCardinality DEF Lan!CheckTimeouts
<1>2. D \subseteq Lan!Active /\ \A p \in D \ D : link[Lan!The(p)] = "closed"
  OBVIOUS
<1> HIDE DEF D
<1>3. ASSUME NEW p \in Lan!Place
      PROVE  /\ clients'[p] \in LanRow /\ clients'[p].conn = clients[p].conn
             /\ clients'[p].active <=> p \in Lan!Active \ D
  <2> DEFINE r == clients[p]
  <2>1. r \in LanRow /\ (r.active <=> p \in Lan!Active)
    BY DEF LanInv, LanTypes, Lan!Active
  <2>2. clients'[p] = IF p \in D THEN [r EXCEPT !.active = FALSE] ELSE r
    BY <1>1
  <2> HIDE DEF r
  <2>3. /\ [r EXCEPT !.active = FALSE] \in LanRow
        /\ [r EXCEPT !.active = FALSE].conn = r.conn
        /\ ~[r EXCEPT !.active = FALSE].active
    BY <2>1 DEF LanRow
  <2> QED BY <2>1, <2>2, <2>3 DEF r
<1>4. clients' \in [Lan!Place -> LanRow]
  BY <1>1, <1>3
<1> QED BY <1>1, <1>2, <1>3, <1>4, DropKeeps

LEMMA LanInitially == Lan!Init => LanInv
<1> SUFFICES ASSUME Lan!Init PROVE LanInv
  OBVIOUS
<1>1. LanTypes
  BY DEF Lan!Init, LanTypes, LanRow
<1>2. Lan!Active = {}
  BY DEF Lan!Init, Lan!Active
<1>3. PlacesOK
  BY <1>2 DEF PlacesOK
<1>4. Lan!ConnCountExact
  BY <1>2, LanCardinality, FS_EmptySet DEF Lan!Init, Lan!ConnCountExact
<1>5. Lan!LostOnce
  BY <1>2 DEF Lan!Init, Lan!LostOnce
<1> QED BY <1>1, <1>3, <1>4, <1>5 DEF LanInv, Lan!PlacesAccounted

LEMMA LanStill == LanInv /\ UNCHANGED lanVars => LanInv'
<1> SUFFICES ASSUME LanInv, UNCHANGED lanVars PROVE LanInv'
  OBVIOUS
<1>1. link' = link /\ clients' = clients /\ UNCHANGED <<connCount, lost>>
  BY DEF lanVars
<1> QED BY <1>1, PlacesKept DEF LanInv, LanTypes

LEMMA LanStep == LanInv /\ Lan!Next => LanInv'
<1> SUFFICES ASSUME LanInv, Lan!Next PROVE LanInv'
  OBVIOUS
<1>1. ASSUME NEW c \in Conn, Lan!Connect(c) \/ Lan!Leave(c) PROVE LanInv'
  BY <1>1, LinkMoves
<1>2. ASSUME NEW c \in Conn, Lan!Send(c) PROVE LanInv'
  <2>1. link' = link /\ clients' = clients /\ UNCHANGED <<connCount, lost>>
    BY <1>2 DEF Lan!Send
  <2> QED BY <2>1, PlacesKept DEF LanInv, LanTypes
<1>3. ASSUME NEW c \in Conn, Lan!AcceptNew(c) PROVE LanInv'
  BY <1>3, AcceptKeeps
<1>4. CASE Lan!NobodyAsks
  <2>1. link' = link /\ clients' = clients /\ UNCHANGED <<connCount, lost>>
    BY <1>4 DEF Lan!NobodyAsks
  <2> QED BY <2>1, PlacesKept DEF LanInv, LanTypes
<1>5. CASE Lan!CheckTimeouts
  BY <1>5, TimeoutsKeep
<1>6. ASSUME NEW p \in Lan!Place, Lan!Elapse(p) PROVE LanInv'
  BY <1>6, ElapseKeeps
<1>7. ASSUME NEW p \in Lan!Place, Lan!SkipPlace(p) \/ Lan!Receive(p) \/ Lan!SkipGarbage(p)
      PROVE  LanInv'
  <2>1. link' = link /\ clients' = clients /\ UNCHANGED <<connCount, lost>>
    BY <1>7 DEF Lan!SkipPlace, Lan!Receive, Lan!SkipGarbage
  <2> QED BY <2>1, PlacesKept DEF LanInv, LanTypes
<1>8. ASSUME NEW p \in Lan!Place, Lan!Gone(p) PROVE LanInv'
  BY <1>8, GoneKeeps
<1>9. ASSUME NEW full, Lan!OnEvent(full) PROVE LanInv'
  BY <1>9, EventKeeps
<1>10. ASSUME NEW full, NEW p \in Lan!Place, Lan!Overflow(p, full) \/ Lan!EndPlace(p, full)
       PROVE  LanInv'
  BY <1>10, OverflowKeeps, EndKeeps
<1>11. ASSUME NEW full, NEW p \in Lan!Place, NEW S \in {{}, Lan!Active},
              Lan!HandleFrame(p, S, full)
       PROVE  LanInv'
  <2>1. S \subseteq Lan!Place
    BY DEF Lan!Active
  <2> QED BY <1>11, <2>1, FrameKeeps
<1> QED BY <1>1, <1>2, <1>3, <1>4, <1>5, <1>6, <1>7, <1>8, <1>9, <1>10, <1>11 DEF Lan!Next

LEMMA LanAlways == ClientsSpec => []LanInv
<1>1. ClientsInit => LanInv
  BY LanInitially DEF ClientsInit
<1>2. ASSUME LanInv, [ClientsNext]_<<part, lanVars, fbVars, eepVars, powerVars, tableVars, z21Vars>>
      PROVE  LanInv'
  <2>1. CASE Lan!Next
    BY <1>2, <2>1, LanStep
  <2>2. CASE ~Lan!Next
    <3>1. UNCHANGED lanVars
      BY <1>2, <2>2 DEF ClientsNext
    <3> QED BY <1>2, <3>1, LanStill
  <2> QED BY <2>1, <2>2
<1> QED BY <1>1, <1>2, PTL DEF ClientsSpec

(* However a TCP client leaves, the count is that of the places in use and *)
(* its loss is reported once: _dropClient(), the timeouts and the closed   *)
(* sockets of lenz_lan.cpp, for any number of connections and places.      *)
THEOREM PlacesRight == ClientsSpec => []PlacesAccounted
<1>1. LanInv => PlacesAccounted
  BY DEF LanInv, PlacesAccounted
<1> QED BY <1>1, LanAlways, PTL

-----------------------------------------------------------------------------
(* The settings.                                                           *)
(*                                                                         *)
(* Both cores write the whole table, a setting at a time.  What core 0 has *)
(* written of its new file is what the table holds, but for the settings   *)
(* in late; core 1 changes nothing while it writes its own.                *)
Settings == Setpoint \cup {Empty}

EepTypes ==
    /\ value \in [Setting -> Settings] /\ file \in [Setting -> Settings]
    /\ dirty \in BOOLEAN /\ recent \in BOOLEAN /\ changed \in BOOLEAN
    /\ image \in [{0, 1} -> Seq(Settings)]
    /\ \A c \in {0, 1} : Len(image[c]) <= Cardinality(Setting)
    /\ open \subseteq {0, 1} /\ late \subseteq Setting

Copied ==
    /\ 0 \in open => \A i \in 1 .. Len(image[0]) :
                         Eep!Order[i] \in late \/ image[0][i] = value[Eep!Order[i]]
    /\ 1 \in open => \A i \in 1 .. Len(image[1]) : image[1][i] = value[Eep!Order[i]]

EepInv == EepTypes /\ Copied /\ SettingsStored

(* commit() writes every setting once. *)
LEMMA OrderComplete ==
    /\ Cardinality(Setting) \in Nat
    /\ Eep!Order \in [1 .. Cardinality(Setting) -> Setting]
    /\ Len(Eep!Order) = Cardinality(Setting)
    /\ \A s \in Setting :
          LET i == CHOOSE j \in DOMAIN Eep!Order : Eep!Order[j] = s
          IN  i \in 1 .. Cardinality(Setting) /\ Eep!Order[i] = s
<1> DEFINE n == Cardinality(Setting)
           orders == [1 .. n -> Setting]
           once(f) == \A i, j \in DOMAIN f : f[i] = f[j] => i = j
<1>1. IsFiniteSet(Setting) /\ n \in Nat
  BY ClientsAssumption, FS_CardinalityType
<1>2. PICK f \in Bijection(1 .. n, Setting) : TRUE
  BY <1>1, FS_CardinalityType DEF ExistsBijection
<1>3. f \in orders /\ once(f)
  BY <1>2 DEF Bijection, Injection, IsInjective
<1>4. Eep!Order = CHOOSE o \in orders : once(o)
  BY DEF Eep!Order, Eep!Cardinality, Cardinality
<1>5. Eep!Order \in orders /\ once(Eep!Order)
  <2> HIDE DEF orders, once
  <2> QED BY <1>3, <1>4
<1>6. Eep!Order \in Injection(1 .. n, Setting)
  BY <1>5 DEF Injection, IsInjective
<1>7. IsFiniteSet(1 .. n) /\ Cardinality(1 .. n) = n
  BY <1>1, FS_Interval
<1>8. Eep!Order \in Surjection(1 .. n, Setting)
  BY <1>1, <1>6, <1>7, FS_Injection
<1>9. DOMAIN Eep!Order = 1 .. n
  BY <1>5
<1>10. Len(Eep!Order) = n
  BY <1>1, <1>5
<1>11. \A s \in Setting : \E i \in 1 .. n : Eep!Order[i] = s
  BY <1>8 DEF Surjection
<1> QED BY <1>1, <1>5, <1>9, <1>10, <1>11

(* A setter changes the table: what core 0 has written of it is late. *)
LEMMA ChangeKeeps ==
    ASSUME EepInv, NEW new \in [Setting -> Settings], Eep!Change(new), changed' \in BOOLEAN
    PROVE  EepInv'
<1>1. /\ 1 \notin open /\ value' = new /\ dirty' = TRUE /\ recent' = TRUE
      /\ UNCHANGED <<file, image, open>>
      /\ late' = late \cup (Eep!Written \cap {s \in Setting : new[s] # value[s]})
  BY DEF Eep!Change
<1>2. EepTypes'
  BY <1>1 DEF EepInv, EepTypes
<1>3. ASSUME 0 \in open, NEW i \in 1 .. Len(image[0])
      PROVE  Eep!Order[i] \in late' \/ image[0][i] = new[Eep!Order[i]]
  <2>1. Eep!Order[i] \in Eep!Written
    BY <1>3 DEF Eep!Written
  <2>2. Eep!Order[i] \in Setting
    BY <1>3, OrderComplete DEF EepInv, EepTypes
  <2> QED BY <1>1, <1>3, <2>1, <2>2 DEF EepInv, Copied
<1>4. Copied'
  BY <1>1, <1>3 DEF Copied
<1>5. SettingsStored'
  BY <1>1 DEF SettingsStored, Eep!SettingsStored
<1> QED BY <1>2, <1>4, <1>5 DEF EepInv

(* commit() writes the next setting. *)
LEMMA WriteKeeps ==
    ASSUME EepInv, NEW c \in {0, 1}, Eep!Write(c)
    PROVE  EepInv'
<1> DEFINE n == Len(image[c])
           v == value[Eep!Order[n + 1]]
<1>1. /\ c \in open /\ n < Len(Eep!Order)
      /\ image' = [image EXCEPT ![c] = Append(@, value[Eep!Order[Len(@) + 1]])]
      /\ UNCHANGED <<value, dirty, recent, file, open, changed, late>>
  BY DEF Eep!Write
<1>2. image[c] \in Seq(Settings) /\ n \in Nat /\ n + 1 \in 1 .. Cardinality(Setting)
  BY <1>1, OrderComplete DEF EepInv, EepTypes
<1>3. v \in Settings
  BY <1>2, OrderComplete DEF EepInv, EepTypes
<1>4. /\ image'[c] = Append(image[c], v)
      /\ \A d \in {0, 1} \ {c} : image'[d] = image[d]
      /\ image' \in [{0, 1} -> Seq(Settings)]
  BY <1>1, <1>2, <1>3 DEF EepInv, EepTypes
<1>5. /\ Len(image'[c]) = n + 1 /\ image'[c][n + 1] = v
      /\ \A i \in 1 .. n : image'[c][i] = image[c][i]
  BY <1>2, <1>3, <1>4, AppendProperties
<1>6. EepTypes'
  BY <1>1, <1>2, <1>4, <1>5 DEF EepInv, EepTypes
<1>7. Copied'
  <2>1. ASSUME 0 \in open, NEW i \in 1 .. Len(image'[0])
        PROVE  Eep!Order[i] \in late \/ image'[0][i] = value[Eep!Order[i]]
    <3>1. CASE c = 0
      <4>1. i \in 1 .. n \/ i = n + 1
        BY <1>2, <1>5, <2>1, <3>1
      <4> QED BY <1>5, <2>1, <3>1, <4>1 DEF EepInv, Copied
    <3>2. CASE c # 0
      BY <1>4, <2>1, <3>2 DEF EepInv, Copied
    <3> QED BY <3>1, <3>2
  <2>2. ASSUME 1 \in open, NEW i \in 1 .. Len(image'[1])
        PROVE  image'[1][i] = value[Eep!Order[i]]
    <3>1. CASE c = 1
      <4>1. i \in 1 .. n \/ i = n + 1
        BY <1>2, <1>5, <2>2, <3>1
      <4> QED BY <1>5, <2>2, <3>1, <4>1 DEF EepInv, Copied
    <3>2. CASE c # 1
      BY <1>4, <2>2, <3>2 DEF EepInv, Copied
    <3> QED BY <3>1, <3>2
  <2> QED BY <1>1, <2>1, <2>2 DEF Copied
<1>8. SettingsStored'
  BY <1>1 DEF EepInv, SettingsStored, Eep!SettingsStored
<1> QED BY <1>6, <1>7, <1>8 DEF EepInv

(* commit() closes the file: what differs from the table now is late. *)
LEMMA CloseKeeps ==
    ASSUME EepInv, NEW c \in {0, 1}, Eep!Close(c)
    PROVE  EepInv'
<1> DEFINE ix(s) == CHOOSE j \in DOMAIN Eep!Order : Eep!Order[j] = s
<1>1. /\ c \in open /\ Len(image[c]) = Len(Eep!Order)
      /\ file' = [s \in Setting |-> image[c][ix(s)]]
      /\ open' = open \ {c} /\ dirty' = FALSE
      /\ late' = {s \in late : file'[s] # value[s] \/ (c = 1 /\ s \in Eep!Written)}
      /\ UNCHANGED <<value, recent, image, changed>>
  BY DEF Eep!Close
<1>2. \A s \in Setting : ix(s) \in 1 .. Len(image[c]) /\ Eep!Order[ix(s)] = s
  BY <1>1, OrderComplete
<1> HIDE DEF ix
<1>3. \A s \in Setting : file'[s] = image[c][ix(s)]
  BY <1>1
<1>4. \A s \in Setting : file'[s] \in Settings
  BY <1>2, <1>3 DEF EepInv, EepTypes
<1>5. EepTypes'
  <2>1. file' \in [Setting -> Settings]
    BY <1>1, <1>3, <1>4
  <2> QED BY <1>1, <2>1 DEF EepInv, EepTypes
<1>6. \A s \in Setting : s \in late \/ file'[s] = value[s]
  <2> TAKE s \in Setting
  <2>1. CASE c = 0
    BY <1>1, <1>2, <1>3, <2>1 DEF EepInv, Copied
  <2>2. CASE c = 1
    BY <1>1, <1>2, <1>3, <2>2 DEF EepInv, Copied
  <2> QED BY <2>1, <2>2
<1>7. SettingsStored'
  BY <1>1, <1>6 DEF SettingsStored, Eep!SettingsStored
<1>8. Copied'
  <2>1. ASSUME 0 \in open', NEW i \in 1 .. Len(image[0])
        PROVE  Eep!Order[i] \in late' \/ image[0][i] = value[Eep!Order[i]]
    <3>1. c = 1 /\ 0 \in open
      BY <1>1, <2>1
    <3>2. Eep!Order[i] \in Eep!Written
      BY <2>1, <3>1 DEF Eep!Written
    <3> QED BY <1>1, <2>1, <3>1, <3>2 DEF EepInv, Copied
  <2> QED BY <1>1, <2>1 DEF EepInv, Copied
<1> QED BY <1>5, <1>7, <1>8 DEF EepInv

LEMMA EepInitially == Eep!Init => EepInv
<1> SUFFICES ASSUME Eep!Init PROVE EepInv
  OBVIOUS
<1>1. /\ file \in [Setting -> Setpoint] /\ value = file
      /\ dirty = FALSE /\ recent = FALSE /\ changed = FALSE
      /\ image = [c \in {0, 1} |-> <<>>] /\ open = {} /\ late = {}
  BY DEF Eep!Init, Eep!Core
<1>2. <<>> \in Seq(Settings) /\ Len(<<>>) = 0
  OBVIOUS
<1>3. EepTypes
  <2>1. file \in [Setting -> Settings]
    BY <1>1 DEF Settings
  <2>2. image \in [{0, 1} -> Seq(Settings)]
    BY <1>1, <1>2
  <2>3. \A c \in {0, 1} : Len(image[c]) <= Cardinality(Setting)
    BY <1>1, <1>2, OrderComplete
  <2> QED BY <1>1, <2>1, <2>2, <2>3 DEF EepTypes
<1>4. Copied
  BY <1>1 DEF Copied
<1>5. SettingsStored
  BY <1>1 DEF SettingsStored, Eep!SettingsStored
<1> QED BY <1>3, <1>4, <1>5 DEF EepInv

LEMMA EepStill ==
    ASSUME EepInv, UNCHANGED <<value, file, image, open, late>>, dirty' = dirty,
           recent' \in BOOLEAN, changed' \in BOOLEAN
    PROVE  EepInv'
<1>1. EepTypes'
  BY DEF EepInv, EepTypes
<1>2. Copied'
  BY DEF EepInv, Copied
<1>3. SettingsStored'
  BY DEF EepInv, SettingsStored, Eep!SettingsStored
<1> QED BY <1>1, <1>2, <1>3 DEF EepInv

LEMMA EepStep == EepInv /\ Eep!Next => EepInv'
<1> SUFFICES ASSUME EepInv, Eep!Next PROVE EepInv'
  OBVIOUS
<1>1. /\ value \in [Setting -> Settings] /\ changed \in BOOLEAN /\ recent \in BOOLEAN
      /\ Default \in Settings /\ Empty \in Settings
  BY ClientsAssumption DEF EepInv, EepTypes, Settings
<1>2. ASSUME NEW s \in Setting, NEW v \in Setpoint, Eep!SVWrite(s, v) \/ Eep!ConfigPost(s, v)
      PROVE  EepInv'
  <2>1. [value EXCEPT ![s] = v] \in [Setting -> Settings]
    BY <1>1 DEF Settings
  <2>2. Eep!Change([value EXCEPT ![s] = v]) /\ changed' \in BOOLEAN
    BY <1>1, <1>2 DEF Eep!SVWrite, Eep!ConfigPost
  <2> QED BY <2>1, <2>2, ChangeKeeps
<1>3. CASE Eep!ResetToDefaults
  <2> DEFINE new == [s \in Setting |-> IF s \in Text THEN Empty ELSE Default]
  <2>1. new \in [Setting -> Settings]
    BY <1>1
  <2>2. Eep!Change(new) /\ changed' \in BOOLEAN
    BY <1>3 DEF Eep!ResetToDefaults
  <2> HIDE DEF new
  <2> QED BY <2>1, <2>2, ChangeKeeps
<1>4. CASE Eep!Elapse
  BY <1>1, <1>4, EepStill DEF Eep!Elapse
<1>5. CASE Eep!Restart
  <2>1. /\ value' = file /\ dirty' = FALSE /\ recent' = FALSE /\ changed' = FALSE
        /\ image' = [c \in {0, 1} |-> <<>>] /\ open' = {} /\ late' = {} /\ file' = file
    BY <1>5 DEF Eep!Restart, Eep!Core
  <2>2. image' \in [{0, 1} -> Seq(Settings)]
    BY <2>1
  <2>3. \A c \in {0, 1} : Len(image'[c]) <= Cardinality(Setting)
    <3>1. Len(<<>>) = 0
      OBVIOUS
    <3> QED BY <2>1, <3>1, OrderComplete
  <2>4. EepTypes'
    BY <2>1, <2>2, <2>3 DEF EepInv, EepTypes
  <2>5. Copied' /\ SettingsStored'
    BY <2>1 DEF Copied, SettingsStored, Eep!SettingsStored
  <2> QED BY <2>4, <2>5 DEF EepInv
<1>6. ASSUME NEW c \in {0, 1}, Eep!Open(c)
      PROVE  EepInv'
  <2>1. /\ open' = open \cup {c} /\ image' = [image EXCEPT ![c] = <<>>]
        /\ c \notin open /\ changed' = (changed /\ c = 0)
        /\ UNCHANGED <<value, dirty, recent, file, late>>
    BY <1>6 DEF Eep!Open, Eep!MayCommit
  <2>2. <<>> \in Seq(Settings) /\ Len(<<>>) = 0
    OBVIOUS
  <2>3. /\ image' \in [{0, 1} -> Seq(Settings)] /\ image'[c] = <<>>
        /\ \A d \in {0, 1} \ {c} : image'[d] = image[d]
    BY <2>1, <2>2 DEF EepInv, EepTypes
  <2>4. changed' \in BOOLEAN
    BY <2>1, Zenon
  <2>5. EepTypes'
    BY <2>1, <2>2, <2>3, <2>4, OrderComplete DEF EepInv, EepTypes
  <2>6. Copied'
    <3>1. \A i \in 1 .. Len(image'[c]) : FALSE
      BY <2>2, <2>3
    <3> QED BY <2>1, <2>3, <3>1 DEF EepInv, Copied
  <2>7. SettingsStored'
    BY <2>1 DEF SettingsStored, Eep!SettingsStored
  <2> QED BY <2>5, <2>6, <2>7 DEF EepInv
<1>7. ASSUME NEW c \in {0, 1}, Eep!CannotOpen(c)
      PROVE  EepInv'
  <2>1. changed' \in BOOLEAN
    BY <1>7, Zenon DEF Eep!CannotOpen
  <2> QED BY <1>1, <1>7, <2>1, EepStill DEF Eep!CannotOpen
<1>8. ASSUME NEW c \in {0, 1}, Eep!Write(c) \/ Eep!Close(c)
      PROVE  EepInv'
  BY <1>8, WriteKeeps, CloseKeeps
<1> QED BY <1>2, <1>3, <1>4, <1>5, <1>6, <1>7, <1>8 DEF Eep!Next, Eep!Core

LEMMA EepAlways == ClientsSpec => []EepInv
<1>1. ClientsInit => EepInv
  BY EepInitially DEF ClientsInit
<1>2. ASSUME EepInv, [ClientsNext]_<<part, lanVars, fbVars, eepVars, powerVars, tableVars, z21Vars>>
      PROVE  EepInv'
  <2>1. CASE Eep!Next
    BY <1>2, <2>1, EepStep
  <2>2. CASE ~Eep!Next
    <3>1. UNCHANGED eepVars
      BY <1>2, <2>2 DEF ClientsNext
    <3>2. recent \in BOOLEAN /\ changed \in BOOLEAN
      BY <1>2 DEF EepInv, EepTypes
    <3> QED BY <1>2, <3>1, <3>2, EepStill DEF eepVars
  <2> QED BY <2>1, <2>2
<1> QED BY <1>1, <1>2, PTL DEF ClientsSpec

(* A setting that differs from the file is going to be written, but for    *)
(* those that core 1 changed behind the commit of core 0: whatever the     *)
(* setters and the two commits of eeprom_store.cpp do in between, files    *)
(* that do not open and restarts included, for any number of settings.     *)
THEOREM SettingsKept == ClientsSpec => []SettingsStored
<1>1. EepInv => SettingsStored
  BY DEF EepInv
<1> QED BY <1>1, EepAlways, PTL

-----------------------------------------------------------------------------
(* The track power, with no fault and while neither bus is ever full.      *)
(*                                                                         *)
(* A handler writes the flag, then dispatches: the flag says what the last *)
(* switching command asks for, be it still to be dispatched, on the bus, or *)
(* done.  What the clients were last told, or are going to be, is what the *)
(* track is, or a command is on the bus that will change the track and say *)
(* so.  The LocoNet module announces a command itself, perhaps before it   *)
(* is executed: no other command comes after it until then.                *)
Kinds == {"on", "off", "estop"}
RoomLeft == Len(cmds) < CommandSlots /\ Len(railEvents) < EventSlots

PowTypes ==
    /\ cmds \in Seq([op : {"dispatch"}, type : Kinds, src : {"XN", "LN", "LAN"}])
    /\ railEvents \in Seq(Kinds)
    /\ power \in BOOLEAN /\ gOff \in BOOLEAN /\ resetReq \in BOOLEAN

Healthy == ~restartPending /\ ~hung /\ beat = "new"

LastCommand(t) == IF cmds = <<>> THEN rail = t ELSE cmds[Len(cmds)].type = t

Handlers ==
    \/ todo = <<>>
    \/ \E t \in Kinds, m \in {"XN", "LN", "LAN"} : todo = <<Power!Cmd(t, m)>>
    \/ \E t \in {"on", "off"} : todo = <<Power!Cmd(t, "LN"), Power!Ev(t)>>
    \/ \E t \in {"on", "off"} : todo = <<Power!Ev(t)>> /\ LastCommand(t)

Asked == IF gOff THEN "off" ELSE "on"
AskedOnBus ==
    \E i \in DOMAIN cmds : /\ cmds[i].type = Asked
                           /\ \A j \in DOMAIN cmds : j > i => cmds[j].type = "estop"
AskedDone == (\A i \in DOMAIN cmds : cmds[i].type = "estop") /\ power = ~gOff
AskedNext == todo # <<>> /\ Head(todo).op = "dispatch" /\ Head(todo).type # "estop"

FlagRight ==
    /\ AskedNext => Head(todo).type = Asked
    /\ ~AskedNext => AskedOnBus \/ AskedDone

Latest == IF railEvents = <<>> THEN told ELSE railEvents[Len(railEvents)]
Ahead(t) == t = rail \/ \E i \in DOMAIN cmds : cmds[i].type # rail

PowInv ==
    /\ PowTypes /\ Healthy /\ Handlers
    /\ ~resetReq => FlagRight /\ Ahead(Latest)

LEMMA PowAgrees == PowInv => PowerAgreed
<1> SUFFICES ASSUME PowInv PROVE PowerAgreed
  OBVIOUS
<1>1. Power!FlagTracksPower
  <2> SUFFICES ASSUME Power!Quiescent, ~resetReq PROVE gOff = ~power
    BY DEF Power!FlagTracksPower
  <2>1. cmds = <<>> /\ todo = <<>>
    BY DEF Power!Quiescent
  <2>2. DOMAIN cmds = {}
    BY <2>1
  <2>3. power = ~gOff
    BY <2>1, <2>2 DEF PowInv, FlagRight, AskedNext, AskedOnBus, AskedDone
  <2> QED BY <2>3 DEF PowInv, PowTypes
<1>2. Power!ClientsKnow
  <2> SUFFICES ASSUME Power!Quiescent, ~resetReq, railEvents = <<>> PROVE told = rail
    BY DEF Power!ClientsKnow
  <2>1. DOMAIN cmds = {}
    BY DEF Power!Quiescent
  <2> QED BY <2>1 DEF PowInv, Ahead, Latest
<1> QED BY <1>1, <1>2 DEF PowerAgreed

LEMMA PowInitially == Power!Init => PowInv
<1> SUFFICES ASSUME Power!Init PROVE PowInv
  OBVIOUS
<1>1. /\ cmds = <<>> /\ todo = <<>> /\ railEvents = <<>> /\ power = FALSE /\ gOff = TRUE
      /\ resetReq = FALSE /\ restartPending = FALSE /\ hung = FALSE /\ beat = "new"
      /\ rail = "unknown" /\ told = "unknown"
  BY DEF Power!Init
<1>2. PowTypes /\ Healthy /\ Handlers
  <2>1. \A S : <<>> \in Seq(S)
    OBVIOUS
  <2>2. PowTypes
    BY <1>1, <2>1 DEF PowTypes
  <2> QED BY <1>1, <2>2 DEF Healthy, Handlers
<1>3. DOMAIN cmds = {}
  BY <1>1
<1>4. FlagRight /\ Ahead(Latest)
  BY <1>1, <1>3 DEF FlagRight, AskedNext, AskedDone, Ahead, Latest
<1> QED BY <1>2, <1>4 DEF PowInv

(* Steps that neither switch nor queue nor tell anything. *)
PowQuiet ==
    /\ UNCHANGED <<cmds, todo, railEvents, power, gOff, resetReq, rail, told>>
    /\ Healthy'

LEMMA PowStill == PowInv /\ PowQuiet => PowInv'
<1> SUFFICES ASSUME PowInv, PowQuiet PROVE PowInv'
  OBVIOUS
<1>1. UNCHANGED <<cmds, todo, railEvents, power, gOff, resetReq, rail, told>>
  BY DEF PowQuiet
<1>2. PowTypes' /\ Handlers'
  BY <1>1 DEF PowInv, PowTypes, Handlers, LastCommand
<1>3. FlagRight' <=> FlagRight
  BY <1>1 DEF FlagRight, AskedNext, AskedOnBus, AskedDone, Asked
<1>4. Ahead(Latest)' <=> Ahead(Latest)
  BY <1>1 DEF Ahead, Latest
<1> QED BY <1>1, <1>2, <1>3, <1>4 DEF PowInv, PowQuiet

(* A handler begins. *)
LEMMA RequestKeeps ==
    ASSUME PowInv, Power!Requests
    PROVE  PowInv'
<1>1. /\ todo = <<>> /\ UNCHANGED <<cmds, railEvents, power, rail>>
      /\ UNCHANGED <<restartPending, hung, beat>>
  BY DEF Power!Requests, Power!Receive, Power!XnPowerOn, Power!XnPowerOff, Power!XnEmergStop,
         Power!XnReset, Power!LnGpOn, Power!LnGpOff, Power!LnIdle, Power!LanClientLost,
         Power!trackVars
<1>2. Healthy'
  BY <1>1 DEF PowInv, Healthy
<1>3. ~AskedNext
  BY <1>1 DEF AskedNext
<1>4. CASE Power!XnReset
  <2>1. todo' = <<>> /\ gOff' = TRUE /\ resetReq' = TRUE
    BY <1>4 DEF Power!XnReset, Power!Receive
  <2> QED BY <1>1, <1>2, <2>1 DEF PowInv, PowTypes, Handlers
<1>5. CASE Power!XnEmergStop \/ Power!LnIdle
  <2>1. PICK m \in {"XN", "LN"} : todo' = <<Power!Cmd("estop", m)>>
    BY <1>5 DEF Power!XnEmergStop, Power!LnIdle, Power!Receive
  <2>2. UNCHANGED <<gOff, resetReq, told>>
    BY <1>5 DEF Power!XnEmergStop, Power!LnIdle, Power!centralVars
  <2>3. PowTypes' /\ Handlers'
    BY <1>1, <2>1, <2>2 DEF PowInv, PowTypes, Handlers, Kinds
  <2>4. ~AskedNext'
    BY <2>1 DEF AskedNext, Power!Cmd
  <2>5. FlagRight => FlagRight'
    BY <1>1, <1>3, <2>2, <2>4 DEF FlagRight, AskedOnBus, AskedDone, Asked
  <2>6. Ahead(Latest) => Ahead(Latest)'
    BY <1>1, <2>2 DEF Ahead, Latest
  <2> QED BY <1>2, <2>2, <2>3, <2>5, <2>6 DEF PowInv
<1>6. CASE \/ Power!XnPowerOn \/ Power!LnGpOn
           \/ Power!XnPowerOff \/ Power!LnGpOff \/ Power!LanClientLost
  <2>1. PICK t \in {"on", "off"}, m \in {"XN", "LN", "LAN"} :
           /\ todo' = <<Power!Cmd(t, m)>> \/ (m = "LN" /\ todo' = <<Power!Cmd(t, m), Power!Ev(t)>>)
           /\ gOff' = (t = "off")
    <3>1. CASE Power!XnPowerOn
      BY <3>1 DEF Power!XnPowerOn, Power!Receive
    <3>2. CASE Power!LnGpOn
      BY <3>2 DEF Power!LnGpOn, Power!Receive
    <3>3. CASE Power!XnPowerOff
      BY <3>3 DEF Power!XnPowerOff, Power!Receive
    <3>4. CASE Power!LnGpOff
      BY <3>4 DEF Power!LnGpOff, Power!Receive
    <3>5. CASE Power!LanClientLost
      BY <3>5 DEF Power!LanClientLost, Power!Receive
    <3> QED BY <1>6, <3>1, <3>2, <3>3, <3>4, <3>5
  <2>2. UNCHANGED <<resetReq, told>>
    BY <1>6 DEF Power!XnPowerOn, Power!LnGpOn, Power!XnPowerOff, Power!LnGpOff,
                Power!LanClientLost
  <2>3. PowTypes'
    BY <1>1, <2>1, <2>2 DEF PowInv, PowTypes
  <2>4. Handlers'
    BY <2>1 DEF Handlers, Kinds
  <2>5. todo' # <<>> /\ Head(todo') = Power!Cmd(t, m)
    BY <2>1
  <2>6. FlagRight'
    <3>1. Asked' = t
      BY <2>1 DEF Asked
    <3>2. Head(todo').type = t /\ Head(todo').op = "dispatch" /\ t # "estop"
      BY <2>5 DEF Power!Cmd
    <3> QED BY <2>5, <3>1, <3>2 DEF FlagRight, AskedNext
  <2>7. Ahead(Latest) => Ahead(Latest)'
    BY <1>1, <2>2 DEF Ahead, Latest
  <2> QED BY <1>2, <2>2, <2>3, <2>4, <2>6, <2>7 DEF PowInv
<1> QED BY <1>4, <1>5, <1>6 DEF Power!Requests

(* A command is put on the bus, on which there is room. *)
LEMMA DispatchKeeps ==
    ASSUME PowInv, RoomLeft, Power!Dispatch
    PROVE  PowInv'
<1> DEFINE n == Len(cmds)
<1>1. /\ todo # <<>> /\ Head(todo).op = "dispatch"
      /\ cmds' = Append(cmds, Head(todo)) /\ todo' = Tail(todo)
      /\ told' = told \/ (Head(todo).type = "estop" /\ told' = "estop")
      /\ UNCHANGED <<power, gOff, resetReq, rail, railEvents, restartPending, hung, beat>>
  BY DEF Power!Dispatch, RoomLeft, Power!trackVars, Power!centralVars
<1>2. PICK t \in Kinds, m \in {"XN", "LN", "LAN"} :
         \/ todo = <<Power!Cmd(t, m)>>
         \/ t # "estop" /\ todo = <<Power!Cmd(t, m), Power!Ev(t)>>
  BY <1>1 DEF PowInv, Handlers, Kinds, Power!Ev
<1>3. /\ Head(todo) = Power!Cmd(t, m)
      /\ todo' = <<>> \/ (t # "estop" /\ todo' = <<Power!Ev(t)>>)
  <2>1. \A a, b : /\ Head(<<a>>) = a /\ Tail(<<a>>) = <<>>
                  /\ Head(<<a, b>>) = a /\ Tail(<<a, b>>) = <<b>>
    OBVIOUS
  <2>2. CASE todo = <<Power!Cmd(t, m)>>
    BY <1>1, <2>1, <2>2, Zenon
  <2>3. CASE t # "estop" /\ todo = <<Power!Cmd(t, m), Power!Ev(t)>>
    BY <1>1, <2>1, <2>3, Zenon
  <2> QED BY <1>2, <2>2, <2>3
<1>4. /\ n \in Nat /\ cmds \in Seq([op : {"dispatch"}, type : Kinds, src : {"XN", "LN", "LAN"}])
      /\ Power!Cmd(t, m) \in [op : {"dispatch"}, type : Kinds, src : {"XN", "LN", "LAN"}]
  BY DEF PowInv, PowTypes, Power!Cmd
<1>5. /\ cmds' \in Seq([op : {"dispatch"}, type : Kinds, src : {"XN", "LN", "LAN"}])
      /\ Len(cmds') = n + 1 /\ cmds'[n + 1].type = t
      /\ \A i \in 1 .. n : cmds'[i] = cmds[i]
      /\ DOMAIN cmds = 1 .. n /\ DOMAIN cmds' = 1 .. (n + 1)
  <2>1. cmds' = Append(cmds, Power!Cmd(t, m)) /\ Power!Cmd(t, m).type = t
    BY <1>1, <1>3 DEF Power!Cmd
  <2> QED BY <1>4, <2>1, AppendProperties
<1>6. PowTypes' /\ Healthy'
  BY <1>1, <1>5 DEF PowInv, PowTypes, Healthy
<1>7. LastCommand(t)'
  BY <1>4, <1>5 DEF LastCommand
<1>8. Handlers'
  BY <1>3, <1>7 DEF Handlers, Kinds
<1>9. ASSUME ~resetReq PROVE FlagRight'
  <2>1. ~AskedNext'
    BY <1>3 DEF AskedNext, Power!Ev
  <2>2. FlagRight /\ Asked' = Asked
    BY <1>1, <1>9 DEF PowInv, Asked
  <2>3. CASE t = "estop"
    <3>1. AskedOnBus \/ AskedDone
      BY <1>3, <2>2, <2>3 DEF FlagRight, AskedNext, Power!Cmd
    <3>2. AskedOnBus => AskedOnBus'
      BY <1>4, <1>5, <2>2, <2>3 DEF AskedOnBus
    <3>3. AskedDone => AskedDone'
      BY <1>1, <1>4, <1>5, <2>3 DEF AskedDone
    <3> QED BY <2>1, <3>1, <3>2, <3>3 DEF FlagRight
  <2>4. CASE t # "estop"
    <3>1. t = Asked
      BY <1>1, <1>3, <2>2, <2>4 DEF FlagRight, AskedNext, Power!Cmd
    <3>2. n + 1 \in DOMAIN cmds' /\ \A j \in DOMAIN cmds' : ~(j > n + 1)
      BY <1>4, <1>5
    <3>3. AskedOnBus'
      BY <1>5, <2>2, <3>1, <3>2 DEF AskedOnBus
    <3> QED BY <2>1, <3>3 DEF FlagRight
  <2> QED BY <2>3, <2>4
<1>10. ASSUME ~resetReq PROVE Ahead(Latest)'
  <2>1. Ahead(Latest)
    BY <1>10 DEF PowInv
  <2>2. Latest' = Latest \/ (t = "estop" /\ Latest' = t)
    BY <1>1, <1>3 DEF Latest, Power!Cmd
  <2>3. CASE Latest' = Latest
    BY <1>1, <1>4, <1>5, <2>1, <2>3 DEF Ahead
  <2>4. CASE Latest' = t
    <3>1. n + 1 \in DOMAIN cmds'
      BY <1>4, <1>5
    <3> QED BY <1>1, <1>5, <2>4, <3>1 DEF Ahead
  <2> QED BY <2>2, <2>3, <2>4
<1> QED BY <1>1, <1>6, <1>8, <1>9, <1>10 DEF PowInv

(* The LocoNet module announces the command it has dispatched. *)
LEMMA PublishKeeps ==
    ASSUME PowInv, RoomLeft, Power!Publish
    PROVE  PowInv'
<1>1. /\ todo # <<>> /\ Head(todo).op = "publish" /\ todo' = Tail(todo)
      /\ railEvents' = Append(railEvents, Head(todo).type)
      /\ UNCHANGED <<cmds, power, gOff, resetReq, rail, told, restartPending, hung, beat>>
  BY DEF Power!Publish, Power!Offer, RoomLeft, Power!centralVars
<1>2. PICK t \in {"on", "off"} : todo = <<Power!Ev(t)>> /\ LastCommand(t)
  BY <1>1 DEF PowInv, Handlers, Power!Cmd
<1>3. todo' = <<>> /\ Head(todo) = Power!Ev(t) /\ Power!Ev(t).type = t
  BY <1>1, <1>2 DEF Power!Ev
<1>4. railEvents' = Append(railEvents, t) /\ t \in Kinds /\ railEvents \in Seq(Kinds)
  BY <1>1, <1>3 DEF PowInv, PowTypes, Kinds
<1>5. /\ railEvents' \in Seq(Kinds) /\ railEvents' # <<>>
      /\ railEvents'[Len(railEvents')] = t
  <2>1. Len(railEvents) \in Nat
    BY <1>4
  <2> QED BY <1>4, <2>1, AppendProperties
<1>6. PowTypes' /\ Healthy' /\ Handlers'
  BY <1>1, <1>3, <1>5 DEF PowInv, PowTypes, Healthy, Handlers
<1>7. FlagRight => FlagRight'
  <2>1. ~AskedNext /\ ~AskedNext'
    BY <1>1, <1>3 DEF AskedNext
  <2> QED BY <1>1, <2>1 DEF FlagRight, AskedOnBus, AskedDone, Asked
<1>8. Ahead(Latest)'
  <2>1. Latest' = t
    BY <1>5 DEF Latest
  <2>2. t = rail \/ \E i \in DOMAIN cmds : cmds[i].type # rail
    <3>1. CASE cmds = <<>>
      BY <1>2, <3>1 DEF LastCommand
    <3>2. CASE cmds # <<>>
      <4>1. Len(cmds) \in DOMAIN cmds /\ cmds[Len(cmds)].type = t
        BY <1>2, <3>2 DEF LastCommand, PowInv, PowTypes
      <4> QED BY <4>1
    <3> QED BY <3>1, <3>2
  <2> QED BY <1>1, <2>1, <2>2 DEF Ahead
<1> QED BY <1>1, <1>6, <1>7, <1>8 DEF PowInv

(* The clients are told. *)
LEMMA BroadcastKeeps ==
    ASSUME PowInv, Power!Broadcast
    PROVE  PowInv'
<1>1. /\ railEvents # <<>> /\ railEvents' = Tail(railEvents)
      /\ told' = IF Head(railEvents) = "feedback" THEN told ELSE Head(railEvents)
      /\ UNCHANGED <<cmds, todo, power, gOff, resetReq, rail, restartPending, hung, beat>>
  BY DEF Power!Broadcast, Power!centralVars
<1>2. railEvents \in Seq(Kinds)
  BY DEF PowInv, PowTypes
<1>3. told' = Head(railEvents) /\ Tail(railEvents) \in Seq(Kinds)
  BY <1>1, <1>2, HeadTailProperties DEF Kinds
<1>4. PowTypes' /\ Healthy' /\ Handlers'
  BY <1>1, <1>3 DEF PowInv, PowTypes, Healthy, Handlers, LastCommand
<1>5. FlagRight => FlagRight'
  BY <1>1 DEF FlagRight, AskedNext, AskedOnBus, AskedDone, Asked
<1>6. Latest' = Latest
  <2>1. /\ Len(Tail(railEvents)) = Len(railEvents) - 1
        /\ \A i \in 1 .. Len(Tail(railEvents)) : Tail(railEvents)[i] = railEvents[i + 1]
    BY <1>1, <1>2, HeadTailProperties
  <2>2. Len(railEvents) \in Nat /\ Len(railEvents) # 0 /\ Head(railEvents) = railEvents[1]
    BY <1>1, <1>2
  <2>3. CASE Len(railEvents) = 1
    <3>1. Tail(railEvents) = <<>>
      <4> DEFINE q == Tail(railEvents)
      <4>1. q \in Seq(Kinds) /\ Len(q) = 0
        BY <1>3, <2>1, <2>3
      <4> HIDE DEF q
      <4>2. q = <<>>
        BY <4>1
      <4> QED BY <4>2 DEF q
    <3> QED BY <1>1, <1>3, <2>2, <2>3, <3>1 DEF Latest
  <2>4. CASE Len(railEvents) # 1
    <3>1. Tail(railEvents) # <<>> /\ Len(railEvents) - 1 \in 1 .. Len(Tail(railEvents))
      <4> DEFINE q == Tail(railEvents)
      <4>1. Len(q) \in Nat /\ Len(q) = Len(railEvents) - 1 /\ Len(q) # 0
        BY <2>1, <2>2, <2>4
      <4>2. Len(railEvents) - 1 \in 1 .. Len(q)
        BY <2>2, <4>1
      <4> HIDE DEF q
      <4>3. q # <<>>
        BY <4>1
      <4> QED BY <4>2, <4>3 DEF q
    <3>2. Tail(railEvents)[Len(railEvents) - 1] = railEvents[Len(railEvents)]
      BY <2>1, <2>2, <3>1
    <3> QED BY <1>1, <2>1, <3>1, <3>2 DEF Latest
  <2> QED BY <2>3, <2>4
<1>7. Ahead(Latest) => Ahead(Latest)'
  BY <1>1, <1>6 DEF Ahead
<1> QED BY <1>1, <1>4, <1>5, <1>7 DEF PowInv

(* Core 0 executes a command: the track is what it says, and if that is a  *)
(* change, or an emergency stop, it is the latest there is to be told.     *)
LEMMA DeliverSays ==
    ASSUME PowInv, RoomLeft, Power!Deliver
    PROVE  /\ cmds # <<>> /\ cmds' = Tail(cmds) /\ rail' = Head(cmds).type
           /\ IF rail' = rail /\ rail' # "estop" THEN railEvents' = railEvents
              ELSE railEvents' = Append(railEvents, rail')
           /\ power' = IF Head(cmds).type = "estop" THEN power ELSE Head(cmds).type = "on"
           /\ restartPending' = FALSE
           /\ UNCHANGED <<todo, gOff, resetReq, told, hung, beat>>
<1>1. /\ cmds # <<>> /\ cmds' = Tail(cmds)
      /\ UNCHANGED <<todo, gOff, resetReq, told, hung, beat>>
  BY DEF Power!Deliver, Power!core1Vars
<1>2. Len(railEvents) < EventSlots /\ restartPending = FALSE
  BY DEF RoomLeft, PowInv, Healthy
<1>3. CASE Head(cmds).type = "on" /\ Power!PowerOn
  BY <1>1, <1>2, <1>3 DEF Power!PowerOn, Power!SetPower, Power!Rail, Power!Offer
<1>4. CASE Head(cmds).type = "off" /\ Power!PowerOff("command")
  BY <1>1, <1>2, <1>4 DEF Power!PowerOff, Power!SetPower, Power!Rail, Power!Offer
<1>5. CASE Head(cmds).type = "estop" /\ Power!EmergencyStop
  BY <1>1, <1>2, <1>5 DEF Power!EmergencyStop, Power!Offer
<1> QED BY <1>3, <1>4, <1>5 DEF Power!Deliver

LEMMA DeliverKeeps ==
    ASSUME PowInv, RoomLeft, Power!Deliver
    PROVE  PowInv'
<1> DEFINE Order == [op : {"dispatch"}, type : Kinds, src : {"XN", "LN", "LAN"}]
<1>1. PICK c \in Order : c = Head(cmds)
  BY DeliverSays, HeadTailProperties DEF PowInv, PowTypes
<1>2. /\ cmds # <<>> /\ cmds' = Tail(cmds) /\ rail' = c.type /\ c.type \in Kinds
      /\ IF c.type = rail /\ c.type # "estop" THEN railEvents' = railEvents
         ELSE railEvents' = Append(railEvents, c.type)
      /\ power' = IF c.type = "estop" THEN power ELSE c.type = "on"
      /\ restartPending' = FALSE
      /\ UNCHANGED <<todo, gOff, resetReq, told, hung, beat>>
  BY <1>1, DeliverSays
<1> DEFINE n == Len(cmds)
<1>3. /\ cmds \in Seq(Order) /\ n \in Nat /\ n # 0 /\ cmds[1] = c
      /\ railEvents \in Seq(Kinds)
      /\ power \in BOOLEAN /\ gOff \in BOOLEAN /\ resetReq \in BOOLEAN
  BY <1>1, <1>2 DEF PowInv, PowTypes
<1>4. /\ cmds' \in Seq(Order) /\ Len(cmds') = n - 1
      /\ DOMAIN cmds = 1 .. n /\ DOMAIN cmds' = 1 .. (n - 1)
      /\ \A i \in 1 .. (n - 1) : cmds'[i] = cmds[i + 1]
  BY <1>2, <1>3, HeadTailProperties
<1>5. railEvents' \in Seq(Kinds)
  <2>1. Append(railEvents, c.type) \in Seq(Kinds)
    BY <1>2, <1>3
  <2> QED BY <1>2, <1>3, <2>1
<1>6. PowTypes'
  <2>1. power' \in BOOLEAN
    BY <1>2, <1>3
  <2> QED BY <1>2, <1>3, <1>4, <1>5, <2>1 DEF PowTypes
<1>7. Healthy'
  BY <1>2 DEF PowInv, Healthy
<1>8. \A t : LastCommand(t) => LastCommand(t)'
  <2> TAKE t
  <2>1. CASE n = 1
    <3>1. cmds' = <<>>
      BY <1>4, <2>1
    <3> QED BY <1>2, <1>3, <2>1, <3>1 DEF LastCommand
  <2>2. CASE n # 1
    <3>1. cmds' # <<>> /\ cmds'[Len(cmds')] = cmds[n]
      BY <1>3, <1>4, <2>2
    <3> QED BY <1>2, <3>1 DEF LastCommand
  <2> QED BY <2>1, <2>2
<1>9. Handlers'
  BY <1>2, <1>8 DEF PowInv, Handlers
<1>10. ASSUME ~resetReq PROVE FlagRight'
  <2>1. FlagRight /\ Asked' = Asked /\ (AskedNext' <=> AskedNext)
    BY <1>2, <1>10 DEF PowInv, Asked, AskedNext
  <2>2. AskedDone => AskedDone'
    <3> SUFFICES ASSUME AskedDone PROVE AskedDone'
      OBVIOUS
    <3>1. c.type = "estop"
      BY <1>3, <1>4 DEF AskedDone
    <3>2. power' = power /\ gOff' = gOff
      BY <1>2, <3>1
    <3>3. \A i \in DOMAIN cmds' : cmds'[i].type = "estop"
      <4> SUFFICES ASSUME NEW i \in 1 .. (n - 1) PROVE cmds'[i].type = "estop"
        BY <1>4
      <4>1. i + 1 \in 1 .. n
        BY <1>3
      <4> QED BY <1>4, <4>1 DEF AskedDone
    <3> QED BY <3>2, <3>3 DEF AskedDone
  <2>3. AskedOnBus => AskedOnBus' \/ AskedDone'
    <3> SUFFICES ASSUME AskedOnBus PROVE AskedOnBus' \/ AskedDone'
      OBVIOUS
    <3>1. PICK i \in 1 .. n : /\ cmds[i].type = Asked
                              /\ \A j \in 1 .. n : j > i => cmds[j].type = "estop"
      BY <1>4 DEF AskedOnBus
    <3>2. CASE i = 1
      <4>1. \A j \in DOMAIN cmds' : cmds'[j].type = "estop"
        BY <1>3, <1>4, <3>1, <3>2
      <4>2. c.type = Asked
        BY <1>3, <3>1, <3>2
      <4>3. power' = ~gOff'
        BY <1>2, <1>3, <4>2 DEF Asked
      <4> QED BY <4>1, <4>3 DEF AskedDone
    <3>3. CASE i # 1
      <4>1. i - 1 \in DOMAIN cmds' /\ cmds'[i - 1].type = Asked'
        BY <1>3, <1>4, <2>1, <3>1, <3>3
      <4>2. \A j \in DOMAIN cmds' : j > i - 1 => cmds'[j].type = "estop"
        BY <1>3, <1>4, <3>1, <3>3
      <4> QED BY <4>1, <4>2 DEF AskedOnBus
    <3> QED BY <3>2, <3>3
  <2> QED BY <1>2, <2>1, <2>2, <2>3 DEF FlagRight
<1>11. ASSUME ~resetReq PROVE Ahead(Latest)'
  <2>1. CASE c.type = rail /\ c.type # "estop"
    <3>1. Latest' = Latest /\ rail' = rail /\ Ahead(Latest)
      BY <1>2, <1>11, <2>1 DEF Latest, PowInv
    <3>2. CASE Latest = rail
      BY <3>1, <3>2 DEF Ahead
    <3>3. CASE Latest # rail
      <4>1. PICK i \in 1 .. n : cmds[i].type # rail
        BY <1>4, <3>1, <3>3 DEF Ahead
      <4>2. i # 1 /\ i - 1 \in DOMAIN cmds' /\ cmds'[i - 1].type # rail
        BY <1>3, <1>4, <2>1, <4>1
      <4> QED BY <3>1, <4>2 DEF Ahead
    <3> QED BY <3>2, <3>3
  <2>2. CASE ~(c.type = rail /\ c.type # "estop")
    <3>1. railEvents' # <<>> /\ railEvents'[Len(railEvents')] = c.type
      <4>1. Len(railEvents) \in Nat
        BY <1>3
      <4> QED BY <1>2, <1>3, <2>2, <4>1, AppendProperties
    <3> QED BY <1>2, <3>1 DEF Latest, Ahead
  <2> QED BY <2>1, <2>2
<1> QED BY <1>2, <1>6, <1>7, <1>9, <1>10, <1>11 DEF PowInv

LEMMA PowStep == PowInv /\ RoomLeft /\ Power!Next => PowInv'
<1> SUFFICES ASSUME PowInv, RoomLeft, Power!Next PROVE PowInv'
  OBVIOUS
<1>1. ~restartPending /\ ~hung /\ beat = "new"
  BY DEF PowInv, Healthy
<1>2. CASE Power!Deliver
  BY <1>2, DeliverKeeps
<1>3. CASE Power!Core0 /\ ~Power!Deliver
  <2>1. CASE Power!EnterSpin
    BY <1>1, <2>1, PowStill DEF Power!EnterSpin, PowQuiet, Healthy, Power!trackVars,
       Power!centralVars, Power!core1Vars
  <2>2. CASE Power!StallQuiet
    BY <1>1, <2>2, PowStill DEF Power!StallQuiet, PowQuiet, Healthy, Power!trackVars,
       Power!centralVars, Power!core1Vars, Power!Seen
  <2>3. CASE Power!PollDone \/ Power!CdeQuiet \/ Power!GuardsOff
    BY <1>1, <2>3, PowStill DEF Power!PollDone, Power!CdeQuiet, Power!GuardsOff, PowQuiet,
       Healthy, Power!trackVars, Power!centralVars, Power!core1Vars
  <2>4. CASE Power!GuardQuiet
    BY <1>1, <2>4, PowStill DEF Power!GuardQuiet, PowQuiet, Healthy, Power!centralVars,
       Power!core1Vars
  <2>5. ~Power!StallTrip /\ ~Power!CdeShort /\ ~Power!GuardShort /\ ~Power!AutoRestart
    BY <1>1 DEF Power!StallTrip, Power!CdeShort, Power!GuardShort, Power!AutoRestart
  <2> QED BY <1>3, <2>1, <2>2, <2>3, <2>4, <2>5 DEF Power!Core0
<1>4. CASE Power!Requests
  BY <1>4, RequestKeeps
<1>5. CASE Power!Core1
  BY <1>5, DispatchKeeps, PublishKeeps, BroadcastKeeps DEF Power!Core1
<1>6. CASE Power!Core1Health
  <2>1. CASE Power!Heartbeat
    BY <1>1, <2>1, PowStill DEF Power!Heartbeat, PowQuiet, Healthy, Power!trackVars,
       Power!centralVars
  <2>2. ~Power!Hang /\ ~Power!Resume /\ ~Power!BecomeLate
    BY <1>1 DEF Power!Hang, Power!Resume, Power!BecomeLate
  <2> QED BY <1>6, <2>1, <2>2 DEF Power!Core1Health
<1>7. CASE Power!World
  BY <1>1, <1>7, PowStill DEF Power!World, Power!ShortAppears, Power!ShortGoes,
     Power!RestartFalls, Power!TenSecondsPass, Power!FeedbackEvent, PowQuiet, Healthy,
     Power!trackVars, Power!centralVars, Power!core1Vars
<1> QED BY <1>2, <1>3, <1>4, <1>5, <1>6, <1>7 DEF Power!Next

(* As long as neither bus is full, gCentrale.trackPowerOff and what the    *)
(* clients were last told of the track power say what the track is,        *)
(* whenever nothing is under way: for the handlers of xpressnet_handler,   *)
(* slot_server and lenz_lan in any interleaving with core 0, and any       *)
(* number of requests.                                                     *)
THEOREM PowerTold == ClientsSpec /\ []RoomLeft => []PowerAgreed
<1>1. ClientsInit => PowInv
  BY PowInitially DEF ClientsInit
<1>2. ASSUME PowInv, RoomLeft,
             [ClientsNext]_<<part, lanVars, fbVars, eepVars, powerVars, tableVars, z21Vars>>
      PROVE  PowInv'
  <2>1. CASE Power!Next
    BY <1>2, <2>1, PowStep
  <2>2. CASE ~Power!Next
    <3>1. UNCHANGED powerVars
      BY <1>2, <2>2 DEF ClientsNext
    <3>2. PowQuiet
      BY <1>2, <3>1 DEF powerVars, PowQuiet, PowInv, Healthy
    <3> QED BY <1>2, <3>2, PowStill
  <2> QED BY <2>1, <2>2
<1> QED BY <1>1, <1>2, PowAgrees, PTL DEF ClientsSpec

-----------------------------------------------------------------------------
(* The table of locos and its dirty flags.                                 *)
(*                                                                         *)
(* A speed that is not on the track yet is due: its entry is marked, or    *)
(* core 0 has taken the mark and carries it until it sends.  If core 0     *)
(* carries a speed that is no longer the one of the entry, the entry is    *)
(* marked again.  The same holds for functions that were set under the     *)
(* lock.  What core 1 does without the lock sets flags, and clears them    *)
(* only of an entry that is empty; the functions it writes are those of a  *)
(* loco whose functions were not set under the lock last.                  *)
EntryRow == [loco : Loco \cup {NoLoco}, speed : Speeds, fn : FnStates]
FoundRow == [loco : Loco \cup {NoLoco}, speed : Speeds, fn : FnStates,
             speedDirty : BOOLEAN, fnDirty : BOOLEAN]

TabTypes ==
    /\ entry \in [Table!Index -> EntryRow]
    /\ dirtyAny \in [Table!Index -> BOOLEAN]
    /\ dirtySpeed \in [Table!Index -> BOOLEAN] /\ dirtyFn \in [Table!Index -> BOOLEAN]
    /\ scan \in {"idle", "test", "clear", "fn", "clearFn", "copy", "send"}
    /\ at \in 0 .. Entries
    /\ found \in FoundRow
    /\ sentSpeed \in [Loco -> Speeds] /\ sentFn \in [Loco -> FnStates]
    /\ driven \subseteq Loco /\ locked \subseteq Loco

(* A loco has one entry, and one that was driven has one. *)
OneEntry ==
    /\ \A i, j \in Table!Index : entry[i].loco # NoLoco /\ entry[i].loco = entry[j].loco => i = j
    /\ \A l \in driven \cup locked : \E i \in Table!Index : entry[i].loco = l

(* Where core 1 is in an access without the lock, and core 0 in nextDirty(). *)
Between ==
    /\ pc1 \in {"idle", "write", "any", "fn", "unmark"}
    /\ pc1 # "idle" => job \in [loco : Loco, fn : FnStates, ix : Table!Index]
    /\ pc1 \in {"write", "any", "fn"} => entry[job.ix].loco = job.loco /\ job.loco \notin locked
    /\ pc1 = "unmark" => entry[job.ix].loco = NoLoco
    /\ scan \in {"clear", "fn", "clearFn", "copy"} => at \in Table!Index

SpeedMarked(i) == dirtyAny[i] /\ dirtySpeed[i]
SpeedDue(l, i) ==
    \/ SpeedMarked(i)
    \/ scan = "clear" /\ at = i /\ dirtySpeed[i]
    \/ scan \in {"fn", "clearFn", "copy"} /\ at = i /\ found.speedDirty
    \/ scan = "send" /\ found.loco = l /\ found.speedDirty /\ found.speed = entry[i].speed
SpeedKept(l, i) ==
    /\ sentSpeed[l] = entry[i].speed \/ SpeedDue(l, i)
    /\ scan = "send" /\ found.loco = l /\ found.speedDirty =>
           found.speed = entry[i].speed \/ SpeedMarked(i)

FnMarked(i) == dirtyAny[i] /\ dirtyFn[i]
FnDue(l, i) ==
    \/ FnMarked(i) /\ ~(scan = "clearFn" /\ at = i)
    \/ scan \in {"clear", "fn"} /\ at = i /\ dirtyFn[i]
    \/ scan \in {"clearFn", "copy"} /\ at = i /\ found.fnDirty
    \/ scan = "send" /\ found.loco = l /\ found.fnDirty /\ found.fn = entry[i].fn
FnKept(l, i) ==
    /\ sentFn[l] = entry[i].fn \/ FnDue(l, i)
    /\ scan = "send" /\ found.loco = l /\ found.fnDirty =>
           found.fn = entry[i].fn \/ FnMarked(i)

AllKept ==
    /\ \A l \in driven, i \in Table!Index : entry[i].loco = l => SpeedKept(l, i)
    /\ \A l \in locked, i \in Table!Index : entry[i].loco = l => FnKept(l, i)

TabInv == TabTypes /\ OneEntry /\ Between /\ AllKept

LEMMA TabInitially == Table!Init => TabInv
<1> SUFFICES ASSUME Table!Init PROVE TabInv
  OBVIOUS
<1>1. TabTypes
  BY ClientsAssumption DEF Table!Init, TabTypes, Table!Fresh, Table!Nothing, EntryRow, FoundRow
<1>2. \A i \in Table!Index : entry[i].loco = NoLoco
  BY DEF Table!Init, Table!Fresh
<1>3. OneEntry /\ Between /\ AllKept
  BY <1>2 DEF Table!Init, OneEntry, Between, AllKept
<1> QED BY <1>1, <1>3 DEF TabInv

(* At rest nothing is due, so that everything has arrived. *)
LEMMA TabArrived == TabInv => WrittenIsSent
<1> SUFFICES ASSUME TabInv, Table!AtRest, NEW l \in Loco, NEW i \in Table!Holds(l)
             PROVE  Table!Arrived(l, i)
  BY DEF WrittenIsSent, Table!WrittenIsSent
<1>1. i \in Table!Index /\ entry[i].loco = l /\ l # NoLoco
  BY ClientsAssumption DEF Table!Holds
<1>2. scan = "idle" /\ ~dirtyAny[i]
  BY <1>1 DEF Table!AtRest
<1>3. ~SpeedDue(l, i) /\ ~FnDue(l, i)
  BY <1>2 DEF SpeedDue, SpeedMarked, FnDue, FnMarked
<1> QED BY <1>1, <1>3 DEF TabInv, AllKept, SpeedKept, FnKept, Table!Arrived

(* The steps of core 0 leave the entries and core 1 alone. *)
LEMMA Core0Keeps ==
    ASSUME TabInv, Table!Core0, TabTypes', AllKept',
           scan' \in {"clear", "fn", "clearFn", "copy"} => at' \in Table!Index
    PROVE  TabInv'
<1>1. UNCHANGED <<entry, pc1, job, driven, locked>>
  BY DEF Table!Core0, Table!TakeLock, Table!TestDirty, Table!ClearDirty, Table!ReadFn,
         Table!ClearFn, Table!CopyEntry, Table!Send, Table!core1
<1>2. OneEntry' /\ Between'
  BY <1>1 DEF TabInv, OneEntry, Between
<1> QED BY <1>2 DEF TabInv

LEMMA TakeLockKeeps == TabInv /\ Table!TakeLock => TabInv'
<1> SUFFICES ASSUME TabInv, Table!TakeLock PROVE TabInv'
  OBVIOUS
<1>1. /\ scan = "idle" /\ scan' = "test" /\ at' = 0
      /\ UNCHANGED <<entry, dirtyAny, dirtySpeed, dirtyFn, found, sentSpeed, sentFn,
                     driven, locked>>
  BY DEF Table!TakeLock, Table!flags, Table!core1
<1>2. TabTypes'
  BY <1>1, ClientsAssumption DEF TabInv, TabTypes
<1>3. AllKept'
  BY <1>1 DEF TabInv, AllKept, SpeedKept, SpeedDue, SpeedMarked, FnKept, FnDue, FnMarked
<1> QED BY <1>1, <1>2, <1>3, Core0Keeps DEF Table!Core0

LEMMA TestDirtyKeeps == TabInv /\ Table!TestDirty => TabInv'
<1> SUFFICES ASSUME TabInv, Table!TestDirty PROVE TabInv'
  OBVIOUS
<1>1. /\ scan = "test" /\ scan' \in {"idle", "test", "clear"}
      /\ UNCHANGED <<entry, dirtyAny, dirtySpeed, dirtyFn, found, sentSpeed, sentFn,
                     driven, locked>>
  BY DEF Table!TestDirty, Table!flags, Table!core1
<1>2. at \in 0 .. Entries /\ Entries \in Nat
  BY ClientsAssumption DEF TabInv, TabTypes
<1>3. at' \in 0 .. Entries /\ (scan' = "clear" => at' \in Table!Index)
  BY <1>1, <1>2 DEF Table!TestDirty, Table!Index
<1>4. TabTypes'
  BY <1>1, <1>3 DEF TabInv, TabTypes
<1>5. AllKept'
  BY <1>1 DEF TabInv, AllKept, SpeedKept, SpeedDue, SpeedMarked, FnKept, FnDue, FnMarked
<1> QED BY <1>1, <1>3, <1>4, <1>5, Core0Keeps DEF Table!Core0

LEMMA ClearDirtyKeeps == TabInv /\ Table!ClearDirty => TabInv'
<1> SUFFICES ASSUME TabInv, Table!ClearDirty PROVE TabInv'
  OBVIOUS
<1>1. /\ scan = "clear" /\ scan' = "fn" /\ at' = at /\ at \in Table!Index
      /\ dirtyAny' = [dirtyAny EXCEPT ![at] = FALSE]
      /\ dirtySpeed' = [dirtySpeed EXCEPT ![at] = FALSE]
      /\ found' = [found EXCEPT !.speedDirty = dirtySpeed[at]]
      /\ UNCHANGED <<entry, dirtyFn, sentSpeed, sentFn, driven, locked>>
  BY DEF Table!ClearDirty, Table!core1, TabInv, Between
<1>2. TabTypes
  BY DEF TabInv
<1>3. \A i \in Table!Index : /\ i # at => dirtyAny'[i] = dirtyAny[i]
                             /\ i # at => dirtySpeed'[i] = dirtySpeed[i]
  BY <1>1, <1>2 DEF TabTypes
<1>4. /\ dirtyAny' \in [Table!Index -> BOOLEAN] /\ dirtySpeed' \in [Table!Index -> BOOLEAN]
      /\ dirtySpeed[at] \in BOOLEAN
  BY <1>1, <1>2, Zenon DEF TabTypes
<1>5. /\ found' \in FoundRow
      /\ found'.speedDirty = dirtySpeed[at]
  BY <1>1, <1>2, <1>4 DEF TabTypes, FoundRow
<1>6. TabTypes'
  BY <1>1, <1>2, <1>4, <1>5 DEF TabTypes
<1>7. ASSUME NEW l \in driven, NEW i \in Table!Index, entry[i].loco = l
      PROVE  SpeedKept(l, i)'
  BY <1>1, <1>3, <1>5, <1>7 DEF TabInv, AllKept, SpeedKept, SpeedDue, SpeedMarked
<1>8. ASSUME NEW l \in locked, NEW i \in Table!Index, entry[i].loco = l
      PROVE  FnKept(l, i)'
  BY <1>1, <1>3, <1>8 DEF TabInv, AllKept, FnKept, FnDue, FnMarked
<1>9. AllKept'
  BY <1>1, <1>7, <1>8 DEF AllKept
<1> QED BY <1>1, <1>6, <1>9, Core0Keeps DEF Table!Core0

LEMMA ReadFnKeeps == TabInv /\ Table!ReadFn => TabInv'
<1> SUFFICES ASSUME TabInv, Table!ReadFn PROVE TabInv'
  OBVIOUS
<1>1. /\ scan = "fn" /\ scan' = "clearFn" /\ at' = at /\ at \in Table!Index
      /\ found' = [found EXCEPT !.fnDirty = dirtyFn[at]]
      /\ UNCHANGED <<entry, dirtyAny, dirtySpeed, dirtyFn, sentSpeed, sentFn, driven, locked>>
  BY DEF Table!ReadFn, Table!flags, Table!core1, TabInv, Between
<1>2. TabTypes
  BY DEF TabInv
<1>3. dirtyFn[at] \in BOOLEAN
  BY <1>1, <1>2 DEF TabTypes
<1>4. found' \in FoundRow /\ found'.fnDirty = dirtyFn[at] /\ found'.speedDirty = found.speedDirty
  BY <1>1, <1>2, <1>3 DEF TabTypes, FoundRow
<1>5. TabTypes'
  BY <1>1, <1>2, <1>4 DEF TabTypes
<1>6. ASSUME NEW l \in driven, NEW i \in Table!Index, entry[i].loco = l
      PROVE  SpeedKept(l, i)'
  BY <1>1, <1>4, <1>6 DEF TabInv, AllKept, SpeedKept, SpeedDue, SpeedMarked
<1>7. ASSUME NEW l \in locked, NEW i \in Table!Index, entry[i].loco = l
      PROVE  FnKept(l, i)'
  BY <1>1, <1>4, <1>7 DEF TabInv, AllKept, FnKept, FnDue, FnMarked
<1>8. AllKept'
  BY <1>1, <1>6, <1>7 DEF AllKept
<1> QED BY <1>1, <1>5, <1>8, Core0Keeps DEF Table!Core0

LEMMA ClearFnKeeps == TabInv /\ Table!ClearFn => TabInv'
<1> SUFFICES ASSUME TabInv, Table!ClearFn PROVE TabInv'
  OBVIOUS
<1>1. /\ scan = "clearFn" /\ scan' = "copy" /\ at' = at /\ at \in Table!Index
      /\ dirtyFn' = [dirtyFn EXCEPT ![at] = FALSE]
      /\ UNCHANGED <<entry, dirtyAny, dirtySpeed, found, sentSpeed, sentFn, driven, locked>>
  BY DEF Table!ClearFn, Table!core1, TabInv, Between
<1>2. TabTypes
  BY DEF TabInv
<1>3. /\ dirtyFn' \in [Table!Index -> BOOLEAN]
      /\ \A i \in Table!Index : i # at => dirtyFn'[i] = dirtyFn[i]
  BY <1>1, <1>2 DEF TabTypes
<1>4. TabTypes'
  BY <1>1, <1>2, <1>3 DEF TabTypes
<1>5. ASSUME NEW l \in driven, NEW i \in Table!Index, entry[i].loco = l
      PROVE  SpeedKept(l, i)'
  BY <1>1, <1>5 DEF TabInv, AllKept, SpeedKept, SpeedDue, SpeedMarked
<1>6. ASSUME NEW l \in locked, NEW i \in Table!Index, entry[i].loco = l
      PROVE  FnKept(l, i)'
  BY <1>1, <1>3, <1>6 DEF TabInv, AllKept, FnKept, FnDue, FnMarked
<1>7. AllKept'
  BY <1>1, <1>5, <1>6 DEF AllKept
<1> QED BY <1>1, <1>4, <1>7, Core0Keeps DEF Table!Core0

LEMMA CopyEntryKeeps == TabInv /\ Table!CopyEntry => TabInv'
<1> SUFFICES ASSUME TabInv, Table!CopyEntry PROVE TabInv'
  OBVIOUS
<1>1. /\ scan = "copy" /\ scan' = "send" /\ at' = at /\ at \in Table!Index
      /\ found' = [found EXCEPT !.loco = entry[at].loco, !.speed = entry[at].speed,
                                !.fn = entry[at].fn]
      /\ UNCHANGED <<entry, dirtyAny, dirtySpeed, dirtyFn, sentSpeed, sentFn, driven, locked>>
  BY DEF Table!CopyEntry, Table!flags, Table!core1, TabInv, Between
<1>2. TabTypes
  BY DEF TabInv
<1>3. entry[at] \in EntryRow
  BY <1>1, <1>2 DEF TabTypes
<1>4. /\ found' \in FoundRow
      /\ found'.loco = entry[at].loco /\ found'.speed = entry[at].speed
      /\ found'.fn = entry[at].fn
      /\ found'.speedDirty = found.speedDirty /\ found'.fnDirty = found.fnDirty
  <2>1. found \in FoundRow
    BY <1>2 DEF TabTypes
  <2> QED BY <1>1, <1>3, <2>1 DEF EntryRow, FoundRow
<1>5. TabTypes'
  BY <1>1, <1>2, <1>4 DEF TabTypes
<1>6. \A i \in Table!Index : entry[i].loco # NoLoco /\ entry[i].loco = entry[at].loco => i = at
  BY <1>1 DEF TabInv, OneEntry
<1>7. ASSUME NEW l \in driven, NEW i \in Table!Index, entry[i].loco = l
      PROVE  SpeedKept(l, i)'
  <2>1. l # NoLoco
    BY <1>2, ClientsAssumption DEF TabTypes
  <2> QED BY <1>1, <1>4, <1>6, <1>7, <2>1
          DEF TabInv, AllKept, SpeedKept, SpeedDue, SpeedMarked
<1>8. ASSUME NEW l \in locked, NEW i \in Table!Index, entry[i].loco = l
      PROVE  FnKept(l, i)'
  <2>1. l # NoLoco
    BY <1>2, ClientsAssumption DEF TabTypes
  <2> QED BY <1>1, <1>4, <1>6, <1>8, <2>1 DEF TabInv, AllKept, FnKept, FnDue, FnMarked
<1>9. AllKept'
  BY <1>1, <1>7, <1>8 DEF AllKept
<1> QED BY <1>1, <1>5, <1>9, Core0Keeps DEF Table!Core0

LEMMA SendKeeps == TabInv /\ Table!Send => TabInv'
<1> SUFFICES ASSUME TabInv, Table!Send PROVE TabInv'
  OBVIOUS
<1>1. /\ scan = "send" /\ scan' = "idle" /\ at' = 0 /\ found' = Table!Nothing
      /\ sentSpeed' = IF found.speedDirty /\ found.loco # NoLoco
                      THEN [sentSpeed EXCEPT ![found.loco] = found.speed] ELSE sentSpeed
      /\ sentFn' = IF found.fnDirty /\ found.loco # NoLoco
                   THEN [sentFn EXCEPT ![found.loco] = found.fn] ELSE sentFn
      /\ UNCHANGED <<entry, dirtyAny, dirtySpeed, dirtyFn, driven, locked>>
  BY DEF Table!Send, Table!flags, Table!core1
<1>2. TabTypes
  BY DEF TabInv
<1>3. found.loco \in Loco \cup {NoLoco} /\ found.speed \in Speeds /\ found.fn \in FnStates
  BY <1>2 DEF TabTypes, FoundRow
<1>4. TabTypes'
  <2>1. found' \in FoundRow
    BY <1>1, ClientsAssumption DEF Table!Nothing, FoundRow
  <2>2. sentSpeed' \in [Loco -> Speeds] /\ sentFn' \in [Loco -> FnStates]
    BY <1>1, <1>2, <1>3 DEF TabTypes
  <2> QED BY <1>1, <1>2, <2>1, <2>2, ClientsAssumption DEF TabTypes
<1>5. \A l \in Loco :
         /\ sentSpeed'[l] = IF found.speedDirty /\ found.loco = l THEN found.speed ELSE sentSpeed[l]
         /\ sentFn'[l] = IF found.fnDirty /\ found.loco = l THEN found.fn ELSE sentFn[l]
  BY <1>1, <1>2, ClientsAssumption DEF TabTypes
<1>6. ASSUME NEW l \in driven, NEW i \in Table!Index, entry[i].loco = l
      PROVE  SpeedKept(l, i)'
  <2>1. l \in Loco
    BY <1>2 DEF TabTypes
  <2> QED BY <1>1, <1>5, <1>6, <2>1 DEF TabInv, AllKept, SpeedKept, SpeedDue, SpeedMarked
<1>7. ASSUME NEW l \in locked, NEW i \in Table!Index, entry[i].loco = l
      PROVE  FnKept(l, i)'
  <2>1. l \in Loco
    BY <1>2 DEF TabTypes
  <2> QED BY <1>1, <1>5, <1>7, <2>1 DEF TabInv, AllKept, FnKept, FnDue, FnMarked
<1>8. AllKept'
  BY <1>1, <1>6, <1>7 DEF AllKept
<1> QED BY <1>1, <1>4, <1>8, Core0Keeps DEF Table!Core0

(* A request of core 1 makes or changes one entry, i; the others, and what *)
(* is said of their locos, stay.  Flags are only set.                      *)
LEMMA OthersKept ==
    ASSUME TabInv, NEW i \in Table!Index, NEW j \in Table!Index, j # i, NEW l,
           entry[j].loco = l, entry'[j] = entry[j],
           dirtyAny[j] => dirtyAny'[j], dirtySpeed[j] => dirtySpeed'[j],
           dirtyFn[j] => dirtyFn'[j],
           UNCHANGED <<scan, at, found, sentSpeed, sentFn>>
    PROVE  /\ l \in driven => SpeedKept(l, j)'
           /\ l \in locked => FnKept(l, j)'
<1>1. l \in driven => SpeedKept(l, j)
  BY DEF TabInv, AllKept
<1>2. l \in locked => FnKept(l, j)
  BY DEF TabInv, AllKept
<1> QED BY <1>1, <1>2 DEF SpeedKept, SpeedDue, SpeedMarked, FnKept, FnDue, FnMarked

(* The place of a loco: its entry, or else one that is empty.              *)
LEMMA PlaceIs ==
    ASSUME TabInv, NEW l \in Loco, NEW i \in Table!Index, Table!Place(l, i)
    PROVE  /\ Table!Entry(l, i) \in EntryRow /\ Table!Entry(l, i).loco = l
           /\ \A j \in Table!Index \ {i} : entry[j].loco # l
           /\ \/ entry[i].loco = l /\ Table!Entry(l, i) = entry[i]
              \/ entry[i].loco = NoLoco /\ l \notin driven \cup locked
<1>1. entry[i] \in EntryRow /\ l # NoLoco
  BY ClientsAssumption DEF TabInv, TabTypes
<1>2. CASE entry[i].loco = l
  <2>1. Table!Entry(l, i) = entry[i]
    BY <1>2 DEF Table!Entry, Table!Holds
  <2> QED BY <1>1, <1>2, <2>1 DEF TabInv, OneEntry
<1>3. CASE entry[i].loco # l
  <2>1. entry[i].loco = NoLoco /\ \A j \in Table!Index : entry[j].loco # l
    BY <1>3 DEF Table!Place, Table!Holds
  <2>2. Table!Entry(l, i) = Table!Fresh(l)
    BY <1>3 DEF Table!Entry, Table!Holds
  <2>3. Table!Fresh(l) \in EntryRow /\ Table!Fresh(l).loco = l
    BY ClientsAssumption DEF Table!Fresh, EntryRow
  <2> QED BY <2>1, <2>2, <2>3 DEF TabInv, OneEntry
<1> QED BY <1>2, <1>3

LEMMA WriteSpeedKeeps ==
    ASSUME TabInv, NEW l \in Loco, NEW v \in Speeds, Table!WriteSpeed(l, v)
    PROVE  TabInv'
<1>1. PICK i \in Table!Index :
         /\ Table!Place(l, i)
         /\ entry' = [entry EXCEPT ![i] = [Table!Entry(l, i) EXCEPT !.speed = v]]
         /\ dirtyAny' = [dirtyAny EXCEPT ![i] = TRUE]
         /\ dirtySpeed' = [dirtySpeed EXCEPT ![i] = TRUE]
  BY DEF Table!WriteSpeed
<1>2. /\ pc1 = "idle" /\ driven' = driven \cup {l}
      /\ UNCHANGED <<dirtyFn, scan, at, found, sentSpeed, sentFn, pc1, job, locked>>
  BY DEF Table!WriteSpeed, Table!Request, Table!core0
<1>3. TabTypes /\ l # NoLoco
  BY ClientsAssumption DEF TabInv
<1> DEFINE r == Table!Entry(l, i)
           new == [r EXCEPT !.speed = v]
<1>4. /\ r \in EntryRow /\ r.loco = l
      /\ \A j \in Table!Index \ {i} : entry[j].loco # l
      /\ \/ entry[i].loco = l /\ r = entry[i]
         \/ entry[i].loco = NoLoco /\ l \notin driven \cup locked
  BY <1>1, PlaceIs
<1>5. entry' = [entry EXCEPT ![i] = new]
  BY <1>1
<1> HIDE DEF r
<1>6. new \in EntryRow /\ new.loco = l /\ new.fn = r.fn
  BY <1>4 DEF EntryRow
<1> HIDE DEF new
<1>7. /\ entry' \in [Table!Index -> EntryRow] /\ entry'[i] = new
      /\ \A j \in Table!Index \ {i} : entry'[j] = entry[j]
  BY <1>3, <1>5, <1>6 DEF TabTypes
<1>8. /\ dirtyAny' \in [Table!Index -> BOOLEAN] /\ dirtySpeed' \in [Table!Index -> BOOLEAN]
      /\ dirtyAny'[i] /\ dirtySpeed'[i]
      /\ \A j \in Table!Index \ {i} : dirtyAny'[j] = dirtyAny[j] /\ dirtySpeed'[j] = dirtySpeed[j]
  BY <1>1, <1>3 DEF TabTypes
<1>9. TabTypes'
  BY <1>2, <1>3, <1>7, <1>8 DEF TabTypes
<1>10. OneEntry'
  <2>1. \A j, k \in Table!Index :
           entry'[j].loco # NoLoco /\ entry'[j].loco = entry'[k].loco => j = k
    BY <1>4, <1>6, <1>7 DEF TabInv, OneEntry
  <2>2. \A m \in driven' \cup locked' : \E j \in Table!Index : entry'[j].loco = m
    BY <1>2, <1>3, <1>4, <1>6, <1>7, ClientsAssumption DEF TabInv, OneEntry, TabTypes
  <2> QED BY <2>1, <2>2 DEF OneEntry
<1>11. Between'
  BY <1>2 DEF TabInv, Between
<1>12. SpeedMarked(i)'
  BY <1>8 DEF SpeedMarked
<1>13. ASSUME NEW m \in driven', NEW j \in Table!Index, entry'[j].loco = m
       PROVE  SpeedKept(m, j)'
  <2>1. CASE j = i
    BY <1>12, <2>1 DEF SpeedKept, SpeedDue
  <2>2. CASE j # i
    <3>1. entry[j].loco = m /\ m \in driven
      BY <1>2, <1>4, <1>7, <1>13, <2>2
    <3> QED BY <1>2, <1>7, <1>8, <2>2, <3>1, OthersKept
  <2> QED BY <2>1, <2>2
<1>14. ASSUME NEW m \in locked', NEW j \in Table!Index, entry'[j].loco = m
       PROVE  FnKept(m, j)'
  <2>1. CASE j = i
    <3>1. m = l /\ m \in locked /\ entry[i].loco = l /\ entry'[i].fn = entry[i].fn
      BY <1>2, <1>4, <1>6, <1>7, <1>14, <2>1
    <3>2. FnKept(m, i)
      BY <3>1 DEF TabInv, AllKept
    <3> QED BY <1>2, <1>8, <2>1, <3>1, <3>2 DEF FnKept, FnDue, FnMarked
  <2>2. CASE j # i
    <3>1. entry[j].loco = m /\ m \in locked
      BY <1>2, <1>7, <1>14, <2>2
    <3> QED BY <1>2, <1>7, <1>8, <2>2, <3>1, OthersKept
  <2> QED BY <2>1, <2>2
<1>15. AllKept'
  BY <1>13, <1>14 DEF AllKept
<1> QED BY <1>9, <1>10, <1>11, <1>15 DEF TabInv

LEMMA WriteSndKeeps ==
    ASSUME TabInv, NEW l \in Loco, NEW f \in FnStates, Table!WriteSnd(l, f)
    PROVE  TabInv'
<1>1. PICK i \in Table!Holds(l) :
         /\ entry' = [entry EXCEPT ![i].fn = f]
         /\ dirtyAny' = [dirtyAny EXCEPT ![i] = TRUE]
         /\ dirtySpeed' = [dirtySpeed EXCEPT ![i] = TRUE]
         /\ dirtyFn' = [dirtyFn EXCEPT ![i] = TRUE]
  BY DEF Table!WriteSnd
<1>2. /\ pc1 = "idle" /\ driven' = driven \cup {l} /\ locked' = locked \cup {l}
      /\ scan \notin {"test", "clear", "fn", "clearFn", "copy"}
      /\ UNCHANGED <<scan, at, found, sentSpeed, sentFn, pc1, job>>
  BY DEF Table!WriteSnd, Table!Request, Table!core0, Table!Locked0
<1>3. TabTypes /\ l # NoLoco /\ i \in Table!Index /\ entry[i].loco = l
  BY ClientsAssumption DEF TabInv, Table!Holds
<1> DEFINE r == entry[i]
           new == [r EXCEPT !.fn = f]
<1>4. r \in EntryRow /\ entry' = [entry EXCEPT ![i] = new]
  BY <1>1, <1>3 DEF TabTypes
<1>5. r.loco = l
  BY <1>3
<1> HIDE DEF r
<1>6. new \in EntryRow /\ new.loco = l
  BY <1>4, <1>5 DEF EntryRow
<1> HIDE DEF new
<1>7. /\ entry' \in [Table!Index -> EntryRow] /\ entry'[i].loco = l
      /\ \A j \in Table!Index \ {i} : entry'[j] = entry[j]
  BY <1>3, <1>4, <1>6 DEF TabTypes
<1>8. /\ dirtyAny' \in [Table!Index -> BOOLEAN] /\ dirtySpeed' \in [Table!Index -> BOOLEAN]
      /\ dirtyFn' \in [Table!Index -> BOOLEAN]
      /\ dirtyAny'[i] /\ dirtySpeed'[i] /\ dirtyFn'[i]
      /\ \A j \in Table!Index \ {i} : /\ dirtyAny'[j] = dirtyAny[j]
                                      /\ dirtySpeed'[j] = dirtySpeed[j]
                                      /\ dirtyFn'[j] = dirtyFn[j]
  BY <1>1, <1>3 DEF TabTypes
<1>9. TabTypes'
  BY <1>2, <1>3, <1>7, <1>8 DEF TabTypes
<1>10. \A j \in Table!Index : entry'[j].loco = entry[j].loco
  BY <1>3, <1>7
<1>11. OneEntry' /\ Between'
  BY <1>2, <1>3, <1>10 DEF TabInv, OneEntry, Between
<1>12. SpeedMarked(i)' /\ FnMarked(i)'
  BY <1>8 DEF SpeedMarked, FnMarked
<1>13. ASSUME NEW m, NEW j \in Table!Index, entry'[j].loco = m
       PROVE  /\ m \in driven' => SpeedKept(m, j)'
              /\ m \in locked' => FnKept(m, j)'
  <2>1. CASE j = i
    BY <1>2, <1>12, <2>1 DEF SpeedKept, SpeedDue, FnKept, FnDue
  <2>2. CASE j # i
    <3>1. /\ entry[j].loco = m /\ m # l
          /\ m \in driven' => m \in driven
          /\ m \in locked' => m \in locked
      BY <1>2, <1>3, <1>7, <1>13, <2>2 DEF TabInv, OneEntry
    <3> QED BY <1>2, <1>3, <1>7, <1>8, <2>2, <3>1, OthersKept
  <2> QED BY <2>1, <2>2
<1>14. AllKept'
  BY <1>13 DEF AllKept
<1> QED BY <1>9, <1>11, <1>14 DEF TabInv

LEMMA FindEntryKeeps ==
    ASSUME TabInv, NEW l \in Loco, NEW f \in FnStates, Table!FindEntry(l, f)
    PROVE  TabInv'
<1>1. PICK i \in Table!Index :
         /\ Table!Place(l, i)
         /\ entry' = [entry EXCEPT ![i] = Table!Entry(l, i)]
         /\ job' = [loco |-> l, fn |-> f, ix |-> i]
  BY DEF Table!FindEntry
<1>2. /\ pc1 = "idle" /\ pc1' = "write" /\ locked' = locked \ {l} /\ driven' = driven
      /\ UNCHANGED <<dirtyAny, dirtySpeed, dirtyFn, scan, at, found, sentSpeed, sentFn>>
  BY DEF Table!FindEntry, Table!Request, Table!core0, Table!flags
<1>3. TabTypes /\ l # NoLoco
  BY ClientsAssumption DEF TabInv
<1> DEFINE r == Table!Entry(l, i)
<1>4. /\ r \in EntryRow /\ r.loco = l
      /\ \A j \in Table!Index \ {i} : entry[j].loco # l
      /\ \/ entry[i].loco = l /\ r = entry[i]
         \/ entry[i].loco = NoLoco /\ l \notin driven \cup locked
  BY <1>1, PlaceIs
<1>5. entry' = [entry EXCEPT ![i] = r]
  BY <1>1
<1> HIDE DEF r
<1>6. /\ entry' \in [Table!Index -> EntryRow] /\ entry'[i] = r
      /\ \A j \in Table!Index \ {i} : entry'[j] = entry[j]
  BY <1>3, <1>4, <1>5 DEF TabTypes
<1>7. TabTypes'
  BY <1>2, <1>3, <1>6 DEF TabTypes
<1>8. OneEntry'
  <2>1. \A j, k \in Table!Index :
           entry'[j].loco # NoLoco /\ entry'[j].loco = entry'[k].loco => j = k
    BY <1>4, <1>6 DEF TabInv, OneEntry
  <2>2. \A m \in driven' \cup locked' : \E j \in Table!Index : entry'[j].loco = m
    BY <1>2, <1>3, <1>4, <1>6, ClientsAssumption DEF TabInv, OneEntry, TabTypes
  <2> QED BY <2>1, <2>2 DEF OneEntry
<1>9. Between'
  BY <1>1, <1>2, <1>4, <1>6 DEF TabInv, Between
<1>10. ASSUME NEW m, NEW j \in Table!Index, entry'[j].loco = m
       PROVE  /\ m \in driven' => SpeedKept(m, j)'
              /\ m \in locked' => FnKept(m, j)'
  <2>1. CASE entry'[j] = entry[j]
    <3>1. /\ m \in driven' => SpeedKept(m, j)
          /\ m \in locked' => FnKept(m, j)
      BY <1>2, <1>10, <2>1 DEF TabInv, AllKept
    <3> QED BY <1>2, <2>1, <3>1 DEF SpeedKept, SpeedDue, SpeedMarked, FnKept, FnDue, FnMarked
  <2>2. CASE entry'[j] # entry[j]
    <3>1. j = i /\ m = l /\ l \notin driven \cup locked
      BY <1>4, <1>6, <1>10, <2>2
    <3> QED BY <1>2, <3>1
  <2> QED BY <2>1, <2>2
<1>11. AllKept'
  BY <1>10 DEF AllKept
<1> QED BY <1>7, <1>8, <1>9, <1>11 DEF TabInv

LEMMA WriteFnKeeps == TabInv /\ Table!WriteFn => TabInv'
<1> SUFFICES ASSUME TabInv, Table!WriteFn PROVE TabInv'
  OBVIOUS
<1>1. /\ pc1 = "write" /\ pc1' = "any" /\ entry' = [entry EXCEPT ![job.ix].fn = job.fn]
      /\ UNCHANGED <<dirtyAny, dirtySpeed, dirtyFn, scan, at, found, sentSpeed, sentFn,
                     job, driven, locked>>
  BY DEF Table!WriteFn, Table!flags, Table!core0
<1>2. PICK i \in Table!Index : i = job.ix
  BY <1>1 DEF TabInv, Between
<1>3. PICK f \in FnStates : f = job.fn
  BY <1>1 DEF TabInv, Between
<1>4. TabTypes /\ entry[i].loco = job.loco /\ job.loco \notin locked
  BY <1>1, <1>2 DEF TabInv, Between
<1> DEFINE r == entry[i]
           new == [r EXCEPT !.fn = f]
<1>5. r \in EntryRow /\ entry' = [entry EXCEPT ![i] = new]
  BY <1>1, <1>2, <1>3, <1>4 DEF TabTypes
<1> HIDE DEF r
<1>6. new \in EntryRow /\ new.loco = r.loco /\ new.speed = r.speed
  BY <1>5 DEF EntryRow
<1> HIDE DEF new
<1>7. /\ entry' \in [Table!Index -> EntryRow]
      /\ \A j \in Table!Index : /\ entry'[j].loco = entry[j].loco
                                /\ entry'[j].speed = entry[j].speed
                                /\ j # i => entry'[j].fn = entry[j].fn
  BY <1>4, <1>5, <1>6 DEF TabTypes, r
<1>8. TabTypes'
  BY <1>1, <1>4, <1>7 DEF TabTypes
<1>9. OneEntry' /\ Between'
  BY <1>1, <1>2, <1>7 DEF TabInv, OneEntry, Between
<1>10. ASSUME NEW m, NEW j \in Table!Index, entry'[j].loco = m
       PROVE  /\ m \in driven' => SpeedKept(m, j)'
              /\ m \in locked' => FnKept(m, j)'
  <2>1. /\ m \in driven => SpeedKept(m, j)
        /\ m \in locked => FnKept(m, j) /\ j # i
    BY <1>4, <1>7, <1>10 DEF TabInv, AllKept
  <2> QED BY <1>1, <1>7, <2>1 DEF SpeedKept, SpeedDue, SpeedMarked, FnKept, FnDue, FnMarked
<1>11. AllKept'
  BY <1>10 DEF AllKept
<1> QED BY <1>8, <1>9, <1>11 DEF TabInv

(* An access without the lock that changes flags only. *)
LEMMA FlagsKeep ==
    ASSUME TabInv, TabTypes', Between',
           UNCHANGED <<entry, scan, at, found, sentSpeed, sentFn, driven, locked>>,
           \A j \in Table!Index : entry[j].loco # NoLoco =>
               /\ dirtyAny[j] => dirtyAny'[j]
               /\ dirtySpeed[j] => dirtySpeed'[j]
               /\ dirtyFn[j] => dirtyFn'[j]
    PROVE  TabInv'
<1>1. OneEntry'
  BY DEF TabInv, OneEntry
<1>2. NoLoco \notin driven \cup locked
  BY ClientsAssumption DEF TabInv, TabTypes
<1>3. ASSUME NEW m, NEW j \in Table!Index, entry'[j].loco = m
      PROVE  /\ m \in driven' => SpeedKept(m, j)'
             /\ m \in locked' => FnKept(m, j)'
  <2>1. /\ m \in driven => SpeedKept(m, j)
        /\ m \in locked => FnKept(m, j)
    BY <1>3 DEF TabInv, AllKept
  <2> QED BY <1>2, <1>3, <2>1 DEF SpeedKept, SpeedDue, SpeedMarked, FnKept, FnDue, FnMarked
<1>4. AllKept'
  BY <1>3 DEF AllKept
<1> QED BY <1>1, <1>4 DEF TabInv

LEMMA MarksKeep ==
    TabInv /\ (Table!MarkAny \/ Table!MarkFn \/ Table!ReleaseFlag) => TabInv'
<1> SUFFICES ASSUME TabInv, Table!MarkAny \/ Table!MarkFn \/ Table!ReleaseFlag PROVE TabInv'
  OBVIOUS
<1>1. /\ pc1 \in {"any", "fn", "unmark"}
      /\ UNCHANGED <<entry, dirtySpeed, scan, at, found, sentSpeed, sentFn, driven, locked>>
  BY DEF Table!MarkAny, Table!MarkFn, Table!ReleaseFlag, Table!core0
<1>2. TabTypes /\ job.ix \in Table!Index
  BY <1>1 DEF TabInv, Between
<1>3. CASE Table!MarkAny
  <2>1. /\ pc1 = "any" /\ pc1' = "fn" /\ job' = job /\ dirtyFn' = dirtyFn
        /\ dirtyAny' = [dirtyAny EXCEPT ![job.ix] = TRUE]
    BY <1>3 DEF Table!MarkAny
  <2>2. TabTypes' /\ \A j \in Table!Index : dirtyAny[j] => dirtyAny'[j]
    BY <1>1, <1>2, <2>1 DEF TabTypes
  <2>3. Between'
    BY <1>1, <2>1 DEF TabInv, Between
  <2> QED BY <1>1, <2>1, <2>2, <2>3, FlagsKeep
<1>4. CASE Table!MarkFn
  <2>1. /\ pc1' = "idle" /\ dirtyAny' = dirtyAny
        /\ dirtyFn' = [dirtyFn EXCEPT ![job.ix] = TRUE]
    BY <1>4 DEF Table!MarkFn
  <2>2. TabTypes' /\ \A j \in Table!Index : dirtyFn[j] => dirtyFn'[j]
    BY <1>1, <1>2, <2>1 DEF TabTypes
  <2>3. Between'
    BY <1>1, <2>1 DEF TabInv, Between
  <2> QED BY <1>1, <2>1, <2>2, <2>3, FlagsKeep
<1>5. CASE Table!ReleaseFlag
  <2>1. /\ pc1 = "unmark" /\ pc1' = "idle" /\ dirtyFn' = dirtyFn
        /\ dirtyAny' = [dirtyAny EXCEPT ![job.ix] = FALSE]
    BY <1>5 DEF Table!ReleaseFlag
  <2>2. entry[job.ix].loco = NoLoco
    BY <2>1 DEF TabInv, Between
  <2>3. TabTypes' /\ \A j \in Table!Index \ {job.ix} : dirtyAny'[j] = dirtyAny[j]
    BY <1>1, <1>2, <2>1 DEF TabTypes
  <2>4. Between'
    BY <1>1, <2>1 DEF TabInv, Between
  <2> QED BY <1>1, <2>1, <2>2, <2>3, <2>4, FlagsKeep
<1> QED BY <1>3, <1>4, <1>5

LEMMA ReleaseKeeps ==
    ASSUME TabInv, NEW l \in Loco, Table!ReleaseEntry(l)
    PROVE  TabInv'
<1>1. PICK i \in Table!Holds(l) :
         /\ entry' = [entry EXCEPT ![i] = Table!Fresh(NoLoco)]
         /\ job' = [loco |-> l, fn |-> 0, ix |-> i]
  BY DEF Table!ReleaseEntry
<1>2. /\ pc1' = "unmark" /\ driven' = driven \ {l} /\ locked' = locked \ {l}
      /\ UNCHANGED <<dirtyAny, dirtySpeed, dirtyFn, scan, at, found, sentSpeed, sentFn>>
  BY DEF Table!ReleaseEntry, Table!core0, Table!flags
<1>3. TabTypes /\ l # NoLoco /\ i \in Table!Index /\ entry[i].loco = l
  BY ClientsAssumption DEF TabInv, Table!Holds
<1>4. Table!Fresh(NoLoco) \in EntryRow /\ Table!Fresh(NoLoco).loco = NoLoco
  BY ClientsAssumption DEF Table!Fresh, EntryRow
<1>5. /\ entry' \in [Table!Index -> EntryRow] /\ entry'[i].loco = NoLoco
      /\ \A j \in Table!Index \ {i} : entry'[j] = entry[j]
  BY <1>1, <1>3, <1>4 DEF TabTypes
<1>6. TabTypes'
  BY <1>2, <1>3, <1>5 DEF TabTypes
<1>7. OneEntry'
  <2>1. \A j, k \in Table!Index :
           entry'[j].loco # NoLoco /\ entry'[j].loco = entry'[k].loco => j = k
    BY <1>5 DEF TabInv, OneEntry
  <2>2. \A m \in driven' \cup locked' : \E j \in Table!Index : entry'[j].loco = m
    BY <1>2, <1>3, <1>5 DEF TabInv, OneEntry
  <2> QED BY <2>1, <2>2 DEF OneEntry
<1>8. Between'
  BY <1>1, <1>2, <1>3, <1>5, ClientsAssumption DEF TabInv, Between
<1>9. ASSUME NEW m, NEW j \in Table!Index, entry'[j].loco = m
      PROVE  /\ m \in driven' => SpeedKept(m, j)'
             /\ m \in locked' => FnKept(m, j)'
  <2>1. CASE j = i
    <3>1. m \notin driven' /\ m \notin locked'
      BY <1>2, <1>3, <1>5, <1>9, <2>1, ClientsAssumption DEF TabTypes
    <3> QED BY <3>1
  <2>2. CASE j # i
    <3>1. /\ entry[j].loco = m /\ entry'[j] = entry[j]
          /\ m \in driven' => m \in driven
          /\ m \in locked' => m \in locked
      BY <1>2, <1>5, <1>9, <2>2
    <3> QED BY <1>2, <1>3, <2>2, <3>1, OthersKept
  <2> QED BY <2>1, <2>2
<1>10. AllKept'
  BY <1>9 DEF AllKept
<1> QED BY <1>6, <1>7, <1>8, <1>10 DEF TabInv

LEMMA TabStep == TabInv /\ Table!Next => TabInv'
<1> SUFFICES ASSUME TabInv, Table!Next PROVE TabInv'
  OBVIOUS
<1>1. CASE Table!Core0
  BY <1>1, TakeLockKeeps, TestDirtyKeeps, ClearDirtyKeeps, ReadFnKeeps, ClearFnKeeps,
     CopyEntryKeeps, SendKeeps DEF Table!Core0
<1>2. CASE Table!Core1
  BY <1>2, WriteSpeedKeeps, WriteSndKeeps, FindEntryKeeps, WriteFnKeeps, MarksKeep,
     ReleaseKeeps DEF Table!Core1
<1> QED BY <1>1, <1>2 DEF Table!Next

LEMMA TabStill == TabInv /\ UNCHANGED tableVars => TabInv'
<1> SUFFICES ASSUME TabInv, UNCHANGED tableVars PROVE TabInv'
  OBVIOUS
<1>1. UNCHANGED <<entry, dirtyAny, dirtySpeed, dirtyFn, scan, at, found, pc1, job,
                  sentSpeed, sentFn, driven, locked>>
  BY DEF tableVars
<1>2. TabTypes' /\ Between'
  BY <1>1 DEF TabInv, TabTypes, Between
<1> QED BY <1>1, <1>2, FlagsKeep

LEMMA TabAlways == ClientsSpec => []TabInv
<1>1. ClientsInit => TabInv
  BY TabInitially DEF ClientsInit
<1>2. ASSUME TabInv, [ClientsNext]_<<part, lanVars, fbVars, eepVars, powerVars, tableVars, z21Vars>>
      PROVE  TabInv'
  <2>1. CASE Table!Next
    BY <1>2, <2>1, TabStep
  <2>2. CASE ~Table!Next
    <3>1. UNCHANGED tableVars
      BY <1>2, <2>2 DEF ClientsNext
    <3> QED BY <1>2, <3>1, TabStill
  <2> QED BY <2>1, <2>2
<1> QED BY <1>1, <1>2, PTL DEF ClientsSpec

(* What was written to a loco under the lock of LocoRepository reaches the *)
(* track, however the unlocked accesses of XpressNetHandler and release()  *)
(* fall between the accesses of nextDirty(): for any number of locos and   *)
(* entries, speeds and functions, and requests.                            *)
THEOREM LockedWritesSent == ClientsSpec => []WrittenIsSent
BY TabArrived, TabAlways, PTL

-----------------------------------------------------------------------------
(* What a client knows of a decoder.                                       *)
(*                                                                         *)
(* A client is sure of a decoder that has reported since the power came    *)
(* on, unless something it should know was lost.  Its reports are at four  *)
(* places: in the queue of the library, in the hand of loop(), on the bus, *)
(* and with the client; _lastSent is the value last let through.  Of a     *)
(* decoder that has not reported, _lastSent is the mark that lets the next *)
(* report through, whatever it says.                                       *)
HandRow  == [report : Fb!Report, stored : BOOLEAN, changed : BOOLEAN]
BusEvent == [type : {"feedback"}, report : Fb!Report] \cup [type : {"on", "off"}]

FbTypes ==
    /\ running \in BOOLEAN
    /\ fbState \in [Decoder -> Value \cup {-1}]
    /\ reports \in Seq(Fb!Report)
    /\ lastSent \in [Decoder -> Value \cup {255}]
    /\ hand = <<>> \/ \E h \in HandRow : hand = <<h>>
    /\ events \in Seq(BusEvent)
    /\ connected \subseteq Client
    /\ view \in [Client -> [Decoder -> Value \cup {-1}]]
    /\ fresh \subseteq Decoder

(* In the queue: a report of d, one that is not x, the last one, v. *)
Waiting(d)    == \E i \in DOMAIN reports : reports[i].decoder = d
Differs(d, x) == \E i \in DOMAIN reports : reports[i].decoder = d /\ reports[i].value # x
LastOf(d, v)  ==
    \E i \in DOMAIN reports :
        /\ reports[i].decoder = d /\ reports[i].value = v
        /\ \A j \in DOMAIN reports : j > i => reports[j].decoder # d

(* In the hand: compared, or stored and about to be published. *)
InHand(d)   == hand # <<>> /\ hand[1].report.decoder = d
Compared(d) == InHand(d) /\ ~hand[1].stored
Stored(d)   == InHand(d) /\ hand[1].stored

(* On the bus. *)
About(e, d)    == e.type = "feedback" /\ e.report.decoder = d
Announced(d)   == \E i \in DOMAIN events : About(events[i], d)
LastTold(d, v) ==
    \E i \in DOMAIN events :
        /\ About(events[i], d) /\ events[i].report.value = v
        /\ \A j \in DOMAIN events : j > i => ~About(events[j], d)

(* Reports that will be let through are still to come. *)
News(d) == Differs(d, lastSent[d]) \/ (Compared(d) /\ hand[1].report.value # lastSent[d])

(* What the library knows of d is the last of what is to come, or was sent. *)
Latter(d) ==
    IF Waiting(d) THEN LastOf(d, fbState[d])
    ELSE IF Compared(d) THEN fbState[d] = hand[1].report.value
    ELSE fbState[d] = lastSent[d]

HandRight(d) ==
    /\ Compared(d) => hand[1].changed = (lastSent[d] # hand[1].report.value)
    /\ Stored(d) => hand[1].report.value = lastSent[d]

(* What c knows of d, or is going to be told, is what was sent last, or    *)
(* there are news.                                                         *)
Informed(c, d) ==
    \/ Stored(d) \/ News(d) \/ LastTold(d, lastSent[d])
    \/ ~Announced(d) /\ (c \in connected => view[c][d] = lastSent[d])

Sure(c, d)   == running /\ d \in fresh /\ <<c, d>> \notin untold
Marked(c, d) == running /\ d \notin fresh /\ <<c, d>> \notin untold

Tracked(c, d) ==
    /\ Sure(c, d) => Latter(d) /\ HandRight(d) /\ Informed(c, d)
    /\ Marked(c, d) => lastSent[d] = 255 /\ ~Waiting(d) /\ ~InHand(d)

FbInv == FbTypes /\ \A c \in Client, d \in Decoder : Tracked(c, d)

LEMMA FbInitially == Fb!Init => FbInv
<1> SUFFICES ASSUME Fb!Init PROVE FbInv
  OBVIOUS
<1>1. \A S : <<>> \in Seq(S)
  OBVIOUS
<1>2. running = FALSE /\ reports = <<>> /\ hand = <<>> /\ events = <<>> /\ connected = {}
      /\ fresh = {}
  BY DEF Fb!Init
<1>3. /\ fbState \in [Decoder -> Value \cup {-1}]
      /\ lastSent \in [Decoder -> Value \cup {255}]
      /\ view \in [Client -> [Decoder -> Value \cup {-1}]]
  BY ClientsAssumption DEF Fb!Init, Fb!Unseen
<1>4. FbTypes
  BY <1>1, <1>2, <1>3 DEF FbTypes
<1> QED BY <1>2, <1>4 DEF FbInv, Tracked, Sure, Marked

LEMMA FbTells == FbInv => FeedbackTold
<1> SUFFICES ASSUME FbInv, running, reports = <<>>, hand = <<>>, events = <<>>,
                    NEW c \in connected, NEW d \in fresh, <<c, d>> \notin untold
             PROVE  view[c][d] = fbState[d]
  BY DEF FeedbackTold, Fb!FeedbackTold
<1>1. c \in Client /\ d \in Decoder
  BY DEF FbInv, FbTypes
<1>2. Latter(d) /\ Informed(c, d)
  BY <1>1 DEF FbInv, Tracked, Sure
<1>3. DOMAIN reports = {} /\ DOMAIN events = {}
  OBVIOUS
<1>4. ~InHand(d) /\ ~Waiting(d) /\ ~Differs(d, lastSent[d]) /\ ~LastTold(d, lastSent[d])
  BY <1>3 DEF InHand, Waiting, Differs, LastTold
<1>5. fbState[d] = lastSent[d]
  BY <1>2, <1>4 DEF Latter, Compared
<1>6. view[c][d] = lastSent[d]
  BY <1>2, <1>4 DEF Informed, Stored, News, Compared
<1> QED BY <1>5, <1>6

-----------------------------------------------------------------------------
(* The queue of the library and the bus, when they grow and when they      *)
(* shrink.                                                                 *)
LEMMA ReportsGrow ==
    ASSUME reports \in Seq(Fb!Report), NEW r \in Fb!Report, reports' = Append(reports, r),
           NEW d
    PROVE  /\ r.decoder = d => Waiting(d)' /\ LastOf(d, r.value)'
           /\ r.decoder # d => (Waiting(d)' <=> Waiting(d))
           /\ r.decoder # d => \A v : LastOf(d, v) => LastOf(d, v)'
           /\ \A x : Differs(d, x) => Differs(d, x)'
           /\ r.decoder = d => \A x : r.value # x => Differs(d, x)'
<1> DEFINE n == Len(reports)
<1>1. /\ n \in Nat /\ DOMAIN reports = 1 .. n /\ DOMAIN reports' = 1 .. (n + 1)
      /\ reports'[n + 1] = r /\ \A i \in 1 .. n : reports'[i] = reports[i]
  BY AppendProperties
<1> HIDE DEF n
<1>2. n + 1 \in DOMAIN reports' /\ \A j \in DOMAIN reports' : ~(j > n + 1)
  BY <1>1
<1>3. r.decoder = d => Waiting(d)' /\ LastOf(d, r.value)'
  BY <1>1, <1>2 DEF Waiting, LastOf
<1>4. r.decoder # d => (Waiting(d)' <=> Waiting(d))
  BY <1>1 DEF Waiting
<1>5. r.decoder # d => \A v : LastOf(d, v) => LastOf(d, v)'
  BY <1>1 DEF LastOf
<1>6. \A x : Differs(d, x) => Differs(d, x)'
  BY <1>1 DEF Differs
<1>7. r.decoder = d => \A x : r.value # x => Differs(d, x)'
  BY <1>1, <1>2 DEF Differs
<1> QED BY <1>3, <1>4, <1>5, <1>6, <1>7

LEMMA ReportsShrink ==
    ASSUME reports \in Seq(Fb!Report), reports # <<>>, reports' = Tail(reports),
           NEW r, r = Head(reports), NEW d
    PROVE  /\ r.decoder # d => (Waiting(d)' <=> Waiting(d))
           /\ \A v : LastOf(d, v) /\ Waiting(d)' => LastOf(d, v)'
           /\ \A v : LastOf(d, v) /\ ~Waiting(d)' => r.decoder = d /\ r.value = v
           /\ \A x : Differs(d, x) => Differs(d, x)' \/ (r.decoder = d /\ r.value # x)
           /\ r.decoder = d => Waiting(d)
<1> DEFINE n == Len(reports)
<1>1. /\ n \in Nat /\ n # 0 /\ DOMAIN reports = 1 .. n /\ DOMAIN reports' = 1 .. (n - 1)
      /\ reports[1] = r /\ \A i \in 1 .. (n - 1) : reports'[i] = reports[i + 1]
  BY HeadTailProperties
<1> HIDE DEF n
<1>2. \A i \in 1 .. n : i # 1 => /\ i - 1 \in DOMAIN reports'
                                 /\ reports'[i - 1] = reports[i]
  BY <1>1
<1>3. \A i \in DOMAIN reports' : i + 1 \in 1 .. n /\ i + 1 # 1
  BY <1>1
<1>4. ASSUME r.decoder # d PROVE Waiting(d)' <=> Waiting(d)
  <2>1. ASSUME Waiting(d) PROVE Waiting(d)'
    <3>1. PICK i \in 1 .. n : reports[i].decoder = d
      BY <1>1, <2>1 DEF Waiting
    <3> QED BY <1>1, <1>2, <1>4, <3>1 DEF Waiting
  <2>2. ASSUME Waiting(d)' PROVE Waiting(d)
    <3>1. PICK i \in DOMAIN reports' : reports'[i].decoder = d
      BY <2>2 DEF Waiting
    <3>2. i \in 1 .. (n - 1) /\ reports[i + 1].decoder = d
      BY <1>1, <3>1
    <3> QED BY <1>1, <1>3, <3>2 DEF Waiting
  <2> QED BY <2>1, <2>2
<1>5. ASSUME NEW v, LastOf(d, v), Waiting(d)' PROVE LastOf(d, v)'
  <2>1. PICK i \in 1 .. n : /\ reports[i].decoder = d /\ reports[i].value = v
                            /\ \A j \in 1 .. n : j > i => reports[j].decoder # d
    BY <1>1, <1>5 DEF LastOf
  <2>2. PICK k \in DOMAIN reports' : reports[k + 1].decoder = d
    BY <1>1, <1>5 DEF Waiting
  <2>3. i # 1
    BY <1>1, <1>3, <2>1, <2>2
  <2>4. \A j \in DOMAIN reports' : j > i - 1 => reports'[j].decoder # d
    BY <1>1, <1>3, <2>1
  <2> QED BY <1>2, <2>1, <2>3, <2>4 DEF LastOf
<1>6. ASSUME NEW v, LastOf(d, v), ~Waiting(d)' PROVE r.decoder = d /\ r.value = v
  <2>1. PICK i \in 1 .. n : reports[i].decoder = d /\ reports[i].value = v
    BY <1>1, <1>6 DEF LastOf
  <2>2. i = 1
    BY <1>2, <1>6, <2>1 DEF Waiting
  <2> QED BY <1>1, <2>1, <2>2
<1>7. \A x : Differs(d, x) => Differs(d, x)' \/ (r.decoder = d /\ r.value # x)
  BY <1>1, <1>2 DEF Differs
<1>8. r.decoder = d => Waiting(d)
  <2>1. 1 \in DOMAIN reports
    BY <1>1
  <2> QED BY <1>1, <2>1 DEF Waiting
<1> QED BY <1>4, <1>5, <1>6, <1>7, <1>8

LEMMA EventsGrow ==
    ASSUME events \in Seq(BusEvent), NEW e \in BusEvent, events' = Append(events, e), NEW d
    PROVE  /\ About(e, d) => LastTold(d, e.report.value)'
           /\ ~About(e, d) => /\ Announced(d)' <=> Announced(d)
                              /\ \A v : LastTold(d, v) => LastTold(d, v)'
<1> DEFINE n == Len(events)
<1>1. /\ n \in Nat /\ DOMAIN events = 1 .. n /\ DOMAIN events' = 1 .. (n + 1)
      /\ events'[n + 1] = e /\ \A i \in 1 .. n : events'[i] = events[i]
  BY AppendProperties
<1> HIDE DEF n
<1>2. n + 1 \in DOMAIN events' /\ \A j \in DOMAIN events' : ~(j > n + 1)
  BY <1>1
<1>3. About(e, d) => LastTold(d, e.report.value)'
  BY <1>1, <1>2 DEF LastTold
<1>4. ~About(e, d) => (Announced(d)' <=> Announced(d))
  BY <1>1 DEF Announced
<1>5. ~About(e, d) => \A v : LastTold(d, v) => LastTold(d, v)'
  BY <1>1 DEF LastTold
<1> QED BY <1>3, <1>4, <1>5

LEMMA EventsShrink ==
    ASSUME events \in Seq(BusEvent), events # <<>>, events' = Tail(events),
           NEW e, e = Head(events), NEW d
    PROVE  /\ ~About(e, d) => (Announced(d)' <=> Announced(d))
           /\ About(e, d) => Announced(d)
           /\ \A v : LastTold(d, v) =>
                 LastTold(d, v)' \/ (About(e, d) /\ e.report.value = v /\ ~Announced(d)')
<1> DEFINE n == Len(events)
<1>1. /\ n \in Nat /\ n # 0 /\ DOMAIN events = 1 .. n /\ DOMAIN events' = 1 .. (n - 1)
      /\ events[1] = e /\ \A i \in 1 .. (n - 1) : events'[i] = events[i + 1]
  BY HeadTailProperties
<1> HIDE DEF n
<1>2. \A i \in 1 .. n : i # 1 => i - 1 \in DOMAIN events' /\ events'[i - 1] = events[i]
  BY <1>1
<1>3. \A i \in DOMAIN events' : i + 1 \in 1 .. n /\ i + 1 # 1
  BY <1>1
<1>4. ~About(e, d) => (Announced(d)' <=> Announced(d))
  BY <1>1, <1>2, <1>3 DEF Announced
<1>5. About(e, d) => Announced(d)
  <2>1. 1 \in DOMAIN events
    BY <1>1
  <2> QED BY <1>1, <2>1 DEF Announced
<1>6. ASSUME NEW v, LastTold(d, v)
      PROVE  LastTold(d, v)' \/ (About(e, d) /\ e.report.value = v /\ ~Announced(d)')
  <2>1. PICK i \in 1 .. n : /\ About(events[i], d) /\ events[i].report.value = v
                            /\ \A j \in 1 .. n : j > i => ~About(events[j], d)
    BY <1>1, <1>6 DEF LastTold
  <2>2. CASE i = 1
    <3>1. \A j \in DOMAIN events' : ~About(events'[j], d)
      BY <1>1, <1>3, <2>1, <2>2
    <3> QED BY <1>1, <2>1, <2>2, <3>1 DEF Announced
  <2>3. CASE i # 1
    <3>1. \A j \in DOMAIN events' : j > i - 1 => ~About(events'[j], d)
      BY <1>1, <1>3, <2>1
    <3> QED BY <1>2, <2>1, <2>3, <3>1 DEF LastTold
  <2> QED BY <2>2, <2>3
<1> QED BY <1>4, <1>5, <1>6

(* What an action leaves alone, and the types of what it reads.            *)
LEMMA QueueStill ==
    ASSUME UNCHANGED reports, NEW d
    PROVE  /\ Waiting(d)' <=> Waiting(d)
           /\ \A v : LastOf(d, v)' <=> LastOf(d, v)
           /\ \A x : Differs(d, x)' <=> Differs(d, x)
BY DEF Waiting, LastOf, Differs

LEMMA HandStill ==
    ASSUME UNCHANGED hand, NEW d
    PROVE  (InHand(d)' <=> InHand(d)) /\ (Compared(d)' <=> Compared(d)) /\ (Stored(d)' <=> Stored(d))
BY DEF InHand, Compared, Stored

LEMMA BusStill ==
    ASSUME UNCHANGED events, NEW d
    PROVE  (Announced(d)' <=> Announced(d)) /\ \A v : LastTold(d, v)' <=> LastTold(d, v)
BY DEF Announced, LastTold

LEMMA HandTyped ==
    ASSUME FbTypes, NEW d, InHand(d)
    PROVE  hand[1].report.value \in Value /\ hand[1].report.decoder = d
BY DEF FbTypes, HandRow, InHand, Fb!Report

LEMMA MarksApart == 255 \notin Value /\ -1 \notin Value
BY ClientsAssumption

-----------------------------------------------------------------------------
(* A report is taken in.                                                   *)
LEMMA ReportKept ==
    ASSUME FbInv, NEW r \in Fb!Report, Fb!DecoderReports(r)
    PROVE  FbInv'
<1>1. /\ running /\ reports' = Append(reports, r)
      /\ fbState' = [fbState EXCEPT ![r.decoder] = r.value]
      /\ fresh' = fresh \cup {r.decoder}
      /\ UNCHANGED <<running, lastSent, hand, events, connected, view, untold>>
  BY DEF Fb!DecoderReports
<1>2. r.decoder \in Decoder /\ r.value \in Value
  BY DEF Fb!Report
<1>3. FbTypes
  BY DEF FbInv
<1>4. FbTypes'
  BY <1>1, <1>2, <1>3, AppendProperties DEF FbTypes
<1>5. ASSUME NEW c \in Client, NEW d \in Decoder, r.decoder # d PROVE Tracked(c, d)'
  <2>1. /\ Waiting(d)' <=> Waiting(d)
        /\ \A v : LastOf(d, v) => LastOf(d, v)'
        /\ \A x : Differs(d, x) => Differs(d, x)'
    BY <1>1, <1>3, <1>5, ReportsGrow DEF FbTypes
  <2>2. (InHand(d)' <=> InHand(d)) /\ (Compared(d)' <=> Compared(d)) /\ (Stored(d)' <=> Stored(d))
    BY <1>1, HandStill
  <2>3. (Announced(d)' <=> Announced(d)) /\ \A v : LastTold(d, v)' <=> LastTold(d, v)
    BY <1>1, BusStill
  <2>4. fbState'[d] = fbState[d]
    BY <1>1, <1>3, <1>5 DEF FbTypes
  <2>5. (Sure(c, d)' => Sure(c, d)) /\ (Marked(c, d)' => Marked(c, d))
    BY <1>1, <1>5 DEF Sure, Marked
  <2>6. Latter(d) => Latter(d)'
    BY <1>1, <2>1, <2>2, <2>4 DEF Latter
  <2>7. HandRight(d) => HandRight(d)'
    BY <1>1, <2>2 DEF HandRight
  <2>8. Informed(c, d) => Informed(c, d)'
    BY <1>1, <2>1, <2>2, <2>3 DEF Informed, News
  <2> QED BY <1>1, <2>1, <2>2, <2>5, <2>6, <2>7, <2>8 DEF FbInv, Tracked
<1>6. ASSUME NEW c \in Client, NEW d \in Decoder, r.decoder = d PROVE Tracked(c, d)'
  <2>1. /\ Waiting(d)' /\ LastOf(d, r.value)'
        /\ \A x : Differs(d, x) => Differs(d, x)'
        /\ \A x : r.value # x => Differs(d, x)'
    BY <1>1, <1>3, <1>6, ReportsGrow DEF FbTypes
  <2>2. (InHand(d)' <=> InHand(d)) /\ (Compared(d)' <=> Compared(d)) /\ (Stored(d)' <=> Stored(d))
    BY <1>1, HandStill
  <2>3. (Announced(d)' <=> Announced(d)) /\ \A v : LastTold(d, v)' <=> LastTold(d, v)
    BY <1>1, BusStill
  <2>4. fbState'[d] = r.value
    BY <1>1, <1>3, <1>6 DEF FbTypes
  <2>5. ~Marked(c, d)' /\ (Sure(c, d)' => Sure(c, d) \/ Marked(c, d))
    BY <1>1, <1>6 DEF Sure, Marked
  <2>6. Latter(d)'
    BY <2>1, <2>4 DEF Latter
  <2>7. CASE Sure(c, d)
    <3>1. HandRight(d) /\ Informed(c, d)
      BY <2>7 DEF FbInv, Tracked
    <3>2. HandRight(d)'
      BY <1>1, <2>2, <3>1 DEF HandRight
    <3>3. Informed(c, d)'
      BY <1>1, <2>1, <2>2, <2>3, <3>1 DEF Informed, News
    <3> QED BY <2>5, <2>6, <3>2, <3>3 DEF Tracked
  <2>8. CASE Marked(c, d)
    <3>1. lastSent[d] = 255 /\ ~InHand(d)
      BY <2>8 DEF FbInv, Tracked
    <3>2. HandRight(d)'
      BY <2>2, <3>1 DEF HandRight, Compared, Stored
    <3>3. Differs(d, lastSent[d])'
      BY <1>1, <1>2, <2>1, <3>1, MarksApart
    <3>4. Informed(c, d)'
      BY <3>3 DEF Informed, News
    <3> QED BY <2>5, <2>6, <3>2, <3>4 DEF Tracked
  <2> QED BY <2>5, <2>7, <2>8 DEF Tracked
<1> QED BY <1>4, <1>5, <1>6 DEF FbInv

-----------------------------------------------------------------------------
(* A report is compared, stored and published.                             *)
LEMMA ReportCompared ==
    ASSUME FbInv, Fb!Compare
    PROVE  FbInv'
<1>1. /\ hand = <<>> /\ reports # <<>> /\ reports' = Tail(reports)
      /\ hand' = << [report  |-> Head(reports), stored |-> FALSE,
                     changed |-> lastSent[Head(reports).decoder] # Head(reports).value] >>
      /\ UNCHANGED <<running, fbState, lastSent, events, connected, view, fresh, untold>>
  BY DEF Fb!Compare
<1>2. FbTypes
  BY DEF FbInv
<1>3. PICK r \in Fb!Report : r = Head(reports)
  BY <1>1, <1>2, HeadTailProperties DEF FbTypes
<1>4. PICK h \in HandRow : /\ hand' = <<h>> /\ h.report = r /\ h.stored = FALSE
                           /\ h.changed = (lastSent[r.decoder] # r.value)
  <2>1. PICK b \in BOOLEAN : b = (lastSent[r.decoder] # r.value)
    OBVIOUS
  <2>2. hand' = << [report |-> r, stored |-> FALSE, changed |-> b] >>
    BY <1>1, <1>3, <2>1
  <2>3. [report |-> r, stored |-> FALSE, changed |-> b] \in HandRow
    BY DEF HandRow
  <2> QED BY <2>1, <2>2, <2>3
<1>5. FbTypes'
  BY <1>1, <1>2, <1>4, HeadTailProperties DEF FbTypes
<1>6. hand' # <<>> /\ hand'[1] = h
  BY <1>4
<1>7. ASSUME NEW c \in Client, NEW d \in Decoder PROVE Tracked(c, d)'
  <2>1. /\ r.decoder # d => (Waiting(d)' <=> Waiting(d))
        /\ \A v : LastOf(d, v) /\ Waiting(d)' => LastOf(d, v)'
        /\ \A v : LastOf(d, v) /\ ~Waiting(d)' => r.decoder = d /\ r.value = v
        /\ \A x : Differs(d, x) => Differs(d, x)' \/ (r.decoder = d /\ r.value # x)
        /\ r.decoder = d => Waiting(d)
    BY <1>1, <1>2, <1>3, ReportsShrink DEF FbTypes
  <2>2. ~InHand(d) /\ ~Compared(d) /\ ~Stored(d)
    BY <1>1 DEF InHand, Compared, Stored
  <2>3. (InHand(d)' <=> r.decoder = d) /\ (Compared(d)' <=> r.decoder = d) /\ ~Stored(d)'
    BY <1>4, <1>6 DEF InHand, Compared, Stored
  <2>4. (Announced(d)' <=> Announced(d)) /\ \A v : LastTold(d, v)' <=> LastTold(d, v)
    BY <1>1, BusStill
  <2>5. (Sure(c, d)' => Sure(c, d)) /\ (Marked(c, d)' => Marked(c, d))
    BY <1>1 DEF Sure, Marked
  <2>6. Latter(d) => Latter(d)'
    BY <1>1, <1>4, <1>6, <2>1, <2>2, <2>3 DEF Latter
  <2>7. HandRight(d)'
    BY <1>1, <1>4, <1>6, <2>3 DEF HandRight
  <2>8. Informed(c, d) => Informed(c, d)'
    BY <1>1, <1>4, <1>6, <2>1, <2>2, <2>3, <2>4 DEF Informed, News
  <2>9. Marked(c, d) => lastSent[d] = 255 /\ ~Waiting(d)' /\ ~InHand(d)'
    BY <2>1, <2>3 DEF FbInv, Tracked
  <2> QED BY <1>1, <2>5, <2>6, <2>7, <2>8, <2>9 DEF FbInv, Tracked
<1> QED BY <1>5, <1>7 DEF FbInv

LEMMA ReportStored ==
    ASSUME FbInv, NEW filter \in BOOLEAN, Fb!Store(filter)
    PROVE  FbInv'
<1>1. FbTypes
  BY DEF FbInv
<1>2. PICK h \in HandRow : hand = <<h>>
  BY <1>1 DEF FbTypes, Fb!Store
<1>3. hand # <<>> /\ hand[1] = h
  BY <1>2
<1>4. PICK g \in HandRow : /\ g = [h EXCEPT !.stored = TRUE]
                           /\ g.stored /\ g.report = h.report
  <2> DEFINE g == [h EXCEPT !.stored = TRUE]
  <2>1. g \in HandRow
    BY DEF HandRow
  <2>2. g.stored
    BY DEF HandRow
  <2>3. g.report = h.report
    BY DEF HandRow
  <2> QED BY <2>1, <2>2, <2>3
<1>5. /\ ~h.stored
      /\ lastSent' = [lastSent EXCEPT ![h.report.decoder] = h.report.value]
      /\ hand' = IF filter /\ ~h.changed THEN <<>> ELSE <<g>>
      /\ UNCHANGED <<running, fbState, reports, events, connected, view, fresh, untold>>
  BY <1>3, <1>4 DEF Fb!Store
<1>6. h.report.decoder \in Decoder /\ h.report.value \in Value
  BY DEF HandRow, Fb!Report
<1>7. FbTypes'
  BY <1>1, <1>5, <1>6 DEF FbTypes
<1>8. ASSUME NEW c \in Client, NEW d \in Decoder PROVE Tracked(c, d)'
  <2>1. /\ Waiting(d)' <=> Waiting(d)
        /\ \A v : LastOf(d, v)' <=> LastOf(d, v)
        /\ \A x : Differs(d, x)' <=> Differs(d, x)
    BY <1>5, QueueStill
  <2>2. (Announced(d)' <=> Announced(d)) /\ \A v : LastTold(d, v)' <=> LastTold(d, v)
    BY <1>5, BusStill
  <2>3. (Sure(c, d)' => Sure(c, d)) /\ (Marked(c, d)' => Marked(c, d))
    BY <1>5 DEF Sure, Marked
  <2>4. (InHand(d) <=> h.report.decoder = d) /\ (Compared(d) <=> h.report.decoder = d) /\ ~Stored(d)
    BY <1>3, <1>5 DEF InHand, Compared, Stored
  <2>5. /\ ~Compared(d)'
        /\ InHand(d)' => h.report.decoder = d
        /\ Stored(d)' => h.report.decoder = d /\ hand'[1].report.value = h.report.value
        /\ ~(filter /\ ~h.changed) => (Stored(d)' <=> h.report.decoder = d)
    <3>1. CASE filter /\ ~h.changed
      <4>1. hand' = <<>>
        BY <1>5, <3>1
      <4> QED BY <3>1, <4>1 DEF InHand, Compared, Stored
    <3>2. CASE ~(filter /\ ~h.changed)
      <4>1. hand' = <<g>>
        BY <1>5, <3>2
      <4>2. hand' # <<>> /\ hand'[1] = g
        BY <4>1
      <4> QED BY <1>4, <3>2, <4>2 DEF InHand, Compared, Stored
    <3> QED BY <3>1, <3>2
  <2>6. CASE h.report.decoder # d
    <3>1. lastSent'[d] = lastSent[d]
      BY <1>1, <1>5, <2>6 DEF FbTypes
    <3>2. ~Stored(d)' /\ ~InHand(d)'
      BY <2>5, <2>6
    <3>3. Latter(d) => Latter(d)'
      BY <1>5, <2>1, <2>4, <2>5, <2>6, <3>1 DEF Latter
    <3>4. HandRight(d)'
      BY <2>5, <3>2 DEF HandRight
    <3>5. Informed(c, d) => Informed(c, d)'
      BY <1>5, <2>1, <2>2, <2>4, <2>5, <2>6, <3>1, <3>2 DEF Informed, News
    <3> QED BY <2>1, <2>3, <3>1, <3>2, <3>3, <3>4, <3>5 DEF FbInv, Tracked
  <2>7. CASE h.report.decoder = d
    <3>1. lastSent'[d] = h.report.value
      BY <1>1, <1>5, <2>7 DEF FbTypes
    <3>2. ~Marked(c, d)
      BY <2>4, <2>7 DEF FbInv, Tracked
    <3>3. Latter(d) => Latter(d)'
      BY <1>3, <1>5, <2>1, <2>4, <2>5, <2>7, <3>1 DEF Latter
    <3>4. HandRight(d)'
      BY <2>5, <3>1 DEF HandRight
    <3>5. ASSUME HandRight(d), Informed(c, d) PROVE Informed(c, d)'
      <4>1. CASE ~(filter /\ ~h.changed)
        BY <2>5, <2>7, <4>1 DEF Informed
      <4>2. CASE filter /\ ~h.changed
        <5>1. lastSent[d] = h.report.value
          BY <1>3, <2>4, <2>7, <3>5, <4>2 DEF HandRight
        <5> QED BY <1>3, <1>5, <2>1, <2>2, <2>4, <3>1, <3>5, <5>1 DEF Informed, News
      <4> QED BY <4>1, <4>2
    <3> QED BY <2>3, <3>2, <3>3, <3>4, <3>5 DEF FbInv, Tracked
  <2> QED BY <2>6, <2>7
<1> QED BY <1>7, <1>8 DEF FbInv

LEMMA ReportPublished ==
    ASSUME FbInv, Fb!Publish
    PROVE  FbInv'
<1>1. FbTypes
  BY DEF FbInv
<1>2. PICK h \in HandRow : hand = <<h>>
  BY <1>1 DEF FbTypes, Fb!Publish
<1>3. hand # <<>> /\ hand[1] = h
  BY <1>2
<1>4. h.report.decoder \in Decoder /\ h.report.value \in Value /\ h.report \in Fb!Report
  BY DEF HandRow, Fb!Report
<1>5. PICK e \in BusEvent : e = [type |-> "feedback", report |-> h.report]
  BY <1>4 DEF BusEvent
<1>6. /\ h.stored /\ hand' = <<>>
      /\ \/ events' = Append(events, e) /\ UNCHANGED untold
         \/ untold' = untold \cup (Client \X {h.report.decoder}) /\ UNCHANGED events
      /\ UNCHANGED <<running, fbState, reports, lastSent, connected, view, fresh>>
  BY <1>3, <1>5 DEF Fb!Publish
<1>7. events' \in Seq(BusEvent)
  BY <1>1, <1>6, AppendProperties DEF FbTypes
<1>8. FbTypes'
  BY <1>1, <1>6, <1>7 DEF FbTypes
<1>9. ASSUME NEW c \in Client, NEW d \in Decoder PROVE Tracked(c, d)'
  <2>1. /\ Waiting(d)' <=> Waiting(d)
        /\ \A v : LastOf(d, v)' <=> LastOf(d, v)
        /\ \A x : Differs(d, x)' <=> Differs(d, x)
    BY <1>6, QueueStill
  <2>2. (Sure(c, d)' => Sure(c, d)) /\ (Marked(c, d)' => Marked(c, d))
    BY <1>6 DEF Sure, Marked
  <2>3. (InHand(d) <=> h.report.decoder = d) /\ (Stored(d) <=> h.report.decoder = d) /\ ~Compared(d)
    BY <1>3, <1>6 DEF InHand, Compared, Stored
  <2>4. ~InHand(d)' /\ ~Stored(d)' /\ ~Compared(d)'
    BY <1>6 DEF InHand, Compared, Stored
  <2>5. Latter(d) => Latter(d)'
    BY <1>6, <2>1, <2>3, <2>4 DEF Latter
  <2>6. HandRight(d)'
    BY <2>4 DEF HandRight
  <2>7. ASSUME h.report.decoder # d, Informed(c, d) PROVE Informed(c, d)'
    <3>1. ~About(e, d)
      BY <1>5, <2>7 DEF About
    <3>2. (Announced(d)' <=> Announced(d)) /\ \A v : LastTold(d, v) => LastTold(d, v)'
      BY <1>1, <1>6, <3>1, EventsGrow, BusStill DEF FbTypes
    <3> QED BY <1>6, <2>1, <2>3, <2>4, <2>7, <3>2 DEF Informed, News
  <2>8. ASSUME h.report.decoder = d, HandRight(d), Sure(c, d)' PROVE Informed(c, d)'
    <3>1. lastSent'[d] = h.report.value
      BY <1>3, <1>6, <2>3, <2>8 DEF HandRight
    <3>2. <<c, d>> \notin untold'
      BY <2>8 DEF Sure
    <3>3. events' = Append(events, e)
      BY <1>6, <2>8, <3>2
    <3>4. About(e, d) /\ e.report.value = h.report.value
      BY <1>5, <2>8 DEF About
    <3>5. LastTold(d, e.report.value)'
      BY <1>1, <3>3, <3>4, EventsGrow DEF FbTypes
    <3> QED BY <3>1, <3>4, <3>5 DEF Informed
  <2>9. Marked(c, d) => h.report.decoder # d /\ lastSent'[d] = 255 /\ ~Waiting(d)'
    BY <1>6, <2>1, <2>3 DEF FbInv, Tracked
  <2> QED BY <2>2, <2>4, <2>5, <2>6, <2>7, <2>8, <2>9 DEF FbInv, Tracked
<1> QED BY <1>8, <1>9 DEF FbInv

-----------------------------------------------------------------------------
(* The track power, the clients and the web page.                          *)
LEMMA PowerEventPosted ==
    ASSUME FbInv, NEW type \in {"on", "off"}, Fb!PowerChanges(type)
    PROVE  FbInv'
<1>1. FbTypes
  BY DEF FbInv
<1>2. PICK e \in BusEvent : e = [type |-> type]
  BY DEF BusEvent
<1>3. /\ events' = Append(events, e)
      /\ UNCHANGED <<running, fbState, reports, lastSent, hand, connected, view, fresh, untold>>
  BY <1>2 DEF Fb!PowerChanges
<1>4. events' \in Seq(BusEvent)
  BY <1>1, <1>3, AppendProperties DEF FbTypes
<1>5. FbTypes'
  BY <1>1, <1>3, <1>4 DEF FbTypes
<1>6. ASSUME NEW c \in Client, NEW d \in Decoder PROVE Tracked(c, d)'
  <2>1. /\ Waiting(d)' <=> Waiting(d)
        /\ \A v : LastOf(d, v)' <=> LastOf(d, v)
        /\ \A x : Differs(d, x)' <=> Differs(d, x)
    BY <1>3, QueueStill
  <2>2. (InHand(d)' <=> InHand(d)) /\ (Compared(d)' <=> Compared(d)) /\ (Stored(d)' <=> Stored(d))
    BY <1>3, HandStill
  <2>3. ~About(e, d)
    BY <1>2 DEF About
  <2>4. (Announced(d)' <=> Announced(d)) /\ \A v : LastTold(d, v) => LastTold(d, v)'
    BY <1>1, <1>3, <2>3, EventsGrow DEF FbTypes
  <2>5. (Sure(c, d)' => Sure(c, d)) /\ (Marked(c, d)' => Marked(c, d))
    BY <1>3 DEF Sure, Marked
  <2>6. (Latter(d) => Latter(d)') /\ (HandRight(d) => HandRight(d)')
    BY <1>3, <2>1, <2>2 DEF Latter, HandRight
  <2>7. Informed(c, d) => Informed(c, d)'
    BY <1>3, <2>1, <2>2, <2>4 DEF Informed, News
  <2> QED BY <1>3, <2>1, <2>2, <2>5, <2>6, <2>7 DEF FbInv, Tracked
<1> QED BY <1>5, <1>6 DEF FbInv

LEMMA HeadTyped ==
    ASSUME FbTypes, events # <<>>
    PROVE  /\ Head(events) \in BusEvent /\ Tail(events) \in Seq(BusEvent)
           /\ Head(events).type = "feedback" => Head(events).report \in Fb!Report
<1>1. events \in Seq(BusEvent)
  BY DEF FbTypes
<1>2. Head(events) \in BusEvent /\ Tail(events) \in Seq(BusEvent)
  BY <1>1, HeadTailProperties
<1>3. \A e \in BusEvent : e.type = "feedback" => e.report \in Fb!Report
  BY DEF BusEvent
<1> QED BY <1>2, <1>3

LEMMA BusStarted ==
    ASSUME FbInv, Fb!OnPowerOn
    PROVE  FbInv'
<1>1. FbTypes
  BY DEF FbInv
<1>2. /\ events # <<>> /\ events' = Tail(events) /\ running' = TRUE /\ fresh' = {}
      /\ lastSent' = [d \in Decoder |-> 255]
      /\ untold' = Client \X {d \in Decoder : Fb!Old(d)}
      /\ UNCHANGED <<fbState, reports, hand, connected, view>>
  BY DEF Fb!OnPowerOn, Fb!Sentinel
<1>3. FbTypes'
  BY <1>1, <1>2, HeadTyped DEF FbTypes
<1>4. ASSUME NEW c \in Client, NEW d \in Decoder PROVE Tracked(c, d)'
  <2>1. ~Sure(c, d)'
    BY <1>2 DEF Sure
  <2>2. lastSent'[d] = 255
    BY <1>2
  <2>3. ASSUME Marked(c, d)' PROVE ~Waiting(d)' /\ ~InHand(d)'
    <3>1. ~Fb!Old(d)
      BY <1>2, <2>3 DEF Marked
    <3> QED BY <1>2, <3>1 DEF Fb!Old, Waiting, InHand
  <2> QED BY <2>1, <2>2, <2>3 DEF Tracked
<1> QED BY <1>3, <1>4 DEF FbInv

LEMMA BusStopped ==
    ASSUME FbInv, NEW clear \in BOOLEAN, Fb!OnPowerOff(clear)
    PROVE  FbInv'
<1>1. FbTypes
  BY DEF FbInv
<1>2. /\ events # <<>> /\ events' = Tail(events) /\ running' = FALSE
      /\ reports' \in {reports, <<>>}
      /\ UNCHANGED <<hand, connected, view, fresh, untold>>
  BY DEF Fb!OnPowerOff
<1>3. /\ lastSent' = [d \in Decoder |-> 0] \/ UNCHANGED lastSent
      /\ fbState' = [d \in Decoder |-> -1] \/ UNCHANGED fbState
  BY DEF Fb!OnPowerOff, Fb!ClearAll, Fb!Unseen
<1>4. reports' \in Seq(Fb!Report)
  <2>1. \A S : <<>> \in Seq(S)
    OBVIOUS
  <2>2. <<>> \in Seq(Fb!Report) /\ reports \in Seq(Fb!Report)
    BY <1>1, <2>1 DEF FbTypes
  <2>3. {reports, <<>>} \subseteq Seq(Fb!Report)
    BY <2>2
  <2> QED BY <1>2, <2>3
<1>5. /\ lastSent' \in [Decoder -> Value \cup {255}]
      /\ fbState' \in [Decoder -> Value \cup {-1}]
  BY <1>1, <1>3, ClientsAssumption DEF FbTypes
<1>6. FbTypes'
  BY <1>1, <1>2, <1>4, <1>5, HeadTyped DEF FbTypes
<1> QED BY <1>2, <1>6 DEF FbInv, Tracked, Sure, Marked

LEMMA ClientsTold ==
    ASSUME FbInv, NEW full \in SUBSET connected, Fb!OnFeedback(full)
    PROVE  FbInv'
<1>1. FbTypes
  BY DEF FbInv
<1>2. PICK e \in BusEvent : e = Head(events) /\ e.type = "feedback" /\ e.report \in Fb!Report
  BY <1>1, HeadTyped DEF Fb!OnFeedback
<1>3. /\ events # <<>> /\ events' = Tail(events)
      /\ view' = [c \in Client |-> IF c \in connected \ full
                                   THEN [view[c] EXCEPT ![e.report.decoder] = e.report.value]
                                   ELSE view[c]]
      /\ untold' = untold \cup (full \X {e.report.decoder})
      /\ UNCHANGED <<running, fbState, reports, lastSent, hand, connected, fresh>>
  BY <1>2 DEF Fb!OnFeedback
<1>4. e.report.decoder \in Decoder /\ e.report.value \in Value
  BY <1>2 DEF Fb!Report
<1>5. view' \in [Client -> [Decoder -> Value \cup {-1}]]
  BY <1>1, <1>3, <1>4 DEF FbTypes
<1>6. FbTypes'
  BY <1>1, <1>3, <1>5, HeadTyped DEF FbTypes
<1>7. ASSUME NEW c \in Client, NEW d \in Decoder PROVE Tracked(c, d)'
  <2>1. /\ Waiting(d)' <=> Waiting(d)
        /\ \A v : LastOf(d, v)' <=> LastOf(d, v)
        /\ \A x : Differs(d, x)' <=> Differs(d, x)
    BY <1>3, QueueStill
  <2>2. (InHand(d)' <=> InHand(d)) /\ (Compared(d)' <=> Compared(d)) /\ (Stored(d)' <=> Stored(d))
    BY <1>3, HandStill
  <2>3. /\ ~About(e, d) => (Announced(d)' <=> Announced(d))
        /\ About(e, d) => Announced(d)
        /\ \A v : LastTold(d, v) =>
              LastTold(d, v)' \/ (About(e, d) /\ e.report.value = v /\ ~Announced(d)')
    BY <1>1, <1>2, <1>3, EventsShrink DEF FbTypes
  <2>4. (Sure(c, d)' => Sure(c, d)) /\ (Marked(c, d)' => Marked(c, d))
    BY <1>3 DEF Sure, Marked
  <2>5. (Latter(d) => Latter(d)') /\ (HandRight(d) => HandRight(d)')
    BY <1>3, <2>1, <2>2 DEF Latter, HandRight
  <2>6. ASSUME Informed(c, d), Sure(c, d)' PROVE Informed(c, d)'
    <3>1. CASE Stored(d) \/ News(d)
      BY <1>3, <2>1, <2>2, <3>1 DEF Informed, News
    <3>2. CASE LastTold(d, lastSent[d])
      <4>1. CASE About(e, d) /\ e.report.value = lastSent[d] /\ ~Announced(d)'
        <5>1. e.report.decoder = d
          BY <4>1 DEF About
        <5>2. c \notin full
          BY <1>3, <2>6, <5>1 DEF Sure
        <5>3. c \in connected => view'[c][d] = e.report.value
          BY <1>1, <1>3, <5>1, <5>2 DEF FbTypes
        <5> QED BY <1>3, <4>1, <5>3 DEF Informed
      <4> QED BY <1>3, <2>3, <3>2, <4>1 DEF Informed
    <3>3. CASE ~Announced(d) /\ (c \in connected => view[c][d] = lastSent[d])
      <4>1. ~About(e, d) /\ ~Announced(d)'
        BY <2>3, <3>3
      <4>2. e.report.decoder # d
        BY <1>2, <4>1 DEF About
      <4>3. view'[c][d] = view[c][d]
        BY <1>1, <1>3, <1>4, <4>2 DEF FbTypes
      <4> QED BY <1>3, <3>3, <4>1, <4>3 DEF Informed
    <3> QED BY <2>6, <3>1, <3>2, <3>3 DEF Informed
  <2> QED BY <1>3, <2>1, <2>2, <2>4, <2>5, <2>6 DEF FbInv, Tracked
<1> QED BY <1>6, <1>7 DEF FbInv

LEMMA ClientWelcomed ==
    ASSUME FbInv, NEW c0 \in Client, Fb!ClientConnects(c0)
    PROVE  FbInv'
<1>1. FbTypes
  BY DEF FbInv
<1>2. /\ connected' = connected \cup {c0} /\ view' = [view EXCEPT ![c0] = fbState]
      /\ UNCHANGED <<running, fbState, reports, lastSent, hand, events, fresh, untold>>
  BY DEF Fb!ClientConnects
<1>3. FbTypes'
  BY <1>1, <1>2 DEF FbTypes
<1>4. ASSUME NEW c \in Client, NEW d \in Decoder PROVE Tracked(c, d)'
  <2>1. /\ Waiting(d)' <=> Waiting(d)
        /\ \A v : LastOf(d, v)' <=> LastOf(d, v)
        /\ \A x : Differs(d, x)' <=> Differs(d, x)
    BY <1>2, QueueStill
  <2>2. (InHand(d)' <=> InHand(d)) /\ (Compared(d)' <=> Compared(d)) /\ (Stored(d)' <=> Stored(d))
    BY <1>2, HandStill
  <2>3. (Announced(d)' <=> Announced(d)) /\ \A v : LastTold(d, v)' <=> LastTold(d, v)
    BY <1>2, BusStill
  <2>4. (Sure(c, d)' => Sure(c, d)) /\ (Marked(c, d)' => Marked(c, d))
    BY <1>2 DEF Sure, Marked
  <2>5. (Latter(d) => Latter(d)') /\ (HandRight(d) => HandRight(d)')
    BY <1>2, <2>1, <2>2 DEF Latter, HandRight
  <2>6. ASSUME Latter(d), ~News(d) PROVE fbState[d] = lastSent[d]
    BY <2>6 DEF Latter, News, Differs, LastOf
  <2>7. ASSUME Latter(d), Informed(c, d) PROVE Informed(c, d)'
    <3>1. CASE Stored(d) \/ News(d) \/ LastTold(d, lastSent[d])
      BY <1>2, <2>1, <2>2, <2>3, <3>1 DEF Informed, News
    <3>2. CASE ~Announced(d) /\ ~News(d) /\ (c \in connected => view[c][d] = lastSent[d])
      <4>1. c = c0 => view'[c][d] = lastSent[d]
        BY <1>1, <1>2, <2>6, <2>7, <3>2 DEF FbTypes
      <4>2. c # c0 => view'[c] = view[c] /\ (c \in connected' <=> c \in connected)
        BY <1>1, <1>2 DEF FbTypes
      <4> QED BY <1>2, <2>3, <3>2, <4>1, <4>2 DEF Informed
    <3> QED BY <2>7, <3>1, <3>2 DEF Informed
  <2> QED BY <1>2, <2>1, <2>2, <2>4, <2>5, <2>7 DEF FbInv, Tracked
<1> QED BY <1>3, <1>4 DEF FbInv

LEMMA ClientLost ==
    ASSUME FbInv, NEW c0 \in Client, Fb!ClientLeaves(c0)
    PROVE  FbInv'
<1>1. FbTypes
  BY DEF FbInv
<1>2. /\ connected' = connected \ {c0} /\ view' = [view EXCEPT ![c0] = [d \in Decoder |-> -1]]
      /\ UNCHANGED <<running, fbState, reports, lastSent, hand, events, fresh, untold>>
  BY DEF Fb!ClientLeaves, Fb!Unseen
<1>3. FbTypes'
  BY <1>1, <1>2 DEF FbTypes
<1>4. ASSUME NEW c \in Client, NEW d \in Decoder PROVE Tracked(c, d)'
  <2>1. /\ Waiting(d)' <=> Waiting(d)
        /\ \A v : LastOf(d, v)' <=> LastOf(d, v)
        /\ \A x : Differs(d, x)' <=> Differs(d, x)
    BY <1>2, QueueStill
  <2>2. (InHand(d)' <=> InHand(d)) /\ (Compared(d)' <=> Compared(d)) /\ (Stored(d)' <=> Stored(d))
    BY <1>2, HandStill
  <2>3. (Announced(d)' <=> Announced(d)) /\ \A v : LastTold(d, v)' <=> LastTold(d, v)
    BY <1>2, BusStill
  <2>4. (Sure(c, d)' => Sure(c, d)) /\ (Marked(c, d)' => Marked(c, d))
    BY <1>2 DEF Sure, Marked
  <2>5. (Latter(d) => Latter(d)') /\ (HandRight(d) => HandRight(d)')
    BY <1>2, <2>1, <2>2 DEF Latter, HandRight
  <2>6. c \in connected' => c \in connected /\ view'[c] = view[c]
    BY <1>1, <1>2 DEF FbTypes
  <2>7. Informed(c, d) => Informed(c, d)'
    BY <1>2, <2>1, <2>2, <2>3, <2>6 DEF Informed, News
  <2> QED BY <1>2, <2>1, <2>2, <2>4, <2>5, <2>7 DEF FbInv, Tracked
<1> QED BY <1>3, <1>4 DEF FbInv

LEMMA TableCleared ==
    ASSUME FbInv, Fb!WebClear
    PROVE  FbInv'
<1>1. FbTypes
  BY DEF FbInv
<1>2. /\ lastSent' = [d \in Decoder |-> 0] /\ fbState' = [d \in Decoder |-> -1]
      /\ untold' = Client \X Decoder
      /\ UNCHANGED <<running, reports, hand, events, connected, view, fresh>>
  BY DEF Fb!WebClear, Fb!ClearAll, Fb!Unseen
<1>3. /\ lastSent' \in [Decoder -> Value \cup {255}]
      /\ fbState' \in [Decoder -> Value \cup {-1}]
  BY <1>2, ClientsAssumption
<1>4. FbTypes'
  BY <1>1, <1>2, <1>3 DEF FbTypes
<1> QED BY <1>2, <1>4 DEF FbInv, Tracked, Sure, Marked

LEMMA FbStays == FbInv /\ UNCHANGED fbVars => FbInv'
<1> SUFFICES ASSUME FbInv, UNCHANGED fbVars PROVE FbInv'
  OBVIOUS
<1> QED BY DEF fbVars, FbInv, FbTypes, Tracked, Sure, Marked, Latter, HandRight, Informed,
               News, Waiting, Differs, LastOf, InHand, Compared, Stored, Announced, LastTold

LEMMA FbStep == FbInv /\ Fb!Next => FbInv'
<1> SUFFICES ASSUME FbInv, Fb!Next PROVE FbInv'
  OBVIOUS
<1>1. ASSUME NEW r \in Fb!Report, Fb!DecoderReports(r) PROVE FbInv'
  BY <1>1, ReportKept
<1>2. CASE Fb!Compare
  BY <1>2, ReportCompared
<1>3. CASE Fb!Publish
  BY <1>3, ReportPublished
<1>4. ASSUME NEW filter \in BOOLEAN, Fb!Store(filter) PROVE FbInv'
  BY <1>4, ReportStored
<1>5. ASSUME NEW type \in {"on", "off"}, Fb!PowerChanges(type) PROVE FbInv'
  BY <1>5, PowerEventPosted
<1>6. CASE Fb!OnPowerOn
  BY <1>6, BusStarted
<1>7. ASSUME NEW clear \in BOOLEAN, Fb!OnPowerOff(clear) PROVE FbInv'
  BY <1>7, BusStopped
<1>8. ASSUME NEW full \in SUBSET connected, Fb!OnFeedback(full) PROVE FbInv'
  BY <1>8, ClientsTold
<1>9. ASSUME NEW c \in Client, Fb!ClientConnects(c) PROVE FbInv'
  BY <1>9, ClientWelcomed
<1>10. ASSUME NEW c \in Client, Fb!ClientLeaves(c) PROVE FbInv'
  BY <1>10, ClientLost
<1>11. CASE Fb!WebClear
  BY <1>11, TableCleared
<1> QED BY <1>1, <1>2, <1>3, <1>4, <1>5, <1>6, <1>7, <1>8, <1>9, <1>10, <1>11 DEF Fb!Next

LEMMA FbAlways == ClientsSpec => []FbInv
<1>1. ClientsInit => FbInv
  BY FbInitially DEF ClientsInit
<1>2. ASSUME FbInv, [ClientsNext]_<<part, lanVars, fbVars, eepVars, powerVars, tableVars, z21Vars>>
      PROVE  FbInv'
  <2>1. CASE Fb!Next
    BY <1>2, <2>1, FbStep
  <2>2. CASE ~Fb!Next
    <3>1. UNCHANGED fbVars
      BY <1>2, <2>2 DEF ClientsNext
    <3> QED BY <1>2, <3>1, FbStays
  <2> QED BY <2>1, <2>2
<1> QED BY <1>1, <1>2, PTL DEF ClientsSpec

(* Once everything has come through, a client knows the value of every     *)
(* decoder that has reported since the power came on, although only        *)
(* changes are sent, unless an event or a message was lost for it: however *)
(* RsBusHal::loop() on core 0 and the events, clients and web pages on     *)
(* core 1 take turns, for any number of clients, decoders and reports.     *)
THEOREM FeedbackKnown == ClientsSpec => []FeedbackTold
BY FbTells, FbAlways, PTL

-----------------------------------------------------------------------------
(* The places of the UDP server.                                           *)
(*                                                                         *)
(* A pass changes the table twice, for the packet and for the limits.      *)
(* Fine and Counts say what a table must be in between; EnteredFine and    *)
(* LimitsKeep are about the two ends, and the actions differ only in what  *)
(* they do to one place in the middle.                                     *)
Z21Row   == [who : Peer \cup {Nobody}, flags : Flag, idle : 0 .. Longest + 1]
Z21Table == [Place -> Z21Row]
InUse(table) == Place \ Of(table, Nobody)

Counts(table, n) == n = Cardinality(InUse(table))

Distinct(table) ==
    \A p, r \in Place :
        table[p].who = table[r].who /\ table[p].who # Nobody => p = r

(* The place of a peer in touch is as old as its last packet and has the   *)
(* flags that it set; all others have those of a new one.                  *)
Fine(table, touch, q, w) ==
    /\ Distinct(table)
    /\ \A c \in touch : \E p \in Place :
          table[p].who = c /\ table[p].flags = w[c] /\ table[p].idle = q[c]
    /\ \A p \in Place :
          table[p].who # Nobody /\ table[p].who \notin touch => table[p].flags = SystemState

Z21Inv ==
    /\ TypeOK
    /\ Counts(client, clientCount)
    /\ Fine(client, inTouch, quiet, wants)

-----------------------------------------------------------------------------
LEMMA LongestIn == Longest \in Limits /\ Longest \in Nat /\ \A m \in Limits : m <= Longest
BY Z21Assumption DEF Longest

LEMMA PlaceFinite == IsFiniteSet(Place) /\ Cardinality(Place) = Places
BY Z21Assumption, FS_Interval DEF Place

LEMMA InUseFinite ==
    ASSUME NEW table
    PROVE  IsFiniteSet(InUse(table)) /\ Cardinality(InUse(table)) \in 0 .. Places
<1>1. InUse(table) \in SUBSET Place BY DEF InUse
<1>2. IsFiniteSet(InUse(table)) /\ Cardinality(InUse(table)) <= Cardinality(Place)
    BY <1>1, PlaceFinite, FS_Subset
<1>3. Cardinality(InUse(table)) \in Nat BY <1>2, FS_CardinalityType
<1>4. QED BY <1>2, <1>3, PlaceFinite, Z21Assumption

LEMMA UnusedRow == Unused \in Z21Row /\ \A c \in Peer : [Unused EXCEPT !.who = c] \in Z21Row
BY Z21Assumption, LongestIn DEF Unused, Z21Row

(* The lowest of some places, which the code finds by a search. *)
LEMMA LowestIn ==
    ASSUME NEW S \in SUBSET Place, S # {}
    PROVE  (CHOOSE p \in S : \A q \in S : p <= q) \in S
<1> DEFINE Less == {ss \in Nat \X Nat : ss[1] < ss[2]}
<1>0. S \in SUBSET Nat BY DEF Place
<1>1. IsWellFoundedOn(Less, Nat) BY NatLessThanWellFounded DEF OpToRel
<1>2. PICK x \in S : \A y \in S : ~(<<y, x>> \in Less)
    BY <1>0, <1>1, WFMin
<1>3. \A y \in S : x <= y
    <2> SUFFICES ASSUME NEW y \in S, y < x PROVE FALSE
        BY <1>0
    <2>1. <<y, x>> \in Less BY <1>0
    <2>2. QED BY <1>2, <2>1
<1>4. QED BY <1>3

-----------------------------------------------------------------------------
(* _checkTimeouts() at the end of a pass *)

LEMMA ExpiredCounted ==
    ASSUME NEW table \in Z21Table, NEW n, Counts(table, n), CheckTimeouts(table, n)
    PROVE  Counts(client', clientCount')
<1>1. Expired(table) \in SUBSET InUse(table) BY DEF Expired, InUse, Of
<1>2. IsFiniteSet(Expired(table)) BY <1>1, InUseFinite, FS_Subset
<1>3. IsFiniteSet(InUse(table) \ Expired(table))
    <2>1. InUse(table) \ Expired(table) \in SUBSET InUse(table) OBVIOUS
    <2>2. QED BY <2>1, InUseFinite, FS_Subset
<1>4. (InUse(table) \ Expired(table)) \cup Expired(table) = InUse(table) BY <1>1
<1>5. (InUse(table) \ Expired(table)) \cap Expired(table) = {} OBVIOUS
<1>6. Cardinality(InUse(table))
        = Cardinality(InUse(table) \ Expired(table)) + Cardinality(Expired(table))
    <2>1. Cardinality((InUse(table) \ Expired(table)) \cup Expired(table))
            = Cardinality(InUse(table) \ Expired(table)) + Cardinality(Expired(table))
              - Cardinality((InUse(table) \ Expired(table)) \cap Expired(table))
        BY <1>2, <1>3, FS_Union
    <2>2. Cardinality((InUse(table) \ Expired(table)) \cap Expired(table)) = 0
        BY <1>5, FS_EmptySet
    <2>3. /\ Cardinality(InUse(table) \ Expired(table)) \in Nat
          /\ Cardinality(Expired(table)) \in Nat
        BY <1>2, <1>3, FS_CardinalityType
    <2>4. QED BY <2>1, <2>2, <2>3, <1>4
<1>7. InUse(client') = InUse(table) \ Expired(table)
    BY DEF CheckTimeouts, InUse, Of, Expired, Unused
<1>8. /\ Cardinality(InUse(table) \ Expired(table)) \in Nat
      /\ Cardinality(Expired(table)) \in Nat
    BY <1>2, <1>3, FS_CardinalityType
<1>9. clientCount' = n - Cardinality(Expired(table)) BY DEF CheckTimeouts
<1>10. n = Cardinality(InUse(table)) BY DEF Counts
<1>11. clientCount' = Cardinality(InUse(client')) BY <1>6, <1>7, <1>8, <1>9, <1>10
<1>12. QED BY <1>11 DEF Counts

LEMMA LimitsKeep ==
    ASSUME TypeOK, NEW table \in Z21Table, NEW n, NEW touch \in SUBSET Peer,
           Counts(table, n), CheckTimeouts(table, n), StillInTouch(touch),
           Fine(table, touch, quiet', wants'),
           quiet' \in [Peer -> 0 .. Longest + 1], wants' \in [Peer -> Flag],
           limit' = limit
    PROVE  Z21Inv'
<1>1. Counts(client', clientCount') BY ExpiredCounted
<1>2. client' \in Z21Table
    BY UnusedRow DEF CheckTimeouts, Z21Table
<1>3. Distinct(client')
    BY DEF Fine, Distinct, CheckTimeouts, Unused
<1>4. ASSUME NEW c \in inTouch'
      PROVE  \E p \in Place : /\ client'[p].who = c /\ client'[p].flags = wants'[c]
                              /\ client'[p].idle = quiet'[c]
    <2>1. c \in touch /\ quiet'[c] <= limit BY <1>4 DEF StillInTouch
    <2>2. PICK p \in Place : /\ table[p].who = c /\ table[p].flags = wants'[c]
                             /\ table[p].idle = quiet'[c]
        BY <2>1 DEF Fine
    <2>3. limit \in Nat /\ quiet'[c] \in Nat
        BY <2>1, LongestIn, Z21Assumption DEF TypeOK
    <2>4. p \notin Expired(table) BY <2>1, <2>2, <2>3 DEF Expired
    <2>5. client'[p] = table[p] BY <2>4 DEF CheckTimeouts
    <2>6. QED BY <2>2, <2>5
<1>5. ASSUME NEW p \in Place, client'[p].who # Nobody, client'[p].who \notin inTouch'
      PROVE  client'[p].flags = SystemState
    <2>1. p \notin Expired(table) /\ client'[p] = table[p]
        BY <1>5 DEF CheckTimeouts, Unused
    <2>2. table[p].who # Nobody BY <1>5, <2>1
    <2>3. CASE table[p].who \notin touch BY <2>1, <2>2, <2>3 DEF Fine
    <2>4. CASE table[p].who \in touch
        <3> DEFINE d == table[p].who
        <3>1. ~(quiet'[d] <= limit) BY <1>5, <2>1, <2>4 DEF StillInTouch
        <3>2. PICK r \in Place : table[r].who = d /\ table[r].idle = quiet'[d]
            BY <2>4 DEF Fine
        <3>3. r = p BY <2>2, <3>2 DEF Fine, Distinct
        <3>4. limit \in Nat /\ quiet'[d] \in Nat
            BY <2>4, LongestIn, Z21Assumption DEF TypeOK
        <3>5. p \in Expired(table) BY <2>2, <3>1, <3>2, <3>3, <3>4 DEF Expired
        <3>6. QED BY <2>1, <3>5
    <2>5. QED BY <2>3, <2>4
<1>6. Fine(client', inTouch', quiet', wants') BY <1>3, <1>4, <1>5 DEF Fine
<1>7. clientCount' \in 0 .. Places BY <1>1, InUseFinite DEF Counts
<1>8. inTouch' \subseteq Peer BY DEF StillInTouch
<1>9. TypeOK' BY <1>2, <1>7, <1>8 DEF TypeOK, Z21Table, Z21Row
<1>10. QED BY <1>1, <1>6, <1>9 DEF Z21Inv

-----------------------------------------------------------------------------
(* _findOrAddClient() at the beginning of a pass *)

LEMMA EnteredFine ==
    ASSUME Z21Inv, NEW c \in Peer
    PROVE  /\ Entered(c) \in Z21Table
           /\ Counts(Entered(c), clientCount + Joins(c))
           /\ Fine(Entered(c), inTouch, quiet, wants)
<1> DEFINE free == Of(client, Nobody)
           low  == CHOOSE p \in free : \A q \in free : p <= q
<1>0. client \in Z21Table /\ clientCount \in Nat
    BY Z21Assumption DEF Z21Inv, TypeOK, Z21Table, Z21Row
<1>1. CASE Of(client, c) # {} \/ free = {}
    <2>1. Entered(c) = client /\ Joins(c) = 0 BY <1>1 DEF Entered, Joins
    <2>2. QED BY <2>1, <1>0 DEF Z21Inv
<1>2. CASE Of(client, c) = {} /\ free # {}
    <2>1. low \in free
        <3>1. free \in SUBSET Place BY DEF Of
        <3>2. QED BY <3>1, <1>2, LowestIn
    <2>2. low \in Place /\ client[low].who = Nobody BY <2>1 DEF Of
    <2>3. /\ Entered(c) = [client EXCEPT ![low] = [Unused EXCEPT !.who = c]]
          /\ Joins(c) = 1
        BY <1>2 DEF Entered, Joins
    <2> HIDE DEF low, free
    <2>4. Entered(c) \in Z21Table BY <1>0, <2>2, <2>3, UnusedRow DEF Z21Table
    <2>5. /\ Entered(c)[low] = [Unused EXCEPT !.who = c]
          /\ \A p \in Place \ {low} : Entered(c)[p] = client[p]
        BY <1>0, <2>2, <2>3 DEF Z21Table
    <2>6. /\ Entered(c)[low].who = c /\ Entered(c)[low].flags = SystemState
          /\ c # Nobody
        BY <2>5, Z21Assumption DEF Unused
    <2>7. \A p \in Place : client[p].who # c BY <1>2 DEF Of
    <2>8. c \notin inTouch BY <2>7 DEF Z21Inv, Fine
    <2>9. Counts(Entered(c), clientCount + Joins(c))
        <3>1. InUse(Entered(c)) = InUse(client) \cup {low}
            BY <2>2, <2>5, <2>6 DEF InUse, Of
        <3>2. low \notin InUse(client) BY <2>2 DEF InUse, Of
        <3>3. Cardinality(InUse(Entered(c))) = Cardinality(InUse(client)) + 1
            BY <3>1, <3>2, InUseFinite, FS_AddElement
        <3>4. QED BY <3>3, <2>3 DEF Z21Inv, Counts
    <2>10. Distinct(Entered(c))
        <3>1. SUFFICES ASSUME NEW p \in Place, NEW r \in Place,
                              Entered(c)[p].who = Entered(c)[r].who,
                              Entered(c)[p].who # Nobody
                       PROVE  p = r
            BY DEF Distinct
        <3>2. CASE p = low \/ r = low
            BY <3>1, <3>2, <2>5, <2>6, <2>7
        <3>3. CASE p # low /\ r # low
            BY <3>1, <3>3, <2>5 DEF Z21Inv, Fine, Distinct
        <3>4. QED BY <3>2, <3>3
    <2>11. ASSUME NEW d \in inTouch
           PROVE  \E p \in Place : /\ Entered(c)[p].who = d
                                   /\ Entered(c)[p].flags = wants[d]
                                   /\ Entered(c)[p].idle = quiet[d]
        <3>1. PICK p \in Place : /\ client[p].who = d /\ client[p].flags = wants[d]
                                 /\ client[p].idle = quiet[d]
            BY <2>11 DEF Z21Inv, Fine
        <3>2. d # Nobody BY <2>11, Z21Assumption DEF Z21Inv, TypeOK
        <3>3. p # low BY <2>2, <3>1, <3>2
        <3>4. QED BY <2>5, <3>1, <3>3
    <2>12. ASSUME NEW p \in Place, Entered(c)[p].who # Nobody,
                  Entered(c)[p].who \notin inTouch
           PROVE  Entered(c)[p].flags = SystemState
        <3>1. CASE p = low BY <3>1, <2>6
        <3>2. CASE p # low BY <3>2, <2>5, <2>12 DEF Z21Inv, Fine
        <3>3. QED BY <3>1, <3>2
    <2>13. QED BY <2>4, <2>9, <2>10, <2>11, <2>12 DEF Fine
<1>3. QED BY <1>1, <1>2

(* A change of rows that leaves everybody in place keeps the count. *)
LEMMA SamePlaces ==
    ASSUME NEW table, NEW new, NEW n, Counts(table, n), Distinct(table),
           \A p \in Place : new[p].who = table[p].who
    PROVE  Counts(new, n) /\ Distinct(new)
<1>1. InUse(new) = InUse(table) BY DEF InUse, Of
<1>2. Counts(new, n) BY <1>1 DEF Counts
<1>3. Distinct(new) BY DEF Distinct
<1>4. QED BY <1>2, <1>3

(* A proper packet makes the row of its sender young; the flags are those  *)
(* that the sender wants.                                                  *)
LEMMA HeardFine ==
    ASSUME TypeOK, NEW table \in Z21Table, NEW new \in Z21Table, NEW n, NEW c \in Peer,
           NEW f \in Flag,
           Counts(table, n), Fine(table, inTouch, quiet, wants),
           \A p \in Place : IF table[p].who = c
                            THEN new[p].who = c /\ new[p].idle = 0 /\ new[p].flags = f
                            ELSE new[p] = table[p],
           quiet' = [quiet EXCEPT ![c] = 0], wants' = [wants EXCEPT ![c] = f],
           NEW touch,
           touch = IF Of(table, c) # {} THEN inTouch \cup {c} ELSE inTouch
    PROVE  Counts(new, n) /\ Fine(new, touch, quiet', wants')
<1>1. \A p \in Place : new[p].who = table[p].who OBVIOUS
<1>2. Counts(new, n) /\ Distinct(new)
    <2>1. Distinct(table) BY DEF Fine
    <2>2. QED BY <1>1, <2>1, SamePlaces
<1>3. /\ quiet'[c] = 0 /\ wants'[c] = f
      /\ \A d \in Peer \ {c} : quiet'[d] = quiet[d] /\ wants'[d] = wants[d]
    BY DEF TypeOK
<1>4. ASSUME NEW d \in touch
      PROVE  \E p \in Place : /\ new[p].who = d /\ new[p].flags = wants'[d]
                              /\ new[p].idle = quiet'[d]
    <2>1. CASE d = c
        <3>1. \E p \in Place : table[p].who = c
            BY <1>4, <2>1 DEF Of, Fine
        <3>2. QED BY <3>1, <2>1, <1>3
    <2>2. CASE d # c
        <3>1. d \in inTouch /\ d \in Peer BY <1>4, <2>2 DEF TypeOK
        <3>2. PICK p \in Place : /\ table[p].who = d /\ table[p].flags = wants[d]
                                 /\ table[p].idle = quiet[d]
            BY <3>1 DEF Fine
        <3>3. new[p] = table[p] BY <3>2, <2>2
        <3>4. QED BY <3>1, <3>2, <3>3, <2>2, <1>3
    <2>3. QED BY <2>1, <2>2
<1>5. ASSUME NEW p \in Place, new[p].who # Nobody, new[p].who \notin touch
      PROVE  new[p].flags = SystemState
    <2>1. CASE table[p].who = c
        <3>1. p \in Of(table, c) BY <2>1 DEF Of
        <3>2. QED BY <3>1, <2>1, <1>1, <1>5
    <2>2. CASE table[p].who # c
        <3>1. new[p] = table[p] /\ table[p].who \notin inTouch BY <2>2, <1>5
        <3>2. QED BY <3>1, <1>5 DEF Fine
    <2>3. QED BY <2>1, <2>2
<1>6. QED BY <1>2, <1>4, <1>5 DEF Fine

-----------------------------------------------------------------------------
(* the actions *)

LEMMA BadPacketKeeps ==
    ASSUME Z21Inv, NEW c \in Peer, BadPacket(c)
    PROVE  Z21Inv'
<1>1. CheckTimeouts(Entered(c), clientCount + Joins(c)) /\ StillInTouch(inTouch)
    BY DEF BadPacket
<1>2. quiet' = quiet /\ wants' = wants /\ limit' = limit BY DEF BadPacket
<1>3. TypeOK /\ inTouch \in SUBSET Peer BY DEF Z21Inv, TypeOK
<1>4. Fine(Entered(c), inTouch, quiet', wants') BY <1>2, EnteredFine
<1>5. quiet' \in [Peer -> 0 .. Longest + 1] /\ wants' \in [Peer -> Flag]
    BY <1>2, <1>3 DEF TypeOK
<1>6. QED BY <1>1, <1>2, <1>3, <1>4, <1>5, EnteredFine, LimitsKeep

LEMMA HeardKeeps ==
    ASSUME Z21Inv, NEW c \in Peer, NEW new \in Z21Table, NEW f \in Flag,
           \A p \in Place : IF Entered(c)[p].who = c
                            THEN new[p].who = c /\ new[p].idle = 0 /\ new[p].flags = f
                            ELSE new[p] = Entered(c)[p],
           CheckTimeouts(new, clientCount + Joins(c)), Heard(c),
           wants' = [wants EXCEPT ![c] = f], limit' = limit
    PROVE  Z21Inv'
<1> DEFINE touch == IF Served(c) THEN inTouch \cup {c} ELSE inTouch
<1>1. TypeOK /\ touch \in SUBSET Peer BY DEF Z21Inv, TypeOK
<1>2. quiet' = [quiet EXCEPT ![c] = 0] /\ StillInTouch(touch) BY DEF Heard
<1>3. touch = IF Of(Entered(c), c) # {} THEN inTouch \cup {c} ELSE inTouch
    BY DEF Served
<1> HIDE DEF touch
<1>4. Counts(new, clientCount + Joins(c)) /\ Fine(new, touch, quiet', wants')
    BY <1>1, <1>2, <1>3, EnteredFine, HeardFine
<1>5. quiet' \in [Peer -> 0 .. Longest + 1] /\ wants' \in [Peer -> Flag]
    BY <1>1, <1>2, LongestIn DEF TypeOK
<1>6. QED BY <1>1, <1>2, <1>4, <1>5, LimitsKeep

LEMMA PacketKeeps ==
    ASSUME Z21Inv, NEW c \in Peer, Packet(c)
    PROVE  Z21Inv'
<1> DEFINE new == [p \in Place |-> IF Entered(c)[p].who = c
                                   THEN [Entered(c)[p] EXCEPT !.idle = 0]
                                   ELSE Entered(c)[p]]
           f   == IF c \in inTouch THEN wants[c] ELSE SystemState
<1>1. CheckTimeouts(new, clientCount + Joins(c)) /\ Heard(c) /\ limit' = limit
    BY DEF Packet, Changed, Seen
<1>2. Entered(c) \in Z21Table /\ Fine(Entered(c), inTouch, quiet, wants) BY EnteredFine
<1>3. new \in Z21Table BY <1>2, LongestIn DEF Z21Table, Z21Row
<1>4. f \in Flag BY Z21Assumption DEF Z21Inv, TypeOK
<1>5. wants' = [wants EXCEPT ![c] = f] BY DEF Packet, Z21Inv, TypeOK
<1>6. ASSUME NEW p \in Place, Entered(c)[p].who = c PROVE Entered(c)[p].flags = f
    <2>0. c # Nobody BY Z21Assumption
    <2>1. CASE c \in inTouch
        <3>1. PICK r \in Place : Entered(c)[r].who = c /\ Entered(c)[r].flags = wants[c]
            BY <2>1, <1>2 DEF Fine
        <3>2. r = p BY <3>1, <1>6, <1>2, <2>0 DEF Fine, Distinct
        <3>3. QED BY <3>1, <3>2, <2>1
    <2>2. CASE c \notin inTouch BY <2>2, <2>0, <1>6, <1>2 DEF Fine
    <2>3. QED BY <2>1, <2>2
<1>7. \A p \in Place : IF Entered(c)[p].who = c
                       THEN new[p].who = c /\ new[p].idle = 0 /\ new[p].flags = f
                       ELSE new[p] = Entered(c)[p]
    BY <1>2, <1>6 DEF Z21Table, Z21Row
<1> HIDE DEF new, f
<1>8. QED BY <1>1, <1>3, <1>4, <1>5, <1>7, HeardKeeps

LEMMA SetBcFlagsKeeps ==
    ASSUME Z21Inv, NEW c \in Peer, NEW f \in Flag, SetBcFlags(c, f)
    PROVE  Z21Inv'
<1> DEFINE new == [p \in Place |-> IF Entered(c)[p].who = c
                                   THEN [[Entered(c)[p] EXCEPT !.idle = 0] EXCEPT !.flags = f]
                                   ELSE Entered(c)[p]]
<1>1. CheckTimeouts(new, clientCount + Joins(c)) /\ Heard(c) /\ limit' = limit
    BY Zenon DEF SetBcFlags, Changed, Seen
<1>2. Entered(c) \in Z21Table BY EnteredFine
<1>3. new \in Z21Table
    <2>1. ASSUME NEW r \in Z21Row
          PROVE  [[r EXCEPT !.idle = 0] EXCEPT !.flags = f] \in Z21Row
        <3>1. [r EXCEPT !.idle = 0] \in Z21Row BY LongestIn DEF Z21Row
        <3>2. QED BY <3>1 DEF Z21Row
    <2>2. QED BY <1>2, <2>1 DEF Z21Table
<1>4. wants' = [wants EXCEPT ![c] = f] BY DEF SetBcFlags
<1>5. \A p \in Place : IF Entered(c)[p].who = c
                       THEN new[p].who = c /\ new[p].idle = 0 /\ new[p].flags = f
                       ELSE new[p] = Entered(c)[p]
    BY <1>2 DEF Z21Table, Z21Row
<1> HIDE DEF new
<1>6. QED BY <1>1, <1>3, <1>4, <1>5, HeardKeeps

LEMMA LogoffKeeps ==
    ASSUME Z21Inv, NEW c \in Peer, Logoff(c)
    PROVE  Z21Inv'
<1> DEFINE new == [p \in Place |-> IF Entered(c)[p].who = c THEN Unused ELSE Entered(c)[p]]
           touch == inTouch \ {c}
<1>1. /\ CheckTimeouts(new, clientCount + Joins(c) - 1) /\ StillInTouch(touch) /\ limit' = limit
      /\ quiet' = [quiet EXCEPT ![c] = 0] /\ wants' = wants
    <2>1. CheckTimeouts(new, clientCount + Joins(c) - 1) BY DEF Logoff, Changed
    <2>2. StillInTouch(touch) BY DEF Logoff
    <2>3. limit' = limit /\ quiet' = [quiet EXCEPT ![c] = 0] /\ wants' = wants
        BY DEF Logoff
    <2>4. QED BY <2>1, <2>2, <2>3
<1>2. /\ Entered(c) \in Z21Table /\ Counts(Entered(c), clientCount + Joins(c))
      /\ Fine(Entered(c), inTouch, quiet, wants)
    BY EnteredFine
<1>3. TypeOK /\ touch \in SUBSET Peer /\ c # Nobody BY Z21Assumption DEF Z21Inv, TypeOK
<1>4. new \in Z21Table BY <1>2, UnusedRow DEF Z21Table
<1>5. PICK p \in Place : Entered(c)[p].who = c BY DEF Logoff, Served, Of
<1>6. \A r \in Place : Entered(c)[r].who = c => r = p
    BY <1>2, <1>3, <1>5 DEF Fine, Distinct
<1>7. \A r \in Place : new[r] = IF r = p THEN Unused ELSE Entered(c)[r]
    BY <1>5, <1>6
<1> HIDE DEF new
<1>8. Counts(new, clientCount + Joins(c) - 1)
    <2>1. InUse(new) = InUse(Entered(c)) \ {p}
        BY <1>7 DEF InUse, Of, Unused
    <2>2. p \in InUse(Entered(c)) BY <1>3, <1>5 DEF InUse, Of
    <2>3. Cardinality(InUse(new)) = Cardinality(InUse(Entered(c))) - 1
        BY <2>1, <2>2, InUseFinite, FS_RemoveElement
    <2>4. clientCount + Joins(c) = Cardinality(InUse(Entered(c))) BY <1>2 DEF Counts
    <2>5. clientCount + Joins(c) - 1 = Cardinality(InUse(new))
        <3>1. Cardinality(InUse(Entered(c))) \in Nat /\ Cardinality(InUse(new)) \in Nat
            BY InUseFinite
        <3>2. clientCount \in Nat /\ Joins(c) \in Nat
            BY <1>3, Z21Assumption DEF TypeOK, Joins
        <3>3. QED BY <2>3, <2>4, <3>1, <3>2
    <2>6. QED BY <2>5 DEF Counts
<1>9. Fine(new, touch, quiet', wants')
    <2>1. Distinct(new) BY <1>2, <1>7 DEF Fine, Distinct, Unused
    <2>2. ASSUME NEW d \in touch
          PROVE  \E r \in Place : /\ new[r].who = d /\ new[r].flags = wants'[d]
                                  /\ new[r].idle = quiet'[d]
        <3>1. PICK r \in Place : /\ Entered(c)[r].who = d /\ Entered(c)[r].flags = wants[d]
                                 /\ Entered(c)[r].idle = quiet[d]
            BY <2>2, <1>2 DEF Fine
        <3>2. new[r] = Entered(c)[r] BY <3>1, <2>2, <1>5, <1>7
        <3>3. quiet'[d] = quiet[d] BY <2>2, <1>1, <1>3 DEF TypeOK
        <3>4. QED BY <3>1, <3>2, <3>3, <1>1
    <2>3. ASSUME NEW r \in Place, new[r].who # Nobody, new[r].who \notin touch
          PROVE  new[r].flags = SystemState
        <3>1. r # p /\ new[r] = Entered(c)[r] BY <2>3, <1>7 DEF Unused
        <3>2. new[r].who \notin inTouch BY <3>1, <2>3, <1>6
        <3>3. QED BY <3>1, <3>2, <2>3, <1>2 DEF Fine
    <2>4. QED BY <2>1, <2>2, <2>3 DEF Fine
<1>10. quiet' \in [Peer -> 0 .. Longest + 1] /\ wants' \in [Peer -> Flag]
    BY <1>1, <1>3, LongestIn DEF TypeOK
<1> HIDE DEF touch
<1>11. QED BY <1>1, <1>3, <1>4, <1>8, <1>9, <1>10, LimitsKeep

LEMMA TickKeeps ==
    ASSUME Z21Inv, Tick
    PROVE  Z21Inv'
<1> DEFINE Older(r) == IF r.who = Nobody \/ r.idle > Longest THEN r
                       ELSE [r EXCEPT !.idle = @ + 1]
           new == [p \in Place |-> Older(client[p])]
<1>1. /\ CheckTimeouts(new, clientCount) /\ StillInTouch(inTouch) /\ limit' = limit
      /\ quiet' = [c \in Peer |-> IF quiet[c] > Longest THEN quiet[c] ELSE quiet[c] + 1]
      /\ wants' = wants
    BY DEF Tick
<1>2. TypeOK /\ inTouch \in SUBSET Peer /\ client \in Z21Table
    BY DEF Z21Inv, TypeOK, Z21Table, Z21Row
<1>3. new \in Z21Table BY <1>2, LongestIn DEF Z21Table, Z21Row
<1>4. \A p \in Place :
          /\ new[p].who = client[p].who /\ new[p].flags = client[p].flags
          /\ client[p].who # Nobody =>
                new[p].idle = IF client[p].idle > Longest THEN client[p].idle
                              ELSE client[p].idle + 1
    BY <1>2 DEF Z21Table, Z21Row
<1> HIDE DEF new
<1>5. Counts(new, clientCount) /\ Distinct(new)
    BY <1>4, SamePlaces DEF Z21Inv, Fine
<1>6. ASSUME NEW c \in inTouch
      PROVE  \E p \in Place : /\ new[p].who = c /\ new[p].flags = wants'[c]
                              /\ new[p].idle = quiet'[c]
    <2>1. PICK p \in Place : /\ client[p].who = c /\ client[p].flags = wants[c]
                             /\ client[p].idle = quiet[c]
        BY <1>6 DEF Z21Inv, Fine
    <2>2. c \in Peer /\ c # Nobody BY <1>6, <1>2, Z21Assumption
    <2>3. QED BY <2>1, <2>2, <1>1, <1>4
<1>7. Fine(new, inTouch, quiet', wants') BY <1>4, <1>5, <1>6 DEF Z21Inv, Fine
<1>8. quiet' \in [Peer -> 0 .. Longest + 1] /\ wants' \in [Peer -> Flag]
    BY <1>1, <1>2, LongestIn DEF TypeOK
<1>9. QED BY <1>1, <1>2, <1>3, <1>5, <1>7, <1>8, LimitsKeep

LEMMA SetLimitKeeps ==
    ASSUME Z21Inv, NEW m \in Limits, SetLimit(m)
    PROVE  Z21Inv'
BY DEF Z21Inv, TypeOK, SetLimit, Counts, InUse, Of, Fine, Distinct

-----------------------------------------------------------------------------
LEMMA Z21Initially == Init => Z21Inv
<1> SUFFICES ASSUME Init PROVE Z21Inv
    OBVIOUS
<1>1. client = [p \in Place |-> Unused] /\ clientCount = 0 BY DEF Init
<1>2. TypeOK
    BY UnusedRow, Z21Assumption, LongestIn DEF Init, TypeOK, Z21Row
<1>3. InUse(client) = {} BY <1>1 DEF InUse, Of, Unused
<1>4. Counts(client, clientCount) BY <1>1, <1>3, FS_EmptySet DEF Counts
<1>5. Fine(client, inTouch, quiet, wants) BY DEF Init, Fine, Distinct, Unused
<1>6. QED BY <1>2, <1>4, <1>5 DEF Z21Inv

LEMMA Z21Step == Z21Inv /\ [Next]_z21Vars => Z21Inv'
<1> SUFFICES ASSUME Z21Inv, [Next]_z21Vars PROVE Z21Inv'
    OBVIOUS
<1>1. CASE UNCHANGED z21Vars
    BY <1>1 DEF z21Vars, Z21Inv, TypeOK, Counts, InUse, Of, Fine, Distinct
<1>2. CASE \E c \in Peer : BadPacket(c) \/ Packet(c) \/ Logoff(c)
    BY <1>2, BadPacketKeeps, PacketKeeps, LogoffKeeps
<1>3. CASE \E c \in Peer, f \in Flag : SetBcFlags(c, f) BY <1>3, SetBcFlagsKeeps
<1>4. CASE Tick BY <1>4, TickKeeps
<1>5. CASE \E m \in Limits : SetLimit(m) BY <1>5, SetLimitKeeps
<1>6. QED BY <1>1, <1>2, <1>3, <1>4, <1>5 DEF Next

LEMMA Z21Told == Z21Inv => SubscriptionKept
<1> SUFFICES ASSUME Z21Inv PROVE SubscriptionKept
    OBVIOUS
<1>1. clientCount = Cardinality(Place \ Of(client, Nobody))
    BY DEF Z21Inv, Counts, InUse
<1>2. ASSUME NEW c \in inTouch
      PROVE  \E p \in Place : Of(client, c) = {p} /\ client[p].flags = wants[c]
    <2>1. PICK p \in Place : client[p].who = c /\ client[p].flags = wants[c]
        BY <1>2 DEF Z21Inv, Fine
    <2>2. c # Nobody BY <1>2, Z21Assumption DEF Z21Inv, TypeOK
    <2>3. Of(client, c) = {p} BY <2>1, <2>2 DEF Of, Z21Inv, Fine, Distinct
    <2>4. QED BY <2>1, <2>3
<1>3. QED BY <1>1, <1>2 DEF SubscriptionKept

LEMMA Z21Always == ClientsSpec => []Z21Inv
<1>1. ClientsInit => Z21Inv
  BY Z21Initially DEF ClientsInit
<1>2. ASSUME Z21Inv, [ClientsNext]_<<part, lanVars, fbVars, eepVars, powerVars, tableVars, z21Vars>>
      PROVE  Z21Inv'
  <2>1. [Next]_z21Vars
    BY <1>2 DEF ClientsNext
  <2> QED BY <1>2, <2>1, Z21Step
<1> QED BY <1>1, <1>2, PTL DEF ClientsSpec

(* z21_lan.h:39-50: whoever comes, goes, sends rubbish or changes the      *)
(* limit, a UDP client that keeps in touch keeps its place and its flags,  *)
(* and the count of clients is right, for any table and any limits.        *)
THEOREM SubscriptionSafe == ClientsSpec => []SubscriptionKept
BY Z21Told, Z21Always, PTL

-----------------------------------------------------------------------------
(* The types of all the variables.                                         *)
(*                                                                         *)
(* The invariants above have most of them; here are the others, each kept  *)
(* by the steps of its part.                                               *)
LanStreams ==
    /\ sent \in [Conn -> Nat] /\ read \in [Conn -> Nat] /\ parsed \in [Conn -> Nat]
    /\ \A c \in Conn : parsed[c] <= read[c] /\ read[c] <= sent[c]
    /\ serving \in 0 .. MaxClients + 1

(* The step may be of a place whose connection is none. *)
LEMMA Advanced ==
    ASSUME NEW f \in [Conn -> Nat], NEW c, NEW n, c \in Conn => n \in Nat
    PROVE  /\ [f EXCEPT ![c] = n] \in [Conn -> Nat]
           /\ \A d \in Conn : [f EXCEPT ![c] = n][d] = IF d = c THEN n ELSE f[d]
<1>1. CASE c \in Conn
  BY <1>1
<1>2. CASE c \notin Conn
  <2>1. [f EXCEPT ![c] = n] = f
    BY <1>2
  <2> QED BY <1>2, <2>1
<1> QED BY <1>1, <1>2

LEMMA LanStreamsStep == LanStreams /\ Lan!Next => LanStreams'
<1> SUFFICES ASSUME LanStreams, Lan!Next PROVE LanStreams'
  OBVIOUS
<1>0. MaxClients \in Nat
  BY ClientsAssumption
<1>1. CASE \E c \in Conn : Lan!Connect(c) \/ Lan!Leave(c)
  BY <1>1 DEF Lan!Connect, Lan!Leave, Lan!stream, LanStreams
<1>2. ASSUME NEW c \in Conn, Lan!Send(c) PROVE LanStreams'
  <2>1. sent' = [sent EXCEPT ![c] = sent[c] + 1] /\ UNCHANGED <<read, parsed, serving>>
    BY <1>2 DEF Lan!Send
  <2> QED BY <2>1 DEF LanStreams
<1>3. CASE (\E c \in Conn : Lan!AcceptNew(c)) \/ Lan!NobodyAsks
  <2>1. serving' = 1 /\ UNCHANGED <<sent, read, parsed>>
    BY <1>3 DEF Lan!AcceptNew, Lan!NobodyAsks, Lan!stream
  <2> QED BY <1>0, <2>1 DEF LanStreams
<1>4. CASE Lan!CheckTimeouts
  <2>1. serving' = 0 /\ UNCHANGED <<sent, read, parsed>>
    BY <1>4 DEF Lan!CheckTimeouts, Lan!stream
  <2> QED BY <1>0, <2>1 DEF LanStreams
<1>5. ASSUME NEW p \in Lan!Place, Lan!Elapse(p) PROVE LanStreams'
  BY <1>5 DEF Lan!Elapse, Lan!stream, LanStreams
<1>6. ASSUME NEW p \in Lan!Place, Lan!SkipPlace(p) \/ Lan!Gone(p) PROVE LanStreams'
  <2>1. serving' = p + 1 /\ UNCHANGED <<sent, read, parsed>>
    BY <1>6 DEF Lan!SkipPlace, Lan!Gone, Lan!AtPlace, Lan!NextPlace, Lan!stream
  <2> QED BY <1>0, <2>1 DEF LanStreams, Lan!Place
<1>7. ASSUME NEW p \in Lan!Place, Lan!Receive(p) PROVE LanStreams'
  <2>1. PICK c : read' = [read EXCEPT ![c] = sent[c]] /\ UNCHANGED <<sent, parsed, serving>>
    BY <1>7 DEF Lan!Receive
  <2> QED BY <2>1, Advanced DEF LanStreams
<1>8. ASSUME NEW p \in Lan!Place, Lan!SkipGarbage(p) PROVE LanStreams'
  <2>1. PICK c : /\ parsed' = [parsed EXCEPT ![c] = parsed[c] + 1] /\ parsed[c] < read[c]
                 /\ UNCHANGED <<sent, read, serving>>
    BY <1>8 DEF Lan!SkipGarbage, Lan!Garbage
  <2>2. c \in Conn => parsed[c] + 1 \in Nat /\ parsed[c] + 1 <= read[c]
    BY <2>1 DEF LanStreams
  <2> QED BY <2>1, <2>2, Advanced DEF LanStreams
<1>9. ASSUME NEW full, Lan!OnEvent(full) PROVE LanStreams'
  BY <1>9 DEF Lan!OnEvent, Lan!stream, LanStreams
<1>10. ASSUME NEW full, NEW p \in Lan!Place, Lan!Overflow(p, full) PROVE LanStreams'
  <2>1. PICK c : /\ read' = [read EXCEPT ![c] = sent[c]]
                 /\ parsed' = [parsed EXCEPT ![c] = sent[c]]
                 /\ serving' = p + 1 /\ sent' = sent
    BY <1>10 DEF Lan!Overflow, Lan!Gets, Lan!AtPlace, Lan!NextPlace
  <2>2. serving' \in 0 .. MaxClients + 1
    BY <1>0, <2>1 DEF Lan!Place
  <2> QED BY <2>1, <2>2, Advanced DEF LanStreams
<1>11. ASSUME NEW full, NEW p \in Lan!Place, Lan!EndPlace(p, full) PROVE LanStreams'
  <2>1. PICK c : /\ parsed' \in {parsed, [parsed EXCEPT ![c] = read[c]]}
                 /\ serving' = p + 1 /\ UNCHANGED <<sent, read>>
    <3>1. serving' = p + 1 /\ UNCHANGED <<sent, read>>
      BY <1>11 DEF Lan!EndPlace, Lan!NextPlace
    <3>2. parsed' \in {parsed, [parsed EXCEPT ![Lan!The(p)] = read[Lan!The(p)]]}
      BY <1>11 DEF Lan!EndPlace
    <3> QED BY <3>1, <3>2
  <2>2. serving' \in 0 .. MaxClients + 1
    BY <1>0, <2>1 DEF Lan!Place
  <2> QED BY <2>1, <2>2, Advanced DEF LanStreams
<1>12. ASSUME NEW full, NEW S, NEW p \in Lan!Place, Lan!HandleFrame(p, S, full)
       PROVE  LanStreams'
  <2>1. PICK c : /\ parsed' = [parsed EXCEPT ![c] = parsed[c] + 2] /\ parsed[c] + 2 <= read[c]
                 /\ UNCHANGED <<sent, read, serving>>
    BY <1>12 DEF Lan!HandleFrame, Lan!Whole
  <2>2. c \in Conn => parsed[c] + 2 \in Nat
    BY DEF LanStreams
  <2> QED BY <2>1, <2>2, Advanced DEF LanStreams
<1> QED BY <1>1, <1>2, <1>3, <1>4, <1>5, <1>6, <1>7, <1>8, <1>9, <1>10, <1>11, <1>12 DEF Lan!Next

LEMMA LanTyped == LanInv /\ LanStreams => Lan!TypeOK
<1> SUFFICES ASSUME LanInv, LanStreams PROVE Lan!TypeOK
  OBVIOUS
<1>1. \A c \in Conn : 0 <= parsed[c] /\ parsed[c] <= read[c] /\ read[c] <= sent[c]
  BY DEF LanStreams
<1>2. connCount \in 0 .. MaxClients
  <2>1. Lan!Active \subseteq Lan!Place /\ IsFiniteSet(Lan!Place)
    BY ActiveFinite DEF Lan!Active
  <2>2. Cardinality(Lan!Place) = MaxClients
    BY ClientsAssumption, FS_Interval DEF Lan!Place
  <2>3. Cardinality(Lan!Active) \in Nat /\ Cardinality(Lan!Active) <= MaxClients
    BY <2>1, <2>2, ActiveFinite, FS_Subset
  <2>4. connCount = Cardinality(Lan!Active)
    BY LanCardinality DEF LanInv, Lan!PlacesAccounted, Lan!ConnCountExact
  <2> QED BY <2>3, <2>4, ClientsAssumption
<1> QED BY <1>1, <1>2 DEF LanInv, LanTypes, LanRow, LanStreams, Ended, Lan!TypeOK

LEMMA LanTypedAlways == ClientsSpec => []Lan!TypeOK
<1>1. ClientsInit => LanStreams
  BY ClientsAssumption DEF ClientsInit, Lan!Init, LanStreams
<1>2. ASSUME LanStreams, [ClientsNext]_<<part, lanVars, fbVars, eepVars, powerVars, tableVars, z21Vars>>
      PROVE  LanStreams'
  <2>1. CASE Lan!Next
    BY <1>2, <2>1, LanStreamsStep
  <2>2. CASE ~Lan!Next
    <3>1. UNCHANGED lanVars
      BY <1>2, <2>2 DEF ClientsNext
    <3> QED BY <1>2, <3>1 DEF lanVars, LanStreams
  <2> QED BY <2>1, <2>2
<1> QED BY <1>1, <1>2, LanTyped, LanAlways, PTL DEF ClientsSpec

LEMMA EepTyped == EepInv => Eep!TypeOK
<1> SUFFICES ASSUME EepInv PROVE Eep!TypeOK
  OBVIOUS
<1>1. EepTypes
  BY DEF EepInv
<1>2. \A S : Eep!Cardinality(S) = Cardinality(S)
  BY DEF Eep!Cardinality, Cardinality
<1> QED BY <1>1, <1>2 DEF EepTypes, Settings, Eep!TypeOK, Eep!Core

LEMMA EepTypedAlways == ClientsSpec => []Eep!TypeOK
BY EepTyped, EepAlways, PTL
TabSorts ==
    /\ pc1 \in {"idle", "write", "any", "fn", "unmark"}
    /\ job \in [loco : Loco \cup {NoLoco}, fn : FnStates, ix : Table!Index]
    /\ stray \in BOOLEAN
    /\ locked \subseteq switched /\ switched \subseteq Loco
    /\ writes \in 0 .. MaxWrites

LEMMA TabSortsStep == TabSorts /\ Table!Next => TabSorts'
<1> SUFFICES ASSUME TabSorts, Table!Next PROVE TabSorts'
  OBVIOUS
<1>1. Table!NoJob \in [loco : Loco \cup {NoLoco}, fn : FnStates, ix : Table!Index]
  BY ClientsAssumption DEF Table!NoJob, Table!Index
<1>2. CASE Table!Core0
  <2>1. UNCHANGED <<pc1, job, switched, locked, writes>> /\ stray' \in BOOLEAN
    BY <1>2, Zenon DEF TabSorts, Table!Core0, Table!TakeLock, Table!TestDirty,
       Table!ClearDirty, Table!ReadFn, Table!ClearFn, Table!CopyEntry, Table!Send, Table!core1
  <2> QED BY <2>1 DEF TabSorts
<1>3. CASE Table!Core1
  <2>1. stray' = stray
    BY <1>3 DEF Table!Core1, Table!WriteSpeed, Table!WriteSnd, Table!FindEntry, Table!WriteFn,
       Table!MarkAny, Table!MarkFn, Table!ReleaseEntry, Table!ReleaseFlag, Table!core0
  <2>2. writes' \in 0 .. MaxWrites
    <3>1. writes' = writes \/ (writes < MaxWrites /\ writes' = writes + 1)
      BY <1>3 DEF Table!Core1, Table!WriteSpeed, Table!WriteSnd, Table!FindEntry,
         Table!WriteFn, Table!MarkAny, Table!MarkFn, Table!ReleaseEntry, Table!ReleaseFlag,
         Table!Request
    <3> QED BY <3>1, ClientsAssumption DEF TabSorts
  <2>3. ASSUME NEW l \in Loco, NEW v \in Speeds, Table!WriteSpeed(l, v) PROVE TabSorts'
    BY <2>1, <2>2, <2>3 DEF Table!WriteSpeed, TabSorts
  <2>4. ASSUME NEW l \in Loco, NEW f \in FnStates, Table!WriteSnd(l, f) PROVE TabSorts'
    BY <2>1, <2>2, <2>4 DEF Table!WriteSnd, TabSorts
  <2>5. ASSUME NEW l \in Loco, NEW f \in FnStates, Table!FindEntry(l, f) PROVE TabSorts'
    BY <2>1, <2>2, <2>5 DEF Table!FindEntry, TabSorts
  <2>6. CASE Table!WriteFn \/ Table!MarkAny \/ Table!MarkFn \/ Table!ReleaseFlag
    BY <1>1, <2>1, <2>2, <2>6 DEF Table!WriteFn, Table!MarkAny, Table!MarkFn,
       Table!ReleaseFlag, TabSorts
  <2>7. ASSUME NEW l \in Loco, Table!ReleaseEntry(l) PROVE TabSorts'
    <3>1. PICK i \in Table!Index : job' = [loco |-> l, fn |-> 0, ix |-> i]
      BY <2>7 DEF Table!ReleaseEntry, Table!Holds
    <3>2. job' \in [loco : Loco \cup {NoLoco}, fn : FnStates, ix : Table!Index]
      BY <3>1, ClientsAssumption
    <3>3. pc1' = "unmark" /\ switched' = switched \ {l} /\ locked' = locked \ {l}
      BY <2>7 DEF Table!ReleaseEntry
    <3> QED BY <2>1, <2>2, <3>2, <3>3 DEF TabSorts
  <2> QED BY <1>3, <2>3, <2>4, <2>5, <2>6, <2>7 DEF Table!Core1
<1> QED BY <1>2, <1>3 DEF Table!Next

LEMMA TabTyped == TabInv /\ TabSorts => Table!TypeOK
BY DEF TabInv, TabTypes, TabSorts, EntryRow, FoundRow, Table!TypeOK

LEMMA TabTypedAlways == ClientsSpec => []Table!TypeOK
<1>1. ClientsInit => TabSorts
  <2> SUFFICES ASSUME Table!Init PROVE TabSorts
    BY DEF ClientsInit
  <2>1. job \in [loco : Loco \cup {NoLoco}, fn : FnStates, ix : Table!Index]
    BY ClientsAssumption DEF Table!Init, Table!NoJob, Table!Index
  <2>2. stray \in BOOLEAN
    BY Zenon DEF Table!Init
  <2> QED BY <2>1, <2>2, ClientsAssumption DEF Table!Init, TabSorts
<1>2. ASSUME TabSorts, [ClientsNext]_<<part, lanVars, fbVars, eepVars, powerVars, tableVars, z21Vars>>
      PROVE  TabSorts'
  <2>1. CASE Table!Next
    BY <1>2, <2>1, TabSortsStep
  <2>2. CASE ~Table!Next
    <3>1. UNCHANGED tableVars
      BY <1>2, <2>2 DEF ClientsNext
    <3> QED BY <1>2, <3>1 DEF tableVars, TabSorts
  <2> QED BY <2>1, <2>2
<1> QED BY <1>1, <1>2, TabTyped, TabAlways, PTL DEF ClientsSpec

(* Both queues stay within their bounds. *)
FbBounds ==
    /\ Len(reports) <= MaxReports /\ Len(events) <= FeedbackSlots
    /\ untold \subseteq Client \X Decoder

LEMMA Grown ==
    ASSUME NEW S, NEW q \in Seq(S), NEW x
    PROVE  Len(Append(q, x)) = Len(q) + 1
BY DEF Append, Len

LEMMA Shrunk ==
    ASSUME NEW S, NEW q \in Seq(S), q # <<>>
    PROVE  Len(Tail(q)) = Len(q) - 1
BY HeadTailProperties

LEMMA FbBoundsStep == FbInv /\ FbBounds /\ Fb!Next => FbBounds'
<1> SUFFICES ASSUME FbInv, FbBounds, Fb!Next PROVE FbBounds'
  OBVIOUS
<1>0. /\ reports \in Seq(Fb!Report) /\ events \in Seq(BusEvent) /\ connected \subseteq Client
      /\ hand = <<>> \/ \E h \in HandRow : hand = <<h>>
      /\ MaxReports \in Nat /\ FeedbackSlots \in Nat
      /\ Len(reports) \in Nat /\ Len(events) \in Nat
  BY ClientsAssumption DEF FbInv, FbTypes
<1>1. Len(reports') <= MaxReports
  <2>1. CASE reports' = reports
    BY <2>1 DEF FbBounds
  <2>2. CASE reports # <<>> /\ reports' = Tail(reports)
    BY <1>0, <2>2, Shrunk DEF FbBounds
  <2>3. CASE Len(reports) < MaxReports /\ \E r : reports' = Append(reports, r)
    BY <1>0, <2>3, Grown
  <2>4. CASE reports' = <<>>
    <3>1. Len(<<>>) = 0
      OBVIOUS
    <3> QED BY <1>0, <2>4, <3>1
  <2> QED BY <2>1, <2>2, <2>3, <2>4 DEF Fb!Next, Fb!DecoderReports, Fb!Compare, Fb!Publish,
             Fb!Store, Fb!PowerChanges, Fb!OnPowerOn, Fb!OnPowerOff, Fb!OnFeedback,
             Fb!ClientConnects, Fb!ClientLeaves, Fb!WebClear
<1>2. Len(events') <= FeedbackSlots
  <2>1. CASE events' = events
    BY <2>1 DEF FbBounds
  <2>2. CASE events # <<>> /\ events' = Tail(events)
    BY <1>0, <2>2, Shrunk DEF FbBounds
  <2>3. CASE Len(events) < FeedbackSlots /\ \E e : events' = Append(events, e)
    BY <1>0, <2>3, Grown
  <2> QED BY <2>1, <2>2, <2>3 DEF Fb!Next, Fb!DecoderReports, Fb!Compare, Fb!Publish,
             Fb!Store, Fb!PowerChanges, Fb!OnPowerOn, Fb!OnPowerOff, Fb!OnFeedback,
             Fb!ClientConnects, Fb!ClientLeaves, Fb!WebClear
<1>3. untold' \subseteq Client \X Decoder
  <2>1. CASE untold' = untold
    BY <2>1 DEF FbBounds
  <2>2. CASE Fb!Publish
    <3>1. hand[1].report.decoder \in Decoder
      BY <1>0, <2>2 DEF Fb!Publish, HandRow, Fb!Report
    <3> QED BY <2>2, <3>1 DEF Fb!Publish, FbBounds
  <2>3. CASE \E full \in SUBSET connected : Fb!OnFeedback(full)
    <3>1. PICK full \in SUBSET connected : Fb!OnFeedback(full)
      BY <2>3
    <3>2. Head(events) \in BusEvent
      BY <1>0, <3>1, HeadTailProperties DEF Fb!OnFeedback
    <3>3. Head(events).report.decoder \in Decoder
      BY <3>1, <3>2 DEF Fb!OnFeedback, BusEvent, Fb!Report
    <3> QED BY <1>0, <3>1, <3>3 DEF Fb!OnFeedback, FbBounds
  <2>4. CASE Fb!OnPowerOn \/ Fb!WebClear
    BY <2>4 DEF Fb!OnPowerOn, Fb!WebClear
  <2> QED BY <2>1, <2>2, <2>3, <2>4 DEF Fb!Next, Fb!DecoderReports, Fb!Compare,
             Fb!Store, Fb!PowerChanges, Fb!OnPowerOff, Fb!ClientConnects, Fb!ClientLeaves
<1> QED BY <1>1, <1>2, <1>3 DEF FbBounds

LEMMA FbTyped == FbInv /\ FbBounds => Fb!TypeOK
<1> SUFFICES ASSUME FbInv, FbBounds PROVE Fb!TypeOK
  OBVIOUS
<1>1. Len(hand) <= 1
  <2>1. Len(<<>>) = 0 /\ \A h : Len(<<h>>) = 1
    OBVIOUS
  <2>2. hand = <<>> \/ \E h : hand = <<h>>
    BY DEF FbInv, FbTypes
  <2>3. CASE hand = <<>>
    BY <2>1, <2>3
  <2>4. ASSUME NEW h, hand = <<h>> PROVE Len(hand) <= 1
    BY <2>1, <2>4
  <2> QED BY <2>2, <2>3, <2>4
<1> QED BY <1>1 DEF FbInv, FbTypes, FbBounds, Fb!TypeOK, Fb!Unseen, Fb!Sentinel

LEMMA FbTypedAlways == ClientsSpec => []Fb!TypeOK
<1>1. ClientsInit => FbBounds
  <2> SUFFICES ASSUME Fb!Init PROVE FbBounds
    BY DEF ClientsInit
  <2>1. Len(<<>>) = 0
    OBVIOUS
  <2> QED BY <2>1, ClientsAssumption DEF Fb!Init, FbBounds
<1>2. ASSUME FbInv, FbBounds,
             [ClientsNext]_<<part, lanVars, fbVars, eepVars, powerVars, tableVars, z21Vars>>
      PROVE  FbBounds'
  <2>1. CASE Fb!Next
    BY <1>2, <2>1, FbBoundsStep
  <2>2. CASE ~Fb!Next
    <3>1. UNCHANGED fbVars
      BY <1>2, <2>2 DEF ClientsNext
    <3> QED BY <1>2, <3>1 DEF fbVars, FbBounds
  <2> QED BY <2>1, <2>2
<1> QED BY <1>1, <1>2, FbTyped, FbAlways, PTL DEF ClientsSpec
(* With no faults core 1 never hangs and nothing is ever restarted. *)
PowFlags ==
    /\ power \in BOOLEAN /\ restartDue \in BOOLEAN /\ calm \in BOOLEAN /\ tripped \in BOOLEAN
    /\ shorted \in BOOLEAN /\ alive \in BOOLEAN /\ resetReq \in BOOLEAN
    /\ gOff \in BOOLEAN /\ gShort \in BOOLEAN /\ lnPower \in BOOLEAN
    /\ restartPending = FALSE /\ hung = FALSE /\ beat = "new"
PowPhases ==
    /\ pc0 \in {"stall", "poll", "cde", "guards", "spin"}
    /\ rail \in {"unknown", "on", "off", "estop"} /\ told \in {"unknown", "on", "off", "estop"}
    /\ offCause \in {"boot", "command"}
    /\ restartCount = 0 /\ requests \in 0 .. MaxRequests
PowQueues ==
    /\ todo \in Seq(Power!Message) /\ cmds \in Seq(Power!Message)
    /\ Len(cmds) <= CommandSlots
    /\ railEvents \in Seq(Kinds)
PowSorts == PowFlags /\ PowPhases /\ PowQueues

(* The queue of events after one was published, or refused. *)
LEMMA Offered ==
    ASSUME PowSorts, NEW e \in Kinds
    PROVE  Power!Offer(e) \in Seq(Kinds)
BY DEF Power!Offer, PowSorts, PowQueues

LEMMA PowDelivers == PowSorts /\ Power!Deliver => PowSorts'
<1> SUFFICES ASSUME PowSorts, Power!Deliver PROVE PowSorts'
  OBVIOUS
<1>1. /\ cmds # <<>> /\ cmds' = Tail(cmds) /\ offCause' \in {offCause, "command"}
      /\ restartPending' \in {restartPending, FALSE}
      /\ UNCHANGED <<pc0, gOff, gShort, restartDue, calm, hung, beat, alive, todo, resetReq,
                     told, requests, tripped, shorted>>
  BY Zenon DEF Power!Deliver, Power!PowerOn, Power!PowerOff, Power!EmergencyStop, Power!SetPower,
     Power!timerVars, Power!core1Vars
<1>2. restartCount' \in {0, restartCount} /\ rail' \in {"on", "off", "estop"}
  BY DEF Power!Deliver, Power!PowerOn, Power!PowerOff, Power!EmergencyStop, Power!SetPower,
     Power!Rail
<1>3. power' \in {power, TRUE, FALSE} /\ lnPower' \in {lnPower, TRUE, FALSE}
  BY Zenon DEF Power!Deliver, Power!PowerOn, Power!PowerOff, Power!EmergencyStop,
     Power!SetPower, Power!LocoNetTold
<1>4. railEvents' \in Seq(Kinds)
  <2>1. \E e \in Kinds : railEvents' = railEvents \/ railEvents' = Power!Offer(e)
    BY DEF Power!Deliver, Power!PowerOn, Power!PowerOff, Power!EmergencyStop, Power!SetPower,
       Power!Rail, Kinds
  <2> QED BY <2>1, Offered DEF PowSorts, PowQueues
<1>5. PowQueues'
  <2>1. cmds \in Seq(Power!Message) /\ Len(cmds) <= CommandSlots /\ Len(cmds) \in Nat
    BY DEF PowSorts, PowQueues
  <2>2. cmds' \in Seq(Power!Message) /\ Len(cmds') = Len(cmds) - 1
    BY <1>1, <2>1, HeadTailProperties
  <2>3. Len(cmds') <= CommandSlots
    BY <2>1, <2>2, ClientsAssumption
  <2> QED BY <1>1, <1>4, <2>2, <2>3 DEF PowSorts, PowQueues
<1>6. PowFlags'
  BY <1>1, <1>3, Zenon DEF PowSorts, PowFlags
<1>7. PowPhases'
  BY <1>1, <1>2 DEF PowSorts, PowPhases
<1> QED BY <1>5, <1>6, <1>7 DEF PowSorts

(* Steps that leave the queues, the track and what was told alone. *)
LEMMA PowPasses ==
    ASSUME PowSorts, PowFlags',
           pc0' \in {"stall", "poll", "cde", "guards", "spin"}, restartCount' = 0,
           UNCHANGED <<rail, told, offCause, requests, todo, cmds, railEvents>>
    PROVE  PowSorts'
<1>1. PowPhases' /\ PowQueues'
  BY DEF PowSorts, PowPhases, PowQueues
<1> QED BY <1>1 DEF PowSorts

LEMMA PowCore0 == PowSorts /\ Power!Core0 => PowSorts'
<1> SUFFICES ASSUME PowSorts, Power!Core0 PROVE PowSorts'
  OBVIOUS
<1>1. /\ restartPending = FALSE /\ hung = FALSE /\ beat = "new" /\ restartCount = 0
      /\ pc0 \in {"stall", "poll", "cde", "guards", "spin"}
  BY DEF PowSorts, PowFlags, PowPhases
<1>2. CASE Power!Deliver
  BY <1>2, PowDelivers
<1>3. CASE Power!EnterSpin \/ Power!PollDone \/ Power!CdeQuiet \/ Power!GuardsOff
  <2>1. /\ UNCHANGED <<power, restartPending, restartCount, rail, railEvents, offCause, gOff,
                      gShort, lnPower, restartDue, calm, hung, beat, alive, todo, resetReq,
                      told, requests, tripped, shorted, cmds>>
        /\ pc0' \in {"stall", "spin", "cde", "guards"}
    BY <1>3 DEF Power!EnterSpin, Power!PollDone, Power!CdeQuiet, Power!GuardsOff,
       Power!trackVars, Power!centralVars, Power!timerVars, Power!core1Vars
  <2>2. PowFlags'
    BY <2>1 DEF PowSorts, PowFlags
  <2> QED BY <1>1, <2>1, <2>2, PowPasses
<1>4. CASE Power!StallQuiet
  <2>1. /\ UNCHANGED <<power, restartPending, restartCount, rail, railEvents, offCause, gOff,
                      gShort, lnPower, restartDue, calm, hung, alive, todo, resetReq,
                      told, requests, shorted, cmds>>
        /\ pc0' = "poll" /\ beat' = "new"
    BY <1>1, <1>4 DEF Power!StallQuiet, Power!Seen, Power!trackVars, Power!centralVars,
       Power!timerVars
  <2>2. tripped' \in BOOLEAN
    BY <1>4, Zenon DEF Power!StallQuiet
  <2>3. PowFlags'
    BY <2>1, <2>2 DEF PowSorts, PowFlags
  <2> QED BY <1>1, <2>1, <2>3, PowPasses
<1>5. CASE Power!GuardQuiet
  <2>1. /\ UNCHANGED <<power, restartPending, rail, railEvents, offCause, gOff,
                      gShort, lnPower, restartDue, calm, hung, beat, alive, todo, resetReq,
                      told, requests, tripped, shorted, cmds>>
        /\ pc0' = "stall" /\ restartCount' = 0
    BY <1>1, <1>5 DEF Power!GuardQuiet, Power!CountAfterQuiet, Power!centralVars,
       Power!timerVars, Power!core1Vars
  <2>2. PowFlags'
    BY <2>1 DEF PowSorts, PowFlags
  <2> QED BY <1>1, <2>1, <2>2, PowPasses
<1>6. ~Power!StallTrip /\ ~Power!CdeShort /\ ~Power!GuardShort /\ ~Power!AutoRestart
  BY <1>1 DEF Power!StallTrip, Power!CdeShort, Power!GuardShort, Power!AutoRestart
<1> QED BY <1>2, <1>3, <1>4, <1>5, <1>6 DEF Power!Core0

LEMMA PowReceives == PowSorts /\ Power!Requests => PowSorts'
<1> SUFFICES ASSUME PowSorts, Power!Requests PROVE PowSorts'
  OBVIOUS
<1>1. /\ requests < MaxRequests /\ requests' = requests + 1 /\ told' \in {told, "off"}
      /\ UNCHANGED <<pc0, power, restartPending, restartCount, rail, railEvents, offCause,
                     restartDue, calm, hung, beat, alive, tripped, shorted, cmds>>
  BY DEF Power!Requests, Power!Receive, Power!XnPowerOn, Power!XnPowerOff, Power!XnEmergStop,
         Power!XnReset, Power!LnGpOn, Power!LnGpOff, Power!LnIdle, Power!LanClientLost,
         Power!trackVars, Power!timerVars
<1>2. /\ gOff' \in {gOff, TRUE, FALSE} /\ gShort' \in {gShort, FALSE}
      /\ lnPower' \in {lnPower, TRUE, FALSE} /\ resetReq' \in {resetReq, TRUE}
  BY Zenon DEF Power!Requests, Power!XnPowerOn, Power!XnPowerOff, Power!XnEmergStop,
         Power!XnReset, Power!LnGpOn, Power!LnGpOff, Power!LnIdle, Power!LanClientLost,
         Power!centralVars
<1>3. todo' \in Seq(Power!Message)
  <2>1. \A t \in Kinds, m \in {"XN", "LN", "LAN"} :
            Power!Cmd(t, m) \in Power!Message /\ Power!Ev(t) \in Power!Message
    BY DEF Power!Cmd, Power!Ev, Power!Message, Kinds
  <2>2. \/ todo' = <<>>
        \/ \E t \in Kinds, m \in {"XN", "LN", "LAN"} : todo' = <<Power!Cmd(t, m)>>
        \/ \E t \in Kinds : todo' = <<Power!Cmd(t, "LN"), Power!Ev(t)>>
    BY DEF Power!Requests, Power!Receive, Power!XnPowerOn, Power!XnPowerOff,
       Power!XnEmergStop, Power!XnReset, Power!LnGpOn, Power!LnGpOff, Power!LnIdle,
       Power!LanClientLost, Kinds
  <2>3. /\ <<>> \in Seq(Power!Message)
        /\ \A a, b \in Power!Message : <<a>> \in Seq(Power!Message) /\ <<a, b>> \in Seq(Power!Message)
    OBVIOUS
  <2> QED BY <2>1, <2>2, <2>3, Zenon
<1>4. PowQueues'
  BY <1>1, <1>3 DEF PowSorts, PowQueues
<1>5. PowFlags'
  <2>1. /\ gOff' \in BOOLEAN /\ gShort' \in BOOLEAN /\ lnPower' \in BOOLEAN
        /\ resetReq' \in BOOLEAN
    BY <1>2, Zenon DEF PowSorts, PowFlags
  <2> QED BY <1>1, <2>1 DEF PowSorts, PowFlags
<1>6. PowPhases'
  BY <1>1, ClientsAssumption DEF PowSorts, PowPhases
<1> QED BY <1>4, <1>5, <1>6 DEF PowSorts

LEMMA PowCore1 == PowSorts /\ Power!Core1 => PowSorts'
<1> SUFFICES ASSUME PowSorts, Power!Core1 PROVE PowSorts'
  OBVIOUS
<1>1. UNCHANGED <<pc0, power, restartPending, restartCount, rail, offCause, restartDue, calm,
                  hung, beat, alive, tripped, shorted, gOff, gShort, lnPower, resetReq,
                  requests>>
  BY DEF Power!Core1, Power!Dispatch, Power!Publish, Power!Broadcast, Power!trackVars,
     Power!timerVars, Power!centralVars
<1>2. PowFlags'
  BY <1>1 DEF PowSorts, PowFlags
<1>3. /\ todo \in Seq(Power!Message) /\ cmds \in Seq(Power!Message)
      /\ railEvents \in Seq(Kinds) /\ Len(cmds) <= CommandSlots /\ Len(cmds) \in Nat
  BY DEF PowSorts, PowQueues
<1>4. CASE Power!Dispatch
  <2>1. /\ todo # <<>> /\ todo' = Tail(todo) /\ railEvents' = railEvents
        /\ told' \in {told, "estop"}
        /\ \/ cmds' = cmds
           \/ Len(cmds) < CommandSlots /\ cmds' = Append(cmds, Head(todo))
    BY <1>4 DEF Power!Dispatch, Power!trackVars
  <2>2. Head(todo) \in Power!Message /\ todo' \in Seq(Power!Message)
    BY <1>3, <2>1, HeadTailProperties
  <2>3. cmds' \in Seq(Power!Message) /\ Len(cmds') <= CommandSlots
    <3>1. CASE cmds' = cmds
      BY <1>3, <3>1
    <3>2. CASE Len(cmds) < CommandSlots /\ cmds' = Append(cmds, Head(todo))
      <4>1. cmds' \in Seq(Power!Message) /\ Len(cmds') = Len(cmds) + 1
        BY <1>3, <2>2, <3>2, AppendProperties
      <4> QED BY <1>3, <3>2, <4>1, ClientsAssumption
    <3> QED BY <2>1, <3>1, <3>2
  <2>4. PowQueues' /\ PowPhases'
    BY <1>1, <1>3, <2>1, <2>2, <2>3 DEF PowSorts, PowQueues, PowPhases
  <2> QED BY <1>2, <2>4 DEF PowSorts
<1>5. CASE Power!Publish
  <2>1. /\ todo # <<>> /\ todo' = Tail(todo) /\ UNCHANGED <<cmds, told>>
        /\ railEvents' = Power!Offer(Head(todo).type)
    BY <1>5 DEF Power!Publish
  <2>2. Head(todo).type \in Kinds /\ todo' \in Seq(Power!Message)
    <3>1. Head(todo) \in Power!Message /\ todo' \in Seq(Power!Message)
      BY <1>3, <2>1, HeadTailProperties
    <3> QED BY <3>1 DEF Power!Message, Kinds
  <2>3. PowQueues' /\ PowPhases'
    BY <1>1, <1>3, <2>1, <2>2, Offered DEF PowSorts, PowQueues, PowPhases
  <2> QED BY <1>2, <2>3 DEF PowSorts
<1>6. CASE Power!Broadcast
  <2>1. /\ railEvents # <<>> /\ railEvents' = Tail(railEvents) /\ UNCHANGED <<cmds, todo>>
        /\ told' \in {told, Head(railEvents)}
    BY <1>6 DEF Power!Broadcast
  <2>2. Head(railEvents) \in Kinds /\ railEvents' \in Seq(Kinds)
    BY <1>3, <2>1, HeadTailProperties
  <2>3. PowQueues' /\ PowPhases'
    BY <1>1, <1>3, <2>1, <2>2 DEF PowSorts, PowQueues, PowPhases, Kinds
  <2> QED BY <1>2, <2>3 DEF PowSorts
<1> QED BY <1>4, <1>5, <1>6 DEF Power!Core1

LEMMA PowSortsStep == PowSorts /\ Power!Next => PowSorts'
<1> SUFFICES ASSUME PowSorts, Power!Next PROVE PowSorts'
  OBVIOUS
<1>1. /\ restartPending = FALSE /\ hung = FALSE /\ beat = "new" /\ restartCount = 0
      /\ pc0 \in {"stall", "poll", "cde", "guards", "spin"}
  BY DEF PowSorts, PowFlags, PowPhases
<1>2. CASE Power!Core1Health \/ Power!World
  <2>1. /\ UNCHANGED <<pc0, power, restartPending, restartCount, rail, railEvents, offCause,
                      gOff, gShort, lnPower, hung, todo, resetReq, told, requests, tripped,
                      cmds>>
        /\ beat' \in {beat, "new"}
    BY <1>1, <1>2 DEF Power!Core1Health, Power!Heartbeat, Power!Hang, Power!Resume,
       Power!BecomeLate, Power!World, Power!ShortAppears, Power!ShortGoes, Power!RestartFalls,
       Power!TenSecondsPass, Power!FeedbackEvent, Power!trackVars, Power!centralVars,
       Power!core1Vars, Power!timerVars
  <2>2. /\ alive' \in {alive, TRUE} /\ shorted' \in {shorted, FALSE}
        /\ restartDue' \in {restartDue, TRUE} /\ calm' \in {calm, TRUE}
    BY <1>1, <1>2 DEF Power!Core1Health, Power!Heartbeat, Power!Hang, Power!Resume,
       Power!BecomeLate, Power!World, Power!ShortAppears, Power!ShortGoes, Power!RestartFalls,
       Power!TenSecondsPass, Power!FeedbackEvent, Power!core1Vars, Power!timerVars
  <2>3. PowFlags'
    BY <2>1, <2>2, Zenon DEF PowSorts, PowFlags
  <2> QED BY <1>1, <2>1, <2>3, PowPasses
<1> QED BY <1>2, PowCore0, PowReceives, PowCore1 DEF Power!Next

LEMMA PowTyped == PowSorts => Power!TypeOK
<1> SUFFICES ASSUME PowSorts PROVE Power!TypeOK
  OBVIOUS
<1>1. railEvents \in Seq({"on", "off", "estop", "feedback"})
  BY DEF PowSorts, PowQueues, Kinds
<1>2. restartPending \in BOOLEAN /\ hung \in BOOLEAN
  BY Zenon DEF PowSorts, PowFlags
<1>3. /\ beat \in {"new", "old", "late"} /\ restartCount \in 0 .. 3
      /\ offCause \in {"boot", "command", "cde", "guard", "stall", "lapsed"}
  BY DEF PowSorts, PowFlags, PowPhases
<1> QED BY <1>1, <1>2, <1>3, Zenon DEF PowSorts, PowFlags, PowPhases, PowQueues, Power!TypeOK

LEMMA PowTypedAlways == ClientsSpec => []Power!TypeOK
<1>1. ClientsInit => PowSorts
  <2> SUFFICES ASSUME Power!Init PROVE PowSorts
    BY DEF ClientsInit
  <2>1. \A S : <<>> \in Seq(S) /\ Len(<<>>) = 0
    OBVIOUS
  <2>2. PowQueues
    BY <2>1, ClientsAssumption DEF Power!Init, PowQueues
  <2>3. PowFlags
    BY Zenon DEF Power!Init, PowFlags
  <2>4. PowPhases
    BY ClientsAssumption DEF Power!Init, PowPhases
  <2> QED BY <2>2, <2>3, <2>4 DEF PowSorts
<1>2. ASSUME PowSorts, [ClientsNext]_<<part, lanVars, fbVars, eepVars, powerVars, tableVars, z21Vars>>
      PROVE  PowSorts'
  <2>1. CASE Power!Next
    BY <1>2, <2>1, PowSortsStep
  <2>2. CASE ~Power!Next
    <3>1. UNCHANGED powerVars
      BY <1>2, <2>2 DEF ClientsNext
    <3> QED BY <1>2, <3>1 DEF powerVars, PowSorts, PowFlags, PowPhases, PowQueues
  <2> QED BY <2>1, <2>2
<1> QED BY <1>1, <1>2, PowTyped, PTL DEF ClientsSpec

(* Every variable of the six models keeps its type: no table, queue or     *)
(* count leaves its bounds, for any sizes.  The numbers of clients are     *)
(* within the tables because they count the places in use, and the parser  *)
(* of lenz_lan.cpp never gets ahead of what was received.                  *)
THEOREM ClientsTyped == ClientsSpec => []TypesOK
<1>1. Z21Inv => TypeOK
  BY DEF Z21Inv
<1>2. /\ TypeOK /\ Lan!TypeOK /\ Fb!TypeOK /\ Eep!TypeOK /\ Power!TypeOK /\ Table!TypeOK
      => TypesOK
  BY DEF TypesOK
<1> QED BY <1>1, <1>2, Z21Always, LanTypedAlways, FbTypedAlways, EepTypedAlways,
           PowTypedAlways, TabTypedAlways, PTL
=============================================================================
