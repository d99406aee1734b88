--------------------------- MODULE BusLinkProofs ---------------------------
(***************************************************************************)
(* Proofs about the cluster connections, for every set of clusters, every  *)
(* range of positions with room for them, and any number of faults.        *)
(*                                                                         *)
(* The safety properties of BusLink are inductive only together: a socket  *)
(* is released by its position, so keeping ClusterInfo and m_PosConnMap in *)
(* step (NoOrphan, InfoBackedBelowMax) needs that no two sockets share a   *)
(* position (PosUnique), and a new socket takes a peer nobody else has     *)
(* because of NoOrphan.  SearchEnds then follows by counting.              *)
(***************************************************************************)
EXTENDS BusLink, FiniteSetTheorems, TLAPS

\* A bus opens no connection to itself.
NotSelf == \A c \in Clusters : \A x \in conns[c] : x.peer # c

\* The inductive invariant.
IInv ==
    /\ TypeOK
    /\ NotSelf
    /\ NoOrphan
    /\ PosUnique
    /\ InfoBackedBelowMax

-----------------------------------------------------------------------------
(* The position search *)

\* A nonempty set of naturals has a least element.
LEMMA LeastOfNat ==
    ASSUME NEW S \in SUBSET Nat, S # {}
    PROVE  \E x \in S : \A y \in S : x <= y
<1> DEFINE R == {ss \in Nat \X Nat : ss[1] < ss[2]}
<1>0. OpToRel(<, Nat) = R
  BY Zenon DEF OpToRel
<1>1. IsWellFoundedOn(R, Nat)
  BY <1>0, NatLessThanWellFounded, Zenon
<1>2. PICK x \in S : \A y \in S : ~(<<y, x>> \in R)
  <2> HIDE DEF R
  <2> QED BY <1>1, WFMin, Zenon
<1>3. ASSUME NEW y \in S, y < x  PROVE FALSE
  <2>1. <<y, x>> \in Nat \X Nat /\ <<y, x>>[1] = y /\ <<y, x>>[2] = x
    OBVIOUS
  <2>2. <<y, x>> \in R
    BY <2>1, <1>3, Zenon
  <2> QED BY <2>2, <1>2
<1> QED
  BY <1>3

\* A free position exists: the search of ConnectCluster returns one, wherever
\* it starts.
LEMMA FreePosIsFree ==
    ASSUME NEW c \in Clusters, NEW start \in Positions, Positions \ UsedPos(c) # {}
    PROVE  FreePos(c, start) \in Positions \ UsedPos(c)
<1> DEFINE free  == Positions \ UsedPos(c)
           above == {p \in free : p >= start}
           least(S) == CHOOSE p \in S : \A q \in S : p <= q
<1>1. Positions \subseteq Nat
  BY PosAssumption DEF Positions
<1>2. ASSUME NEW S \in SUBSET free, S # {}
      PROVE  least(S) \in S
  <2>1. \E p \in S : \A q \in S : p <= q
    BY <1>1, <1>2, LeastOfNat
  <2> QED BY <2>1, Zenon
<1>3. FreePos(c, start) = IF above # {} THEN least(above) ELSE least(free)
  BY Zenon DEF FreePos
<1>4. CASE above # {}
  BY <1>2, <1>3, <1>4
<1>5. CASE above = {}
  BY <1>2, <1>3, <1>5
<1> QED BY <1>4, <1>5

\* The counter stays in the range.
LEMMA NextPosCntInRange ==
    ASSUME TypeOK, NEW c \in Clusters
    PROVE  NextPosCnt(c) \in Positions
<1> DEFINE n == posCnt[c] + 1
<1>1. posCnt[c] \in PosMin + 1 .. PosMax \/ posCnt[c] = 0
  BY DEF TypeOK, Positions
<1>2. n \in Int /\ n >= 1
  BY <1>1, PosAssumption
<1>3. NextPosCnt(c) = IF n < PosMin \/ n > PosMax THEN PosMin + 1 ELSE n
  BY DEF NextPosCnt
<1>4. n # PosMin
  BY <1>1, PosAssumption
<1> QED BY <1>2, <1>3, <1>4, PosAssumption DEF Positions

-----------------------------------------------------------------------------
(* The invariant *)

\* The invariant holds at the start.
LEMMA InitIInv == Init => IInv
<1> SUFFICES ASSUME Init PROVE IInv
  OBVIOUS
<1>1. TypeOK
  BY PosAssumption DEF Init, TypeOK
<1>2. NotSelf /\ NoOrphan /\ PosUnique
  BY DEF Init, NotSelf, NoOrphan, PosUnique
<1>3. InfoBackedBelowMax
  BY DEF Init, InfoBackedBelowMax
<1> QED BY <1>1, <1>2, <1>3 DEF IInv

\* A step that leaves both tables alone.
LEMMA TablesKept ==
    ASSUME IInv, UNCHANGED <<info, conns>>
    PROVE  NotSelf' /\ NoOrphan' /\ PosUnique' /\ InfoBackedBelowMax'
BY DEF IInv, NotSelf, NoOrphan, PosUnique, InfoBackedBelowMax

\* A new connection gets a position no socket has and is the only one of its
\* peer.
LEMMA ConnectKeeps ==
    ASSUME IInv, NEW c \in Clusters, NEW d \in Clusters \ {c}, RecvHelloConnect(c, d)
    PROVE  IInv'
<1> DEFINE pos == FreePos(c, NextPosCnt(c))
           new == [pos |-> pos, peer |-> d, ok |-> TRUE]
<1>1. NextPosCnt(c) \in Positions /\ Positions \subseteq Nat /\ 0 \notin Positions
  BY NextPosCntInRange, PosAssumption DEF IInv, Positions
<1>2. pos \in Positions \ UsedPos(c)
  <2>1. Positions \ UsedPos(c) # {}
    BY DEF RecvHelloConnect
  <2> QED BY <1>1, <2>1, FreePosIsFree
<1>3. /\ conns' = [conns EXCEPT ![c] = @ \cup {new}]
      /\ info' = [info EXCEPT ![c][d] = pos]
      /\ posCnt' = [posCnt EXCEPT ![c] = NextPosCnt(c)]
      /\ hellos' \subseteq hellos
      /\ UNCHANGED <<running, faults>>
      /\ info[c][d] = 0
  BY DEF RecvHelloConnect
<1> HIDE DEF pos
<1>4. /\ \A x \in conns[c] : x.pos # pos
      /\ new \in Conn /\ new.pos = pos /\ new.peer = d
  BY <1>2 DEF UsedPos, Conn
<1>5. \A x \in conns[c] : x.peer # d
  BY <1>1, <1>3 DEF IInv, NoOrphan, TypeOK, Conn
<1>t. TypeOK
  BY DEF IInv
<1>6. TypeOK'
  <2>1. conns' \in [Clusters -> SUBSET Conn]
    BY <1>t, <1>3, <1>4 DEF TypeOK
  <2>2. info' \in [Clusters -> [Clusters -> Positions \cup {0}]]
    BY <1>t, <1>2, <1>3 DEF TypeOK
  <2>3. posCnt' \in [Clusters -> Positions \cup {0}]
    BY <1>t, <1>1, <1>3 DEF TypeOK
  <2> QED BY <1>t, <1>3, <2>1, <2>2, <2>3 DEF TypeOK
<1>7. /\ conns'[c] = conns[c] \cup {new}
      /\ \A e \in Clusters \ {c} : conns'[e] = conns[e]
      /\ info'[c][d] = pos
      /\ \A e \in Clusters \ {d} : info'[c][e] = info[c][e]
      /\ \A e \in Clusters \ {c} : info'[e] = info[e]
  BY <1>3, <1>t DEF TypeOK
<1>8. NotSelf'
  BY <1>7 DEF IInv, NotSelf
<1>9. NoOrphan'
  <2> SUFFICES ASSUME NEW e \in Clusters, NEW x \in conns'[e]
               PROVE  info'[e][x.peer] = x.pos
    BY DEF NoOrphan
  <2>1. CASE e # c
    BY <2>1, <1>7 DEF IInv, NoOrphan
  <2>2. CASE e = c /\ x = new
    BY <2>2, <1>7
  <2>3. CASE e = c /\ x \in conns[c]
    BY <2>3, <1>7, <1>5, <1>t DEF IInv, NoOrphan, TypeOK, Conn
  <2> QED BY <2>1, <2>2, <2>3, <1>7
<1>10. PosUnique'
  <2> HIDE DEF new
  <2> QED BY <1>7, <1>4 DEF IInv, PosUnique
<1>11. InfoBackedBelowMax'
  <2> SUFFICES ASSUME NEW a \in Clusters, NEW b \in Clusters, info'[a][b] \notin {0, PosMax}
               PROVE  \E x \in conns'[a] : x.pos = info'[a][b] /\ x.peer = b
    BY DEF InfoBackedBelowMax
  <2>1. CASE a = c /\ b = d
    <3> HIDE DEF new
    <3> QED BY <2>1, <1>4, <1>7
  <2>2. CASE a # c \/ b # d
    <3>1. info'[a][b] = info[a][b] /\ conns[a] \subseteq conns'[a]
      BY <2>2, <1>7
    <3> QED BY <3>1 DEF IInv, InfoBackedBelowMax
  <2> QED BY <2>1, <2>2
<1> QED BY <1>6, <1>8, <1>9, <1>10, <1>11 DEF IInv

\* Releasing a socket drops what names it and nothing else.
LEMMA ReleaseKeeps ==
    ASSUME IInv, NEW c \in Clusters, NEW x \in conns[c], ReleaseConn(c, x),
           UNCHANGED <<running, posCnt, hellos, faults>>
    PROVE  IInv'
<1>t. TypeOK
  BY DEF IInv
<1>1. x \in Conn /\ x.pos \in PosMin + 1 .. PosMax
  BY <1>t DEF TypeOK, Conn, Positions
<1>2. /\ conns'[c] = conns[c] \ {x}
      /\ \A e \in Clusters \ {c} : conns'[e] = conns[e] /\ info'[e] = info[e]
  BY <1>t DEF TypeOK, ReleaseConn
<1>3. \A e \in Clusters :
        info'[c][e] = IF info[c][e] = x.pos /\ x.pos # PosMax THEN 0 ELSE info[c][e]
  <2>1. CASE x.pos = PosMax
    <3>1. info' = info
      BY <2>1, PosAssumption DEF ReleaseConn
    <3> QED BY <2>1, <3>1
  <2>2. CASE x.pos # PosMax
    <3>1. info' = [info EXCEPT ![c] = [d \in Clusters |-> IF @[d] = x.pos THEN 0 ELSE @[d]]]
      BY <2>2, <1>1, PosAssumption DEF ReleaseConn
    <3> QED BY <2>2, <3>1, <1>t DEF TypeOK
  <2> QED BY <2>1, <2>2
<1>4. TypeOK'
  <2>1. conns' \in [Clusters -> SUBSET Conn]
    BY <1>t DEF TypeOK, ReleaseConn
  <2>2. info' \in [Clusters -> [Clusters -> Positions \cup {0}]]
    BY <1>t DEF TypeOK, ReleaseConn
  <2> QED BY <1>t, <2>1, <2>2 DEF TypeOK
<1>5. NotSelf'
  BY <1>2 DEF IInv, NotSelf
<1>6. \A y \in conns[c] : y # x => y.pos # x.pos
  BY DEF IInv, PosUnique
<1>7. NoOrphan'
  BY <1>2, <1>3, <1>6, <1>t DEF IInv, NoOrphan, TypeOK, Conn
<1>8. PosUnique'
  BY <1>2 DEF IInv, PosUnique
<1>9. InfoBackedBelowMax'
  <2> SUFFICES ASSUME NEW a \in Clusters, NEW b \in Clusters, info'[a][b] \notin {0, PosMax}
               PROVE  \E y \in conns'[a] : y.pos = info'[a][b] /\ y.peer = b
    BY DEF InfoBackedBelowMax
  <2>1. info'[a][b] = info[a][b]
    BY <1>2, <1>3
  <2>2. PICK y \in conns[a] : y.pos = info[a][b] /\ y.peer = b
    BY <2>1 DEF IInv, InfoBackedBelowMax
  <2>3. y \in conns'[a]
    BY <2>1, <2>2, <1>2, <1>3
  <2> QED BY <2>1, <2>2, <2>3
<1> QED BY <1>4, <1>5, <1>7, <1>8, <1>9 DEF IInv

\* A broken connection keeps its place in both tables.
LEMMA BreakKeeps ==
    ASSUME IInv, NEW c \in Clusters, NEW x \in conns[c], Break(c, x)
    PROVE  IInv'
<1>t. TypeOK
  BY DEF IInv
<1> DEFINE dead == [x EXCEPT !.ok = FALSE]
<1>1. x \in Conn
  BY <1>t DEF TypeOK
<1>2. dead \in Conn /\ dead.pos = x.pos /\ dead.peer = x.peer
  BY <1>1 DEF Conn
<1>3. /\ conns'[c] = (conns[c] \ {x}) \cup {dead}
      /\ \A e \in Clusters \ {c} : conns'[e] = conns[e]
      /\ conns' \in [Clusters -> SUBSET Conn]
      /\ UNCHANGED info
  BY <1>t, <1>2 DEF TypeOK, Break
<1> HIDE DEF dead
<1>4. TypeOK'
  BY <1>t, <1>3, PosAssumption DEF TypeOK, Break
<1>5. NotSelf' /\ NoOrphan'
  BY <1>2, <1>3 DEF IInv, NotSelf, NoOrphan
<1>6. PosUnique'
  BY <1>2, <1>3 DEF IInv, PosUnique
<1>7. InfoBackedBelowMax'
  <2> SUFFICES ASSUME NEW a \in Clusters, NEW b \in Clusters, info[a][b] \notin {0, PosMax}
               PROVE  \E y \in conns'[a] : y.pos = info[a][b] /\ y.peer = b
    BY <1>3 DEF InfoBackedBelowMax
  <2>1. PICK y \in conns[a] : y.pos = info[a][b] /\ y.peer = b
    BY DEF IInv, InfoBackedBelowMax
  <2> QED BY <2>1, <1>2, <1>3
<1> QED BY <1>4, <1>5, <1>6, <1>7 DEF IInv

\* A dying bus forgets its tables; in the tables of the others its connections
\* stay, broken.
LEMMA DieKeeps ==
    ASSUME IInv, NEW c \in Clusters, Die(c)
    PROVE  IInv'
<1>t. TypeOK
  BY DEF IInv
<1> DEFINE cut(x) == IF x.peer = c THEN [x EXCEPT !.ok = FALSE] ELSE x
<1>1. \A x \in Conn : cut(x) \in Conn /\ cut(x).pos = x.pos /\ cut(x).peer = x.peer
  BY DEF Conn
<1>2. /\ conns'[c] = {}
      /\ \A e \in Clusters \ {c} : conns'[e] = {cut(x) : x \in conns[e]}
      /\ \A e \in Clusters : info'[c][e] = 0
      /\ \A e \in Clusters \ {c} : info'[e] = info[e]
  BY <1>t DEF TypeOK, Die
<1>3. \A e \in Clusters : conns[e] \subseteq Conn
  BY <1>t DEF TypeOK
<1>4. \A e \in Clusters : \A y \in conns'[e] : e # c /\ \E x \in conns[e] : y = cut(x)
  BY <1>2
<1>5. \A e \in Clusters \ {c} : \A x \in conns[e] : cut(x) \in conns'[e]
  BY <1>2
<1>6. \A e \in Clusters : \A y \in conns'[e] : y \in Conn
  BY <1>1, <1>3, <1>4
<1> HIDE DEF cut
<1>7. TypeOK'
  <2>1. conns' \in [Clusters -> SUBSET Conn]
    <3>1. conns' = [e \in Clusters |-> conns'[e]]
      BY DEF Die
    <3> QED BY <3>1, <1>6
  <2>2. info' \in [Clusters -> [Clusters -> Positions \cup {0}]]
    BY <1>t DEF TypeOK, Die
  <2>3. hellos' \subseteq Clusters \X Clusters
    BY <1>t DEF TypeOK, Die
  <2> QED BY <1>t, <2>1, <2>2, <2>3, PosAssumption DEF TypeOK, Die
<1>8. NotSelf'
  BY <1>1, <1>3, <1>4 DEF IInv, NotSelf
<1>9. NoOrphan'
  BY <1>1, <1>2, <1>3, <1>4 DEF IInv, NoOrphan
<1>10. PosUnique'
  BY <1>1, <1>3, <1>4 DEF IInv, PosUnique
<1>11. InfoBackedBelowMax'
  <2> SUFFICES ASSUME NEW a \in Clusters, NEW b \in Clusters, info'[a][b] \notin {0, PosMax}
               PROVE  \E y \in conns'[a] : y.pos = info'[a][b] /\ y.peer = b
    BY DEF InfoBackedBelowMax
  <2>1. a # c /\ info'[a][b] = info[a][b]
    BY <1>2
  <2>2. PICK y \in conns[a] : y.pos = info[a][b] /\ y.peer = b
    BY <2>1 DEF IInv, InfoBackedBelowMax
  <2> QED BY <2>1, <2>2, <1>1, <1>3, <1>5
<1> QED BY <1>7, <1>8, <1>9, <1>10, <1>11 DEF IInv

\* Every step keeps the invariant.
LEMMA NextIInv == IInv /\ [Next]_vars => IInv'
<1> SUFFICES ASSUME IInv, [Next]_vars PROVE IInv'
  OBVIOUS
<1>t. TypeOK
  BY DEF IInv
<1>1. ASSUME NEW c \in Clusters, SendHelloMessage(c) PROVE IInv'
  <2>1. TypeOK'
    BY <1>t, <1>1 DEF TypeOK, SendHelloMessage
  <2> QED BY <1>1, <2>1, TablesKept DEF SendHelloMessage, IInv
<1>2. ASSUME NEW c \in Clusters, Restart(c) PROVE IInv'
  <2>1. TypeOK'
    BY <1>t, <1>2 DEF TypeOK, Restart
  <2> QED BY <1>2, <2>1, TablesKept DEF Restart, IInv
<1>3. ASSUME NEW c \in Clusters, NEW d \in Clusters \ {c}, LoseHello(c, d) PROVE IInv'
  <2>1. TypeOK'
    BY <1>t, <1>3, PosAssumption DEF TypeOK, LoseHello
  <2> QED BY <1>3, <2>1, TablesKept DEF LoseHello, IInv
<1>4. ASSUME NEW c \in Clusters, NEW d \in Clusters \ {c},
             RecvHelloKnown(c, d) \/ RecvHelloRefused(c, d)
      PROVE  IInv'
  <2>1. TypeOK'
    BY <1>t, <1>4 DEF TypeOK, RecvHelloKnown, RecvHelloRefused
  <2> QED BY <1>4, <2>1, TablesKept DEF RecvHelloKnown, RecvHelloRefused, IInv
<1>5. ASSUME NEW c \in Clusters, NEW d \in Clusters \ {c}, SendFails(c, d) PROVE IInv'
  BY <1>5, ReleaseKeeps DEF SendFails
<1>6. ASSUME NEW c \in Clusters, NEW x \in conns[c], EpollHup(c, x) PROVE IInv'
  BY <1>6, ReleaseKeeps DEF EpollHup
<1>7. CASE UNCHANGED vars
  <2>1. TypeOK'
    BY <1>t, <1>7 DEF TypeOK, vars
  <2> QED BY <1>7, <2>1, TablesKept DEF vars, IInv
<1> QED
  BY <1>1, <1>2, <1>3, <1>4, <1>5, <1>6, <1>7, ConnectKeeps, BreakKeeps, DieKeeps DEF Next

-----------------------------------------------------------------------------
(* The search ends *)

\* While a bus lacks a connection to some other cluster, one of its positions
\* is free: the sockets have different peers, and neither the bus itself nor
\* the missing cluster is among them.
LEMMA IInvSearchEnds == IInv => SearchEnds
<1> SUFFICES ASSUME IInv, NEW c \in Clusters, NEW d \in Clusters \ {c}, info[c][d] = 0,
                    Positions \subseteq UsedPos(c)
             PROVE  FALSE
  BY DEF SearchEnds
<1> DEFINE sock(p) == CHOOSE x \in conns[c] : x.pos = p
           others == (Clusters \ {c}) \ {d}
           f == [p \in Positions |-> sock(p).peer]
<1>1. \A p \in Positions : sock(p) \in conns[c] /\ sock(p).pos = p
  BY DEF UsedPos
<1>2. \A x \in conns[c] : x.peer \in Clusters /\ info[c][x.peer] = x.pos /\ x.peer # c
  BY DEF IInv, TypeOK, Conn, NoOrphan, NotSelf
<1>3. 0 \notin Positions
  BY PosAssumption DEF Positions
<1> HIDE DEF sock
<1>4. \A p \in Positions : sock(p).peer \in others /\ info[c][sock(p).peer] = p
  BY <1>1, <1>2, <1>3
<1>5. f \in Injection(Positions, others)
  <2>1. f \in [Positions -> others]
    BY <1>4
  <2>2. \A p, q \in Positions : f[p] = f[q] => p = q
    BY <1>4
  <2> QED BY <2>1, <2>2 DEF Injection, IsInjective
<1>6. /\ IsFiniteSet(others)
      /\ Cardinality(others) = Cardinality(Clusters) - 2
      /\ Cardinality(Clusters) \in Nat
  <2>1. IsFiniteSet(Clusters) /\ Cardinality(Clusters) \in Nat
    BY RoomAssumption, FS_CardinalityType
  <2>2. IsFiniteSet(Clusters \ {c}) /\ Cardinality(Clusters \ {c}) = Cardinality(Clusters) - 1
    BY <2>1, FS_RemoveElement
  <2>3. IsFiniteSet(others) /\ Cardinality(others) = Cardinality(Clusters \ {c}) - 1
    BY <2>2, FS_RemoveElement
  <2> QED BY <2>1, <2>2, <2>3
<1>7. Cardinality(Positions) <= Cardinality(others)
  <2> HIDE DEF f, others
  <2> QED BY <1>5, <1>6, FS_Injection
<1>8. Cardinality(Positions) = PosMax - PosMin
  <2>1. PosMin + 1 \in Int /\ PosMax \in Int /\ ~(PosMin + 1 > PosMax)
    BY PosAssumption
  <2>2. Cardinality(PosMin + 1 .. PosMax) = PosMax - (PosMin + 1) + 1
    BY <2>1, FS_Interval
  <2> QED BY <2>2, PosAssumption DEF Positions
<1> QED BY <1>6, <1>7, <1>8, RoomAssumption, PosAssumption

-----------------------------------------------------------------------------
(* Theorems *)

\* The invariant always holds.
LEMMA IInvAlways == Spec => []IInv
BY InitIInv, NextIInv, PTL DEF Spec

\* Every position handed out and every counter stays in the range of the
\* cluster sockets.
THEOREM TypeCorrect == Spec => []TypeOK
<1>1. IInv => TypeOK
  BY DEF IInv
<1> QED BY <1>1, IInvAlways, PTL

\* ReleaseConn and ConnectCluster keep m_PosConnMap and m_mapClusterInfo in
\* step: a socket is always the one its peer's ClusterInfo names.
THEOREM NoOrphanAlways == Spec => []NoOrphan
<1>1. IInv => NoOrphan
  BY DEF IInv
<1> QED BY <1>1, IInvAlways, PTL

\* No two sockets share a ConnPos, however often the counter wraps.
THEOREM PosUniqueAlways == Spec => []PosUnique
<1>1. IInv => PosUnique
  BY DEF IInv
<1> QED BY <1>1, IInvAlways, PTL

\* What ClusterInfo names below the last position exists: no hello is ignored
\* for a connection that is gone, except on the last position.
THEOREM InfoBackedAlways == Spec => []InfoBackedBelowMax
<1>1. IInv => InfoBackedBelowMax
  BY DEF IInv
<1> QED BY <1>1, IInvAlways, PTL

\* The search loop of ConnectCluster always finds a position, whenever the
\* range has one for every other cluster.
THEOREM SearchEndsAlways == Spec => []SearchEnds
BY IInvSearchEnds, IInvAlways, PTL
=============================================================================
