------------------------------ MODULE BusLink ------------------------------
(***************************************************************************)
(* bus/bus.cpp, connection management between clusters.  Every bus sends   *)
(* UDP hello messages to the others; a hello makes the receiver open a TCP *)
(* connection to the sender unless it believes it has one.  A connection   *)
(* carries packets one way, from the side that opened it.  It lives in two *)
(* tables: m_PosConnMap, from ConnPos to the socket, and m_mapClusterInfo, *)
(* from the cluster to the ConnPos to send on.  ReleaseConn has to keep    *)
(* the two in step, because a hello is ignored as long as ClusterInfo      *)
(* names a ConnPos.                                                        *)
(*                                                                         *)
(* SocketID and ConnPos of a ClusterInfo are always set and reset          *)
(* together; the model keeps ConnPos, 0 standing for "not connected".      *)
(* Accepted sockets have ConnPos values of their own (CLIENT_SOCK_CPOS_MIN *)
(* and up) and never appear in ClusterInfo; they are left out.             *)
(***************************************************************************)
EXTENDS Integers, FiniteSets

CONSTANTS
    Clusters,   \* m_mapClusterInfo's keys
    PosMin,     \* CLUSTER_SOCK_CPOS_MIN
    PosMax,     \* CLUSTER_SOCK_CPOS_MAX
    MaxFaults   \* bound on broken connections and process deaths together

ASSUME PosAssumption ==
    /\ PosMin \in Nat \ {0, 1} /\ PosMax \in Nat /\ PosMin < PosMax
    /\ MaxFaults \in Nat

\* There is a position for every other cluster: the range has 99999 of them.
ASSUME RoomAssumption ==
    IsFiniteSet(Clusters) /\ Cardinality(Clusters) - 1 <= PosMax - PosMin

\* The positions ConnectCluster hands out.
Positions == PosMin + 1 .. PosMax

VARIABLES
    running,  \* running[c]: the bus process of cluster c is up
    info,     \* info[c][d]: ConnPos in c's ClusterInfo of d
    conns,    \* conns[c]: the part of c's m_PosConnMap opened by ConnectCluster,
              \* a set of records, at most one per pos
    posCnt,   \* posCnt[c]: m_ClusterPosCnt
    hellos,   \* hello datagrams in flight, pairs <<from, to>>
    faults    \* faults so far

vars == <<running, info, conns, posCnt, hellos, faults>>

\* A socket in m_PosConnMap; ok turns FALSE when the TCP connection is gone
\* and the bus has yet to find out.
Conn == [pos : Positions, peer : Clusters, ok : BOOLEAN]

UsedPos(c) == {x.pos : x \in conns[c]}

Init ==
    /\ running = [c \in Clusters |-> TRUE]
    /\ info = [c \in Clusters |-> [d \in Clusters |-> 0]]
    /\ conns = [c \in Clusters |-> {}]
    /\ posCnt = [c \in Clusters |-> 0]
    /\ hellos = {}
    /\ faults = 0

-----------------------------------------------------------------------------
(* Helpers of the handlers *)

\* As NextPosCnt, the upper end of the range not checked.
NextPosCntNoWrap(c) ==
    IF posCnt[c] + 1 < PosMin THEN PosMin + 1 ELSE posCnt[c] + 1

\* m_ClusterPosCnt after the increment and its range check.
NextPosCnt(c) ==
    LET n == posCnt[c] + 1 IN
    IF n < PosMin \/ n > PosMax THEN PosMin + 1 ELSE n

\* As FreePos, without the search.
FreePosNoSearch(c, start) == start

\* The search loop: upwards from start, wrapping to PosMin + 1.  Without a
\* free position the loop does not end.
FreePos(c, start) ==
    LET free  == Positions \ UsedPos(c)
        above == {p \in free : p >= start}
        least(S) == CHOOSE p \in S : \A q \in S : p <= q
    IN  IF above # {} THEN least(above) ELSE least(free)

\* As ReleaseConn, the socket left in m_PosConnMap.
ReleaseConnKeepsSocket(c, x) ==
    /\ info' = [info EXCEPT ![c] =
                  [d \in Clusters |-> IF @[d] = x.pos THEN 0 ELSE @[d]]]
    /\ UNCHANGED conns

\* As ReleaseConn, the ClusterInfo not reset.
ReleaseConnKeepsInfo(c, x) ==
    /\ conns' = [conns EXCEPT ![c] = @ \ {x}]
    /\ UNCHANGED info

\* ReleaseConn, with DisconnetCluster: the socket leaves m_PosConnMap, and the
\* ClusterInfo that names its position is reset if the range test lets it.
ReleaseConn(c, x) ==
    /\ conns' = [conns EXCEPT ![c] = @ \ {x}]
    /\ info' = IF x.pos > PosMin /\ x.pos < PosMax
               THEN [info EXCEPT ![c] =
                       [d \in Clusters |-> IF @[d] = x.pos THEN 0 ELSE @[d]]]
               ELSE info

-----------------------------------------------------------------------------
\* SendHelloMessage: one datagram to every other cluster; one to a bus that is
\* down is gone at once.
SendHelloMessage(c) ==
    /\ running[c]
    /\ hellos' = hellos \cup {<<c, d>> : d \in {e \in Clusters \ {c} : running[e]}}
    /\ UNCHANGED <<running, info, conns, posCnt, faults>>

\* A datagram is lost.
LoseHello(c, d) ==
    /\ <<d, c>> \in hellos
    /\ hellos' = hellos \ {<<d, c>>}
    /\ faults < MaxFaults
    /\ faults' = faults + 1
    /\ UNCHANGED <<running, info, conns, posCnt>>

\* RecvHelloMessage when ClusterInfo already names a connection.
RecvHelloKnown(c, d) ==
    /\ running[c]
    /\ <<d, c>> \in hellos
    /\ info[c][d] # 0
    /\ hellos' = hellos \ {<<d, c>>}
    /\ UNCHANGED <<running, info, conns, posCnt, faults>>

\* RecvHelloMessage and ConnectCluster, connect() succeeding.
RecvHelloConnect(c, d) ==
    /\ running[c] /\ running[d]
    /\ <<d, c>> \in hellos
    /\ info[c][d] = 0
    /\ Positions \ UsedPos(c) # {}
    /\ LET pos == FreePos(c, NextPosCnt(c)) IN
          /\ conns' = [conns EXCEPT ![c] = @ \cup {[pos |-> pos, peer |-> d, ok |-> TRUE]}]
          /\ info' = [info EXCEPT ![c][d] = pos]
    /\ posCnt' = [posCnt EXCEPT ![c] = NextPosCnt(c)]
    /\ hellos' = hellos \ {<<d, c>>}
    /\ UNCHANGED <<running, faults>>

\* connect() fails because nobody listens any more: the hello is used up.
RecvHelloRefused(c, d) ==
    /\ running[c] /\ ~running[d]
    /\ <<d, c>> \in hellos
    /\ info[c][d] = 0
    /\ hellos' = hellos \ {<<d, c>>}
    /\ UNCHANGED <<running, info, conns, posCnt, faults>>

\* epoll reports EPOLLERR, EPOLLHUP or the end of the stream.
EpollHup(c, x) ==
    /\ running[c]
    /\ x \in conns[c] /\ ~x.ok
    /\ ReleaseConn(c, x)
    /\ UNCHANGED <<running, posCnt, hellos, faults>>

\* Send2Cluster writes to a socket whose peer is gone; SendHeartBeetMessage
\* does so regularly.  It goes through ClusterInfo, not through epoll.
SendFails(c, d) ==
    /\ running[c]
    /\ info[c][d] # 0
    /\ \E x \in conns[c] :
          /\ x.pos = info[c][d] /\ ~x.ok
          /\ ReleaseConn(c, x)
    /\ UNCHANGED <<running, posCnt, hellos, faults>>

\* The network drops a connection.
Break(c, x) ==
    /\ x \in conns[c] /\ x.ok
    /\ faults < MaxFaults
    /\ faults' = faults + 1
    /\ conns' = [conns EXCEPT ![c] = (@ \ {x}) \cup {[x EXCEPT !.ok = FALSE]}]
    /\ UNCHANGED <<running, info, posCnt, hellos>>

\* A bus dies; its tables and the datagrams it has not read go with it, and the
\* connections to it break.
Die(c) ==
    /\ running[c]
    /\ faults < MaxFaults
    /\ faults' = faults + 1
    /\ running' = [running EXCEPT ![c] = FALSE]
    /\ info' = [info EXCEPT ![c] = [d \in Clusters |-> 0]]
    /\ posCnt' = [posCnt EXCEPT ![c] = 0]
    /\ conns' = [d \in Clusters |->
                   IF d = c THEN {}
                   ELSE {IF x.peer = c THEN [x EXCEPT !.ok = FALSE] ELSE x : x \in conns[d]}]
    /\ hellos' = {h \in hellos : h[2] # c}

Restart(c) ==
    /\ ~running[c]
    /\ running' = [running EXCEPT ![c] = TRUE]
    /\ UNCHANGED <<info, conns, posCnt, hellos, faults>>

Next ==
    \E c \in Clusters :
        \/ SendHelloMessage(c) \/ Die(c) \/ Restart(c)
        \/ \E d \in Clusters \ {c} :
              \/ LoseHello(c, d) \/ RecvHelloKnown(c, d) \/ RecvHelloConnect(c, d)
              \/ RecvHelloRefused(c, d) \/ SendFails(c, d)
        \/ \E x \in conns[c] : EpollHup(c, x) \/ Break(c, x)

Spec == Init /\ [][Next]_vars

\* The loop of Run: hellos and heartbeats go out on their timers, epoll events
\* and datagrams are handled, and a dead bus is started again.
Fairness ==
    /\ \A c \in Clusters :
          /\ WF_vars(SendHelloMessage(c))
          /\ WF_vars(Restart(c))
          /\ WF_vars(\E x \in conns[c] : EpollHup(c, x))
          /\ \A d \in Clusters \ {c} :
                WF_vars(RecvHelloKnown(c, d) \/ RecvHelloConnect(c, d) \/ RecvHelloRefused(c, d))

FairSpec == Spec /\ Fairness

-----------------------------------------------------------------------------
(* Properties *)

\* Type correctness: every position handed out, and the counter they come from,
\* stays in the range that tells cluster sockets from client sockets.
TypeOK ==
    /\ running \in [Clusters -> BOOLEAN]
    /\ info \in [Clusters -> [Clusters -> Positions \cup {0}]]
    /\ conns \in [Clusters -> SUBSET Conn]
    /\ posCnt \in [Clusters -> Positions \cup {0}]
    /\ hellos \subseteq Clusters \X Clusters
    /\ faults \in 0..MaxFaults

\* No socket is orphaned: each connection in m_PosConnMap is the one that the
\* ClusterInfo of its peer names.  ConnectCluster relies on it: an orphan
\* would hold its position for ever.
NoOrphan ==
    \A c \in Clusters : \A x \in conns[c] : info[c][x.peer] = x.pos

\* Two sockets never share a ConnPos, although positions are reused after the
\* counter has wrapped: an epoll event names a socket by its ConnPos alone.
PosUnique ==
    \A c \in Clusters : \A x, y \in conns[c] : x.pos = y.pos => x = y

\* The search loop of ConnectCluster ends ("when it is full this is an endless
\* loop", says its comment): it is never full when a hello asks for a
\* connection.
SearchEnds ==
    \A c \in Clusters : \A d \in Clusters \ {c} :
        info[c][d] = 0 => Positions \ UsedPos(c) # {}

\* What ClusterInfo names exists in m_PosConnMap, for every position but the
\* last one of the range.
InfoBackedBelowMax ==
    \A c, d \in Clusters :
        info[c][d] \notin {0, PosMax} =>
            \E x \in conns[c] : x.pos = info[c][d] /\ x.peer = d

\* The same for every position of the range that the comment on
\* CLUSTER_SOCK_CPOS_MIN reserves for connections to other clusters.
InfoBacked ==
    \A c, d \in Clusters :
        info[c][d] # 0 => \E x \in conns[c] : x.pos = info[c][d] /\ x.peer = d

LinkOpen(c, d) == \E x \in conns[c] : x.ok /\ x.peer = d /\ info[c][d] = x.pos

\* After the last fault every bus can send to every other one again, unless
\* the connection was on the last position of the range (see InfoBacked).
LinkRecovers ==
    <>[](\A c \in Clusters : \A d \in Clusters \ {c} :
            LinkOpen(c, d) \/ info[c][d] = PosMax)
=============================================================================
