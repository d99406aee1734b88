------------------------------ MODULE BusRoute ------------------------------
(***************************************************************************)
(* bus/bus.cpp, the routing of packets.  A server puts a packet into the   *)
(* m_ClusterQueue of its cluster; the bus of that cluster takes it out,    *)
(* turns its group address into a list of servers and hands one copy to    *)
(* each: to the server's own queue if it lives in the same cluster, to the *)
(* TCP connection of the other cluster otherwise, where ProcessPkg puts it *)
(* into the server's queue.                                                *)
(*                                                                         *)
(* The bus is one thread: while it is inside ForwardMsg it reads no        *)
(* socket.  The sockets that ConnectCluster opens are left in blocking     *)
(* mode (only accepted ones get O_NONBLOCK), so write() in CConnInfo::Send *)
(* waits for room instead of returning EAGAIN, and the code that keeps the *)
(* rest of a packet for EPOLLOUT is not reached on them.                   *)
(*                                                                         *)
(* A packet is named by its number in the history of all packets sent;     *)
(* packets are whole on a connection (the reassembly of the byte stream is *)
(* not part of this module), and how connections come and go is abstracted *)
(* from module BusLink to LinkBreak, EpollErr and Reconnect.               *)
(***************************************************************************)
EXTENDS Integers, Sequences, FiniteSets

CONSTANTS
    NClusters,  \* clusters are numbered 1..NClusters
    Servers,    \* keys of m_mapSvrInfo
    ClusterOf,  \* ServerInfo.ClusterID
    Groups,     \* m_mapGrpInfo: the servers of a group, in the order of the file
    Traffic,    \* the packets the servers may send
    QueueCap,   \* packets that fit into the queue of a server
    WireCap,    \* packets the kernel holds for a connection
    MaxSend,    \* bound on the packets sent
    MaxBreaks   \* bound on the broken connections

Clusters == 1..NClusters

\* The values of SendType, and the two commands that are not for a server.
Unicast   == {"TO_SRV"}
RandomOne == {"TO_GRP_RND", "TO_GRP_RNDNOME"}
ToAll     == {"TO_GRP_ALL", "TO_GRP_ALLNOME"}
NoMe      == {"TO_GRP_RNDNOME", "TO_GRP_ALLNOME"}
ToBuses   == {"StateChange", "Heartbeat"}

ASSUME RouteAssumption ==
    /\ NClusters \in Nat \ {0}
    /\ ClusterOf \in [Servers -> Clusters]
    /\ \A g \in DOMAIN Groups :
          /\ Groups[g] \in Seq(Servers)
          /\ \A i, j \in DOMAIN Groups[g] : Groups[g][i] = Groups[g][j] => i = j
    /\ \A t \in Traffic : t.src \in Servers /\ t.type # "Heartbeat"
    /\ QueueCap \in Nat /\ WireCap \in Nat /\ MaxSend \in Nat /\ MaxBreaks \in Nat

VARIABLES
    sent,     \* history: the packets sent, [src, type, dst]
    clusterQ, \* clusterQ[c]: m_ClusterQueue of c, packet numbers
    job,      \* job[c]: the packet inside ForwardMsg and the copies still to send
    svrQ,     \* svrQ[s]: the queue of server s, copies [id, dst, via]
    got,      \* got[s]: what server s has taken out of it
    link,     \* link[c][d]: c's ClusterInfo of d, "up", "down", or "dead" when
              \* the connection is gone and c has not noticed
    wire,     \* wire[c][d]: the connections from c to d, the current one last;
              \* each one the copies [id, dst] still to be read
    breaks,   \* broken connections so far
    lost      \* history: the copies <<id, dst>> the code gave up or TCP lost

vars == <<sent, clusterQ, job, svrQ, got, link, wire, breaks, lost>>

NoJob == [id |-> 0, todo |-> <<>>]

Idle(c) == job[c] = NoJob

\* The other clusters, in the order of m_mapClusterInfo.
Others(c) == [i \in 1..NClusters - 1 |-> IF i < c THEN i ELSE i + 1]

Init ==
    /\ sent = <<>>
    /\ clusterQ = [c \in Clusters |-> <<>>]
    /\ job = [c \in Clusters |-> NoJob]
    /\ svrQ = [s \in Servers |-> <<>>]
    /\ got = [s \in Servers |-> <<>>]
    /\ link = [c \in Clusters |-> [d \in Clusters |-> "down"]]
    /\ wire = [c \in Clusters |-> [d \in Clusters |-> <<>>]]
    /\ breaks = 0
    /\ lost = {}

-----------------------------------------------------------------------------
(* Addressing *)

Range1(s) == {s[i] : i \in DOMAIN s}

\* The sequence g, in which nothing is twice, with s left out.
Without(g, s) ==
    IF s \notin Range1(g) THEN g
    ELSE LET k == CHOOSE k \in DOMAIN g : g[k] = s
         IN  [i \in 1..Len(g) - 1 |-> IF i < k THEN g[i] ELSE g[i + 1]]

\* The members of p's group that p may go to.
Members(p) ==
    IF p.dst \notin DOMAIN Groups THEN <<>>
    ELSE IF p.type \in NoMe THEN Without(Groups[p.dst], p.src)
    ELSE Groups[p.dst]

\* As DstLists, with the sender not left out.
DstListsWithMe(c, p) ==
    LET all == IF p.dst \in DOMAIN Groups THEN Groups[p.dst] ELSE <<>> IN
    IF p.type \in ToBuses THEN {Others(c)}
    ELSE IF p.type \in RandomOne THEN {<<s>> : s \in Range1(all)}
    ELSE IF p.type \in ToAll THEN {all}
    ELSE {<<p.dst>>}

\* The lists vctDstID that ForwardMsg of c may draw up for p.
DstLists(c, p) ==
    IF p.type \in ToBuses THEN {Others(c)}
    ELSE IF p.type \in RandomOne
    THEN IF Members(p) = <<>> THEN {<<>>} ELSE {<<s>> : s \in Range1(Members(p))}
    ELSE IF p.type \in ToAll THEN {Members(p)}
    ELSE {<<p.dst>>}

\* The cluster a copy has to reach.
Via(p, dst) == IF p.type \in ToBuses THEN dst ELSE ClusterOf[dst]

-----------------------------------------------------------------------------
(* Copies *)

\* The copies still to send; ForwardMsg returns when there are none.
Work(c, id, todo) == job' = [job EXCEPT ![c] = IF todo = <<>> THEN NoJob
                                               ELSE [id |-> id, todo |-> todo]]

\* What is given up when ForwardMsg returns early: the copies in todo.
GiveUp(id, todo) == lost' = lost \cup {<<id, dst>> : dst \in Range1(todo)}

LastOf(c, d) == Len(wire[c][d])

Current(c, d) == wire[c][d][LastOf(c, d)]

InQueue(s, copy) == svrQ' = [svrQ EXCEPT ![s] = Append(@, copy)]

-----------------------------------------------------------------------------
(* A server sends: InQueue on the cluster queue of its bus. *)

SvrSend(s) ==
    /\ Len(sent) < MaxSend
    /\ \E t \in {u \in Traffic : u.src = s} :
          /\ sent' = Append(sent, t)
          /\ clusterQ' = [clusterQ EXCEPT ![ClusterOf[s]] = Append(@, Len(sent) + 1)]
    /\ UNCHANGED <<job, svrQ, got, link, wire, breaks, lost>>

\* SendHeartBeetMessage, called from Run on a timer.
SendHeartBeetMessage(c) ==
    /\ Idle(c)
    /\ Len(sent) < MaxSend
    /\ sent' = Append(sent, [src |-> c, type |-> "Heartbeat", dst |-> c])
    /\ Work(c, Len(sent) + 1, Others(c))
    /\ UNCHANGED <<clusterQ, svrQ, got, link, wire, breaks, lost>>

\* As TakeMsg, the newest packet first.
TakeMsgNewest(c) ==
    /\ Idle(c)
    /\ clusterQ[c] # <<>>
    /\ clusterQ' = [clusterQ EXCEPT ![c] = SubSeq(@, 1, Len(@) - 1)]
    /\ LET id == clusterQ[c][Len(clusterQ[c])] IN
          \E todo \in DstLists(c, sent[id]) : Work(c, id, todo)
    /\ UNCHANGED <<sent, svrQ, got, link, wire, breaks, lost>>

\* Run takes a packet out and calls ForwardMsg, which draws up the list.
TakeMsg(c) ==
    /\ Idle(c)
    /\ clusterQ[c] # <<>>
    /\ clusterQ' = [clusterQ EXCEPT ![c] = Tail(@)]
    /\ LET id == Head(clusterQ[c]) IN
          \E todo \in DstLists(c, sent[id]) : Work(c, id, todo)
    /\ UNCHANGED <<sent, svrQ, got, link, wire, breaks, lost>>

(* One round of the loop of ForwardMsg, or of SendHeartBeetMessage. *)

\* A destination that is not in m_mapSvrInfo ends ForwardMsg.
ForwardUnknown(c) ==
    LET id == job[c].id  todo == job[c].todo IN
    /\ ~Idle(c)
    /\ sent[id].type \notin ToBuses
    /\ Head(todo) \notin Servers
    /\ GiveUp(id, todo)
    /\ Work(c, id, <<>>)
    /\ UNCHANGED <<sent, clusterQ, svrQ, got, link, wire, breaks>>

\* A server of this cluster; a full queue ends ForwardMsg, and the servers
\* further down the list get nothing.
ForwardLocal(c) ==
    LET id == job[c].id  todo == job[c].todo  s == Head(todo) IN
    /\ ~Idle(c)
    /\ sent[id].type \notin ToBuses
    /\ s \in Servers
    /\ ClusterOf[s] = c
    /\ IF Len(svrQ[s]) < QueueCap
       THEN /\ InQueue(s, [id |-> id, dst |-> s, via |-> <<c, 0>>])
            /\ Work(c, id, Tail(todo))
            /\ UNCHANGED lost
       ELSE /\ GiveUp(id, todo)
            /\ Work(c, id, <<>>)
            /\ UNCHANGED svrQ
    /\ UNCHANGED <<sent, clusterQ, got, link, wire, breaks>>

\* The next copy is for another cluster.
Remote(c) ==
    /\ ~Idle(c)
    /\ \/ sent[job[c].id].type \in ToBuses
       \/ Head(job[c].todo) \in Servers /\ ClusterOf[Head(job[c].todo)] # c

\* Send2Cluster without a connection: the copy is dropped, the result is 0.
ForwardNoLink(c) ==
    LET id == job[c].id  todo == job[c].todo  d == Via(sent[id], Head(todo)) IN
    /\ Remote(c)
    /\ link[c][d] = "down"
    /\ GiveUp(id, <<Head(todo)>>)
    /\ Work(c, id, Tail(todo))
    /\ UNCHANGED <<sent, clusterQ, svrQ, got, link, wire, breaks>>

\* Send2Cluster writes the copy.  While the kernel has no room the bus waits.
ForwardWrite(c) ==
    LET id == job[c].id  todo == job[c].todo  d == Via(sent[id], Head(todo)) IN
    /\ Remote(c)
    /\ link[c][d] = "up"
    /\ Len(Current(c, d)) < WireCap
    /\ wire' = [wire EXCEPT ![c][d][LastOf(c, d)] =
                   Append(@, [id |-> id, dst |-> Head(todo)])]
    /\ Work(c, id, Tail(todo))
    /\ UNCHANGED <<sent, clusterQ, svrQ, got, link, breaks, lost>>

\* The connection is broken and write() says so: ReleaseConn, and ForwardMsg
\* ends; the loop of SendHeartBeetMessage ignores the result and goes on.
ForwardFails(c) ==
    LET id == job[c].id  todo == job[c].todo  d == Via(sent[id], Head(todo)) IN
    /\ Remote(c)
    /\ link[c][d] = "dead"
    /\ link' = [link EXCEPT ![c][d] = "down"]
    /\ IF sent[id].type = "Heartbeat"
       THEN GiveUp(id, <<Head(todo)>>) /\ Work(c, id, Tail(todo))
       ELSE GiveUp(id, todo) /\ Work(c, id, <<>>)
    /\ UNCHANGED <<sent, clusterQ, svrQ, got, wire, breaks>>

\* The connection is broken but the kernel still takes the copy.
ForwardSwallowed(c) ==
    LET id == job[c].id  todo == job[c].todo  d == Via(sent[id], Head(todo)) IN
    /\ Remote(c)
    /\ link[c][d] = "dead"
    /\ GiveUp(id, <<Head(todo)>>)
    /\ Work(c, id, Tail(todo))
    /\ UNCHANGED <<sent, clusterQ, svrQ, got, link, wire, breaks>>

Forward(c) ==
    \/ ForwardUnknown(c) \/ ForwardLocal(c) \/ ForwardNoLink(c)
    \/ ForwardWrite(c) \/ ForwardFails(c) \/ ForwardSwallowed(c)

-----------------------------------------------------------------------------
\* As ProcessPkg, with a packet for a full queue left on the connection.
ProcessPkgLeaves(d, c, i) ==
    LET copy == Head(wire[c][d][i]) IN
    /\ Idle(d)
    /\ wire[c][d][i] # <<>>
    /\ wire' = [wire EXCEPT ![c][d][i] =
                  IF sent[copy.id].type \notin ToBuses /\ Len(svrQ[copy.dst]) = QueueCap
                  THEN @ ELSE Tail(@)]
    /\ IF sent[copy.id].type \in ToBuses
       THEN UNCHANGED <<svrQ, lost>>
       ELSE IF ClusterOf[copy.dst] = d /\ Len(svrQ[copy.dst]) < QueueCap
       THEN /\ InQueue(copy.dst, [id |-> copy.id, dst |-> copy.dst, via |-> <<c, i>>])
            /\ UNCHANGED lost
       ELSE GiveUp(copy.id, <<copy.dst>>) /\ UNCHANGED svrQ
    /\ UNCHANGED <<sent, clusterQ, job, got, link, breaks>>

\* ProcessPkg at bus d for the i-th connection that c opened.  Heartbeats and
\* state changes end here (ServerInfo.Status is not used by the code); a packet
\* for a full queue, or for a server of another cluster, is dropped.
ProcessPkg(d, c, i) ==
    LET copy == Head(wire[c][d][i]) IN
    /\ Idle(d)
    /\ wire[c][d][i] # <<>>
    /\ wire' = [wire EXCEPT ![c][d][i] = Tail(@)]
    /\ IF sent[copy.id].type \in ToBuses
       THEN UNCHANGED <<svrQ, lost>>
       ELSE IF ClusterOf[copy.dst] = d /\ Len(svrQ[copy.dst]) < QueueCap
       THEN /\ InQueue(copy.dst, [id |-> copy.id, dst |-> copy.dst, via |-> <<c, i>>])
            /\ UNCHANGED lost
       ELSE GiveUp(copy.id, <<copy.dst>>) /\ UNCHANGED svrQ
    /\ UNCHANGED <<sent, clusterQ, job, got, link, breaks>>

\* A server takes a packet out of its queue.
SvrRecv(s) ==
    /\ svrQ[s] # <<>>
    /\ svrQ' = [svrQ EXCEPT ![s] = Tail(@)]
    /\ got' = [got EXCEPT ![s] = Append(@, Head(svrQ[s]))]
    /\ UNCHANGED <<sent, clusterQ, job, link, wire, breaks, lost>>

-----------------------------------------------------------------------------
\* The network breaks a connection; the receiver can still read the first k
\* packets on it.
LinkBreak(c, d) ==
    /\ link[c][d] = "up"
    /\ breaks < MaxBreaks
    /\ breaks' = breaks + 1
    /\ link' = [link EXCEPT ![c][d] = "dead"]
    /\ \E k \in 0..Len(Current(c, d)) :
          /\ wire' = [wire EXCEPT ![c][d][LastOf(c, d)] = SubSeq(@, 1, k)]
          /\ lost' = lost \cup {<<Current(c, d)[j].id, Current(c, d)[j].dst>> :
                                  j \in k + 1..Len(Current(c, d))}
    /\ UNCHANGED <<sent, clusterQ, job, svrQ, got>>

\* epoll reports it.
EpollErr(c, d) ==
    /\ Idle(c)
    /\ link[c][d] = "dead"
    /\ link' = [link EXCEPT ![c][d] = "down"]
    /\ UNCHANGED <<sent, clusterQ, job, svrQ, got, wire, breaks, lost>>

\* A hello from d makes c connect (again): RecvHelloMessage.
Reconnect(c, d) ==
    /\ Idle(c)
    /\ link[c][d] = "down"
    /\ link' = [link EXCEPT ![c][d] = "up"]
    /\ wire' = [wire EXCEPT ![c][d] = Append(@, <<>>)]
    /\ UNCHANGED <<sent, clusterQ, job, svrQ, got, breaks, lost>>

Next ==
    \/ \E s \in Servers : SvrSend(s) \/ SvrRecv(s)
    \/ \E c \in Clusters : SendHeartBeetMessage(c) \/ TakeMsg(c) \/ Forward(c)
    \/ \E c \in Clusters : \E d \in Clusters \ {c} :
          \/ LinkBreak(c, d) \/ EpollErr(c, d) \/ Reconnect(c, d)
          \/ \E i \in DOMAIN wire[c][d] : ProcessPkg(d, c, i)

Spec == Init /\ [][Next]_vars

\* Run loops over its sockets and its queue, the servers over theirs; hellos
\* keep coming, so a lost connection is opened again.
Fairness ==
    /\ \A s \in Servers : WF_vars(SvrRecv(s))
    /\ \A c \in Clusters :
          /\ WF_vars(TakeMsg(c)) /\ WF_vars(Forward(c))
          /\ \A d \in Clusters \ {c} :
                /\ WF_vars(EpollErr(c, d)) /\ WF_vars(Reconnect(c, d))
                /\ WF_vars(\E i \in DOMAIN wire[c][d] : ProcessPkg(d, c, i))

FairSpec == Spec /\ Fairness

-----------------------------------------------------------------------------
(* Properties *)

Copy == [id : 1..MaxSend, dst : Servers, via : Clusters \X Nat]

\* Type correctness; the bus is inside ForwardMsg only while copies are left.
TypeOK ==
    /\ Len(sent) <= MaxSend
    /\ \A c \in Clusters : Range1(clusterQ[c]) \subseteq DOMAIN sent
    /\ \A c \in Clusters : Idle(c) \/ (job[c].id \in DOMAIN sent /\ job[c].todo # <<>>)
    /\ \A s \in Servers : Range1(svrQ[s]) \cup Range1(got[s]) \subseteq Copy
    /\ \A c, d \in Clusters : link[c][d] \in {"up", "down", "dead"}
    /\ \A c, d \in Clusters : link[c][d] # "down" => wire[c][d] # <<>>
    /\ breaks \in 0..MaxBreaks

\* The places where a copy of packet id for server s is.
Copies(id, s) ==
         {<<"queue", k>> : k \in {k \in DOMAIN svrQ[s] : svrQ[s][k].id = id}}
    \cup {<<"got", k>> : k \in {k \in DOMAIN got[s] : got[s][k].id = id}}
    \cup (UNION {{<<"wire", x, k>> : k \in {k \in DOMAIN wire[x[1]][x[2]][x[3]] :
                                    wire[x[1]][x[2]][x[3]][k] = [id |-> id, dst |-> s]}} :
                   x \in {y \in Clusters \X Clusters \X (1..MaxBreaks + 1) :
                            y[3] \in DOMAIN wire[y[1]][y[2]]}})
    \cup (UNION {{<<"todo", c, k>> : k \in {k \in DOMAIN job[c].todo :
                                       job[c].id = id /\ job[c].todo[k] = s}} : c \in Clusters})
    \cup (IF <<id, s>> \in lost THEN {<<"lost">>} ELSE {})

Waiting(id) == \E c \in Clusters : id \in Range1(clusterQ[c])

\* Every packet is accounted for.  Once ForwardMsg has it, a packet to a group
\* exists exactly once for each member it is meant for, a packet to one of a
\* group for exactly one member, and what is neither delivered nor on its way
\* was dropped at one of the places where the code drops: no copy is doubled by
\* a reconnect or an early return, none gets lost elsewhere.
Accounted ==
    \A id \in DOMAIN sent :
        LET p == sent[id] IN
        /\ Waiting(id) => \A s \in Servers : Copies(id, s) = {}
        /\ ~Waiting(id) /\ p.type \in ToAll =>
              \A s \in Range1(Members(p)) : Cardinality(Copies(id, s)) = 1
        /\ ~Waiting(id) /\ p.type \in RandomOne /\ Members(p) # <<>> =>
              Cardinality(UNION {{s} \X Copies(id, s) : s \in Servers}) = 1
        /\ ~Waiting(id) /\ p.type \in Unicast /\ p.dst \in Servers =>
              Cardinality(Copies(id, p.dst)) = 1

\* A server is only given what is addressed to it, by name or through its
\* group, and nothing it excluded itself from; and the branch that ProcessPkg
\* calls "unbelievable" (a packet for a server of a third cluster) is dead.
RightDestination ==
    /\ \A s \in Servers : \A copy \in Range1(svrQ[s]) \cup Range1(got[s]) :
          LET p == sent[copy.id] IN
          /\ copy.dst = s
          /\ p.type \in Unicast => p.dst = s
          /\ p.type \in ToAll \cup RandomOne => s \in Range1(Groups[p.dst])
          /\ p.type \in NoMe => s # p.src
    /\ \A c, d \in Clusters : \A i \in DOMAIN wire[c][d] :
          \A copy \in Range1(wire[c][d][i]) :
             sent[copy.id].type \notin ToBuses => ClusterOf[copy.dst] = d

\* What reaches a server over one connection is in the order in which it was
\* put into the cluster queue, and so is what it gets from its own bus.
\* Nothing is promised across a reconnect: the receiver may read the new
\* connection before the rest of the old one.
FifoPerConnection ==
    \A s \in Servers :
        LET all == got[s] \o svrQ[s] IN
        \A i, j \in DOMAIN all :
            i < j /\ all[i].via = all[j].via => all[i].id < all[j].id

\* ForwardMsg and SendHeartBeetMessage return.
ForwardEnds == \A c \in Clusters : ~Idle(c) ~> Idle(c)
=============================================================================
