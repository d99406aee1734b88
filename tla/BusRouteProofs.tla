--------------------------- MODULE BusRouteProofs ---------------------------
(***************************************************************************)
(* Proofs about routing, for any number of clusters, servers, groups,      *)
(* packets and broken connections, and every size of queue and connection. *)
(*                                                                         *)
(* RightDestination needs that the list drawn up for a packet names only   *)
(* servers it is meant for, as long as the packet is inside ForwardMsg     *)
(* (JobOK) and on the wire (WireOK).  FifoPerConnection needs the order of *)
(* every place behind: a copy that has left ForwardMsg is of an earlier    *)
(* packet than all that wait in the cluster queue, and of an earlier one   *)
(* than the one inside ForwardMsg unless it is a copy of that very packet  *)
(* for a server that is no longer on the list (Past); the copies on one    *)
(* connection for one server are in order (WireOK), and behind those the   *)
(* server has from that connection (BehindBox).  Heartbeats are not taken  *)
(* from the cluster queue, and overtake the packets in it; so the order is *)
(* one of the packets for servers only.                                    *)
(*                                                                         *)
(* Accounted needs to know where copies are.  A copy is in one place at    *)
(* most: on the list of ForwardMsg, on a connection, with its server, or   *)
(* lost (Apart), and there once (JobOnce, WireOnce, BoxOnce); a packet not *)
(* yet taken has none (WaitInv), and one that is taken has a copy for each *)
(* server it is meant for (ServedInv).  An action moves copies from place  *)
(* to place, so that their number stays.                                   *)
(***************************************************************************)
EXTENDS BusRoute, FiniteSetTheorems, SequenceTheorems, TLAPS

-----------------------------------------------------------------------------
(* The inductive invariant *)

Pkts == Traffic \cup {[src |-> c, type |-> "Heartbeat", dst |-> c] : c \in Clusters}
Dsts == {t.dst : t \in Traffic} \cup Servers \cup Clusters
BoxCopy == [id : Nat, dst : Servers, via : Clusters \X Nat]
WireCopy == [id : Nat, dst : Dsts]

\* What the servers have been given, the packets still in the queue last.
Boxes == [s \in Servers |-> got[s] \o svrQ[s]]

\* Packet id of the history sn is for servers.
ForServers(sn, id) == sn[id].type \notin ToBuses

\* Packet p may go to dst.
Meant(p, dst) ==
    /\ p.type \in Unicast => p.dst = dst
    /\ p.type \in ToAll \cup RandomOne =>
          p.dst \in DOMAIN Groups /\ dst \in Range1(Groups[p.dst])
    /\ p.type \in NoMe => dst # p.src

NoDup(q) == \A i, j \in DOMAIN q : q[i] = q[j] => i = j

TypeInv ==
    /\ Len(sent) <= MaxSend
    /\ svrQ \in [Servers -> Seq(BoxCopy)]
    /\ got \in [Servers -> Seq(BoxCopy)]
    /\ link \in [Clusters -> [Clusters -> {"up", "down", "dead"}]]
    /\ breaks \in 0..MaxBreaks
    /\ \A c, d \in Clusters : link[c][d] # "down" => wire[c][d] # << >>

\* A cluster queue q: packets of the history, in the order of their numbers.
QueueOK(sn, q) ==
    /\ \A x \in DOMAIN q : q[x] \in DOMAIN sn
    /\ \A x, y \in DOMAIN q : x < y => q[x] < q[y]

\* The packet jb inside ForwardMsg, with q the cluster queue.
JobOK(sn, q, jb) ==
    jb # NoJob =>
      /\ jb.id \in DOMAIN sn /\ jb.todo # << >>
      /\ ~ForServers(sn, jb.id) => \A x \in DOMAIN jb.todo : jb.todo[x] \in Clusters
      /\ ForServers(sn, jb.id) =>
           /\ NoDup(jb.todo)
           /\ \A x \in DOMAIN jb.todo : Meant(sn[jb.id], jb.todo[x])
           /\ \A x \in DOMAIN q : jb.id < q[x]

\* A connection w to cluster d.
WireOK(sn, d, w) ==
    /\ \A a \in DOMAIN w :
         /\ w[a].id \in DOMAIN sn
         /\ ForServers(sn, w[a].id) =>
              /\ w[a].dst \in Servers /\ ClusterOf[w[a].dst] = d
              /\ Meant(sn[w[a].id], w[a].dst)
    /\ \A a, b \in DOMAIN w :
         a < b /\ w[a].dst = w[b].dst /\ ForServers(sn, w[a].id) /\ ForServers(sn, w[b].id) =>
            w[a].id < w[b].id

\* What server s has been given, b.
BoxOK(sn, s, b) ==
    /\ \A k \in DOMAIN b :
         /\ b[k].id \in DOMAIN sn /\ b[k].dst = s
         /\ ForServers(sn, b[k].id) /\ Meant(sn[b[k].id], s)
    /\ \A k, l \in DOMAIN b : k < l /\ b[k].via = b[l].via => b[k].id < b[l].id

\* A bus with cluster queue q and jb inside ForwardMsg is done with the copy of
\* packet id for dst.
Past(sn, q, jb, id, dst) ==
    /\ \A x \in DOMAIN q : id < q[x]
    /\ jb # NoJob /\ ForServers(sn, jb.id) =>
          id <= jb.id /\ (id = jb.id => \A x \in DOMAIN jb.todo : jb.todo[x] # dst)

\* The copies on connection w for server s are of later packets than what s, who
\* has b, got from that connection, via v.
BehindBox(sn, w, s, b, v) ==
    \A k \in DOMAIN b : \A a \in DOMAIN w :
        b[k].via = v /\ w[a].dst = s /\ ForServers(sn, w[a].id) => b[k].id < w[a].id

QueueInv(sn, q) == \A c \in Clusters : QueueOK(sn, q[c])
JobInv(sn, q, jb) == \A c \in Clusters : JobOK(sn, q[c], jb[c])
WireInv(sn, wr) == \A c, d \in Clusters : \A i \in DOMAIN wr[c][d] : WireOK(sn, d, wr[c][d][i])
BoxInv(sn, bx) == \A s \in Servers : BoxOK(sn, s, bx[s])

\* A bus is done with the copies it has put on a connection, and with those
\* a server has from it.
WirePast(sn, q, jb, wr) ==
    \A c, d \in Clusters : \A i \in DOMAIN wr[c][d] : \A a \in DOMAIN wr[c][d][i] :
        ForServers(sn, wr[c][d][i][a].id) =>
           Past(sn, q[c], jb[c], wr[c][d][i][a].id, wr[c][d][i][a].dst)
BoxPast(sn, q, jb, bx) ==
    \A s \in Servers : \A k \in DOMAIN bx[s] :
        Past(sn, q[bx[s][k].via[1]], jb[bx[s][k].via[1]], bx[s][k].id, s)
BehindInv(sn, wr, bx) ==
    \A c \in Clusters : \A s \in Servers : \A i \in DOMAIN wr[c][ClusterOf[s]] :
        BehindBox(sn, wr[c][ClusterOf[s]][i], s, bx[s], <<c, i>>)

\* The types of the places a packet passes.
PlacesType(sn, q, jb, wr, bx) ==
    /\ sn \in Seq(Pkts)
    /\ q \in [Clusters -> Seq(Nat)]
    /\ jb \in [Clusters -> [id : Nat, todo : Seq(Dsts)]]
    /\ wr \in [Clusters -> [Clusters -> Seq(Seq(WireCopy))]]
    /\ bx \in [Servers -> Seq(BoxCopy)]

\* The places a packet passes, one after the other.
Routed(sn, q, jb, wr, bx) ==
    /\ PlacesType(sn, q, jb, wr, bx)
    /\ QueueInv(sn, q) /\ JobInv(sn, q, jb) /\ WireInv(sn, wr) /\ BoxInv(sn, bx)
    /\ WirePast(sn, q, jb, wr) /\ BoxPast(sn, q, jb, bx) /\ BehindInv(sn, wr, bx)

IInv == TypeInv /\ Routed(sent, clusterQ, job, wire, Boxes)

-----------------------------------------------------------------------------
(* Sequences *)

\* Tail, element by element.
LEMMA TailIs ==
    ASSUME NEW S, NEW q \in Seq(S), q # << >>
    PROVE  /\ Tail(q) \in Seq(S) /\ Len(Tail(q)) = Len(q) - 1
           /\ Head(q) = q[1] /\ Head(q) \in S /\ 1 \in DOMAIN q
           /\ \A x \in DOMAIN Tail(q) : x + 1 \in DOMAIN q /\ x \in Nat /\ Tail(q)[x] = q[x + 1]
OBVIOUS

\* Append, element by element.
LEMMA AppendIs ==
    ASSUME NEW S, NEW q \in Seq(S), NEW e \in S
    PROVE  /\ Append(q, e) \in Seq(S) /\ Len(Append(q, e)) = Len(q) + 1
           /\ DOMAIN Append(q, e) = DOMAIN q \cup {Len(q) + 1}
           /\ \A x \in DOMAIN q : x \in Nat /\ x <= Len(q) /\ Append(q, e)[x] = q[x]
           /\ Append(q, e)[Len(q) + 1] = e
OBVIOUS

\* A prefix, element by element.
LEMMA PrefixIs ==
    ASSUME NEW S, NEW q \in Seq(S), NEW k \in 0..Len(q)
    PROVE  /\ SubSeq(q, 1, k) \in Seq(S)
           /\ \A x \in DOMAIN SubSeq(q, 1, k) : x \in DOMAIN q /\ SubSeq(q, 1, k)[x] = q[x]
OBVIOUS

\* A queue that gets an element at its end, and one that hands over its first.
LEMMA BoxAppend ==
    ASSUME NEW S, NEW g \in Seq(S), NEW q \in Seq(S), NEW e \in S
    PROVE  g \o Append(q, e) = Append(g \o q, e)
OBVIOUS

\* What has been taken out and what is left of the queue, joined, stay the same.
LEMMA BoxMove ==
    ASSUME NEW S, NEW g \in Seq(S), NEW q \in Seq(S), q # << >>
    PROVE  Append(g, Head(q)) \o Tail(q) = g \o q
OBVIOUS

-----------------------------------------------------------------------------
(* The lists of destinations *)

\* Without keeps the members but s, each once.
LEMMA WithoutIs ==
    ASSUME NEW S, NEW g \in Seq(S), NoDup(g), NEW s
    PROVE  /\ Without(g, s) \in Seq(S) /\ NoDup(Without(g, s))
           /\ \A x \in DOMAIN Without(g, s) : Without(g, s)[x] \in Range1(g) /\ Without(g, s)[x] # s
<1>1. CASE s \notin Range1(g)
  BY <1>1 DEF Without, Range1
<1>2. CASE s \in Range1(g)
  <2>1. PICK k \in DOMAIN g : g[k] = s /\ k = CHOOSE j \in DOMAIN g : g[j] = s
    BY <1>2 DEF Range1
  <2>2. PICK n \in Nat : n = Len(g) /\ DOMAIN g = 1..n
    OBVIOUS
  <2>3. PICK w : w = Without(g, s)
    OBVIOUS
  <2>4. w = [i \in 1..n - 1 |-> IF i < k THEN g[i] ELSE g[i + 1]]
    BY <1>2, <2>1, <2>2, <2>3 DEF Without
  <2>5. \A i \in 1..n - 1 : w[i] = (IF i < k THEN g[i] ELSE g[i + 1])
    BY <2>4
  <2>6. k \in 1..n /\ n - 1 \in Nat
    BY <2>1, <2>2
  <2>7. w \in Seq(S) /\ DOMAIN w = 1..n - 1
    <3>1. w \in [1..n - 1 -> S]
      BY <2>2, <2>4, <2>6
    <3> QED BY <2>6, <3>1, SeqDef
  <2> DEFINE Old(x) == IF x < k THEN x ELSE x + 1
  <2>a. \A x \in 1..n - 1 : Old(x) \in 1..n /\ Old(x) # k /\ w[x] = g[Old(x)]
    BY <2>5, <2>6
  <2>b. \A x, y \in 1..n - 1 : Old(x) = Old(y) => x = y
    BY <2>6
  <2> HIDE DEF Old
  <2>8. \A x \in DOMAIN w : w[x] \in Range1(g) /\ w[x] # s
    BY <2>1, <2>2, <2>7, <2>a DEF NoDup, Range1
  <2>9. NoDup(w)
    BY <2>2, <2>7, <2>a, <2>b DEF NoDup
  <2> QED BY <2>3, <2>7, <2>8, <2>9
<1> QED BY <1>1, <1>2

\* What DstLists draws up for a packet: buses, or servers the packet is meant
\* for, none of them twice.
LEMMA DstListsAre ==
    ASSUME NEW c \in Clusters, NEW p \in Pkts, NEW todo \in DstLists(c, p)
    PROVE  /\ todo \in Seq(Dsts)
           /\ p.type \in ToBuses => \A x \in DOMAIN todo : todo[x] \in Clusters
           /\ p.type \notin ToBuses =>
                NoDup(todo) /\ \A x \in DOMAIN todo : Meant(p, todo[x])
<1>1. CASE p.type \in ToBuses
  <2>1. todo = Others(c)
    BY <1>1 DEF DstLists
  <2>2. NClusters \in Nat \ {0} /\ c \in 1..NClusters
    BY RouteAssumption DEF Clusters
  <2>3. todo \in [1..NClusters - 1 -> Clusters]
    BY <2>1, <2>2 DEF Others, Clusters
  <2>4. todo \in Seq(Clusters)
    BY <2>2, <2>3, SeqDef
  <2> QED BY <1>1, <2>4 DEF Dsts
<1>2. CASE p.type \notin ToBuses
  <2>1. p \in Traffic /\ p.dst \in Dsts
    BY <1>2 DEF Pkts, ToBuses, Dsts
  <2>2. ASSUME p.dst \in DOMAIN Groups
        PROVE  Groups[p.dst] \in Seq(Servers) /\ NoDup(Groups[p.dst])
    BY <2>2, RouteAssumption DEF NoDup
  <2>3. PICK m : m = Members(p)
    OBVIOUS
  <2>4. /\ m \in Seq(Servers) /\ NoDup(m)
        /\ \A x \in DOMAIN m : /\ p.dst \in DOMAIN Groups /\ m[x] \in Range1(Groups[p.dst])
                               /\ p.type \in NoMe => m[x] # p.src
    <3>1. CASE p.dst \notin DOMAIN Groups
      BY <2>3, <3>1 DEF Members, NoDup
    <3>2. CASE p.dst \in DOMAIN Groups /\ p.type \in NoMe
      <4>1. m = Without(Groups[p.dst], p.src)
        BY <2>3, <3>2 DEF Members
      <4> QED BY <2>2, <3>2, <4>1, WithoutIs
    <3>3. CASE p.dst \in DOMAIN Groups /\ p.type \notin NoMe
      <4>1. m = Groups[p.dst]
        BY <2>3, <3>3 DEF Members
      <4> QED BY <2>2, <3>3, <4>1 DEF Range1
    <3> QED BY <3>1, <3>2, <3>3
  <2>5. m \in Seq(Dsts)
    BY <2>4 DEF Dsts
  <2>6. CASE p.type \in RandomOne
    <3>1. todo = << >> \/ \E x \in DOMAIN m : todo = <<m[x]>>
      BY <1>2, <2>3, <2>6 DEF DstLists, Range1
    <3>2. p.type \notin Unicast
      BY <2>6 DEF RandomOne, Unicast
    <3>3. CASE todo = << >>
      BY <1>2, <3>3 DEF NoDup
    <3>4. ASSUME NEW x \in DOMAIN m, todo = <<m[x]>>
          PROVE  todo \in Seq(Dsts) /\ NoDup(todo) /\ \A y \in DOMAIN todo : Meant(p, todo[y])
      <4>1. DOMAIN todo = {1} /\ todo[1] = m[x] /\ m[x] \in Dsts
        BY <2>5, <3>4
      <4>2. Meant(p, m[x])
        BY <2>4, <3>2 DEF Meant
      <4> QED BY <3>4, <4>1, <4>2 DEF NoDup
    <3> QED BY <1>2, <3>1, <3>3, <3>4
  <2>7. CASE p.type \in ToAll
    <3>1. todo = m
      BY <1>2, <2>3, <2>7 DEF DstLists, ToAll, RandomOne
    <3>2. p.type \notin Unicast
      BY <2>7 DEF ToAll, Unicast
    <3> QED BY <1>2, <2>4, <2>5, <3>1, <3>2 DEF Meant
  <2>8. CASE p.type \notin RandomOne \cup ToAll
    <3>1. todo = <<p.dst>>
      BY <1>2, <2>8 DEF DstLists
    <3>2. DOMAIN todo = {1} /\ todo[1] = p.dst
      BY <3>1
    <3>3. p.type \notin NoMe
      BY <2>8 DEF NoMe, RandomOne, ToAll
    <3>4. Meant(p, p.dst)
      BY <2>8, <3>3 DEF Meant
    <3> QED BY <1>2, <2>1, <3>1, <3>2, <3>4 DEF NoDup
  <2> QED BY <2>6, <2>7, <2>8
<1> QED BY <1>1, <1>2

-----------------------------------------------------------------------------
(* How the places may change *)

\* The history only grows.
Grows(sn, sn2) == \A id \in DOMAIN sn : id \in DOMAIN sn2 /\ sn2[id] = sn[id]

\* A bus stays done with what it is done with.
PastKept(sn, q, jb, sn2, q2, jb2) ==
    \A id \in DOMAIN sn : \A dst :
        ForServers(sn, id) /\ Past(sn, q, jb, id, dst) => Past(sn2, q2, jb2, id, dst)

\* The buses go on, while connections and servers do nothing.
LEMMA BusStep ==
    ASSUME NEW sn, NEW q, NEW jb, NEW wr, NEW bx, Routed(sn, q, jb, wr, bx),
           NEW sn2, NEW q2, NEW jb2, PlacesType(sn2, q2, jb2, wr, bx),
           Grows(sn, sn2),
           \A c \in Clusters : QueueOK(sn2, q2[c]) /\ JobOK(sn2, q2[c], jb2[c]),
           \A c \in Clusters : PastKept(sn, q[c], jb[c], sn2, q2[c], jb2[c])
    PROVE  Routed(sn2, q2, jb2, wr, bx)
<1>1. QueueInv(sn2, q2) /\ JobInv(sn2, q2, jb2)
  BY DEF QueueInv, JobInv
<1>2. WireInv(sn2, wr)
  <2> SUFFICES ASSUME NEW c \in Clusters, NEW d \in Clusters, NEW i \in DOMAIN wr[c][d]
               PROVE  WireOK(sn2, d, wr[c][d][i])
    BY DEF WireInv
  <2>1. WireOK(sn, d, wr[c][d][i])
    BY DEF Routed, WireInv
  <2> QED BY <2>1 DEF WireOK, Grows, ForServers
<1>3. BoxInv(sn2, bx)
  <2> SUFFICES ASSUME NEW s \in Servers
               PROVE  BoxOK(sn2, s, bx[s])
    BY DEF BoxInv
  <2>1. BoxOK(sn, s, bx[s])
    BY DEF Routed, BoxInv
  <2> QED BY <2>1 DEF BoxOK, Grows, ForServers
<1>4. WirePast(sn2, q2, jb2, wr)
  <2> SUFFICES ASSUME NEW c \in Clusters, NEW d \in Clusters, NEW i \in DOMAIN wr[c][d],
                      NEW a \in DOMAIN wr[c][d][i], ForServers(sn2, wr[c][d][i][a].id)
               PROVE  Past(sn2, q2[c], jb2[c], wr[c][d][i][a].id, wr[c][d][i][a].dst)
    BY DEF WirePast
  <2>1. wr[c][d][i][a].id \in DOMAIN sn
    BY DEF Routed, WireInv, WireOK
  <2>2. ForServers(sn, wr[c][d][i][a].id)
    BY <2>1 DEF Grows, ForServers
  <2>3. Past(sn, q[c], jb[c], wr[c][d][i][a].id, wr[c][d][i][a].dst)
    BY <2>2 DEF Routed, WirePast
  <2> QED BY <2>1, <2>2, <2>3 DEF PastKept
<1>5. BoxPast(sn2, q2, jb2, bx)
  <2> SUFFICES ASSUME NEW s \in Servers, NEW k \in DOMAIN bx[s]
               PROVE  Past(sn2, q2[bx[s][k].via[1]], jb2[bx[s][k].via[1]], bx[s][k].id, s)
    BY DEF BoxPast
  <2>1. bx[s][k].id \in DOMAIN sn /\ ForServers(sn, bx[s][k].id)
    BY DEF Routed, BoxInv, BoxOK
  <2>2. bx[s][k].via[1] \in Clusters
    <3>1. bx[s] \in Seq(BoxCopy)
      BY DEF Routed, PlacesType
    <3>2. bx[s][k] \in BoxCopy
      BY <3>1
    <3> QED BY <3>2 DEF BoxCopy
  <2>3. Past(sn, q[bx[s][k].via[1]], jb[bx[s][k].via[1]], bx[s][k].id, s)
    BY DEF Routed, BoxPast
  <2> QED BY <2>1, <2>2, <2>3 DEF PastKept
<1>6. BehindInv(sn2, wr, bx)
  <2> SUFFICES ASSUME NEW c \in Clusters, NEW s \in Servers, NEW i \in DOMAIN wr[c][ClusterOf[s]]
               PROVE  BehindBox(sn2, wr[c][ClusterOf[s]][i], s, bx[s], <<c, i>>)
    BY DEF BehindInv
  <2>1. ClusterOf[s] \in Clusters
    BY RouteAssumption
  <2>2. WireOK(sn, ClusterOf[s], wr[c][ClusterOf[s]][i])
    BY <2>1 DEF Routed, WireInv
  <2>3. BehindBox(sn, wr[c][ClusterOf[s]][i], s, bx[s], <<c, i>>)
    BY DEF Routed, BehindInv
  <2> QED BY <2>2, <2>3 DEF BehindBox, WireOK, Grows, ForServers
<1> QED BY <1>1, <1>2, <1>3, <1>4, <1>5, <1>6 DEF Routed

\* Connection w2 is what is left of w.
PartOf(w2, w) == \E m \in Nat : \A a \in DOMAIN w2 : a + m \in DOMAIN w /\ w2[a] = w[a + m]

\* Connections are new, or lose copies at one end.
Shrunk(wr2, wr) ==
    \A c, d \in Clusters : \A i \in DOMAIN wr2[c][d] :
        \/ wr2[c][d][i] = << >>
        \/ i \in DOMAIN wr[c][d] /\ PartOf(wr2[c][d][i], wr[c][d][i])

\* Connections that only lose copies keep the order.
LEMMA WireLess ==
    ASSUME NEW sn, NEW q, NEW jb, NEW wr, NEW bx, Routed(sn, q, jb, wr, bx),
           NEW wr2 \in [Clusters -> [Clusters -> Seq(Seq(WireCopy))]],
           Shrunk(wr2, wr)
    PROVE  Routed(sn, q, jb, wr2, bx)
<1>1. PlacesType(sn, q, jb, wr2, bx)
  BY DEF Routed, PlacesType
<1>2. ASSUME NEW c \in Clusters, NEW d \in Clusters, NEW i \in DOMAIN wr2[c][d],
             wr2[c][d][i] # << >>
      PROVE  /\ i \in DOMAIN wr[c][d]
             /\ \E m \in Nat : \A a \in DOMAIN wr2[c][d][i] :
                   a \in Nat /\ a + m \in DOMAIN wr[c][d][i] /\ wr2[c][d][i][a] = wr[c][d][i][a + m]
  <2>1. wr2[c][d][i] \in Seq(WireCopy)
    <3>1. wr2[c][d] \in Seq(Seq(WireCopy))
      OBVIOUS
    <3> QED BY <3>1
  <2>2. DOMAIN wr2[c][d][i] \subseteq Nat
    BY <2>1
  <2> QED BY <1>2, <2>2 DEF PartOf, Shrunk
<1>3. WireInv(sn, wr2)
  <2> SUFFICES ASSUME NEW c \in Clusters, NEW d \in Clusters, NEW i \in DOMAIN wr2[c][d]
               PROVE  WireOK(sn, d, wr2[c][d][i])
    BY DEF WireInv
  <2>1. CASE wr2[c][d][i] = << >>
    BY <2>1 DEF WireOK
  <2>2. CASE wr2[c][d][i] # << >>
    <3>1. i \in DOMAIN wr[c][d]
      BY <1>2, <2>2
    <3>2. PICK m \in Nat : \A a \in DOMAIN wr2[c][d][i] :
             a \in Nat /\ a + m \in DOMAIN wr[c][d][i] /\ wr2[c][d][i][a] = wr[c][d][i][a + m]
      BY <1>2, <2>2
    <3>3. WireOK(sn, d, wr[c][d][i])
      BY <3>1 DEF Routed, WireInv
    <3>4. \A a, b \in DOMAIN wr2[c][d][i] : a < b => a + m < b + m
      BY <3>2
    <3> QED BY <3>2, <3>3, <3>4, ZenonT(60) DEF WireOK
  <2> QED BY <2>1, <2>2
<1>4. WirePast(sn, q, jb, wr2)
  <2> SUFFICES ASSUME NEW c \in Clusters, NEW d \in Clusters, NEW i \in DOMAIN wr2[c][d],
                      NEW a \in DOMAIN wr2[c][d][i], ForServers(sn, wr2[c][d][i][a].id)
               PROVE  Past(sn, q[c], jb[c], wr2[c][d][i][a].id, wr2[c][d][i][a].dst)
    BY DEF WirePast
  <2>1. wr2[c][d][i] # << >>
    OBVIOUS
  <2>2. PICK b \in DOMAIN wr[c][d][i] : wr2[c][d][i][a] = wr[c][d][i][b]
    BY <1>2, <2>1
  <2>3. i \in DOMAIN wr[c][d]
    BY <1>2, <2>1
  <2> QED BY <2>2, <2>3 DEF Routed, WirePast
<1>5. BehindInv(sn, wr2, bx)
  <2> SUFFICES ASSUME NEW c \in Clusters, NEW s \in Servers, NEW i \in DOMAIN wr2[c][ClusterOf[s]]
               PROVE  BehindBox(sn, wr2[c][ClusterOf[s]][i], s, bx[s], <<c, i>>)
    BY DEF BehindInv
  <2>1. ClusterOf[s] \in Clusters
    BY RouteAssumption
  <2> DEFINE w2 == wr2[c][ClusterOf[s]][i]
             w  == wr[c][ClusterOf[s]][i]
  <2>2. CASE w2 = << >>
    BY <2>2 DEF BehindBox
  <2>3. CASE w2 # << >>
    <3>1. i \in DOMAIN wr[c][ClusterOf[s]] /\ \A a \in DOMAIN w2 : \E b \in DOMAIN w : w2[a] = w[b]
      BY <1>2, <2>1, <2>3
    <3>2. BehindBox(sn, w, s, bx[s], <<c, i>>)
      BY <3>1 DEF Routed, BehindInv
    <3> HIDE DEF w, w2
    <3>3. BehindBox(sn, w2, s, bx[s], <<c, i>>)
      BY <3>1, <3>2 DEF BehindBox
    <3> QED BY <3>3 DEF w2
  <2> QED BY <2>2, <2>3
<1> QED BY <1>1, <1>3, <1>4, <1>5 DEF Routed

\* One connection becomes w2, the others stay.
Changed(wr, c, d, i, w2, wr2) ==
    /\ wr2 \in [Clusters -> [Clusters -> Seq(Seq(WireCopy))]]
    /\ wr2[c][d][i] = w2
    /\ \A x, y \in Clusters : DOMAIN wr2[x][y] = DOMAIN wr[x][y]
    /\ \A x, y \in Clusters : \A j \in DOMAIN wr[x][y] :
          <<x, y, j>> # <<c, d, i>> => wr2[x][y][j] = wr[x][y][j]

\* That is what EXCEPT does.
LEMMA WireChange ==
    ASSUME NEW wr \in [Clusters -> [Clusters -> Seq(Seq(WireCopy))]],
           NEW c \in Clusters, NEW d \in Clusters, NEW i \in DOMAIN wr[c][d],
           NEW w2 \in Seq(WireCopy), NEW wr2, wr2 = [wr EXCEPT ![c][d][i] = w2]
    PROVE  Changed(wr, c, d, i, w2, wr2)
<1>1. PICK S : S = Seq(WireCopy)
  OBVIOUS
<1>2. PICK o \in Seq(S) : o = wr[c][d]
  BY <1>1
<1>3. PICK l : l = [o EXCEPT ![i] = w2]
  OBVIOUS
<1>4. l \in Seq(S) /\ DOMAIN l = DOMAIN o /\ l[i] = w2 /\ \A j \in DOMAIN o : j # i => l[j] = o[j]
  BY <1>1, <1>2, <1>3
<1>5. wr2 = [wr EXCEPT ![c] = [wr[c] EXCEPT ![d] = l]]
  BY <1>2, <1>3
<1>6. wr2 \in [Clusters -> [Clusters -> Seq(Seq(WireCopy))]] /\ wr2[c][d] = l
  BY <1>1, <1>4, <1>5
<1>7. \A x, y \in Clusters : x # c \/ y # d => wr2[x][y] = wr[x][y]
  BY <1>5
<1>8. ASSUME NEW x \in Clusters, NEW y \in Clusters
      PROVE  /\ DOMAIN wr2[x][y] = DOMAIN wr[x][y]
             /\ \A j \in DOMAIN wr[x][y] : <<x, y, j>> # <<c, d, i>> => wr2[x][y][j] = wr[x][y][j]
  <2>1. CASE x = c /\ y = d
    BY <1>2, <1>4, <1>6, <2>1
  <2>2. CASE x # c \/ y # d
    BY <1>7, <2>2
  <2> QED BY <2>1, <2>2
<1>9. wr2[c][d][i] = w2
  BY <1>4, <1>6
<1>10. \A x, y \in Clusters : DOMAIN wr2[x][y] = DOMAIN wr[x][y]
  BY <1>8
<1>11. \A x, y \in Clusters : \A j \in DOMAIN wr[x][y] :
          <<x, y, j>> # <<c, d, i>> => wr2[x][y][j] = wr[x][y][j]
  BY <1>8
<1>12. wr2 \in [Clusters -> [Clusters -> Seq(Seq(WireCopy))]]
  BY <1>6
<1> QED BY <1>9, <1>10, <1>11, <1>12 DEF Changed

\* Copy k may be appended to the i-th connection from c to d: it is of a later
\* packet than those before it.
MayWrite(sn, q, jb, wr, bx, c, d, i, k) ==
    ForServers(sn, k.id) =>
      /\ k.dst \in Servers /\ ClusterOf[k.dst] = d /\ Meant(sn[k.id], k.dst)
      /\ Past(sn, q[c], jb[c], k.id, k.dst)
      /\ \A a \in DOMAIN wr[c][d][i] :
            wr[c][d][i][a].dst = k.dst /\ ForServers(sn, wr[c][d][i][a].id) =>
               wr[c][d][i][a].id < k.id
      /\ \A x \in DOMAIN bx[k.dst] : bx[k.dst][x].via = <<c, i>> => bx[k.dst][x].id < k.id

\* A bus writes a copy.
LEMMA WireAdd ==
    ASSUME NEW sn, NEW q, NEW jb, NEW wr, NEW bx, Routed(sn, q, jb, wr, bx),
           NEW c \in Clusters, NEW d \in Clusters, NEW i \in DOMAIN wr[c][d],
           NEW k \in WireCopy, k.id \in DOMAIN sn, MayWrite(sn, q, jb, wr, bx, c, d, i, k),
           NEW wr2, wr2 = [wr EXCEPT ![c][d][i] = Append(@, k)]
    PROVE  Routed(sn, q, jb, wr2, bx)
<1>1. wr \in [Clusters -> [Clusters -> Seq(Seq(WireCopy))]]
  BY DEF Routed, PlacesType
<1>2. wr[c][d] \in Seq(Seq(WireCopy)) /\ wr[c][d][i] \in Seq(WireCopy)
  <2>1. wr[c][d] \in Seq(Seq(WireCopy))
    BY <1>1
  <2> QED BY <2>1
<1>3. PICK w : w = wr[c][d][i]
  OBVIOUS
<1>4. PICK w2 : w2 = Append(w, k)
  OBVIOUS
<1>5. /\ w2 \in Seq(WireCopy) /\ DOMAIN w2 = DOMAIN w \cup {Len(w) + 1}
      /\ \A x \in DOMAIN w : x \in Nat /\ x <= Len(w) /\ w2[x] = w[x]
      /\ w2[Len(w) + 1] = k /\ Len(w) \in Nat
  <2>1. w \in Seq(WireCopy)
    BY <1>2, <1>3
  <2> QED BY <1>4, <2>1, AppendIs
<1>6. /\ wr2 \in [Clusters -> [Clusters -> Seq(Seq(WireCopy))]]
      /\ wr2[c][d][i] = w2
      /\ \A x, y \in Clusters : DOMAIN wr2[x][y] = DOMAIN wr[x][y]
      /\ \A x, y \in Clusters : \A j \in DOMAIN wr[x][y] :
            <<x, y, j>> # <<c, d, i>> => wr2[x][y][j] = wr[x][y][j]
  <2>1. wr2 = [wr EXCEPT ![c][d][i] = w2]
    BY <1>3, <1>4
  <2>2. w2 \in Seq(WireCopy)
    BY <1>5
  <2>3. Changed(wr, c, d, i, w2, wr2)
    BY <1>1, <2>1, <2>2, WireChange
  <2> QED BY <2>3 DEF Changed
<1>7. PlacesType(sn, q, jb, wr2, bx)
  BY <1>6 DEF Routed, PlacesType
<1>8. WireInv(sn, wr2)
  <2>1. WireOK(sn, d, w)
    BY <1>3 DEF Routed, WireInv
  <2>2. WireOK(sn, d, w2)
    <3>1. ForServers(sn, k.id) =>
            /\ k.dst \in Servers /\ ClusterOf[k.dst] = d /\ Meant(sn[k.id], k.dst)
            /\ \A a \in DOMAIN w : w[a].dst = k.dst /\ ForServers(sn, w[a].id) => w[a].id < k.id
      BY <1>3, Zenon DEF MayWrite
    <3>2. ASSUME NEW a \in DOMAIN w2
          PROVE  /\ w2[a].id \in DOMAIN sn
                 /\ ForServers(sn, w2[a].id) =>
                      /\ w2[a].dst \in Servers /\ ClusterOf[w2[a].dst] = d
                      /\ Meant(sn[w2[a].id], w2[a].dst)
      <4>1. CASE a \in DOMAIN w
        BY <1>5, <2>1, <4>1, Zenon DEF WireOK
      <4>2. CASE a = Len(w) + 1
        BY <1>5, <3>1, <4>2, Zenon
      <4> QED BY <1>5, <4>1, <4>2, Zenon
    <3>3. ASSUME NEW a \in DOMAIN w2, NEW b \in DOMAIN w2, a < b, w2[a].dst = w2[b].dst,
                 ForServers(sn, w2[a].id), ForServers(sn, w2[b].id)
          PROVE  w2[a].id < w2[b].id
      <4>1. a \in DOMAIN w
        BY <1>5, <3>3
      <4>2. CASE b \in DOMAIN w
        BY <1>5, <2>1, <3>3, <4>1, <4>2, Zenon DEF WireOK
      <4>3. CASE b = Len(w) + 1
        BY <1>5, <3>1, <3>3, <4>1, <4>3, Zenon
      <4> QED BY <1>5, <4>2, <4>3, Zenon
    <3> QED BY <3>2, <3>3, Zenon DEF WireOK
  <2> SUFFICES ASSUME NEW x \in Clusters, NEW y \in Clusters, NEW j \in DOMAIN wr2[x][y]
               PROVE  WireOK(sn, y, wr2[x][y][j])
    BY DEF WireInv
  <2>3. CASE <<x, y, j>> = <<c, d, i>>
    BY <1>6, <2>2, <2>3
  <2>4. CASE <<x, y, j>> # <<c, d, i>>
    BY <1>6, <2>4 DEF Routed, WireInv
  <2> QED BY <2>3, <2>4
<1>9. WirePast(sn, q, jb, wr2)
  <2> SUFFICES ASSUME NEW x \in Clusters, NEW y \in Clusters, NEW j \in DOMAIN wr2[x][y],
                      NEW a \in DOMAIN wr2[x][y][j], ForServers(sn, wr2[x][y][j][a].id)
               PROVE  Past(sn, q[x], jb[x], wr2[x][y][j][a].id, wr2[x][y][j][a].dst)
    BY DEF WirePast
  <2>1. CASE <<x, y, j>> = <<c, d, i>>
    <3>1. x = c /\ y = d /\ j = i
      BY <2>1
    <3>2. CASE a = Len(w) + 1
      BY <1>5, <1>6, <3>1, <3>2 DEF MayWrite
    <3>3. CASE a \in DOMAIN w
      <4>1. wr2[x][y][j][a] = wr[c][d][i][a] /\ a \in DOMAIN wr[c][d][i]
        BY <1>3, <1>5, <1>6, <3>1, <3>3
      <4> QED BY <3>1, <4>1 DEF Routed, WirePast
    <3> QED BY <1>5, <1>6, <3>1, <3>2, <3>3
  <2>2. CASE <<x, y, j>> # <<c, d, i>>
    BY <1>6, <2>2, ZenonT(60) DEF Routed, WirePast
  <2> QED BY <2>1, <2>2
<1>10. BehindInv(sn, wr2, bx)
  <2> SUFFICES ASSUME NEW x \in Clusters, NEW s \in Servers, NEW j \in DOMAIN wr2[x][ClusterOf[s]]
               PROVE  BehindBox(sn, wr2[x][ClusterOf[s]][j], s, bx[s], <<x, j>>)
    BY DEF BehindInv
  <2>1. ClusterOf[s] \in Clusters /\ j \in DOMAIN wr[x][ClusterOf[s]]
    BY <1>6, RouteAssumption
  <2>2. BehindBox(sn, wr[x][ClusterOf[s]][j], s, bx[s], <<x, j>>)
    BY <2>1 DEF Routed, BehindInv
  <2>3. CASE <<x, ClusterOf[s], j>> = <<c, d, i>>
    <3>1. BehindBox(sn, w, s, bx[s], <<c, i>>)
      BY <1>3, <2>2, <2>3
    <3>2. BehindBox(sn, w2, s, bx[s], <<c, i>>)
      BY <1>3, <1>5, <3>1 DEF BehindBox, MayWrite
    <3> QED BY <1>6, <2>3, <3>2
  <2>4. CASE <<x, ClusterOf[s], j>> # <<c, d, i>>
    BY <1>6, <2>1, <2>2, <2>4
  <2> QED BY <2>3, <2>4
<1> QED BY <1>7, <1>8, <1>9, <1>10 DEF Routed

\* Copy k may be put into the queue of server s.
MayDeliver(sn, q, jb, wr, bx, s, k) ==
    /\ k.dst = s /\ ForServers(sn, k.id) /\ Meant(sn[k.id], s)
    /\ Past(sn, q[k.via[1]], jb[k.via[1]], k.id, s)
    /\ \A x \in DOMAIN bx[s] : bx[s][x].via = k.via => bx[s][x].id < k.id
    /\ \A c \in Clusters : \A i \in DOMAIN wr[c][ClusterOf[s]] :
          k.via = <<c, i>> =>
            \A a \in DOMAIN wr[c][ClusterOf[s]][i] :
               LET w == wr[c][ClusterOf[s]][i][a] IN
               w.dst = s /\ ForServers(sn, w.id) => k.id < w.id

\* A bus hands a copy to a server.
LEMMA BoxAdd ==
    ASSUME NEW sn, NEW q, NEW jb, NEW wr, NEW bx, Routed(sn, q, jb, wr, bx),
           NEW s \in Servers, NEW k \in BoxCopy, k.id \in DOMAIN sn,
           MayDeliver(sn, q, jb, wr, bx, s, k),
           NEW bx2, bx2 = [bx EXCEPT ![s] = Append(@, k)]
    PROVE  Routed(sn, q, jb, wr, bx2)
<1>1. bx \in [Servers -> Seq(BoxCopy)] /\ bx[s] \in Seq(BoxCopy)
  BY DEF Routed, PlacesType
<1>2. PICK b : b = bx[s]
  OBVIOUS
<1>3. PICK b2 : b2 = Append(b, k)
  OBVIOUS
<1>4. /\ b2 \in Seq(BoxCopy) /\ DOMAIN b2 = DOMAIN b \cup {Len(b) + 1}
      /\ \A x \in DOMAIN b : x \in Nat /\ x <= Len(b) /\ b2[x] = b[x]
      /\ b2[Len(b) + 1] = k /\ Len(b) \in Nat
  <2>1. b \in Seq(BoxCopy)
    BY <1>1, <1>2
  <2> QED BY <1>3, <2>1, AppendIs
<1>5. /\ bx2 \in [Servers -> Seq(BoxCopy)] /\ bx2[s] = b2
      /\ \A t \in Servers : t # s => bx2[t] = bx[t]
  BY <1>1, <1>2, <1>3, <1>4
<1>6. PlacesType(sn, q, jb, wr, bx2)
  BY <1>5 DEF Routed, PlacesType
<1>7. BoxInv(sn, bx2)
  <2>1. BoxOK(sn, s, b)
    BY <1>2 DEF Routed, BoxInv
  <2>2. BoxOK(sn, s, b2)
    BY <1>2, <1>4, <2>1 DEF BoxOK, MayDeliver
  <2> QED BY <1>5, <2>2 DEF Routed, BoxInv
<1>8. BoxPast(sn, q, jb, bx2)
  <2> SUFFICES ASSUME NEW t \in Servers, NEW x \in DOMAIN bx2[t]
               PROVE  Past(sn, q[bx2[t][x].via[1]], jb[bx2[t][x].via[1]], bx2[t][x].id, t)
    BY DEF BoxPast
  <2>1. CASE t = s /\ x = Len(b) + 1
    BY <1>4, <1>5, <2>1 DEF MayDeliver
  <2>2. CASE t # s \/ x # Len(b) + 1
    <3>1. x \in DOMAIN bx[t] /\ bx2[t][x] = bx[t][x]
      BY <1>2, <1>4, <1>5, <2>2
    <3> QED BY <3>1 DEF Routed, BoxPast
  <2> QED BY <2>1, <2>2
<1>9. BehindInv(sn, wr, bx2)
  <2> SUFFICES ASSUME NEW c \in Clusters, NEW t \in Servers, NEW i \in DOMAIN wr[c][ClusterOf[t]]
               PROVE  BehindBox(sn, wr[c][ClusterOf[t]][i], t, bx2[t], <<c, i>>)
    BY DEF BehindInv
  <2>1. BehindBox(sn, wr[c][ClusterOf[t]][i], t, bx[t], <<c, i>>)
    BY DEF Routed, BehindInv
  <2>2. CASE t # s
    BY <1>5, <2>1, <2>2
  <2>3. CASE t = s
    <3>1. PICK w : w = wr[c][ClusterOf[s]][i]
      OBVIOUS
    <3>2. BehindBox(sn, w, s, b, <<c, i>>)
      BY <1>2, <2>1, <2>3, <3>1
    <3>3. k.via = <<c, i>> => \A a \in DOMAIN w : w[a].dst = s /\ ForServers(sn, w[a].id) => k.id < w[a].id
      BY <2>3, <3>1 DEF MayDeliver
    <3>4. PICK v : v = <<c, i>>
      OBVIOUS
    <3>5. BehindBox(sn, w, s, b2, v)
      BY <1>4, <3>2, <3>3, <3>4 DEF BehindBox
    <3> QED BY <1>5, <2>3, <3>1, <3>4, <3>5
  <2> QED BY <2>2, <2>3
<1> QED BY <1>6, <1>7, <1>8, <1>9 DEF Routed

-----------------------------------------------------------------------------
(* The buses *)

\* The state of a bus that has todo left of packet id.
Left(id, todo) == IF todo = << >> THEN NoJob ELSE [id |-> id, todo |-> todo]

\* A round of the loop ends: the head of the list is dealt with, or all of it.
LEMMA TodoShrinks ==
    ASSUME NEW sn, NEW q, NEW jb, NEW wr, NEW bx, Routed(sn, q, jb, wr, bx),
           NEW c \in Clusters, jb[c] # NoJob,
           NEW t, t = << >> \/ t = Tail(jb[c].todo),
           NEW jb2, jb2 = [jb EXCEPT ![c] = Left(jb[c].id, t)]
    PROVE  /\ Routed(sn, q, jb2, wr, bx)
           /\ ForServers(sn, jb[c].id) =>
                 Past(sn, q[c], jb2[c], jb[c].id, Head(jb[c].todo))
<1>1. /\ sn \in Seq(Pkts) /\ q \in [Clusters -> Seq(Nat)]
      /\ jb \in [Clusters -> [id : Nat, todo : Seq(Dsts)]]
      /\ QueueOK(sn, q[c]) /\ JobOK(sn, q[c], jb[c])
  BY DEF Routed, PlacesType, QueueInv, JobInv
<1>2. PICK id \in Nat : id = jb[c].id
  BY <1>1
<1>3. PICK todo \in Seq(Dsts) : todo = jb[c].todo
  BY <1>1
<1>4. todo # << >> /\ id \in DOMAIN sn
  BY <1>1, <1>2, <1>3 DEF JobOK
<1>5. /\ t \in Seq(Dsts) /\ Head(todo) = todo[1] /\ 1 \in DOMAIN todo
      /\ \A x \in DOMAIN t : x \in Nat /\ x + 1 \in DOMAIN todo /\ x + 1 # 1 /\ t[x] = todo[x + 1]
  <2>1. CASE t = << >>
    BY <1>3, <1>4, <2>1, TailIs
  <2>2. CASE t = Tail(todo)
    <3>1. /\ t \in Seq(Dsts) /\ Head(todo) = todo[1] /\ 1 \in DOMAIN todo
          /\ \A x \in DOMAIN t : x \in DOMAIN Tail(todo) /\ x \in 1..Len(t)
      BY <1>3, <1>4, <2>2, TailIs
    <3>2. \A x \in DOMAIN t : x \in Nat /\ x + 1 \in DOMAIN todo /\ t[x] = todo[x + 1]
      BY <1>3, <1>4, <2>2, TailIs
    <3>3. \A x \in DOMAIN t : x + 1 # 1
      BY <3>1
    <3> QED BY <3>1, <3>2, <3>3
  <2> QED BY <1>3, <2>1, <2>2
<1>6. PICK j2 : j2 = Left(id, t)
  OBVIOUS
<1>7. /\ j2 \in [id : Nat, todo : Seq(Dsts)]
      /\ j2 # NoJob => j2.id = id /\ j2.todo = t /\ t # << >>
  BY <1>5, <1>6 DEF Left, NoJob
<1>8. jb2 \in [Clusters -> [id : Nat, todo : Seq(Dsts)]] /\ jb2[c] = j2
      /\ \A e \in Clusters : e # c => jb2[e] = jb[e]
  BY <1>1, <1>2, <1>6, <1>7
<1>9. JobOK(sn, q[c], j2)
  <2> SUFFICES ASSUME j2 # NoJob PROVE JobOK(sn, q[c], j2)
    BY DEF JobOK
  <2>1. /\ ~ForServers(sn, id) => \A x \in DOMAIN todo : todo[x] \in Clusters
        /\ ForServers(sn, id) =>
           /\ NoDup(todo)
           /\ \A x \in DOMAIN todo : Meant(sn[id], todo[x])
           /\ \A x \in DOMAIN q[c] : id < q[c][x]
    BY <1>1, <1>2, <1>3 DEF JobOK
  <2>2. NoDup(todo) => NoDup(t)
    <3> SUFFICES ASSUME NoDup(todo), NEW x \in DOMAIN t, NEW y \in DOMAIN t, t[x] = t[y]
                 PROVE  x = y
      BY DEF NoDup
    <3>1. x + 1 = y + 1 /\ x \in Nat /\ y \in Nat
      BY <1>5 DEF NoDup
    <3> QED BY <3>1
  <2> QED BY <1>4, <1>5, <1>7, <2>1, <2>2 DEF JobOK
<1>10. PastKept(sn, q[c], jb[c], sn, q[c], j2)
  <2> SUFFICES ASSUME NEW x \in DOMAIN sn, NEW dst, Past(sn, q[c], jb[c], x, dst)
               PROVE  Past(sn, q[c], j2, x, dst)
    BY DEF PastKept
  <2> QED BY <1>2, <1>3, <1>5, <1>7 DEF Past
<1>11. \A e \in Clusters : PastKept(sn, q[e], jb[e], sn, q[e], jb2[e])
  BY <1>8, <1>10 DEF PastKept
<1>12. \A e \in Clusters : QueueOK(sn, q[e]) /\ JobOK(sn, q[e], jb2[e])
  BY <1>8, <1>9 DEF Routed, QueueInv, JobInv
<1>13. PlacesType(sn, q, jb2, wr, bx)
  BY <1>8 DEF Routed, PlacesType
<1>14. Routed(sn, q, jb2, wr, bx)
  BY <1>11, <1>12, <1>13, BusStep DEF Grows
<1>15. ASSUME ForServers(sn, id)
       PROVE  Past(sn, q[c], j2, id, Head(todo))
  <2>1. NoDup(todo) /\ \A x \in DOMAIN q[c] : id < q[c][x]
    BY <1>1, <1>2, <1>3, <1>15 DEF JobOK
  <2>2. \A x \in DOMAIN t : t[x] # Head(todo)
    BY <1>5, <2>1 DEF NoDup
  <2> QED BY <1>7, <2>1, <2>2 DEF Past
<1> QED BY <1>2, <1>3, <1>8, <1>14, <1>15

\* The boxes, of the types of the queues.
LEMMA BoxesType ==
    ASSUME svrQ \in [Servers -> Seq(BoxCopy)], got \in [Servers -> Seq(BoxCopy)]
    PROVE  Boxes \in [Servers -> Seq(BoxCopy)]
BY DEF Boxes

\* A server sends.
LEMMA SvrSendKeeps ==
    ASSUME IInv, NEW s \in Servers, SvrSend(s)
    PROVE  IInv'
<1>1. PICK t \in Traffic :
        /\ t.src = s /\ sent' = Append(sent, t)
        /\ clusterQ' = [clusterQ EXCEPT ![ClusterOf[s]] = Append(@, Len(sent) + 1)]
  BY DEF SvrSend
<1>2. PICK c \in Clusters : c = ClusterOf[s]
  BY RouteAssumption
<1>3. /\ sent \in Seq(Pkts) /\ clusterQ \in [Clusters -> Seq(Nat)]
      /\ Routed(sent, clusterQ, job, wire, Boxes) /\ Len(sent) \in Nat
  BY DEF IInv, Routed, PlacesType
<1>4. /\ sent' \in Seq(Pkts) /\ Len(sent') = Len(sent) + 1
      /\ Grows(sent, sent') /\ Len(sent) + 1 \in DOMAIN sent'
      /\ \A x \in DOMAIN sent : x \in Nat /\ x < Len(sent) + 1
  <2>1. t \in Pkts
    BY DEF Pkts
  <2>2. /\ \A x \in DOMAIN sent : x \in Nat /\ x <= Len(sent)
        /\ sent' \in Seq(Pkts) /\ Len(sent') = Len(sent) + 1
        /\ DOMAIN sent' = DOMAIN sent \cup {Len(sent) + 1}
        /\ \A x \in DOMAIN sent : sent'[x] = sent[x]
    BY <1>1, <1>3, <2>1, AppendIs
  <2> QED BY <1>3, <2>2 DEF Grows
<1>5. PICK n \in Nat : n = Len(sent) + 1
  BY <1>3
<1>6. PICK q \in Seq(Nat) : q = clusterQ[c]
  BY <1>3
<1>7. PICK q2 : q2 = Append(q, n)
  OBVIOUS
<1>8. /\ q2 \in Seq(Nat) /\ DOMAIN q2 = DOMAIN q \cup {Len(q) + 1}
      /\ \A x \in DOMAIN q : x \in Nat /\ x <= Len(q) /\ q2[x] = q[x]
      /\ q2[Len(q) + 1] = n /\ Len(q) \in Nat
  BY <1>7, AppendIs
<1>9. /\ clusterQ' \in [Clusters -> Seq(Nat)] /\ clusterQ'[c] = q2
      /\ \A e \in Clusters : e # c => clusterQ'[e] = clusterQ[e]
  BY <1>1, <1>2, <1>3, <1>5, <1>6, <1>7, <1>8
<1>10. \A x \in DOMAIN sent : x \in Nat /\ x < n /\ x \in DOMAIN sent' /\ sent'[x] = sent[x]
  BY <1>4, <1>5 DEF Grows
<1>11. ASSUME NEW e \in Clusters
       PROVE  /\ QueueOK(sent', clusterQ'[e]) /\ JobOK(sent', clusterQ'[e], job[e])
              /\ PastKept(sent, clusterQ[e], job[e], sent', clusterQ'[e], job[e])
  <2>1. QueueOK(sent, clusterQ[e]) /\ JobOK(sent, clusterQ[e], job[e])
    BY <1>3 DEF Routed, QueueInv, JobInv
  <2>2. CASE e = c
    <3>1. QueueOK(sent', q2)
      <4>1. QueueOK(sent, q)
        BY <1>6, <2>1, <2>2
      <4>2. \A x \in DOMAIN q2 : q2[x] \in DOMAIN sent'
        BY <1>4, <1>5, <1>8, <1>10, <4>1 DEF QueueOK
      <4>3. \A x, y \in DOMAIN q2 : x < y => q2[x] < q2[y]
        BY <1>8, <1>10, <4>1 DEF QueueOK
      <4> QED BY <4>2, <4>3 DEF QueueOK
    <3>2. JobOK(sent', q2, job[e])
      <4>1. JobOK(sent, q, job[e])
        BY <1>6, <2>1, <2>2
      <4> QED BY <1>8, <1>10, <4>1 DEF JobOK, ForServers
    <3>3. PastKept(sent, q, job[e], sent', q2, job[e])
      <4>1. JobOK(sent, q, job[e])
        BY <1>6, <2>1, <2>2
      <4> QED BY <1>8, <1>10, <4>1 DEF PastKept, Past, JobOK, ForServers
    <3> QED BY <1>6, <1>9, <2>2, <3>1, <3>2, <3>3
  <2>3. CASE e # c
    <3>1. clusterQ'[e] = clusterQ[e]
      BY <1>9, <2>3
    <3>2. PICK qe : qe = clusterQ[e]
      OBVIOUS
    <3>3. QueueOK(sent, qe) /\ JobOK(sent, qe, job[e])
      BY <2>1, <3>2
    <3>4. QueueOK(sent', qe) /\ JobOK(sent', qe, job[e])
      BY <1>10, <3>3 DEF QueueOK, JobOK, ForServers
    <3>5. PastKept(sent, qe, job[e], sent', qe, job[e])
      BY <1>10, <3>3 DEF PastKept, Past, JobOK, ForServers
    <3> QED BY <3>1, <3>2, <3>4, <3>5
  <2> QED BY <2>2, <2>3
<1>12. PlacesType(sent', clusterQ', job, wire, Boxes)
  BY <1>3, <1>4, <1>9 DEF Routed, PlacesType
<1>13. Routed(sent', clusterQ', job, wire, Boxes)
  BY <1>3, <1>4, <1>11, <1>12, BusStep
<1>14. /\ job' = job /\ wire' = wire /\ Boxes' = Boxes
       /\ Len(sent) < MaxSend /\ UNCHANGED <<svrQ, got, link, breaks>>
  BY DEF SvrSend, Boxes
<1>15. TypeInv'
  BY <1>3, <1>4, <1>14, RouteAssumption DEF IInv, TypeInv
<1> QED BY <1>13, <1>14, <1>15 DEF IInv

\* What is left is a job or none.
LEMMA LeftIs ==
    ASSUME NEW id \in Nat, NEW todo \in Seq(Dsts)
    PROVE  /\ Left(id, todo) \in [id : Nat, todo : Seq(Dsts)]
           /\ Left(id, todo) # NoJob =>
                Left(id, todo).id = id /\ Left(id, todo).todo = todo /\ todo # << >>
BY DEF Left, NoJob

\* A bus starts a heartbeat.
LEMMA HeartBeatKeeps ==
    ASSUME IInv, NEW c \in Clusters, SendHeartBeetMessage(c)
    PROVE  IInv'
<1>1. PICK hb : hb = [src |-> c, type |-> "Heartbeat", dst |-> c]
  OBVIOUS
<1>2. hb \in Pkts /\ hb.type \in ToBuses
  BY <1>1 DEF Pkts, ToBuses
<1>3. /\ sent \in Seq(Pkts) /\ job \in [Clusters -> [id : Nat, todo : Seq(Dsts)]]
      /\ Routed(sent, clusterQ, job, wire, Boxes) /\ Len(sent) \in Nat
  BY DEF IInv, Routed, PlacesType
<1>4. PICK n \in Nat : n = Len(sent) + 1
  BY <1>3
<1>5. /\ sent' \in Seq(Pkts) /\ Len(sent') = n /\ n \in DOMAIN sent' /\ sent'[n] = hb
      /\ \A x \in DOMAIN sent : x \in DOMAIN sent' /\ sent'[x] = sent[x]
  <2>1. sent' = Append(sent, hb)
    BY <1>1 DEF SendHeartBeetMessage
  <2> QED BY <1>2, <1>3, <1>4, <2>1, AppendIs
<1>6. PICK todo : todo = Others(c)
  OBVIOUS
<1>7. todo \in Seq(Dsts) /\ \A x \in DOMAIN todo : todo[x] \in Clusters
  BY <1>2, <1>6, DstListsAre DEF DstLists
<1>8. PICK j2 : j2 = Left(n, todo)
  OBVIOUS
<1>9. /\ j2 \in [id : Nat, todo : Seq(Dsts)]
      /\ j2 # NoJob => j2.id = n /\ j2.todo = todo /\ todo # << >>
  BY <1>7, <1>8, LeftIs
<1>10. job[c] = NoJob /\ job' = [job EXCEPT ![c] = j2]
  BY <1>4, <1>6, <1>8 DEF SendHeartBeetMessage, Work, Left, Idle
<1>11. /\ job' \in [Clusters -> [id : Nat, todo : Seq(Dsts)]] /\ job'[c] = j2
       /\ \A e \in Clusters : e # c => job'[e] = job[e]
  BY <1>3, <1>9, <1>10
<1>12. ~ForServers(sent', n)
  BY <1>2, <1>5 DEF ForServers
<1>13. ASSUME NEW e \in Clusters
       PROVE  /\ QueueOK(sent', clusterQ[e]) /\ JobOK(sent', clusterQ[e], job'[e])
              /\ PastKept(sent, clusterQ[e], job[e], sent', clusterQ[e], job'[e])
  <2>1. PICK qe : qe = clusterQ[e]
    OBVIOUS
  <2>2. PICK je : je = job[e]
    OBVIOUS
  <2>3. QueueOK(sent, qe) /\ JobOK(sent, qe, je)
    BY <1>3, <2>1, <2>2 DEF Routed, QueueInv, JobInv
  <2>4. QueueOK(sent', qe)
    BY <1>5, <2>3 DEF QueueOK
  <2>5. CASE e = c
    <3>1. JobOK(sent', qe, j2)
      BY <1>5, <1>7, <1>9, <1>12 DEF JobOK
    <3>2. PastKept(sent, qe, je, sent', qe, j2)
      BY <1>9, <1>12 DEF PastKept, Past
    <3> QED BY <1>11, <2>1, <2>2, <2>4, <2>5, <3>1, <3>2
  <2>6. CASE e # c
    <3>1. JobOK(sent', qe, je)
      BY <1>5, <2>3 DEF JobOK, ForServers
    <3>2. PastKept(sent, qe, je, sent', qe, je)
      BY <1>5, <2>3 DEF PastKept, Past, JobOK, ForServers
    <3> QED BY <1>11, <2>1, <2>2, <2>4, <2>6, <3>1, <3>2
  <2> QED BY <2>5, <2>6
<1>14. PlacesType(sent', clusterQ, job', wire, Boxes)
  BY <1>3, <1>5, <1>11 DEF Routed, PlacesType
<1>15. Routed(sent', clusterQ, job', wire, Boxes)
  <2>1. Grows(sent, sent')
    BY <1>5 DEF Grows
  <2> QED BY <1>3, <1>13, <1>14, <2>1, BusStep
<1>16. /\ clusterQ' = clusterQ /\ wire' = wire /\ Boxes' = Boxes
       /\ Len(sent) < MaxSend /\ UNCHANGED <<svrQ, got, link, breaks>>
  BY DEF SendHeartBeetMessage, Boxes
<1>17. TypeInv'
  BY <1>3, <1>4, <1>5, <1>16, RouteAssumption DEF IInv, TypeInv
<1> QED BY <1>15, <1>16, <1>17 DEF IInv

\* A bus takes a packet and draws up its list.
LEMMA TakeMsgKeeps ==
    ASSUME IInv, NEW c \in Clusters, TakeMsg(c)
    PROVE  IInv'
<1>1. /\ sent \in Seq(Pkts) /\ job \in [Clusters -> [id : Nat, todo : Seq(Dsts)]]
      /\ clusterQ \in [Clusters -> Seq(Nat)]
      /\ Routed(sent, clusterQ, job, wire, Boxes)
  BY DEF IInv, Routed, PlacesType
<1>2. PICK q \in Seq(Nat) : q = clusterQ[c]
  BY <1>1
<1>3. q # << >> /\ job[c] = NoJob /\ clusterQ' = [clusterQ EXCEPT ![c] = Tail(@)]
  BY <1>2 DEF TakeMsg, Idle
<1>4. PICK id : id = Head(q)
  OBVIOUS
<1>5. PICK q2 : q2 = Tail(q)
  OBVIOUS
<1>6. /\ q2 \in Seq(Nat) /\ id = q[1] /\ id \in Nat /\ 1 \in DOMAIN q
      /\ \A x \in DOMAIN q2 : x + 1 \in DOMAIN q /\ x \in Nat /\ 1 < x + 1 /\ q2[x] = q[x + 1]
  <2>1. /\ q2 \in Seq(Nat) /\ id = q[1] /\ id \in Nat /\ 1 \in DOMAIN q
        /\ \A x \in DOMAIN q2 : x + 1 \in DOMAIN q /\ x \in Nat /\ q2[x] = q[x + 1]
    BY <1>3, <1>4, <1>5, TailIs
  <2>2. \A x \in DOMAIN q2 : x \in 1..Len(q2)
    BY <2>1
  <2>3. \A x \in DOMAIN q2 : 1 < x + 1
    BY <2>2
  <2> QED BY <2>1, <2>3
<1>7. QueueOK(sent, q)
  BY <1>1, <1>2 DEF Routed, QueueInv
<1>8. id \in DOMAIN sent /\ sent[id] \in Pkts
  <2>1. id \in DOMAIN sent
    BY <1>6, <1>7 DEF QueueOK
  <2> QED BY <1>1, <2>1
<1>9. PICK todo \in DstLists(c, sent[id]) : Work(c, id, todo)
  BY <1>2, <1>4 DEF TakeMsg
<1>10. /\ todo \in Seq(Dsts)
       /\ ~ForServers(sent, id) => \A x \in DOMAIN todo : todo[x] \in Clusters
       /\ ForServers(sent, id) => NoDup(todo) /\ \A x \in DOMAIN todo : Meant(sent[id], todo[x])
  BY <1>8, <1>9, DstListsAre DEF ForServers
<1>11. PICK j2 : j2 = Left(id, todo)
  OBVIOUS
<1>12. /\ j2 \in [id : Nat, todo : Seq(Dsts)]
       /\ j2 # NoJob => j2.id = id /\ j2.todo = todo /\ todo # << >>
  BY <1>6, <1>10, <1>11, LeftIs
<1>13. /\ job' \in [Clusters -> [id : Nat, todo : Seq(Dsts)]] /\ job'[c] = j2
       /\ \A e \in Clusters : e # c => job'[e] = job[e]
  BY <1>1, <1>9, <1>11, <1>12 DEF Work, Left
<1>14. /\ clusterQ' \in [Clusters -> Seq(Nat)] /\ clusterQ'[c] = q2
       /\ \A e \in Clusters : e # c => clusterQ'[e] = clusterQ[e]
  BY <1>1, <1>2, <1>3, <1>5, <1>6
<1>15. \A x \in DOMAIN q2 : id < q2[x]
  BY <1>6, <1>7 DEF QueueOK
<1>16. QueueOK(sent, q2)
  <2>1. \A x, y \in DOMAIN q2 : x < y => x + 1 < y + 1
    BY <1>6
  <2> QED BY <1>6, <1>7, <2>1 DEF QueueOK
<1>17. JobOK(sent, q2, j2)
  BY <1>8, <1>10, <1>12, <1>15 DEF JobOK
<1>18. PastKept(sent, q, job[c], sent, q2, j2)
  <2> SUFFICES ASSUME NEW x \in DOMAIN sent, NEW dst, Past(sent, q, job[c], x, dst)
               PROVE  Past(sent, q2, j2, x, dst)
    BY DEF PastKept
  <2>1. x < id /\ x \in Nat
    BY <1>1, <1>6 DEF Past
  <2>2. x <= id /\ x # id
    BY <1>6, <2>1
  <2> QED BY <1>6, <1>12, <2>2 DEF Past
<1>19. \A e \in Clusters : QueueOK(sent, clusterQ'[e]) /\ JobOK(sent, clusterQ'[e], job'[e])
  BY <1>1, <1>13, <1>14, <1>16, <1>17 DEF Routed, QueueInv, JobInv
<1>20. \A e \in Clusters : PastKept(sent, clusterQ[e], job[e], sent, clusterQ'[e], job'[e])
  BY <1>2, <1>13, <1>14, <1>18 DEF PastKept
<1>21. PlacesType(sent, clusterQ', job', wire, Boxes)
  BY <1>1, <1>13, <1>14 DEF Routed, PlacesType
<1>22. Routed(sent, clusterQ', job', wire, Boxes)
  BY <1>1, <1>19, <1>20, <1>21, BusStep DEF Grows
<1>23. sent' = sent /\ wire' = wire /\ Boxes' = Boxes /\ UNCHANGED <<svrQ, got, link, breaks>>
  BY DEF TakeMsg, Boxes
<1>24. TypeInv'
  BY <1>23 DEF IInv, TypeInv
<1> QED BY <1>22, <1>23, <1>24 DEF IInv

\* What a bus inside ForwardMsg has in hand.
LEMMA JobIs ==
    ASSUME IInv, NEW c \in Clusters, ~Idle(c)
    PROVE  /\ job[c].id \in DOMAIN sent /\ job[c].id \in Nat /\ job[c] # NoJob
           /\ job[c].todo \in Seq(Dsts) /\ job[c].todo # << >>
           /\ Head(job[c].todo) = job[c].todo[1] /\ 1 \in DOMAIN job[c].todo
           /\ Head(job[c].todo) \in Dsts
           /\ ~ForServers(sent, job[c].id) => Head(job[c].todo) \in Clusters
           /\ ForServers(sent, job[c].id) => Meant(sent[job[c].id], Head(job[c].todo))
<1>1. job \in [Clusters -> [id : Nat, todo : Seq(Dsts)]] /\ JobOK(sent, clusterQ[c], job[c])
  BY DEF IInv, Routed, PlacesType, JobInv
<1>2. PICK todo \in Seq(Dsts) : todo = job[c].todo
  BY <1>1
<1>3. job[c] # NoJob /\ todo # << >>
  BY <1>1, <1>2 DEF JobOK, Idle
<1>4. Head(todo) = todo[1] /\ 1 \in DOMAIN todo /\ Head(todo) \in Dsts
  BY <1>2, <1>3, TailIs
<1> QED BY <1>1, <1>2, <1>3, <1>4 DEF JobOK

\* Rounds in which no copy is handed on.
LEMMA RoundKeeps ==
    ASSUME IInv, NEW c \in Clusters, ~Idle(c),
           NEW t, t = << >> \/ t = Tail(job[c].todo), Work(c, job[c].id, t),
           UNCHANGED <<sent, clusterQ, svrQ, got, wire, breaks>>,
           link' = link \/ \E d \in Clusters : link' = [link EXCEPT ![c][d] = "down"]
    PROVE  IInv'
<1>1. Routed(sent, clusterQ, job, wire, Boxes) /\ job[c] # NoJob
  BY JobIs DEF IInv
<1>2. job' = [job EXCEPT ![c] = Left(job[c].id, t)]
  BY DEF Work, Left
<1>3. Routed(sent, clusterQ, job', wire, Boxes)
  BY <1>1, <1>2, TodoShrinks
<1>4. Boxes' = Boxes
  BY DEF Boxes
<1>5. TypeInv'
  <2>1. link' \in [Clusters -> [Clusters -> {"up", "down", "dead"}]]
        /\ \A a, b \in Clusters : link'[a][b] # "down" => link[a][b] # "down"
    <3>1. link \in [Clusters -> [Clusters -> {"up", "down", "dead"}]]
      BY DEF IInv, TypeInv
    <3>2. CASE link' = link
      BY <3>1, <3>2
    <3>3. ASSUME NEW d \in Clusters, link' = [link EXCEPT ![c][d] = "down"]
          PROVE  link' \in [Clusters -> [Clusters -> {"up", "down", "dead"}]]
                 /\ \A a, b \in Clusters : link'[a][b] # "down" => link[a][b] # "down"
      BY <3>1, <3>3
    <3> QED BY <3>2, <3>3
  <2> QED BY <2>1 DEF IInv, TypeInv
<1> QED BY <1>3, <1>4, <1>5 DEF IInv

\* The cluster of the next copy, if it is for another one.
LEMMA ViaIs ==
    ASSUME IInv, NEW c \in Clusters, Remote(c)
    PROVE  /\ ~Idle(c) /\ Via(sent[job[c].id], Head(job[c].todo)) \in Clusters
           /\ ForServers(sent, job[c].id) =>
                /\ Head(job[c].todo) \in Servers
                /\ Via(sent[job[c].id], Head(job[c].todo)) = ClusterOf[Head(job[c].todo)]
<1>1. ~Idle(c)
  BY DEF Remote
<1>2. ~ForServers(sent, job[c].id) => Head(job[c].todo) \in Clusters
  BY <1>1, JobIs
<1> QED BY <1>1, <1>2, RouteAssumption DEF Remote, Via, ForServers

\* The rounds that give copies up.
LEMMA GiveUpRoundsKeep ==
    ASSUME IInv, NEW c \in Clusters,
           \/ ForwardUnknown(c) \/ ForwardNoLink(c) \/ ForwardFails(c) \/ ForwardSwallowed(c)
    PROVE  IInv'
<1>1. CASE ForwardUnknown(c)
  BY <1>1, RoundKeeps DEF ForwardUnknown
<1>2. CASE ForwardNoLink(c)
  <2>1. ~Idle(c)
    BY <1>2 DEF ForwardNoLink, Remote
  <2> QED BY <1>2, <2>1, RoundKeeps DEF ForwardNoLink
<1>3. CASE ForwardSwallowed(c)
  <2>1. ~Idle(c)
    BY <1>3 DEF ForwardSwallowed, Remote
  <2> QED BY <1>3, <2>1, RoundKeeps DEF ForwardSwallowed
<1>4. CASE ForwardFails(c)
  <2>1. ~Idle(c) /\ Via(sent[job[c].id], Head(job[c].todo)) \in Clusters
    BY <1>4, ViaIs DEF ForwardFails
  <2>2. PICK d \in Clusters : link' = [link EXCEPT ![c][d] = "down"]
    BY <1>4, <2>1 DEF ForwardFails
  <2>3. Work(c, job[c].id, << >>) \/ Work(c, job[c].id, Tail(job[c].todo))
    BY <1>4 DEF ForwardFails
  <2>4. UNCHANGED <<sent, clusterQ, svrQ, got, wire, breaks>>
    BY <1>4 DEF ForwardFails
  <2> QED BY <2>1, <2>2, <2>3, <2>4, RoundKeeps
<1> QED BY <1>1, <1>2, <1>3, <1>4

\* A copy more in the queue of s, and in its box.
LEMMA InQueueIs ==
    ASSUME svrQ \in [Servers -> Seq(BoxCopy)], got \in [Servers -> Seq(BoxCopy)],
           NEW s \in Servers, NEW k \in BoxCopy, InQueue(s, k), got' = got
    PROVE  Boxes' = [Boxes EXCEPT ![s] = Append(@, k)] /\ svrQ' \in [Servers -> Seq(BoxCopy)]
<1>1. svrQ' = [svrQ EXCEPT ![s] = Append(svrQ[s], k)] /\ svrQ[s] \in Seq(BoxCopy) /\ got[s] \in Seq(BoxCopy)
  BY DEF InQueue
<1>2. got[s] \o Append(svrQ[s], k) = Append(got[s] \o svrQ[s], k)
  BY <1>1, BoxAppend
<1>3. svrQ' \in [Servers -> Seq(BoxCopy)] /\ svrQ'[s] = Append(svrQ[s], k)
      /\ \A t \in Servers : t # s => svrQ'[t] = svrQ[t]
  BY <1>1, AppendIs
<1>4. Boxes = [t \in Servers |-> got[t] \o svrQ[t]] /\ Boxes' = [t \in Servers |-> got[t] \o svrQ'[t]]
  BY DEF Boxes
<1>5. Boxes' = [Boxes EXCEPT ![s] = Append(Boxes[s], k)]
  BY <1>2, <1>3, <1>4
<1> QED BY <1>3, <1>5

\* A copy for a server of this cluster.
LEMMA ForwardLocalKeeps ==
    ASSUME IInv, NEW c \in Clusters, ForwardLocal(c)
    PROVE  IInv'
<1>1. /\ ~Idle(c) /\ job[c] # NoJob /\ Routed(sent, clusterQ, job, wire, Boxes)
      /\ svrQ \in [Servers -> Seq(BoxCopy)] /\ got \in [Servers -> Seq(BoxCopy)]
      /\ UNCHANGED <<sent, clusterQ, got, link, wire, breaks>>
  BY DEF ForwardLocal, Idle, IInv, TypeInv
<1>2. PICK id \in Nat : id = job[c].id
  BY <1>1, JobIs
<1>3. PICK todo \in Seq(Dsts) : todo = job[c].todo
  BY <1>1, JobIs
<1>4. PICK s \in Servers : s = Head(todo) /\ ClusterOf[s] = c
  BY <1>3 DEF ForwardLocal
<1>5. /\ id \in DOMAIN sent /\ ForServers(sent, id) /\ Meant(sent[id], s)
      /\ 1 \in DOMAIN todo /\ todo[1] = s
  BY <1>1, <1>2, <1>3, <1>4, JobIs DEF ForwardLocal, ForServers
<1>6. CASE Len(svrQ[s]) < QueueCap
  <2>1. PICK k : k = [id |-> id, dst |-> s, via |-> <<c, 0>>]
    OBVIOUS
  <2>2. k \in BoxCopy /\ k.id = id /\ k.dst = s /\ k.via = <<c, 0>> /\ k.via[1] = c
    BY <2>1 DEF BoxCopy
  <2>3. InQueue(s, k) /\ Work(c, id, Tail(todo))
    BY <1>2, <1>3, <1>4, <1>6, <2>1 DEF ForwardLocal
  <2>4. job' = [job EXCEPT ![c] = Left(id, Tail(todo))]
    BY <2>3 DEF Work, Left
  <2>5. /\ Routed(sent, clusterQ, job', wire, Boxes)
        /\ Past(sent, clusterQ[c], job'[c], id, s)
    BY <1>1, <1>2, <1>3, <1>4, <1>5, <2>4, TodoShrinks, ZenonT(60)
  <2>6. PICK jb2 : jb2 = job'
    OBVIOUS
  <2>7. MayDeliver(sent, clusterQ, jb2, wire, Boxes, s, k)
    <3>1. Past(sent, clusterQ[k.via[1]], jb2[k.via[1]], k.id, s)
      BY <2>2, <2>5, <2>6
    <3>2. ASSUME NEW x \in DOMAIN Boxes[s], Boxes[s][x].via = k.via
          PROVE  Boxes[s][x].id < k.id
      <4>1. Past(sent, clusterQ[c], job[c], Boxes[s][x].id, s)
        BY <1>1, <2>2, <3>2 DEF Routed, BoxPast
      <4>2. Boxes[s][x].id <= id /\ (Boxes[s][x].id = id => todo[1] # s)
        BY <1>1, <1>2, <1>3, <1>5, <4>1 DEF Past
      <4>3. Boxes[s][x].id \in Nat
        <5>1. Boxes[s] \in Seq(BoxCopy)
          BY <1>1 DEF Routed, PlacesType
        <5>2. Boxes[s][x] \in BoxCopy
          BY <5>1
        <5> QED BY <5>2 DEF BoxCopy
      <4> QED BY <1>5, <2>2, <4>2, <4>3
    <3>3. ASSUME NEW e \in Clusters, NEW i \in DOMAIN wire[e][ClusterOf[s]]
          PROVE  k.via # <<e, i>>
      <4>1. wire[e][ClusterOf[s]] \in Seq(Seq(WireCopy))
        BY <1>1, <1>4 DEF Routed, PlacesType
      <4>2. i # 0
        BY <4>1
      <4> QED BY <2>2, <4>2
    <3> QED BY <1>5, <2>2, <3>1, <3>2, <3>3 DEF MayDeliver
  <2>8. PICK bx2 : bx2 = [Boxes EXCEPT ![s] = Append(@, k)]
    OBVIOUS
  <2>9. Routed(sent, clusterQ, jb2, wire, bx2)
    <3>1. Routed(sent, clusterQ, jb2, wire, Boxes) /\ k.id \in DOMAIN sent
      BY <1>5, <2>2, <2>5, <2>6
    <3> QED BY <2>2, <2>7, <2>8, <3>1, BoxAdd
  <2>10. Boxes' = bx2 /\ svrQ' \in [Servers -> Seq(BoxCopy)]
    BY <1>1, <2>2, <2>3, <2>8, InQueueIs
  <2>11. TypeInv'
    BY <1>1, <2>10 DEF IInv, TypeInv
  <2> QED BY <1>1, <2>6, <2>9, <2>10, <2>11 DEF IInv
<1>7. CASE ~(Len(svrQ[s]) < QueueCap)
  <2>1. Work(c, job[c].id, << >>) /\ svrQ' = svrQ
    BY <1>3, <1>4, <1>7 DEF ForwardLocal
  <2> QED BY <1>1, <2>1, RoundKeeps
<1> QED BY <1>6, <1>7

\* A copy for another cluster.
LEMMA ForwardWriteKeeps ==
    ASSUME IInv, NEW c \in Clusters, ForwardWrite(c)
    PROVE  IInv'
<1>1. /\ ~Idle(c) /\ job[c] # NoJob /\ Routed(sent, clusterQ, job, wire, Boxes) /\ Remote(c)
      /\ UNCHANGED <<sent, clusterQ, svrQ, got, link, breaks>>
  BY DEF ForwardWrite, Remote, Idle, IInv, TypeInv
<1>2. PICK id \in Nat : id = job[c].id
  BY <1>1, JobIs
<1>3. PICK todo \in Seq(Dsts) : todo = job[c].todo
  BY <1>1, JobIs
<1>4. PICK h \in Dsts : h = Head(todo)
  BY <1>1, <1>3, JobIs
<1>5. PICK d \in Clusters : d = Via(sent[id], h)
  BY <1>1, <1>2, <1>3, <1>4, ViaIs
<1>6. /\ id \in DOMAIN sent /\ 1 \in DOMAIN todo /\ todo[1] = h
      /\ ForServers(sent, id) => h \in Servers /\ ClusterOf[h] = d /\ Meant(sent[id], h)
  BY <1>1, <1>2, <1>3, <1>4, <1>5, JobIs, ViaIs
<1>7. /\ link[c][d] = "up"
      /\ wire' = [wire EXCEPT ![c][d][LastOf(c, d)] = Append(@, [id |-> id, dst |-> h])]
      /\ Work(c, id, Tail(todo))
  BY <1>2, <1>3, <1>4, <1>5 DEF ForwardWrite
<1>8. PICK i : i = LastOf(c, d)
  OBVIOUS
<1>9. wire[c][d] \in Seq(Seq(WireCopy)) /\ i \in DOMAIN wire[c][d]
  <2>1. wire[c][d] \in Seq(Seq(WireCopy)) /\ wire[c][d] # << >>
    BY <1>1, <1>7 DEF IInv, TypeInv, Routed, PlacesType
  <2> QED BY <1>8, <2>1 DEF LastOf
<1>10. PICK k : k = [id |-> id, dst |-> h]
  OBVIOUS
<1>11. k \in WireCopy /\ k.id = id /\ k.dst = h
  BY <1>10 DEF WireCopy
<1>12. job' = [job EXCEPT ![c] = Left(id, Tail(todo))]
  BY <1>7 DEF Work, Left
<1>13. /\ Routed(sent, clusterQ, job', wire, Boxes)
       /\ ForServers(sent, id) => Past(sent, clusterQ[c], job'[c], id, h)
  BY <1>1, <1>2, <1>3, <1>4, <1>12, TodoShrinks
<1>14. PICK jb2 : jb2 = job'
  OBVIOUS
<1>15. MayWrite(sent, clusterQ, jb2, wire, Boxes, c, d, i, k)
  <2> SUFFICES ASSUME ForServers(sent, id)
               PROVE  MayWrite(sent, clusterQ, jb2, wire, Boxes, c, d, i, k)
    BY <1>11 DEF MayWrite
  <2>1. h \in Servers /\ ClusterOf[h] = d /\ Meant(sent[id], h)
    BY <1>6
  <2>2. \A x : Past(sent, clusterQ[c], job[c], x, h) => x <= id /\ x # id
    BY <1>1, <1>2, <1>3, <1>6 DEF Past
  <2>3. ASSUME NEW a \in DOMAIN wire[c][d][i], wire[c][d][i][a].dst = h,
               ForServers(sent, wire[c][d][i][a].id)
        PROVE  wire[c][d][i][a].id < id
    <3>1. Past(sent, clusterQ[c], job[c], wire[c][d][i][a].id, h)
      BY <1>1, <1>9, <2>3 DEF Routed, WirePast
    <3>2. wire[c][d][i][a].id \in Nat
      <4>1. wire[c][d][i] \in Seq(WireCopy)
        BY <1>9
      <4>2. wire[c][d][i][a] \in WireCopy
        BY <4>1
      <4> QED BY <4>2 DEF WireCopy
    <3>3. wire[c][d][i][a].id <= id /\ wire[c][d][i][a].id # id
      BY <2>2, <3>1
    <3> QED BY <3>2, <3>3
  <2>4. ASSUME NEW x \in DOMAIN Boxes[h], Boxes[h][x].via = <<c, i>>
        PROVE  Boxes[h][x].id < id
    <3>0. Boxes[h][x].via[1] = c
      BY <2>4
    <3>1. Past(sent, clusterQ[c], job[c], Boxes[h][x].id, h)
      BY <1>1, <2>1, <3>0 DEF Routed, BoxPast
    <3>2. Boxes[h][x].id \in Nat
      <4>1. Boxes[h] \in Seq(BoxCopy)
        BY <1>1, <2>1 DEF Routed, PlacesType
      <4>2. Boxes[h][x] \in BoxCopy
        BY <4>1
      <4> QED BY <4>2 DEF BoxCopy
    <3>3. Boxes[h][x].id <= id /\ Boxes[h][x].id # id
      BY <2>2, <3>1
    <3> QED BY <3>2, <3>3
  <2>5. Past(sent, clusterQ[c], jb2[c], id, h)
    BY <1>13, <1>14
  <2> QED BY <1>11, <2>1, <2>3, <2>4, <2>5 DEF MayWrite
<1>16. Routed(sent, clusterQ, jb2, wire', Boxes)
  <2>1. Routed(sent, clusterQ, jb2, wire, Boxes) /\ k.id \in DOMAIN sent
    BY <1>6, <1>11, <1>13, <1>14
  <2>2. wire' = [wire EXCEPT ![c][d][i] = Append(@, k)]
    BY <1>7, <1>8, <1>10
  <2> QED BY <1>9, <1>11, <1>15, <2>1, <2>2, WireAdd
<1>17. Boxes' = Boxes
  BY <1>1 DEF Boxes
<1>18. TypeInv'
  <2>1. \A x, y \in Clusters : wire[x][y] # << >> => wire'[x][y] # << >>
    <3>1. wire \in [Clusters -> [Clusters -> Seq(Seq(WireCopy))]]
      BY <1>1 DEF Routed, PlacesType
    <3>2. PICK l : l = [wire[c][d] EXCEPT ![i] = Append(@, k)]
      OBVIOUS
    <3>3. l # << >>
      BY <1>9, <3>2
    <3>4. wire' = [wire EXCEPT ![c] = [wire[c] EXCEPT ![d] = l]]
      BY <1>7, <1>8, <1>10, <3>1, <3>2
    <3> QED BY <3>1, <3>3, <3>4
  <2> QED BY <1>1, <2>1 DEF IInv, TypeInv
<1> QED BY <1>1, <1>14, <1>16, <1>17, <1>18 DEF IInv

-----------------------------------------------------------------------------
(* Connections and servers *)

\* A part of a connection: all of it, the rest after the head, a prefix.
LEMMA Parts ==
    ASSUME NEW w \in Seq(WireCopy)
    PROVE  /\ PartOf(w, w)
           /\ w # << >> => PartOf(Tail(w), w)
           /\ \A k \in 0..Len(w) : PartOf(SubSeq(w, 1, k), w)
<1>1. PartOf(w, w)
  <2>1. \A a \in DOMAIN w : a + 0 \in DOMAIN w /\ w[a] = w[a + 0]
    OBVIOUS
  <2> QED BY <2>1 DEF PartOf
<1>2. w # << >> => PartOf(Tail(w), w)
  BY TailIs DEF PartOf
<1>3. ASSUME NEW k \in 0..Len(w)
      PROVE  PartOf(SubSeq(w, 1, k), w)
  <2>1. PICK w2 : w2 = SubSeq(w, 1, k)
    OBVIOUS
  <2>2. w2 \in Seq(WireCopy) /\ \A a \in DOMAIN w2 : a \in DOMAIN w /\ w2[a] = w[a]
    BY <2>1, PrefixIs
  <2>3. \A a \in DOMAIN w2 : a + 0 \in DOMAIN w /\ w2[a] = w[a + 0]
    BY <2>2
  <2> QED BY <2>1, <2>3 DEF PartOf
<1> QED BY <1>1, <1>2, <1>3

\* One connection loses copies at one end.
LEMMA WireLessOne ==
    ASSUME NEW sn, NEW q, NEW jb, NEW wr, NEW bx, Routed(sn, q, jb, wr, bx),
           NEW c \in Clusters, NEW d \in Clusters, NEW i \in DOMAIN wr[c][d],
           NEW w2 \in Seq(WireCopy), PartOf(w2, wr[c][d][i]),
           NEW wr2, wr2 = [wr EXCEPT ![c][d][i] = w2]
    PROVE  Routed(sn, q, jb, wr2, bx)
<1>1. wr \in [Clusters -> [Clusters -> Seq(Seq(WireCopy))]]
  BY DEF Routed, PlacesType
<1>2. /\ wr2 \in [Clusters -> [Clusters -> Seq(Seq(WireCopy))]]
      /\ wr2[c][d][i] = w2
      /\ \A x, y \in Clusters : DOMAIN wr2[x][y] = DOMAIN wr[x][y]
      /\ \A x, y \in Clusters : \A j \in DOMAIN wr[x][y] :
            <<x, y, j>> # <<c, d, i>> => wr2[x][y][j] = wr[x][y][j]
  BY <1>1, WireChange DEF Changed
<1>3. ASSUME NEW x \in Clusters, NEW y \in Clusters, NEW j \in DOMAIN wr2[x][y]
      PROVE  j \in DOMAIN wr[x][y] /\ PartOf(wr2[x][y][j], wr[x][y][j])
  <2>1. j \in DOMAIN wr[x][y]
    BY <1>2
  <2>2. CASE <<x, y, j>> = <<c, d, i>>
    BY <1>2, <2>1, <2>2
  <2>3. CASE <<x, y, j>> # <<c, d, i>>
    <3>1. wr[x][y] \in Seq(Seq(WireCopy))
      BY <1>1
    <3>2. wr[x][y][j] \in Seq(WireCopy)
      BY <2>1, <3>1
    <3> QED BY <1>2, <2>1, <2>3, <3>2, Parts
  <2> QED BY <2>2, <2>3
<1>4. Shrunk(wr2, wr)
  BY <1>3 DEF Shrunk
<1> QED BY <1>2, <1>4, WireLess

\* No connection is forgotten.
LEMMA WireStays ==
    ASSUME NEW wr \in [Clusters -> [Clusters -> Seq(Seq(WireCopy))]],
           NEW wr2 \in [Clusters -> [Clusters -> Seq(Seq(WireCopy))]],
           NEW x \in Clusters, NEW y \in Clusters, DOMAIN wr2[x][y] = DOMAIN wr[x][y],
           wr[x][y] # << >>
    PROVE  wr2[x][y] # << >>
OBVIOUS

\* A bus reads a packet from a connection.
LEMMA ProcessPkgKeeps ==
    ASSUME IInv, NEW c \in Clusters, NEW d \in Clusters, NEW i \in DOMAIN wire[c][d],
           ProcessPkg(d, c, i)
    PROVE  IInv'
<1>1. /\ Routed(sent, clusterQ, job, wire, Boxes)
      /\ wire \in [Clusters -> [Clusters -> Seq(Seq(WireCopy))]]
      /\ svrQ \in [Servers -> Seq(BoxCopy)] /\ got \in [Servers -> Seq(BoxCopy)]
      /\ UNCHANGED <<sent, clusterQ, job, got, link, breaks>>
  BY DEF ProcessPkg, IInv, TypeInv, Routed, PlacesType
<1>2. PICK w \in Seq(WireCopy) : w = wire[c][d][i]
  <2>1. wire[c][d] \in Seq(Seq(WireCopy))
    BY <1>1
  <2> QED BY <2>1
<1>3. w # << >> /\ wire' = [wire EXCEPT ![c][d][i] = Tail(w)]
  BY <1>2 DEF ProcessPkg
<1>4. PICK k : k = Head(w)
  OBVIOUS
<1>5. PICK w2 : w2 = Tail(w)
  OBVIOUS
<1>6. /\ w2 \in Seq(WireCopy) /\ k = w[1] /\ k \in WireCopy /\ 1 \in DOMAIN w
      /\ \A x \in DOMAIN w2 : x + 1 \in DOMAIN w /\ x \in Nat /\ 1 < x + 1 /\ w2[x] = w[x + 1]
  <2>1. /\ w2 \in Seq(WireCopy) /\ k = w[1] /\ k \in WireCopy /\ 1 \in DOMAIN w
        /\ \A x \in DOMAIN w2 : x + 1 \in DOMAIN w /\ x \in Nat /\ w2[x] = w[x + 1]
    BY <1>3, <1>4, <1>5, TailIs
  <2>2. \A x \in DOMAIN w2 : x \in 1..Len(w2)
    BY <2>1
  <2>3. \A x \in DOMAIN w2 : 1 < x + 1
    BY <2>2
  <2> QED BY <2>1, <2>3
<1>7. PICK wr2 : wr2 = wire'
  OBVIOUS
<1>8. /\ Routed(sent, clusterQ, job, wr2, Boxes) /\ wr2[c][d][i] = w2
      /\ wr2 \in [Clusters -> [Clusters -> Seq(Seq(WireCopy))]]
      /\ \A x, y \in Clusters : DOMAIN wr2[x][y] = DOMAIN wire[x][y]
  <2>1. PartOf(w2, wire[c][d][i])
    BY <1>2, <1>3, <1>5, Parts
  <2>2. wr2 = [wire EXCEPT ![c][d][i] = w2]
    BY <1>3, <1>5, <1>7
  <2>3. Changed(wire, c, d, i, w2, wr2)
    BY <1>1, <1>6, <2>2, WireChange
  <2>4. Routed(sent, clusterQ, job, wr2, Boxes)
    BY <1>1, <1>6, <2>1, <2>2, WireLessOne
  <2> QED BY <2>3, <2>4 DEF Changed
<1>9. \A x, y \in Clusters : wire[x][y] # << >> => wr2[x][y] # << >>
  BY <1>1, <1>8, WireStays
<1>10. CASE svrQ' = svrQ
  <2>1. Boxes' = Boxes
    BY <1>1, <1>10 DEF Boxes
  <2>2. TypeInv'
    BY <1>1, <1>7, <1>9, <1>10 DEF IInv, TypeInv
  <2> QED BY <1>1, <1>7, <1>8, <2>1, <2>2 DEF IInv
<1>11. CASE svrQ' # svrQ
  <2>1. PICK b : b = [id |-> k.id, dst |-> k.dst, via |-> <<c, i>>]
    OBVIOUS
  <2>2. ForServers(sent, k.id) /\ ClusterOf[k.dst] = d /\ InQueue(k.dst, b)
    BY <1>2, <1>4, <1>11, <2>1 DEF ProcessPkg, ForServers
  <2>3. WireOK(sent, d, w) /\ BehindInv(sent, wire, Boxes)
    BY <1>1, <1>2 DEF Routed, WireInv
  <2>4. k.id \in DOMAIN sent /\ k.dst \in Servers /\ Meant(sent[k.id], k.dst)
    BY <1>6, <2>2, <2>3 DEF WireOK
  <2>5. PICK s \in Servers : s = k.dst
    BY <2>4
  <2>6. b \in BoxCopy /\ b.id = k.id /\ b.dst = s /\ b.via = <<c, i>> /\ b.via[1] = c
    <3>1. i \in Nat
      BY <1>1
    <3> QED BY <1>6, <2>1, <2>5, <3>1 DEF BoxCopy, WireCopy
  <2>7. MayDeliver(sent, clusterQ, job, wr2, Boxes, s, b)
    <3>1. Past(sent, clusterQ[c], job[c], b.id, s)
      BY <1>1, <1>2, <1>6, <2>2, <2>5, <2>6 DEF Routed, WirePast
    <3>2. ASSUME NEW x \in DOMAIN Boxes[s], Boxes[s][x].via = b.via
          PROVE  Boxes[s][x].id < b.id
      <4>1. BehindBox(sent, w, s, Boxes[s], <<c, i>>)
        BY <1>2, <2>2, <2>3, <2>5 DEF BehindInv
      <4> QED BY <1>6, <2>2, <2>5, <2>6, <3>2, <4>1 DEF BehindBox
    <3>3. ASSUME NEW a \in DOMAIN w2, w2[a].dst = s, ForServers(sent, w2[a].id)
          PROVE  b.id < w2[a].id
      <4>1. w2[a] = w[a + 1] /\ a + 1 \in DOMAIN w /\ 1 < a + 1
        BY <1>6
      <4> QED BY <1>6, <2>2, <2>3, <2>5, <2>6, <3>3, <4>1 DEF WireOK
    <3>4. ASSUME NEW e \in Clusters, NEW j \in DOMAIN wr2[e][ClusterOf[s]], b.via = <<e, j>>
          PROVE  wr2[e][ClusterOf[s]][j] = w2
      BY <1>8, <2>2, <2>5, <2>6, <3>4
    <3> QED BY <2>2, <2>4, <2>5, <2>6, <3>1, <3>2, <3>3, <3>4 DEF MayDeliver
  <2>8. PICK bx2 : bx2 = [Boxes EXCEPT ![s] = Append(@, b)]
    OBVIOUS
  <2>9. Routed(sent, clusterQ, job, wr2, bx2)
    <3>1. b.id \in DOMAIN sent
      BY <2>4, <2>6
    <3> QED BY <1>8, <2>6, <2>7, <2>8, <3>1, BoxAdd
  <2>10. Boxes' = bx2 /\ svrQ' \in [Servers -> Seq(BoxCopy)]
    BY <1>1, <2>2, <2>5, <2>6, <2>8, InQueueIs
  <2>11. TypeInv'
    BY <1>1, <1>7, <1>9, <2>10 DEF IInv, TypeInv
  <2> QED BY <1>1, <1>7, <2>9, <2>10, <2>11 DEF IInv
<1> QED BY <1>10, <1>11

\* A server takes a packet.
LEMMA SvrRecvKeeps ==
    ASSUME IInv, NEW s \in Servers, SvrRecv(s)
    PROVE  IInv'
<1>1. /\ Routed(sent, clusterQ, job, wire, Boxes)
      /\ svrQ \in [Servers -> Seq(BoxCopy)] /\ got \in [Servers -> Seq(BoxCopy)]
      /\ UNCHANGED <<sent, clusterQ, job, link, wire, breaks>>
  BY DEF SvrRecv, IInv, TypeInv
<1>2. PICK q \in Seq(BoxCopy) : q = svrQ[s]
  BY <1>1
<1>3. PICK g \in Seq(BoxCopy) : g = got[s]
  BY <1>1
<1>4. q # << >> /\ svrQ' = [svrQ EXCEPT ![s] = Tail(q)] /\ got' = [got EXCEPT ![s] = Append(g, Head(q))]
  BY <1>2, <1>3 DEF SvrRecv
<1>5. Tail(q) \in Seq(BoxCopy) /\ Append(g, Head(q)) \in Seq(BoxCopy)
  BY <1>4, TailIs, AppendIs
<1>6. svrQ' \in [Servers -> Seq(BoxCopy)] /\ got' \in [Servers -> Seq(BoxCopy)]
  BY <1>1, <1>4, <1>5
<1>7. \A t \in Servers : got'[t] \o svrQ'[t] = got[t] \o svrQ[t]
  <2>1. Append(g, Head(q)) \o Tail(q) = g \o q
    BY <1>4, BoxMove
  <2>2. svrQ'[s] = Tail(q) /\ got'[s] = Append(g, Head(q))
    BY <1>1, <1>4
  <2>3. \A t \in Servers : t # s => svrQ'[t] = svrQ[t] /\ got'[t] = got[t]
    BY <1>1, <1>4
  <2> QED BY <1>2, <1>3, <2>1, <2>2, <2>3
<1>8. Boxes' = Boxes
  BY <1>7 DEF Boxes
<1>9. TypeInv'
  BY <1>1, <1>6 DEF IInv, TypeInv
<1> QED BY <1>1, <1>8, <1>9 DEF IInv

\* A connection breaks.
LEMMA LinkBreakKeeps ==
    ASSUME IInv, NEW c \in Clusters, NEW d \in Clusters, LinkBreak(c, d)
    PROVE  IInv'
<1>1. /\ Routed(sent, clusterQ, job, wire, Boxes)
      /\ wire \in [Clusters -> [Clusters -> Seq(Seq(WireCopy))]]
      /\ UNCHANGED <<sent, clusterQ, job, svrQ, got>>
      /\ link[c][d] = "up" /\ link' = [link EXCEPT ![c][d] = "dead"]
      /\ breaks < MaxBreaks /\ breaks' = breaks + 1
  BY DEF LinkBreak, IInv, TypeInv, Routed, PlacesType
<1>2. PICK i : i = LastOf(c, d)
  OBVIOUS
<1>3. wire[c][d] \in Seq(Seq(WireCopy)) /\ i \in DOMAIN wire[c][d]
  <2>1. wire[c][d] \in Seq(Seq(WireCopy)) /\ wire[c][d] # << >>
    BY <1>1 DEF IInv, TypeInv
  <2> QED BY <1>2, <2>1 DEF LastOf
<1>4. PICK w \in Seq(WireCopy) : w = wire[c][d][i]
  BY <1>3
<1>5. PICK k \in 0..Len(w) : wire' = [wire EXCEPT ![c][d][i] = SubSeq(w, 1, k)]
  BY <1>2, <1>4 DEF LinkBreak, Current
<1>6. PICK w2 : w2 = SubSeq(w, 1, k)
  OBVIOUS
<1>7. w2 \in Seq(WireCopy) /\ PartOf(w2, wire[c][d][i])
  BY <1>4, <1>6, PrefixIs, Parts
<1>8. PICK wr2 : wr2 = wire'
  OBVIOUS
<1>9. /\ Routed(sent, clusterQ, job, wr2, Boxes)
      /\ wr2 \in [Clusters -> [Clusters -> Seq(Seq(WireCopy))]]
      /\ \A x, y \in Clusters : DOMAIN wr2[x][y] = DOMAIN wire[x][y]
  <2>1. wr2 = [wire EXCEPT ![c][d][i] = w2]
    BY <1>5, <1>6, <1>8
  <2>2. Changed(wire, c, d, i, w2, wr2)
    BY <1>1, <1>3, <1>7, <2>1, WireChange
  <2>3. Routed(sent, clusterQ, job, wr2, Boxes)
    BY <1>1, <1>3, <1>7, <2>1, WireLessOne
  <2> QED BY <2>2, <2>3 DEF Changed
<1>10. \A x, y \in Clusters : wire[x][y] # << >> => wr2[x][y] # << >>
  BY <1>1, <1>9, WireStays
<1>11. TypeInv'
  <2>1. link' \in [Clusters -> [Clusters -> {"up", "down", "dead"}]]
        /\ \A a, b \in Clusters : link'[a][b] # "down" => link[a][b] # "down"
    BY <1>1 DEF IInv, TypeInv
  <2>2. breaks' \in 0..MaxBreaks
    BY <1>1, RouteAssumption DEF IInv, TypeInv
  <2> QED BY <1>1, <1>8, <1>10, <2>1, <2>2 DEF IInv, TypeInv
<1>12. Boxes' = Boxes
  BY <1>1 DEF Boxes
<1> QED BY <1>1, <1>8, <1>9, <1>11, <1>12 DEF IInv

\* epoll reports a broken connection.
LEMMA EpollErrKeeps ==
    ASSUME IInv, NEW c \in Clusters, NEW d \in Clusters, EpollErr(c, d)
    PROVE  IInv'
<1>1. /\ UNCHANGED <<sent, clusterQ, job, svrQ, got, wire, breaks>>
      /\ link' = [link EXCEPT ![c][d] = "down"]
  BY DEF EpollErr
<1>2. Boxes' = Boxes
  BY <1>1 DEF Boxes
<1>3. link' \in [Clusters -> [Clusters -> {"up", "down", "dead"}]]
      /\ \A a, b \in Clusters : link'[a][b] # "down" => link[a][b] # "down"
  BY <1>1 DEF IInv, TypeInv
<1>4. TypeInv'
  BY <1>1, <1>3 DEF IInv, TypeInv
<1> QED BY <1>1, <1>2, <1>4 DEF IInv

\* A connection is opened.
LEMMA ReconnectKeeps ==
    ASSUME IInv, NEW c \in Clusters, NEW d \in Clusters, Reconnect(c, d)
    PROVE  IInv'
<1>1. /\ Routed(sent, clusterQ, job, wire, Boxes)
      /\ wire \in [Clusters -> [Clusters -> Seq(Seq(WireCopy))]]
      /\ UNCHANGED <<sent, clusterQ, job, svrQ, got, breaks>>
      /\ link' = [link EXCEPT ![c][d] = "up"]
      /\ wire' = [wire EXCEPT ![c][d] = Append(wire[c][d], << >>)]
  BY DEF Reconnect, IInv, TypeInv, Routed, PlacesType
<1>2. PICK S : S = Seq(WireCopy)
  OBVIOUS
<1>3. PICK o \in Seq(S) : o = wire[c][d]
  BY <1>1, <1>2
<1>4. PICK l : l = Append(o, << >>)
  OBVIOUS
<1>5. /\ l \in Seq(S) /\ DOMAIN l = DOMAIN o \cup {Len(o) + 1} /\ l # << >>
      /\ \A j \in DOMAIN o : l[j] = o[j]
      /\ l[Len(o) + 1] = << >>
  BY <1>2, <1>4, AppendIs
<1>6. /\ wire' \in [Clusters -> [Clusters -> Seq(Seq(WireCopy))]] /\ wire'[c][d] = l
      /\ \A x, y \in Clusters : <<x, y>> # <<c, d>> => wire'[x][y] = wire[x][y]
  BY <1>1, <1>2, <1>3, <1>4, <1>5
<1>7. ASSUME NEW x \in Clusters, NEW y \in Clusters, NEW j \in DOMAIN wire'[x][y],
             wire'[x][y][j] # << >>
      PROVE  j \in DOMAIN wire[x][y] /\ PartOf(wire'[x][y][j], wire[x][y][j])
  <2>1. j \in DOMAIN wire[x][y] /\ wire'[x][y][j] = wire[x][y][j]
    <3>1. CASE <<x, y>> = <<c, d>>
      BY <1>3, <1>5, <1>6, <1>7, <3>1
    <3>2. CASE <<x, y>> # <<c, d>>
      BY <1>6, <3>2
    <3> QED BY <3>1, <3>2
  <2>2. wire[x][y] \in Seq(Seq(WireCopy))
    BY <1>1
  <2>3. wire[x][y][j] \in Seq(WireCopy)
    BY <2>1, <2>2
  <2> QED BY <2>1, <2>3, Parts
<1>8. Routed(sent, clusterQ, job, wire', Boxes)
  <2>1. Shrunk(wire', wire)
    BY <1>7 DEF Shrunk
  <2> QED BY <1>1, <1>6, <2>1, WireLess
<1>9. TypeInv'
  <2>1. link' \in [Clusters -> [Clusters -> {"up", "down", "dead"}]]
        /\ \A a, b \in Clusters : <<a, b>> # <<c, d>> => link'[a][b] = link[a][b]
    BY <1>1 DEF IInv, TypeInv
  <2>2. ASSUME NEW a \in Clusters, NEW b \in Clusters, link'[a][b] # "down"
        PROVE  wire'[a][b] # << >>
    <3>1. CASE a = c /\ b = d
      BY <1>5, <1>6, <3>1
    <3>2. CASE ~(a = c /\ b = d)
      <4>1. <<a, b>> # <<c, d>>
        BY <3>2
      <4>2. wire'[a][b] = wire[a][b] /\ link[a][b] # "down"
        BY <1>6, <2>1, <2>2, <4>1
      <4> QED BY <4>2 DEF IInv, TypeInv
    <3> QED BY <3>1, <3>2
  <2> QED BY <1>1, <2>1, <2>2 DEF IInv, TypeInv
<1>10. Boxes' = Boxes
  BY <1>1 DEF Boxes
<1> QED BY <1>1, <1>8, <1>9, <1>10 DEF IInv

-----------------------------------------------------------------------------
(* The theorems *)

\* The first state.
LEMMA InitIInv == Init => IInv
<1> SUFFICES ASSUME Init PROVE IInv
  OBVIOUS
<1>1. Boxes = [s \in Servers |-> << >>]
  BY DEF Init, Boxes
<1>2. \A c \in Clusters : clusterQ[c] = << >> /\ job[c] = NoJob
  BY DEF Init
<1>3. \A c, d \in Clusters : wire[c][d] = << >>
  BY DEF Init
<1>4. \A s \in Servers : Boxes[s] = << >>
  BY <1>1
<1>5. PlacesType(sent, clusterQ, job, wire, Boxes)
  BY <1>1 DEF Init, PlacesType, NoJob
<1>6. QueueInv(sent, clusterQ) /\ JobInv(sent, clusterQ, job)
  BY <1>2 DEF QueueInv, QueueOK, JobInv, JobOK
<1>7. WireInv(sent, wire) /\ WirePast(sent, clusterQ, job, wire)
  BY <1>3 DEF WireInv, WirePast
<1>8. BoxInv(sent, Boxes) /\ BoxPast(sent, clusterQ, job, Boxes)
  BY <1>4 DEF BoxInv, BoxPast, BoxOK
<1>9. BehindInv(sent, wire, Boxes)
  BY <1>4 DEF BehindInv, BehindBox
<1>10. TypeInv
  BY RouteAssumption DEF Init, TypeInv
<1> QED BY <1>5, <1>6, <1>7, <1>8, <1>9, <1>10 DEF IInv, Routed

\* Every step.
LEMMA NextIInv == IInv /\ [Next]_vars => IInv'
<1> SUFFICES ASSUME IInv, [Next]_vars PROVE IInv'
  OBVIOUS
<1>1. CASE UNCHANGED vars
  <2>1. Boxes' = Boxes /\ TypeInv'
    BY <1>1 DEF vars, Boxes, IInv, TypeInv
  <2> QED BY <1>1, <2>1 DEF IInv, vars
<1>2. ASSUME NEW s \in Servers, SvrSend(s) PROVE IInv'
  BY <1>2, SvrSendKeeps
<1>3. ASSUME NEW s \in Servers, SvrRecv(s) PROVE IInv'
  BY <1>3, SvrRecvKeeps
<1>4. ASSUME NEW c \in Clusters, SendHeartBeetMessage(c) PROVE IInv'
  BY <1>4, HeartBeatKeeps
<1>5. ASSUME NEW c \in Clusters, TakeMsg(c) PROVE IInv'
  BY <1>5, TakeMsgKeeps
<1>6. ASSUME NEW c \in Clusters, Forward(c) PROVE IInv'
  BY <1>6, GiveUpRoundsKeep, ForwardLocalKeeps, ForwardWriteKeeps DEF Forward
<1>7. ASSUME NEW c \in Clusters, NEW d \in Clusters, LinkBreak(c, d) PROVE IInv'
  BY <1>7, LinkBreakKeeps
<1>8. ASSUME NEW c \in Clusters, NEW d \in Clusters, EpollErr(c, d) PROVE IInv'
  BY <1>8, EpollErrKeeps
<1>9. ASSUME NEW c \in Clusters, NEW d \in Clusters, Reconnect(c, d) PROVE IInv'
  BY <1>9, ReconnectKeeps
<1>10. ASSUME NEW c \in Clusters, NEW d \in Clusters, NEW i \in DOMAIN wire[c][d],
              ProcessPkg(d, c, i)
       PROVE IInv'
  BY <1>10, ProcessPkgKeeps
<1> QED BY <1>1, <1>2, <1>3, <1>4, <1>5, <1>6, <1>7, <1>8, <1>9, <1>10 DEF Next

\* The invariant holds always.
LEMMA IInvAlways == Spec => []IInv
BY InitIInv, NextIInv, PTL DEF Spec

\* What is in a queue or has been taken out of it is in the box.
LEMMA BoxHas ==
    ASSUME IInv, NEW s \in Servers, NEW k \in Range1(svrQ[s]) \cup Range1(got[s])
    PROVE  k \in BoxCopy /\ \E x \in DOMAIN Boxes[s] : Boxes[s][x] = k
<1>1. PICK q \in Seq(BoxCopy) : q = svrQ[s]
  BY DEF IInv, TypeInv
<1>2. PICK g \in Seq(BoxCopy) : g = got[s]
  BY DEF IInv, TypeInv
<1>3. Boxes[s] = g \o q
  BY <1>1, <1>2 DEF Boxes
<1>4. CASE k \in Range1(g)
  <2>1. PICK x \in DOMAIN g : k = g[x]
    BY <1>4 DEF Range1
  <2>2. x \in DOMAIN (g \o q) /\ (g \o q)[x] = k /\ k \in BoxCopy
    BY <2>1
  <2> QED BY <1>3, <2>2
<1>5. CASE k \in Range1(q)
  <2>1. PICK x \in DOMAIN q : k = q[x]
    BY <1>5 DEF Range1
  <2>2. x + Len(g) \in DOMAIN (g \o q) /\ (g \o q)[x + Len(g)] = k /\ k \in BoxCopy
    BY <2>1
  <2> QED BY <1>3, <2>2
<1> QED BY <1>1, <1>2, <1>4, <1>5

\* Type correctness: queues hold numbers of packets that were sent, servers
\* get copies of such packets, and ForwardMsg is left when its list is empty.
THEOREM TypeCorrect == Spec => []TypeOK
<1>1. IInv => TypeOK
  <2> SUFFICES ASSUME IInv PROVE TypeOK
    OBVIOUS
  <2>1. \A c \in Clusters : Range1(clusterQ[c]) \subseteq DOMAIN sent
    BY DEF IInv, Routed, QueueInv, QueueOK, Range1
  <2>2. \A c \in Clusters : Idle(c) \/ (job[c].id \in DOMAIN sent /\ job[c].todo # << >>)
    BY JobIs
  <2>3. ASSUME NEW s \in Servers, NEW k \in Range1(svrQ[s]) \cup Range1(got[s])
        PROVE  k \in Copy
    <3>1. k \in BoxCopy
      BY <2>3, BoxHas
    <3>2. PICK x \in DOMAIN Boxes[s] : Boxes[s][x] = k
      BY <2>3, BoxHas
    <3>3. k.id \in DOMAIN sent
      BY <3>2 DEF IInv, Routed, BoxInv, BoxOK
    <3>4. sent \in Seq(Pkts) /\ Len(sent) <= MaxSend
      BY DEF IInv, TypeInv, Routed, PlacesType
    <3>5. k.id \in 1..MaxSend
      BY <3>3, <3>4, RouteAssumption
    <3> QED BY <3>1, <3>5 DEF Copy, BoxCopy
  <2>4. /\ Len(sent) <= MaxSend /\ breaks \in 0..MaxBreaks
        /\ \A c, d \in Clusters : link[c][d] \in {"up", "down", "dead"}
        /\ \A c, d \in Clusters : link[c][d] # "down" => wire[c][d] # << >>
    BY DEF IInv, TypeInv
  <2> QED BY <2>1, <2>2, <2>3, <2>4 DEF TypeOK
<1> QED BY <1>1, IInvAlways, PTL

\* No server is given what is not addressed to it, and no packet reaches the bus
\* of a third cluster, whatever the groups and however often connections break.
THEOREM RightDestinationAlways == Spec => []RightDestination
<1>1. IInv => RightDestination
  <2> SUFFICES ASSUME IInv PROVE RightDestination
    OBVIOUS
  <2>1. ASSUME NEW s \in Servers, NEW k \in Range1(svrQ[s]) \cup Range1(got[s])
        PROVE  LET p == sent[k.id] IN
               /\ k.dst = s
               /\ p.type \in Unicast => p.dst = s
               /\ p.type \in ToAll \cup RandomOne => s \in Range1(Groups[p.dst])
               /\ p.type \in NoMe => s # p.src
    <3>1. PICK x \in DOMAIN Boxes[s] : Boxes[s][x] = k
      BY <2>1, BoxHas
    <3>2. k.dst = s /\ Meant(sent[k.id], s)
      BY <3>1 DEF IInv, Routed, BoxInv, BoxOK
    <3> QED BY <3>2 DEF Meant
  <2>2. ASSUME NEW c \in Clusters, NEW d \in Clusters, NEW i \in DOMAIN wire[c][d],
               NEW k \in Range1(wire[c][d][i]), sent[k.id].type \notin ToBuses
        PROVE  ClusterOf[k.dst] = d
    <3>1. WireOK(sent, d, wire[c][d][i])
      BY DEF IInv, Routed, WireInv
    <3>2. PICK a \in DOMAIN wire[c][d][i] : k = wire[c][d][i][a]
      BY DEF Range1
    <3> QED BY <2>2, <3>1, <3>2 DEF WireOK, ForServers
  <2> QED BY <2>1, <2>2 DEF RightDestination
<1> QED BY <1>1, IInvAlways, PTL

\* What a server gets over one connection, or from its own bus, is in the order
\* of the cluster queue.
THEOREM FifoAlways == Spec => []FifoPerConnection
<1>1. IInv => FifoPerConnection
  <2> SUFFICES ASSUME IInv PROVE FifoPerConnection
    OBVIOUS
  <2>1. ASSUME NEW s \in Servers
        PROVE  \A i, j \in DOMAIN (got[s] \o svrQ[s]) :
                 i < j /\ (got[s] \o svrQ[s])[i].via = (got[s] \o svrQ[s])[j].via
                   => (got[s] \o svrQ[s])[i].id < (got[s] \o svrQ[s])[j].id
    <3>1. BoxOK(sent, s, Boxes[s])
      BY DEF IInv, Routed, BoxInv
    <3>2. PICK b : b = Boxes[s]
      OBVIOUS
    <3>3. b = got[s] \o svrQ[s]
      BY <3>2 DEF Boxes
    <3>4. \A i, j \in DOMAIN b : i < j /\ b[i].via = b[j].via => b[i].id < b[j].id
      BY <3>1, <3>2 DEF BoxOK
    <3> QED BY <3>3, <3>4
  <2> QED BY <2>1 DEF FifoPerConnection
<1> QED BY <1>1, IInvAlways, PTL

-----------------------------------------------------------------------------
(* Every copy is in one place.  The order of the packets does not matter here, *)
(* but the lists without repetition do (JobOK).                                *)

\* Where a copy of packet id for s can be.
InTodo(jb, id, s) ==
    \E c \in Clusters : jb[c].id = id /\ \E x \in DOMAIN jb[c].todo : jb[c].todo[x] = s
OnWire(wr, id, s) ==
    \E c, d \in Clusters : \E i \in DOMAIN wr[c][d] : \E a \in DOMAIN wr[c][d][i] :
        wr[c][d][i][a].id = id /\ wr[c][d][i][a].dst = s
InBox(bx, id, s) == \E k \in DOMAIN bx[s] : bx[s][k].id = id
IsLost(ls, id, s) == <<id, s>> \in ls

Somewhere(jb, wr, bx, ls, id, s) ==
    InTodo(jb, id, s) \/ OnWire(wr, id, s) \/ InBox(bx, id, s) \/ IsLost(ls, id, s)

\* It is in one of them at most.
Apart(jb, wr, bx, ls, id, s) ==
    /\ InTodo(jb, id, s) => ~OnWire(wr, id, s) /\ ~InBox(bx, id, s) /\ ~IsLost(ls, id, s)
    /\ OnWire(wr, id, s) => ~InBox(bx, id, s) /\ ~IsLost(ls, id, s)
    /\ InBox(bx, id, s) => ~IsLost(ls, id, s)

\* A bus has or had packet id in hand.
Seen(jb, wr, bx, ls, id) ==
    \/ \E c \in Clusters : jb[c].id = id
    \/ \E s \in Dsts : OnWire(wr, id, s)
    \/ \E s \in Servers : InBox(bx, id, s)
    \/ \E s \in Dsts : IsLost(ls, id, s)

\* It waits in the queue of c, in some queue.
Waits(q, c, id) == \E x \in DOMAIN q[c] : q[c][x] = id
Queued(q, id) == \E c \in Clusters : Waits(q, c, id)

\* S is a possible set of servers to have packet p.
Serves(p, S) ==
    /\ p.type \in ToAll => Range1(Members(p)) \subseteq S
    /\ p.type \in RandomOne /\ Members(p) # << >> => \E s \in S : S = {s}
    /\ p.type \in Unicast /\ p.dst \in Servers => p.dst \in S

Holders(jb, wr, bx, ls, id) == {s \in Servers : Somewhere(jb, wr, bx, ls, id, s)}

LostType(sn, ls) == ls \subseteq (DOMAIN sn) \X Dsts

\* A packet is in one queue at most, and in the hand of one bus at most.
QueuesApart(q) ==
    \A c, e \in Clusters : \A id : Waits(q, c, id) /\ Waits(q, e, id) => c = e
JobOnce(sn, jb) ==
    \A c, e \in Clusters : jb[c] # NoJob /\ ForServers(sn, jb[c].id) /\ jb[c].id = jb[e].id => c = e

\* A copy is on one connection, once; and once in a box.
WireOnce(sn, wr) ==
    \A c, d, e, f \in Clusters : \A i \in DOMAIN wr[c][d], j \in DOMAIN wr[e][f] :
      \A a \in DOMAIN wr[c][d][i], b \in DOMAIN wr[e][f][j] :
        wr[c][d][i][a] = wr[e][f][j][b] /\ ForServers(sn, wr[c][d][i][a].id) =>
           c = e /\ d = f /\ i = j /\ a = b
BoxOnce(bx) ==
    \A s \in Servers : \A k, l \in DOMAIN bx[s] : bx[s][k].id = bx[s][l].id => k = l

WaitInv(q, jb, wr, bx, ls) == \A id : Queued(q, id) => ~Seen(jb, wr, bx, ls, id)

ApartInv(sn, jb, wr, bx, ls) ==
    \A id \in DOMAIN sn : \A s \in Servers : ForServers(sn, id) => Apart(jb, wr, bx, ls, id, s)

ServedInv(sn, q, jb, wr, bx, ls) ==
    \A id \in DOMAIN sn :
        ForServers(sn, id) /\ ~Queued(q, id) => Serves(sn[id], Holders(jb, wr, bx, ls, id))

Counted(sn, q, jb, wr, bx, ls) ==
    /\ LostType(sn, ls) /\ QueuesApart(q) /\ JobOnce(sn, jb) /\ WireOnce(sn, wr) /\ BoxOnce(bx)
    /\ WaitInv(q, jb, wr, bx, ls) /\ ApartInv(sn, jb, wr, bx, ls)
    /\ ServedInv(sn, q, jb, wr, bx, ls)

\* Each connection but the current one has broken.
WireLen ==
    \A c, d \in Clusters : Len(wire[c][d]) <= breaks + (IF link[c][d] = "up" THEN 1 ELSE 0)

CInv == Counted(sent, clusterQ, job, wire, Boxes, lost) /\ WireLen

\* Copies move from one place to another, and nothing else changes.
MovedAll(sn, jb, wr, bx, ls, jb2, wr2, bx2, ls2) ==
    \A id \in DOMAIN sn : \A s \in Servers : ForServers(sn, id) =>
        /\ Somewhere(jb2, wr2, bx2, ls2, id, s) <=> Somewhere(jb, wr, bx, ls, id, s)
        /\ Apart(jb2, wr2, bx2, ls2, id, s)
SeenAll(sn, jb, wr, bx, ls, jb2, wr2, bx2, ls2) ==
    \A id \in DOMAIN sn : Seen(jb2, wr2, bx2, ls2, id) => Seen(jb, wr, bx, ls, id)

\* Such a move keeps every copy in one place.
LEMMA Moves ==
    ASSUME NEW sn, NEW q, NEW jb, NEW wr, NEW bx, NEW ls,
           QueueInv(sn, q), Counted(sn, q, jb, wr, bx, ls),
           NEW jb2, NEW wr2, NEW bx2, NEW ls2,
           LostType(sn, ls2), JobOnce(sn, jb2), WireOnce(sn, wr2), BoxOnce(bx2),
           MovedAll(sn, jb, wr, bx, ls, jb2, wr2, bx2, ls2),
           SeenAll(sn, jb, wr, bx, ls, jb2, wr2, bx2, ls2)
    PROVE  Counted(sn, q, jb2, wr2, bx2, ls2)
<1>1. WaitInv(q, jb2, wr2, bx2, ls2)
  <2> SUFFICES ASSUME NEW id, Queued(q, id)
               PROVE  ~Seen(jb2, wr2, bx2, ls2, id)
    BY DEF WaitInv
  <2>1. id \in DOMAIN sn
    BY DEF Queued, Waits, QueueInv, QueueOK
  <2>2. ~Seen(jb, wr, bx, ls, id)
    BY DEF Counted, WaitInv
  <2> QED BY <2>1, <2>2 DEF SeenAll
<1>2. ApartInv(sn, jb2, wr2, bx2, ls2)
  BY DEF MovedAll, ApartInv
<1>3. ServedInv(sn, q, jb2, wr2, bx2, ls2)
  <2> SUFFICES ASSUME NEW id \in DOMAIN sn, ForServers(sn, id), ~Queued(q, id)
               PROVE  Serves(sn[id], Holders(jb2, wr2, bx2, ls2, id))
    BY DEF ServedInv
  <2>1. Serves(sn[id], Holders(jb, wr, bx, ls, id))
    BY DEF Counted, ServedInv
  <2>2. \A s \in Servers : Somewhere(jb2, wr2, bx2, ls2, id, s) <=> Somewhere(jb, wr, bx, ls, id, s)
    BY DEF MovedAll
  <2>3. Holders(jb2, wr2, bx2, ls2, id) = Holders(jb, wr, bx, ls, id)
    BY <2>2 DEF Holders
  <2> QED BY <2>1, <2>3
<1> QED BY <1>1, <1>2, <1>3 DEF Counted

\* D are the destinations of the list todo that are dealt with when t is left.
Done(todo, t, D) ==
    \/ t = Tail(todo) /\ D = {Head(todo)}
    \/ t = << >> /\ D = Range1(todo)

\* What a round of the loop does to the lists.
TodoLess(sn, jb, jb2, id0, D) ==
    /\ \A id \in DOMAIN sn : \A s : ForServers(sn, id) =>
         (InTodo(jb2, id, s) <=> InTodo(jb, id, s) /\ ~(id = id0 /\ s \in D))
    /\ \A s \in D : InTodo(jb, id0, s)
    /\ JobOnce(sn, jb2)
    /\ \A e \in Clusters : \A id \in DOMAIN sn : jb2[e].id = id => jb[e].id = id

\* The round does exactly this.
LEMMA TodoLessIs ==
    ASSUME NEW sn, NEW q, NEW jb, NEW wr, NEW bx, Routed(sn, q, jb, wr, bx), JobOnce(sn, jb),
           NEW c \in Clusters, jb[c] # NoJob,
           NEW t, NEW D, Done(jb[c].todo, t, D),
           NEW jb2, jb2 = [jb EXCEPT ![c] = Left(jb[c].id, t)]
    PROVE  TodoLess(sn, jb, jb2, jb[c].id, D)
<1>1. /\ sn \in Seq(Pkts) /\ jb \in [Clusters -> [id : Nat, todo : Seq(Dsts)]]
      /\ JobOK(sn, q[c], jb[c])
  BY DEF Routed, PlacesType, JobInv
<1>2. PICK id0 \in Nat : id0 = jb[c].id
  BY <1>1
<1>3. PICK todo \in Seq(Dsts) : todo = jb[c].todo
  BY <1>1
<1>4. todo # << >> /\ id0 \in DOMAIN sn /\ (ForServers(sn, id0) => NoDup(todo))
  BY <1>1, <1>2, <1>3 DEF JobOK
<1>5. Head(todo) = todo[1] /\ 1 \in DOMAIN todo /\ Tail(todo) \in Seq(Dsts)
  BY <1>4, TailIs
<1>6. t \in Seq(Dsts)
  <2>1. CASE t = << >>
    BY <2>1
  <2>2. CASE t = Tail(todo)
    BY <1>5, <2>2
  <2> QED BY <1>3, <2>1, <2>2 DEF Done
<1>7. PICK j2 : j2 = Left(id0, t)
  OBVIOUS
<1>8. /\ j2 # NoJob => j2.id = id0 /\ j2.todo = t
      /\ j2 = NoJob => j2.id = 0 /\ j2.todo = << >> /\ t = << >>
  BY <1>6, <1>7 DEF Left, NoJob
<1>9. jb2[c] = j2 /\ \A e \in Clusters : e # c => jb2[e] = jb[e]
  BY <1>1, <1>2, <1>7
<1>10. 0 \notin DOMAIN sn
  BY <1>1
<1>11. \A e \in Clusters : \A id \in DOMAIN sn : jb2[e].id = id => jb[e].id = id
  BY <1>2, <1>8, <1>9, <1>10
<1>12. JobOnce(sn, jb2)
  <2> SUFFICES ASSUME NEW e \in Clusters, NEW f \in Clusters, jb2[e] # NoJob,
                      ForServers(sn, jb2[e].id), jb2[e].id = jb2[f].id
               PROVE  e = f
    BY DEF JobOnce
  <2>1. jb2[e].id = jb[e].id /\ jb[e] # NoJob
    BY <1>2, <1>8, <1>9
  <2>2. jb[e].id \in DOMAIN sn
    BY <2>1 DEF Routed, JobInv, JobOK
  <2>3. jb[f].id = jb[e].id
    BY <1>11, <2>1, <2>2
  <2> QED BY <2>1, <2>3 DEF JobOnce
<1>13. \A s \in D : \E x \in DOMAIN todo : todo[x] = s
  BY <1>3, <1>5 DEF Done, Range1
<1>14. \A s \in D : InTodo(jb, id0, s)
  BY <1>2, <1>3, <1>13 DEF InTodo
<1>15. ASSUME ForServers(sn, id0), NEW s
       PROVE  (\E x \in DOMAIN t : t[x] = s) <=> (\E x \in DOMAIN todo : todo[x] = s) /\ s \notin D
  <2>1. CASE t = << >> /\ D = Range1(todo)
    BY <2>1 DEF Range1
  <2>2. CASE t = Tail(todo) /\ D = {Head(todo)}
    <3>1. \A x \in DOMAIN t : x \in Nat /\ x + 1 \in DOMAIN todo /\ t[x] = todo[x + 1]
      BY <1>4, <2>2, TailIs
    <3>2. \A x \in DOMAIN t : x + 1 # 1
      <4>1. \A x \in DOMAIN t : x \in 1..Len(t)
        BY <1>6
      <4> QED BY <4>1
    <3>3. \A x \in DOMAIN t : t[x] # Head(todo)
      BY <1>4, <1>5, <1>15, <3>1, <3>2 DEF NoDup
    <3>4. \A x \in DOMAIN todo : x # 1 => x - 1 \in DOMAIN t /\ t[x - 1] = todo[x]
      BY <1>4, <2>2
    <3>5. (\E x \in DOMAIN t : t[x] = s) => (\E x \in DOMAIN todo : todo[x] = s) /\ s \notin D
      BY <2>2, <3>1, <3>3
    <3>6. ASSUME NEW x \in DOMAIN todo, todo[x] = s, s \notin D
          PROVE  \E y \in DOMAIN t : t[y] = s
      <4>1. x # 1
        BY <1>5, <2>2, <3>6
      <4> QED BY <3>4, <3>6, <4>1
    <3> QED BY <3>5, <3>6
  <2> QED BY <1>3, <2>1, <2>2 DEF Done
<1>16. ASSUME NEW id \in DOMAIN sn, NEW s, ForServers(sn, id)
       PROVE  InTodo(jb2, id, s) <=> InTodo(jb, id, s) /\ ~(id = id0 /\ s \in D)
  <2>1. CASE id = id0
    <3>1. \A e \in Clusters : jb[e].id = id => e = c
      BY <1>2, <1>16, <2>1 DEF JobOnce
    <3>2. \A e \in Clusters : jb2[e].id = id => e = c
      BY <1>11, <3>1
    <3>3. InTodo(jb, id, s) <=> \E x \in DOMAIN todo : todo[x] = s
      BY <1>2, <1>3, <2>1, <3>1 DEF InTodo
    <3>4. InTodo(jb2, id, s) <=> jb2[c].id = id /\ \E x \in DOMAIN j2.todo : j2.todo[x] = s
      BY <1>9, <3>2 DEF InTodo
    <3>5. InTodo(jb2, id, s) <=> \E x \in DOMAIN t : t[x] = s
      <4>1. CASE j2 = NoJob
        BY <1>8, <3>4, <4>1
      <4>2. CASE j2 # NoJob
        BY <1>8, <1>9, <2>1, <3>4, <4>2
      <4> QED BY <4>1, <4>2
    <3> QED BY <1>15, <1>16, <2>1, <3>3, <3>5
  <2>2. CASE id # id0
    <3>1. jb[c].id # id /\ jb2[c].id # id
      BY <1>2, <1>11, <2>2
    <3> QED BY <1>9, <2>2, <3>1 DEF InTodo
  <2> QED BY <2>1, <2>2
<1> QED BY <1>2, <1>11, <1>12, <1>14, <1>16 DEF TodoLess

\* One copy more in the box of s0.
BoxPlus(bx, bx2, id0, s0) ==
    /\ \A id : \A s \in Servers : InBox(bx2, id, s) <=> InBox(bx, id, s) \/ (id = id0 /\ s = s0)
    /\ BoxOnce(bx) /\ ~InBox(bx, id0, s0) => BoxOnce(bx2)

\* Append does that.
LEMMA BoxMore ==
    ASSUME NEW bx \in [Servers -> Seq(BoxCopy)], NEW s0 \in Servers, NEW k \in BoxCopy,
           NEW bx2, bx2 = [bx EXCEPT ![s0] = Append(@, k)]
    PROVE  BoxPlus(bx, bx2, k.id, s0)
<1>1. PICK b \in Seq(BoxCopy) : b = bx[s0]
  OBVIOUS
<1>2. PICK b2 : b2 = Append(b, k)
  OBVIOUS
<1>3. /\ DOMAIN b2 = DOMAIN b \cup {Len(b) + 1} /\ \A x \in DOMAIN b : b2[x] = b[x]
      /\ b2[Len(b) + 1] = k
  BY <1>2, AppendIs
<1>4. bx2[s0] = b2 /\ \A s \in Servers : s # s0 => bx2[s] = bx[s]
  BY <1>1, <1>2
<1>5. ASSUME NEW id, NEW s \in Servers
      PROVE  InBox(bx2, id, s) <=> InBox(bx, id, s) \/ (id = k.id /\ s = s0)
  <2>1. CASE s # s0
    BY <1>4, <2>1 DEF InBox
  <2>2. CASE s = s0
    BY <1>1, <1>3, <1>4, <2>2 DEF InBox
  <2> QED BY <2>1, <2>2
<1>6. ASSUME BoxOnce(bx), ~InBox(bx, k.id, s0), NEW s \in Servers,
             NEW x \in DOMAIN bx2[s], NEW y \in DOMAIN bx2[s], bx2[s][x].id = bx2[s][y].id
      PROVE  x = y
  <2>1. CASE s # s0
    BY <1>4, <1>6, <2>1 DEF BoxOnce
  <2>2. CASE s = s0
    <3>1. \A z \in DOMAIN b : b[z].id # k.id
      BY <1>1, <1>6 DEF InBox
    <3>2. \A z, v \in DOMAIN b : b[z].id = b[v].id => z = v
      BY <1>1, <1>6 DEF BoxOnce
    <3> QED BY <1>3, <1>4, <1>6, <2>2, <3>1, <3>2
  <2> QED BY <2>1, <2>2
<1>7. BoxOnce(bx) /\ ~InBox(bx, k.id, s0) => BoxOnce(bx2)
  BY <1>6 DEF BoxOnce
<1> QED BY <1>5, <1>7 DEF BoxPlus

\* Place a of the j-th connection from e to f, and what is there.
At(wr, e, f, j, a) ==
    e \in Clusters /\ f \in Clusters /\ j \in DOMAIN wr[e][f] /\ a \in DOMAIN wr[e][f][j]
Val(wr, e, f, j, a) == wr[e][f][j][a]

\* OnWire and WireOnce, place by place.
LEMMA OnWireIs ==
    ASSUME NEW wr, NEW id, NEW s
    PROVE  OnWire(wr, id, s) <=>
             \E e, f, j, a : /\ At(wr, e, f, j, a)
                             /\ Val(wr, e, f, j, a).id = id /\ Val(wr, e, f, j, a).dst = s
BY DEF OnWire, At, Val

\* Two places with the same copy are one.
Same(sn, wr, e, f, j, a, g, h, l, b) ==
    /\ At(wr, e, f, j, a) /\ At(wr, g, h, l, b)
    /\ Val(wr, e, f, j, a) = Val(wr, g, h, l, b) /\ ForServers(sn, Val(wr, e, f, j, a).id)
Once(sn, wr) ==
    \A e, f, j, a, g, h, l, b :
        Same(sn, wr, e, f, j, a, g, h, l, b) => e = g /\ f = h /\ j = l /\ a = b

\* WireOnce says the same of the connections.
LEMMA WireOnceIs ==
    ASSUME NEW sn, NEW wr
    PROVE  WireOnce(sn, wr) <=> Once(sn, wr)
<1>1. ASSUME WireOnce(sn, wr) PROVE Once(sn, wr)
  BY <1>1 DEF WireOnce, Once, Same, At, Val
<1>2. ASSUME Once(sn, wr) PROVE WireOnce(sn, wr)
  <2> SUFFICES ASSUME NEW e \in Clusters, NEW f \in Clusters, NEW g \in Clusters, NEW h \in Clusters,
                      NEW j \in DOMAIN wr[e][f], NEW l \in DOMAIN wr[g][h],
                      NEW a \in DOMAIN wr[e][f][j], NEW b \in DOMAIN wr[g][h][l],
                      wr[e][f][j][a] = wr[g][h][l][b], ForServers(sn, wr[e][f][j][a].id)
               PROVE  e = g /\ f = h /\ j = l /\ a = b
    BY DEF WireOnce
  <2>1. At(wr, e, f, j, a) /\ At(wr, g, h, l, b)
    BY DEF At
  <2>2. Val(wr, e, f, j, a) = Val(wr, g, h, l, b) /\ ForServers(sn, Val(wr, e, f, j, a).id)
    BY DEF Val
  <2> QED BY <1>2, <2>1, <2>2 DEF Once, Same
<1> QED BY <1>1, <1>2

\* Copies on connections are records of two fields.
LEMMA ValType ==
    ASSUME NEW wr \in [Clusters -> [Clusters -> Seq(Seq(WireCopy))]],
           NEW e, NEW f, NEW j, NEW a, At(wr, e, f, j, a)
    PROVE  Val(wr, e, f, j, a) \in WireCopy /\ a \in Nat /\ j \in Nat
<1>1. wr[e][f] \in Seq(Seq(WireCopy)) /\ j \in DOMAIN wr[e][f] /\ a \in DOMAIN wr[e][f][j]
  BY DEF At
<1>2. wr[e][f][j] \in Seq(WireCopy)
  BY <1>1
<1> QED BY <1>1, <1>2 DEF Val

\* The places on a connection that becomes w2.
LEMMA ChangedAt ==
    ASSUME NEW wr, NEW c \in Clusters, NEW d \in Clusters, NEW i \in DOMAIN wr[c][d], NEW w2, NEW wr2,
           Changed(wr, c, d, i, w2, wr2), NEW e, NEW f, NEW j, NEW a
    PROVE  /\ e = c /\ f = d /\ j = i =>
                /\ At(wr2, e, f, j, a) <=> a \in DOMAIN w2
                /\ Val(wr2, e, f, j, a) = w2[a]
                /\ At(wr, e, f, j, a) <=> a \in DOMAIN wr[c][d][i]
                /\ Val(wr, e, f, j, a) = wr[c][d][i][a]
           /\ ~(e = c /\ f = d /\ j = i) =>
                /\ At(wr2, e, f, j, a) <=> At(wr, e, f, j, a)
                /\ At(wr, e, f, j, a) => Val(wr2, e, f, j, a) = Val(wr, e, f, j, a)
<1>1. CASE e = c /\ f = d /\ j = i
  BY <1>1 DEF Changed, At, Val
<1>2. CASE ~(e = c /\ f = d /\ j = i)
  <2>1. <<e, f, j>> # <<c, d, i>>
    BY <1>2
  <2>2. ASSUME e \in Clusters, f \in Clusters
        PROVE  /\ DOMAIN wr2[e][f] = DOMAIN wr[e][f]
               /\ j \in DOMAIN wr[e][f] => wr2[e][f][j] = wr[e][f][j]
    BY <2>1, <2>2 DEF Changed
  <2> QED BY <1>2, <2>2 DEF At, Val
<1> QED BY <1>1, <1>2

\* The copy of id0 for s0 more on the connections.
WirePlus(sn, wr, wr2, id0, s0) ==
    /\ \A id, s : OnWire(wr2, id, s) <=> OnWire(wr, id, s) \/ (id = id0 /\ s = s0)
    /\ WireOnce(sn, wr) /\ (ForServers(sn, id0) => ~OnWire(wr, id0, s0)) => WireOnce(sn, wr2)

\* Append to one of them does that.
LEMMA WireMore ==
    ASSUME NEW sn, NEW wr \in [Clusters -> [Clusters -> Seq(Seq(WireCopy))]],
           NEW c \in Clusters, NEW d \in Clusters, NEW i \in DOMAIN wr[c][d], NEW k \in WireCopy,
           NEW wr2, wr2 = [wr EXCEPT ![c][d][i] = Append(@, k)]
    PROVE  WirePlus(sn, wr, wr2, k.id, k.dst)
<1>1. PICK w \in Seq(WireCopy) : w = wr[c][d][i]
  <2>1. wr[c][d] \in Seq(Seq(WireCopy))
    OBVIOUS
  <2> QED BY <2>1
<1>2. PICK w2 : w2 = Append(w, k)
  OBVIOUS
<1>n. PICK n : n = Len(w) + 1
  OBVIOUS
<1>3. /\ w2 \in Seq(WireCopy)
      /\ DOMAIN w2 = DOMAIN w \cup {n} /\ \A x \in DOMAIN w : w2[x] = w[x]
      /\ w2[n] = k /\ n \notin DOMAIN w
  BY <1>2, <1>n, AppendIs
<1>4. Changed(wr, c, d, i, w2, wr2)
  <2>1. wr2 = [wr EXCEPT ![c][d][i] = w2]
    BY <1>1, <1>2
  <2> QED BY <1>3, <2>1, WireChange
<1>5. ASSUME NEW e, NEW f, NEW j, NEW a, At(wr2, e, f, j, a)
      PROVE  \/ At(wr, e, f, j, a) /\ Val(wr2, e, f, j, a) = Val(wr, e, f, j, a)
             \/ e = c /\ f = d /\ j = i /\ a = n /\ Val(wr2, e, f, j, a) = k
  BY <1>1, <1>3, <1>4, <1>5, ChangedAt
<1>6. ASSUME NEW e, NEW f, NEW j, NEW a, At(wr, e, f, j, a)
      PROVE  At(wr2, e, f, j, a) /\ Val(wr2, e, f, j, a) = Val(wr, e, f, j, a)
  BY <1>1, <1>3, <1>4, <1>6, ChangedAt
<1>7. At(wr2, c, d, i, n) /\ Val(wr2, c, d, i, n) = k
  BY <1>3, <1>4, ChangedAt
<1>8. ASSUME NEW id, NEW s
      PROVE  OnWire(wr2, id, s) <=> OnWire(wr, id, s) \/ (id = k.id /\ s = k.dst)
  <2>1. ASSUME OnWire(wr2, id, s)
        PROVE  OnWire(wr, id, s) \/ (id = k.id /\ s = k.dst)
    <3>1. PICK e, f, j, a : /\ At(wr2, e, f, j, a)
                            /\ Val(wr2, e, f, j, a).id = id /\ Val(wr2, e, f, j, a).dst = s
      BY <2>1, OnWireIs
    <3>2. CASE At(wr, e, f, j, a) /\ Val(wr2, e, f, j, a) = Val(wr, e, f, j, a)
      <4>1. Val(wr, e, f, j, a).id = id /\ Val(wr, e, f, j, a).dst = s
        BY <3>1, <3>2
      <4> QED BY <3>2, <4>1, OnWireIs
    <3>3. CASE Val(wr2, e, f, j, a) = k
      BY <3>1, <3>3
    <3> QED BY <1>5, <3>1, <3>2, <3>3
  <2>2. ASSUME OnWire(wr, id, s)
        PROVE  OnWire(wr2, id, s)
    <3>1. PICK e, f, j, a : /\ At(wr, e, f, j, a)
                            /\ Val(wr, e, f, j, a).id = id /\ Val(wr, e, f, j, a).dst = s
      BY <2>2, OnWireIs
    <3>2. At(wr2, e, f, j, a) /\ Val(wr2, e, f, j, a) = Val(wr, e, f, j, a)
      BY <1>6, <3>1
    <3>3. Val(wr2, e, f, j, a).id = id /\ Val(wr2, e, f, j, a).dst = s
      BY <3>1, <3>2
    <3> QED BY <3>2, <3>3, OnWireIs
  <2>3. OnWire(wr2, k.id, k.dst)
    BY <1>7, OnWireIs
  <2> QED BY <2>1, <2>2, <2>3
<1>9. ASSUME WireOnce(sn, wr), ForServers(sn, k.id) => ~OnWire(wr, k.id, k.dst)
      PROVE  Once(sn, wr2)
  <2>0. Once(sn, wr)
    BY <1>9, WireOnceIs
  <2>1. \A x, y, z, v : ForServers(sn, k.id) /\ At(wr, x, y, z, v) => Val(wr, x, y, z, v) # k
    BY <1>9, OnWireIs
  <2> SUFFICES ASSUME NEW e, NEW f, NEW j, NEW a, NEW g, NEW h, NEW l, NEW b,
                      Same(sn, wr2, e, f, j, a, g, h, l, b)
               PROVE  e = g /\ f = h /\ j = l /\ a = b
    BY DEF Once
  <2> USE DEF Same
  <2>2. CASE Val(wr2, e, f, j, a) = k
    <3>1. e = c /\ f = d /\ j = i /\ a = n
      BY <1>5, <2>1, <2>2
    <3>2. g = c /\ h = d /\ l = i /\ b = n
      BY <1>5, <2>1, <2>2
    <3> QED BY <3>1, <3>2
  <2>3. CASE Val(wr2, e, f, j, a) # k
    <3>1. At(wr, e, f, j, a) /\ Val(wr2, e, f, j, a) = Val(wr, e, f, j, a)
      BY <1>5, <2>3
    <3>2. At(wr, g, h, l, b) /\ Val(wr2, g, h, l, b) = Val(wr, g, h, l, b)
      BY <1>5, <2>3
    <3> QED BY <2>0, <3>1, <3>2 DEF Once, Same
  <2> QED BY <2>2, <2>3
<1>10. WireOnce(sn, wr) /\ (ForServers(sn, k.id) => ~OnWire(wr, k.id, k.dst)) => WireOnce(sn, wr2)
  BY <1>9, WireOnceIs
<1> QED BY <1>8, <1>10 DEF WirePlus

\* w2 is w without the copies at the places G.
Rest(w, w2, m, G) ==
    /\ \A a \in DOMAIN w2 : a \in Int /\ a + m \in DOMAIN w /\ a + m \notin G /\ w2[a] = w[a + m]
    /\ \A b \in DOMAIN w : b \notin G => b - m \in DOMAIN w2 /\ w2[b - m] = w[b]
    /\ G \subseteq DOMAIN w

\* The copies at the places G, and that one for s is among them.
PairsAt(w, G) == {<<w[b].id, w[b].dst>> : b \in G}
Among(w, G, id, s) == \E b \in G : w[b].id = id /\ w[b].dst = s

\* The copies L, and perhaps packets for buses, are taken from the connections.
Taken(sn, wr, wr2, L) ==
    /\ WireOnce(sn, wr2)
    /\ \A id, s : OnWire(wr2, id, s) => OnWire(wr, id, s)
    /\ \A id, s : ForServers(sn, id) => (OnWire(wr2, id, s) <=> OnWire(wr, id, s) /\ <<id, s>> \notin L)
    /\ \A id, s : <<id, s>> \in L => OnWire(wr, id, s)

\* A connection loses copies.
LEMMA WireFewer ==
    ASSUME NEW sn, NEW wr \in [Clusters -> [Clusters -> Seq(Seq(WireCopy))]], WireOnce(sn, wr),
           NEW c \in Clusters, NEW d \in Clusters, NEW i \in DOMAIN wr[c][d],
           NEW w \in Seq(WireCopy), w = wr[c][d][i], NEW w2 \in Seq(WireCopy),
           NEW m \in Nat, NEW G, Rest(w, w2, m, G),
           NEW wr2, wr2 = [wr EXCEPT ![c][d][i] = w2]
    PROVE  Taken(sn, wr, wr2, PairsAt(w, G))
<1>1. Changed(wr, c, d, i, w2, wr2)
  BY WireChange
\* The place in wr of what is at a in wr2[e][f][j].
<1> DEFINE Was(e, f, j, a) == IF e = c /\ f = d /\ j = i THEN a + m ELSE a
<1>2. ASSUME NEW e, NEW f, NEW j, NEW a, At(wr2, e, f, j, a)
      PROVE  /\ At(wr, e, f, j, Was(e, f, j, a))
             /\ Val(wr2, e, f, j, a) = Val(wr, e, f, j, Was(e, f, j, a))
             /\ a \in Int
             /\ e = c /\ f = d /\ j = i => Was(e, f, j, a) \notin G
  <2>1. CASE ~(e = c /\ f = d /\ j = i)
    <3>1. At(wr, e, f, j, a) /\ Val(wr2, e, f, j, a) = Val(wr, e, f, j, a)
      BY <1>1, <1>2, <2>1, ChangedAt
    <3>2. a \in Nat
      BY <3>1, ValType
    <3> QED BY <2>1, <3>1, <3>2
  <2>2. CASE e = c /\ f = d /\ j = i
    <3>1. a \in DOMAIN w2 /\ Val(wr2, e, f, j, a) = w2[a]
      BY <1>1, <1>2, <2>2, ChangedAt
    <3>2. At(wr, e, f, j, a + m) /\ Val(wr, e, f, j, a + m) = w[a + m]
      BY <1>1, <2>2, <3>1, ChangedAt DEF Rest
    <3> QED BY <2>2, <3>1, <3>2 DEF Rest
  <2> QED BY <2>1, <2>2
<1>3. \A e, f, j : \A a, b \in Int : Was(e, f, j, a) = Was(e, f, j, b) => a = b
  OBVIOUS
<1>4. ASSUME NEW e, NEW f, NEW j, NEW b, At(wr, e, f, j, b), ~(e = c /\ f = d /\ j = i /\ b \in G)
      PROVE  \E a : At(wr2, e, f, j, a) /\ Val(wr2, e, f, j, a) = Val(wr, e, f, j, b)
  <2>1. CASE ~(e = c /\ f = d /\ j = i)
    BY <1>1, <1>4, <2>1, ChangedAt
  <2>2. CASE e = c /\ f = d /\ j = i
    <3>1. b \in DOMAIN w /\ b \notin G /\ Val(wr, e, f, j, b) = w[b]
      BY <1>1, <1>4, <2>2, ChangedAt
    <3>2. b - m \in DOMAIN w2 /\ w2[b - m] = w[b]
      BY <3>1 DEF Rest
    <3>3. At(wr2, e, f, j, b - m) /\ Val(wr2, e, f, j, b - m) = w2[b - m]
      BY <1>1, <2>2, <3>2, ChangedAt
    <3> QED BY <3>1, <3>2, <3>3
  <2> QED BY <2>1, <2>2
<1> HIDE DEF Was
<1>5. Once(sn, wr)
  BY WireOnceIs
<1>6. Once(sn, wr2)
  <2> SUFFICES ASSUME NEW e, NEW f, NEW j, NEW a, NEW g, NEW h, NEW l, NEW b,
                      Same(sn, wr2, e, f, j, a, g, h, l, b)
               PROVE  e = g /\ f = h /\ j = l /\ a = b
    BY DEF Once
  <2> USE DEF Same
  <2>0. PICK v, y : v = Was(e, f, j, a) /\ y = Was(g, h, l, b)
    OBVIOUS
  <2>a. At(wr, e, f, j, v) /\ Val(wr2, e, f, j, a) = Val(wr, e, f, j, v)
    BY <1>2, <2>0, ZenonT(60)
  <2>b. At(wr, g, h, l, y) /\ Val(wr2, g, h, l, b) = Val(wr, g, h, l, y)
    BY <1>2, <2>0, ZenonT(60)
  <2>c. Val(wr, e, f, j, v) = Val(wr, g, h, l, y) /\ ForServers(sn, Val(wr, e, f, j, v).id)
    BY <2>a, <2>b
  <2>d. e = g /\ f = h /\ j = l /\ v = y
    BY <1>5, <2>a, <2>b, <2>c DEF Once, Same
  <2>1. e = g /\ f = h /\ j = l /\ Was(e, f, j, a) = Was(g, h, l, b)
    BY <2>0, <2>d
  <2>2. Was(e, f, j, a) = Was(e, f, j, b) /\ a \in Int /\ b \in Int
    BY <1>2, <2>1
  <2> QED BY <1>3, <2>1, <2>2
<1>7. ASSUME NEW id, NEW s, OnWire(wr2, id, s) PROVE OnWire(wr, id, s)
  <2>1. PICK e, f, j, a : /\ At(wr2, e, f, j, a)
                          /\ Val(wr2, e, f, j, a).id = id /\ Val(wr2, e, f, j, a).dst = s
    BY <1>7, OnWireIs
  <2>2. PICK v : v = Was(e, f, j, a)
    OBVIOUS
  <2>3. At(wr, e, f, j, v) /\ Val(wr2, e, f, j, a) = Val(wr, e, f, j, v)
    BY <1>2, <2>1, <2>2
  <2>4. Val(wr, e, f, j, v).id = id /\ Val(wr, e, f, j, v).dst = s
    BY <2>1, <2>3
  <2> QED BY <2>3, <2>4, OnWireIs
<1>8. \A b \in G : At(wr, c, d, i, b) /\ Val(wr, c, d, i, b) = w[b]
  BY <1>1, ChangedAt DEF Rest
<1>9. \A id, s : Among(w, G, id, s) => OnWire(wr, id, s)
  BY <1>8, OnWireIs DEF Among
<1>10. ASSUME NEW id, NEW s, ForServers(sn, id), OnWire(wr2, id, s), Among(w, G, id, s)
      PROVE  FALSE
  <2>1. PICK e, f, j, a : /\ At(wr2, e, f, j, a)
                          /\ Val(wr2, e, f, j, a).id = id /\ Val(wr2, e, f, j, a).dst = s
    BY <1>10, OnWireIs
  <2>2. PICK b \in G : w[b].id = id /\ w[b].dst = s
    BY <1>10 DEF Among
  <2>3. PICK v : v = Was(e, f, j, a)
    OBVIOUS
  <2>4. /\ At(wr, e, f, j, v) /\ Val(wr2, e, f, j, a) = Val(wr, e, f, j, v)
        /\ e = c /\ f = d /\ j = i => v \notin G
    BY <1>2, <2>1, <2>3
  <2>5. Val(wr, e, f, j, v) \in WireCopy /\ Val(wr, c, d, i, b) \in WireCopy
    BY <1>8, <2>4, ValType
  <2>f. /\ Val(wr, e, f, j, v).id = Val(wr, c, d, i, b).id
        /\ Val(wr, e, f, j, v).dst = Val(wr, c, d, i, b).dst
    BY <1>8, <2>1, <2>2, <2>4
  <2>6. Val(wr, e, f, j, v) = Val(wr, c, d, i, b)
    <3>1. PICK x \in WireCopy, y \in WireCopy : x = Val(wr, e, f, j, v) /\ y = Val(wr, c, d, i, b)
      BY <2>5
    <3>2. x.id = y.id /\ x.dst = y.dst
      BY <2>f, <3>1
    <3>3. x = [id |-> x.id, dst |-> x.dst] /\ y = [id |-> y.id, dst |-> y.dst]
      BY DEF WireCopy
    <3>4. x = y
      BY <3>2, <3>3
    <3> QED BY <3>1, <3>4
  <2>7. e = c /\ f = d /\ j = i /\ v = b
    BY <1>5, <1>8, <1>10, <2>1, <2>4, <2>6 DEF Once, Same
  <2> QED BY <2>4, <2>7
<1>11. ASSUME NEW id, NEW s, OnWire(wr, id, s), ~Among(w, G, id, s)
      PROVE  OnWire(wr2, id, s)
  <2>1. PICK e, f, j, a : /\ At(wr, e, f, j, a)
                          /\ Val(wr, e, f, j, a).id = id /\ Val(wr, e, f, j, a).dst = s
    BY <1>11, OnWireIs
  <2>2. ~(e = c /\ f = d /\ j = i /\ a \in G)
    BY <1>8, <1>11, <2>1 DEF Among
  <2>3. PICK b : At(wr2, e, f, j, b) /\ Val(wr2, e, f, j, b) = Val(wr, e, f, j, a)
    BY <1>4, <2>1, <2>2
  <2> QED BY <2>1, <2>3, OnWireIs
<1>12. \A id, s : ForServers(sn, id) =>
         (OnWire(wr2, id, s) <=> OnWire(wr, id, s) /\ ~Among(w, G, id, s))
  BY <1>7, <1>10, <1>11
<1>13. WireOnce(sn, wr2)
  BY <1>6, WireOnceIs
<1>14. PICK L : L = PairsAt(w, G)
  OBVIOUS
<1>15. \A id, s : <<id, s>> \in L <=> Among(w, G, id, s)
  BY <1>14 DEF Among, PairsAt
<1>16. Taken(sn, wr, wr2, L)
  BY <1>7, <1>9, <1>12, <1>13, <1>15 DEF Taken
<1> QED BY <1>14, <1>16


\* What leaves a list is given up.
LEMMA TodoLost ==
    ASSUME NEW sn, NEW q, NEW jb, NEW wr, NEW bx, NEW ls,
           Routed(sn, q, jb, wr, bx), Counted(sn, q, jb, wr, bx, ls),
           NEW id0 \in DOMAIN sn, NEW D, D \subseteq Dsts,
           NEW jb2, TodoLess(sn, jb, jb2, id0, D),
           NEW ls2, ls2 = ls \cup {<<id0, s>> : s \in D}
    PROVE  Counted(sn, q, jb2, wr, bx, ls2)
<1>1. \A id, s : IsLost(ls2, id, s) <=> IsLost(ls, id, s) \/ (id = id0 /\ s \in D)
  BY DEF IsLost
<1>2. LostType(sn, ls2)
  BY DEF Counted, LostType
<1>3. MovedAll(sn, jb, wr, bx, ls, jb2, wr, bx, ls2)
  <2> SUFFICES ASSUME NEW id \in DOMAIN sn, NEW s \in Servers, ForServers(sn, id)
               PROVE  /\ Somewhere(jb2, wr, bx, ls2, id, s) <=> Somewhere(jb, wr, bx, ls, id, s)
                      /\ Apart(jb2, wr, bx, ls2, id, s)
    BY DEF MovedAll
  <2>1. Apart(jb, wr, bx, ls, id, s)
    BY DEF Counted, ApartInv
  <2>2. InTodo(jb2, id, s) <=> InTodo(jb, id, s) /\ ~(id = id0 /\ s \in D)
    BY DEF TodoLess
  <2>3. id = id0 /\ s \in D => InTodo(jb, id, s)
    BY DEF TodoLess
  <2> QED BY <1>1, <2>1, <2>2, <2>3 DEF Somewhere, Apart
<1>4. SeenAll(sn, jb, wr, bx, ls, jb2, wr, bx, ls2)
  <2> SUFFICES ASSUME NEW id \in DOMAIN sn, Seen(jb2, wr, bx, ls2, id)
               PROVE  Seen(jb, wr, bx, ls, id)
    BY DEF SeenAll
  <2>1. \A e \in Clusters : jb2[e].id = id => jb[e].id = id
    BY DEF TodoLess
  <2>2. \A s \in D : \E e \in Clusters : jb[e].id = id0
    BY DEF TodoLess, InTodo
  <2> QED BY <1>1, <2>1, <2>2 DEF Seen
<1>5. QueueInv(sn, q) /\ JobOnce(sn, jb2) /\ WireOnce(sn, wr) /\ BoxOnce(bx)
  BY DEF Routed, TodoLess, Counted
<1> QED BY <1>2, <1>3, <1>4, <1>5, Moves

\* It goes to a server of this cluster.
LEMMA TodoBox ==
    ASSUME NEW sn, NEW q, NEW jb, NEW wr, NEW bx, NEW ls,
           Routed(sn, q, jb, wr, bx), Counted(sn, q, jb, wr, bx, ls),
           NEW id0 \in DOMAIN sn, ForServers(sn, id0), NEW s0 \in Servers,
           NEW jb2, TodoLess(sn, jb, jb2, id0, {s0}),
           NEW k \in BoxCopy, k.id = id0, NEW bx2, bx2 = [bx EXCEPT ![s0] = Append(@, k)]
    PROVE  Counted(sn, q, jb2, wr, bx2, ls)
<1>1. bx \in [Servers -> Seq(BoxCopy)]
  BY DEF Routed, PlacesType
<1>2. InTodo(jb, id0, s0)
  BY DEF TodoLess
<1>3. ~InBox(bx, id0, s0)
  <2>1. Apart(jb, wr, bx, ls, id0, s0)
    BY DEF Counted, ApartInv
  <2> QED BY <1>2, <2>1 DEF Apart
<1>4. /\ \A id : \A s \in Servers : InBox(bx2, id, s) <=> InBox(bx, id, s) \/ (id = id0 /\ s = s0)
      /\ BoxOnce(bx2)
  <2>1. BoxPlus(bx, bx2, k.id, s0)
    BY <1>1, BoxMore
  <2> QED BY <1>3, <2>1 DEF BoxPlus, Counted
<1>5. MovedAll(sn, jb, wr, bx, ls, jb2, wr, bx2, ls)
  <2> SUFFICES ASSUME NEW id \in DOMAIN sn, NEW s \in Servers, ForServers(sn, id)
               PROVE  /\ Somewhere(jb2, wr, bx2, ls, id, s) <=> Somewhere(jb, wr, bx, ls, id, s)
                      /\ Apart(jb2, wr, bx2, ls, id, s)
    BY DEF MovedAll
  <2>1. Apart(jb, wr, bx, ls, id, s)
    BY DEF Counted, ApartInv
  <2>2. InTodo(jb2, id, s) <=> InTodo(jb, id, s) /\ ~(id = id0 /\ s = s0)
    BY DEF TodoLess
  <2>3. InBox(bx2, id, s) <=> InBox(bx, id, s) \/ (id = id0 /\ s = s0)
    BY <1>4
  <2> QED BY <1>2, <2>1, <2>2, <2>3 DEF Somewhere, Apart
<1>6. SeenAll(sn, jb, wr, bx, ls, jb2, wr, bx2, ls)
  <2> SUFFICES ASSUME NEW id \in DOMAIN sn, Seen(jb2, wr, bx2, ls, id)
               PROVE  Seen(jb, wr, bx, ls, id)
    BY DEF SeenAll
  <2>1. \A e \in Clusters : jb2[e].id = id => jb[e].id = id
    BY DEF TodoLess
  <2>2. \E e \in Clusters : jb[e].id = id0
    BY <1>2 DEF InTodo
  <2> QED BY <1>4, <2>1, <2>2 DEF Seen
<1>7. QueueInv(sn, q) /\ JobOnce(sn, jb2) /\ WireOnce(sn, wr) /\ LostType(sn, ls)
  BY DEF Routed, TodoLess, Counted
<1> QED BY <1>4, <1>5, <1>6, <1>7, Moves

\* It goes to a connection.
LEMMA TodoWire ==
    ASSUME NEW sn, NEW q, NEW jb, NEW wr, NEW bx, NEW ls,
           Routed(sn, q, jb, wr, bx), Counted(sn, q, jb, wr, bx, ls),
           NEW k \in WireCopy, k.id \in DOMAIN sn, ForServers(sn, k.id) => k.dst \in Servers,
           NEW jb2, TodoLess(sn, jb, jb2, k.id, {k.dst}),
           NEW c \in Clusters, NEW d \in Clusters, NEW i \in DOMAIN wr[c][d],
           NEW wr2, wr2 = [wr EXCEPT ![c][d][i] = Append(@, k)]
    PROVE  Counted(sn, q, jb2, wr2, bx, ls)
<1>1. wr \in [Clusters -> [Clusters -> Seq(Seq(WireCopy))]]
  BY DEF Routed, PlacesType
<1>2. InTodo(jb, k.id, k.dst)
  BY DEF TodoLess
<1>3. ForServers(sn, k.id) => ~OnWire(wr, k.id, k.dst)
  <2>1. ForServers(sn, k.id) => Apart(jb, wr, bx, ls, k.id, k.dst)
    BY DEF Counted, ApartInv
  <2> QED BY <1>2, <2>1 DEF Apart
<1>4. /\ \A id, s : OnWire(wr2, id, s) <=> OnWire(wr, id, s) \/ (id = k.id /\ s = k.dst)
      /\ WireOnce(sn, wr2)
  <2>1. WirePlus(sn, wr, wr2, k.id, k.dst)
    BY <1>1, WireMore
  <2> QED BY <1>3, <2>1 DEF WirePlus, Counted
<1>5. MovedAll(sn, jb, wr, bx, ls, jb2, wr2, bx, ls)
  <2> SUFFICES ASSUME NEW id \in DOMAIN sn, NEW s \in Servers, ForServers(sn, id)
               PROVE  /\ Somewhere(jb2, wr2, bx, ls, id, s) <=> Somewhere(jb, wr, bx, ls, id, s)
                      /\ Apart(jb2, wr2, bx, ls, id, s)
    BY DEF MovedAll
  <2>1. Apart(jb, wr, bx, ls, id, s)
    BY DEF Counted, ApartInv
  <2>2. InTodo(jb2, id, s) <=> InTodo(jb, id, s) /\ ~(id = k.id /\ s = k.dst)
    BY DEF TodoLess
  <2>3. OnWire(wr2, id, s) <=> OnWire(wr, id, s) \/ (id = k.id /\ s = k.dst)
    BY <1>4
  <2> QED BY <1>2, <2>1, <2>2, <2>3 DEF Somewhere, Apart
<1>6. SeenAll(sn, jb, wr, bx, ls, jb2, wr2, bx, ls)
  <2> SUFFICES ASSUME NEW id \in DOMAIN sn, Seen(jb2, wr2, bx, ls, id)
               PROVE  Seen(jb, wr, bx, ls, id)
    BY DEF SeenAll
  <2>1. \A e \in Clusters : jb2[e].id = id => jb[e].id = id
    BY DEF TodoLess
  <2>2. \E e \in Clusters : jb[e].id = k.id
    BY <1>2 DEF InTodo
  <2> QED BY <1>4, <2>1, <2>2 DEF Seen
<1>7. QueueInv(sn, q) /\ JobOnce(sn, jb2) /\ BoxOnce(bx) /\ LostType(sn, ls)
  BY DEF Routed, TodoLess, Counted
<1> QED BY <1>4, <1>5, <1>6, <1>7, Moves

\* What is taken from a connection is delivered, or is a packet for a bus.
LEMMA WireBox ==
    ASSUME NEW sn, NEW q, NEW jb, NEW wr, NEW bx, NEW ls,
           Routed(sn, q, jb, wr, bx), Counted(sn, q, jb, wr, bx, ls),
           NEW id0 \in DOMAIN sn, ForServers(sn, id0), NEW s0 \in Servers,
           NEW wr2, Taken(sn, wr, wr2, {<<id0, s0>>}),
           NEW k \in BoxCopy, k.id = id0, NEW bx2, bx2 = [bx EXCEPT ![s0] = Append(@, k)]
    PROVE  Counted(sn, q, jb, wr2, bx2, ls)
<1>1. bx \in [Servers -> Seq(BoxCopy)]
  BY DEF Routed, PlacesType
<1>2. OnWire(wr, id0, s0)
  BY DEF Taken
<1>3. ~InBox(bx, id0, s0)
  <2>1. Apart(jb, wr, bx, ls, id0, s0)
    BY DEF Counted, ApartInv
  <2> QED BY <1>2, <2>1 DEF Apart
<1>4. /\ \A id : \A s \in Servers : InBox(bx2, id, s) <=> InBox(bx, id, s) \/ (id = id0 /\ s = s0)
      /\ BoxOnce(bx2)
  <2>1. BoxPlus(bx, bx2, k.id, s0)
    BY <1>1, BoxMore
  <2> QED BY <1>3, <2>1 DEF BoxPlus, Counted
<1>5. MovedAll(sn, jb, wr, bx, ls, jb, wr2, bx2, ls)
  <2> SUFFICES ASSUME NEW id \in DOMAIN sn, NEW s \in Servers, ForServers(sn, id)
               PROVE  /\ Somewhere(jb, wr2, bx2, ls, id, s) <=> Somewhere(jb, wr, bx, ls, id, s)
                      /\ Apart(jb, wr2, bx2, ls, id, s)
    BY DEF MovedAll
  <2>1. Apart(jb, wr, bx, ls, id, s)
    BY DEF Counted, ApartInv
  <2>2. OnWire(wr2, id, s) <=> OnWire(wr, id, s) /\ ~(id = id0 /\ s = s0)
    BY DEF Taken
  <2>3. InBox(bx2, id, s) <=> InBox(bx, id, s) \/ (id = id0 /\ s = s0)
    BY <1>4
  <2> QED BY <1>2, <2>1, <2>2, <2>3 DEF Somewhere, Apart
<1>6. SeenAll(sn, jb, wr, bx, ls, jb, wr2, bx2, ls)
  <2> SUFFICES ASSUME NEW id \in DOMAIN sn, Seen(jb, wr2, bx2, ls, id)
               PROVE  Seen(jb, wr, bx, ls, id)
    BY DEF SeenAll
  <2>1. \A s : OnWire(wr2, id, s) => OnWire(wr, id, s)
    BY DEF Taken
  <2>2. s0 \in Dsts
    BY DEF Dsts
  <2> QED BY <1>2, <1>4, <2>1, <2>2 DEF Seen
<1>7. QueueInv(sn, q) /\ JobOnce(sn, jb) /\ WireOnce(sn, wr2) /\ LostType(sn, ls)
  BY DEF Routed, Taken, Counted
<1> QED BY <1>4, <1>5, <1>6, <1>7, Moves

\* What is taken from a connection is lost.
LEMMA WireLost ==
    ASSUME NEW sn, NEW q, NEW jb, NEW wr, NEW bx, NEW ls,
           Routed(sn, q, jb, wr, bx), Counted(sn, q, jb, wr, bx, ls),
           NEW L, L \subseteq (DOMAIN sn) \X Dsts, NEW wr2, Taken(sn, wr, wr2, L),
           NEW ls2, ls2 = ls \cup L
    PROVE  Counted(sn, q, jb, wr2, bx, ls2)
<1>1. \A id, s : IsLost(ls2, id, s) <=> IsLost(ls, id, s) \/ <<id, s>> \in L
  BY DEF IsLost
<1>2. LostType(sn, ls2)
  BY DEF Counted, LostType
<1>3. MovedAll(sn, jb, wr, bx, ls, jb, wr2, bx, ls2)
  <2> SUFFICES ASSUME NEW id \in DOMAIN sn, NEW s \in Servers, ForServers(sn, id)
               PROVE  /\ Somewhere(jb, wr2, bx, ls2, id, s) <=> Somewhere(jb, wr, bx, ls, id, s)
                      /\ Apart(jb, wr2, bx, ls2, id, s)
    BY DEF MovedAll
  <2>1. Apart(jb, wr, bx, ls, id, s)
    BY DEF Counted, ApartInv
  <2>2. OnWire(wr2, id, s) <=> OnWire(wr, id, s) /\ <<id, s>> \notin L
    BY DEF Taken
  <2>3. <<id, s>> \in L => OnWire(wr, id, s)
    BY DEF Taken
  <2> QED BY <1>1, <2>1, <2>2, <2>3 DEF Somewhere, Apart
<1>4. SeenAll(sn, jb, wr, bx, ls, jb, wr2, bx, ls2)
  <2> SUFFICES ASSUME NEW id \in DOMAIN sn, Seen(jb, wr2, bx, ls2, id)
               PROVE  Seen(jb, wr, bx, ls, id)
    BY DEF SeenAll
  <2>1. \A s : OnWire(wr2, id, s) => OnWire(wr, id, s)
    BY DEF Taken
  <2>2. \A s : <<id, s>> \in L => OnWire(wr, id, s)
    BY DEF Taken
  <2> QED BY <1>1, <2>1, <2>2 DEF Seen
<1>5. QueueInv(sn, q) /\ JobOnce(sn, jb) /\ WireOnce(sn, wr2) /\ BoxOnce(bx)
  BY DEF Routed, Taken, Counted
<1> QED BY <1>2, <1>3, <1>4, <1>5, Moves

\* Nothing but packets for buses is taken from a connection.
LEMMA WireSame ==
    ASSUME NEW sn, NEW q, NEW jb, NEW wr, NEW bx, NEW ls,
           Routed(sn, q, jb, wr, bx), Counted(sn, q, jb, wr, bx, ls),
           NEW wr2, Taken(sn, wr, wr2, {})
    PROVE  Counted(sn, q, jb, wr2, bx, ls)
<1>1. ls = ls \cup {} /\ {} \subseteq (DOMAIN sn) \X Dsts
  OBVIOUS
<1> QED BY <1>1, WireLost

-----------------------------------------------------------------------------
(* The same for the steps of the buses *)

AllCounted == Counted(sent, clusterQ, job, wire, Boxes, lost)

\* What Done says, of lists of destinations.
LEMMA DoneIs ==
    ASSUME NEW todo \in Seq(Dsts), todo # << >>, NEW t, NEW D, Done(todo, t, D)
    PROVE  D \subseteq Dsts
<1>1. Head(todo) \in Dsts
  BY TailIs
<1> QED BY <1>1 DEF Done, Range1

\* A round in which copies are given up.
LEMMA RoundLoses ==
    ASSUME IInv, AllCounted, NEW c \in Clusters, ~Idle(c),
           NEW t, NEW D, Done(job[c].todo, t, D), Work(c, job[c].id, t),
           lost' = lost \cup {<<job[c].id, s>> : s \in D},
           UNCHANGED <<sent, clusterQ, svrQ, got, wire>>
    PROVE  AllCounted'
<1>1. /\ Routed(sent, clusterQ, job, wire, Boxes) /\ JobOnce(sent, job) /\ job[c] # NoJob
      /\ job[c].id \in DOMAIN sent /\ job[c].todo \in Seq(Dsts) /\ job[c].todo # << >>
  BY JobIs DEF IInv, AllCounted, Counted
<1>2. job' = [job EXCEPT ![c] = Left(job[c].id, t)]
  BY DEF Work, Left
<1>3. TodoLess(sent, job, job', job[c].id, D)
  BY <1>1, <1>2, TodoLessIs
<1>4. D \subseteq Dsts
  BY <1>1, DoneIs
<1>5. PICK id0 \in DOMAIN sent : id0 = job[c].id
  BY <1>1
<1>6. Counted(sent, clusterQ, job', wire, Boxes, lost')
  <2>1. TodoLess(sent, job, job', id0, D) /\ lost' = lost \cup {<<id0, s>> : s \in D}
    BY <1>3, <1>5
  <2> QED BY <1>1, <1>4, <2>1, TodoLost DEF AllCounted
<1>7. Boxes' = Boxes
  BY DEF Boxes
<1> QED BY <1>6, <1>7 DEF AllCounted

\* The rounds that give copies up.
LEMMA GiveUpRoundsCount ==
    ASSUME IInv, AllCounted, NEW c \in Clusters,
           \/ ForwardUnknown(c) \/ ForwardNoLink(c) \/ ForwardFails(c) \/ ForwardSwallowed(c)
    PROVE  AllCounted'
<1>1. /\ ~Idle(c) /\ UNCHANGED <<sent, clusterQ, svrQ, got, wire>>
      /\ \/ GiveUp(job[c].id, job[c].todo) /\ Work(c, job[c].id, << >>)
         \/ GiveUp(job[c].id, <<Head(job[c].todo)>>) /\ Work(c, job[c].id, Tail(job[c].todo))
  BY DEF ForwardUnknown, ForwardNoLink, ForwardFails, ForwardSwallowed, Remote
<1>2. CASE GiveUp(job[c].id, job[c].todo) /\ Work(c, job[c].id, << >>)
  <2>1. PICK D : D = Range1(job[c].todo)
    OBVIOUS
  <2>2. PICK t : t = << >>
    OBVIOUS
  <2>3. /\ Done(job[c].todo, t, D) /\ Work(c, job[c].id, t)
        /\ lost' = lost \cup {<<job[c].id, s>> : s \in D}
    BY <1>2, <2>1, <2>2 DEF Done, GiveUp
  <2> QED BY <1>1, <2>3, RoundLoses
<1>3. CASE GiveUp(job[c].id, <<Head(job[c].todo)>>) /\ Work(c, job[c].id, Tail(job[c].todo))
  <2>1. PICK D : D = {Head(job[c].todo)}
    OBVIOUS
  <2>2. PICK t : t = Tail(job[c].todo)
    OBVIOUS
  <2>3. Range1(<<Head(job[c].todo)>>) = D
    BY <2>1 DEF Range1
  <2>4. /\ Done(job[c].todo, t, D) /\ Work(c, job[c].id, t)
        /\ lost' = lost \cup {<<job[c].id, s>> : s \in D}
    BY <1>3, <2>1, <2>2, <2>3 DEF Done, GiveUp
  <2> QED BY <1>1, <2>4, RoundLoses
<1> QED BY <1>1, <1>2, <1>3

\* A copy for a server of this cluster.
LEMMA ForwardLocalCounts ==
    ASSUME IInv, AllCounted, NEW c \in Clusters, ForwardLocal(c)
    PROVE  AllCounted'
<1>1. /\ ~Idle(c) /\ job[c] # NoJob /\ Routed(sent, clusterQ, job, wire, Boxes)
      /\ svrQ \in [Servers -> Seq(BoxCopy)] /\ got \in [Servers -> Seq(BoxCopy)]
      /\ UNCHANGED <<sent, clusterQ, got, link, wire, breaks>>
      /\ JobOnce(sent, job)
  BY DEF ForwardLocal, Idle, IInv, TypeInv, AllCounted, Counted
<1>2. PICK id \in Nat : id = job[c].id
  BY <1>1, JobIs
<1>3. PICK todo \in Seq(Dsts) : todo = job[c].todo
  BY <1>1, JobIs
<1>4. PICK s \in Servers : s = Head(todo) /\ ClusterOf[s] = c
  BY <1>3 DEF ForwardLocal
<1>5. id \in DOMAIN sent /\ ForServers(sent, id)
  BY <1>1, <1>2, JobIs DEF ForwardLocal, ForServers
<1>6. CASE Len(svrQ[s]) < QueueCap
  <2>1. PICK k : k = [id |-> id, dst |-> s, via |-> <<c, 0>>]
    OBVIOUS
  <2>2. k \in BoxCopy /\ k.id = id
    BY <2>1 DEF BoxCopy
  <2>3. InQueue(s, k) /\ Work(c, id, Tail(todo)) /\ lost' = lost
    BY <1>2, <1>3, <1>4, <1>6, <2>1 DEF ForwardLocal
  <2>4. job' = [job EXCEPT ![c] = Left(job[c].id, Tail(todo))]
    BY <1>2, <2>3 DEF Work, Left
  <2>5. TodoLess(sent, job, job', id, {s})
    <3>1. Done(job[c].todo, Tail(todo), {s})
      BY <1>3, <1>4 DEF Done
    <3> QED BY <1>1, <1>2, <2>4, <3>1, TodoLessIs
  <2>6. Boxes' = [Boxes EXCEPT ![s] = Append(@, k)]
    BY <1>1, <2>2, <2>3, InQueueIs
  <2>7. Counted(sent, clusterQ, job', wire, Boxes', lost)
    BY <1>1, <1>5, <2>2, <2>5, <2>6, TodoBox DEF AllCounted
  <2> QED BY <1>1, <2>3, <2>7 DEF AllCounted
<1>7. CASE ~(Len(svrQ[s]) < QueueCap)
  <2>1. GiveUp(job[c].id, job[c].todo) /\ Work(c, job[c].id, << >>) /\ svrQ' = svrQ
    BY <1>3, <1>4, <1>7 DEF ForwardLocal
  <2>2. PICK D : D = Range1(job[c].todo)
    OBVIOUS
  <2>3. PICK t : t = << >>
    OBVIOUS
  <2>4. /\ Done(job[c].todo, t, D) /\ Work(c, job[c].id, t)
        /\ lost' = lost \cup {<<job[c].id, x>> : x \in D}
    BY <2>1, <2>2, <2>3 DEF Done, GiveUp
  <2> QED BY <1>1, <2>1, <2>4, RoundLoses
<1> QED BY <1>6, <1>7

\* A copy for another cluster.
LEMMA ForwardWriteCounts ==
    ASSUME IInv, AllCounted, NEW c \in Clusters, ForwardWrite(c)
    PROVE  AllCounted'
<1>1. /\ ~Idle(c) /\ job[c] # NoJob /\ Routed(sent, clusterQ, job, wire, Boxes) /\ Remote(c)
      /\ UNCHANGED <<sent, clusterQ, svrQ, got, link, breaks, lost>>
      /\ JobOnce(sent, job)
  BY DEF ForwardWrite, Remote, Idle, IInv, TypeInv, AllCounted, Counted
<1>2. PICK id \in Nat : id = job[c].id
  BY <1>1, JobIs
<1>3. PICK todo \in Seq(Dsts) : todo = job[c].todo
  BY <1>1, JobIs
<1>4. PICK h \in Dsts : h = Head(todo)
  BY <1>1, <1>3, JobIs
<1>5. PICK d \in Clusters : d = Via(sent[id], h)
  BY <1>1, <1>2, <1>3, <1>4, ViaIs
<1>6. id \in DOMAIN sent /\ (ForServers(sent, id) => h \in Servers)
  BY <1>1, <1>2, <1>3, <1>4, JobIs, ViaIs
<1>7. /\ link[c][d] = "up"
      /\ wire' = [wire EXCEPT ![c][d][LastOf(c, d)] = Append(@, [id |-> id, dst |-> h])]
      /\ Work(c, id, Tail(todo))
  BY <1>2, <1>3, <1>4, <1>5 DEF ForwardWrite
<1>8. PICK i : i = LastOf(c, d)
  OBVIOUS
<1>9. i \in DOMAIN wire[c][d]
  <2>1. wire[c][d] \in Seq(Seq(WireCopy)) /\ wire[c][d] # << >>
    BY <1>1, <1>7 DEF IInv, TypeInv, Routed, PlacesType
  <2> QED BY <1>8, <2>1 DEF LastOf
<1>10. PICK k : k = [id |-> id, dst |-> h]
  OBVIOUS
<1>11. /\ k \in WireCopy /\ k.id = id /\ k.dst = h
       /\ wire' = [wire EXCEPT ![c][d][i] = Append(@, k)]
  BY <1>7, <1>8, <1>10 DEF WireCopy
<1>12. job' = [job EXCEPT ![c] = Left(job[c].id, Tail(todo))]
  BY <1>2, <1>7 DEF Work, Left
<1>13. TodoLess(sent, job, job', id, {h})
  <2>1. Done(job[c].todo, Tail(todo), {h})
    BY <1>3, <1>4 DEF Done
  <2> QED BY <1>1, <1>2, <1>12, <2>1, TodoLessIs
<1>14. Counted(sent, clusterQ, job', wire', Boxes, lost)
  <2>1. k.id \in DOMAIN sent /\ (ForServers(sent, k.id) => k.dst \in Servers)
        /\ TodoLess(sent, job, job', k.id, {k.dst})
    BY <1>6, <1>11, <1>13
  <2> QED BY <1>1, <1>9, <1>11, <2>1, TodoWire DEF AllCounted
<1>15. Boxes' = Boxes
  BY <1>1 DEF Boxes
<1> QED BY <1>1, <1>14, <1>15 DEF AllCounted

\* What is left of a connection: the rest after the head, a prefix.
LEMMA RestIs ==
    ASSUME NEW w \in Seq(WireCopy)
    PROVE  /\ w # << >> => Rest(w, Tail(w), 1, {1})
           /\ \A k \in 0..Len(w) : Rest(w, SubSeq(w, 1, k), 0, k + 1..Len(w))
<1>1. ASSUME w # << >> PROVE Rest(w, Tail(w), 1, {1})
  <2>1. PICK n \in Nat : n = Len(w) /\ n # 0
    BY <1>1
  <2>2. DOMAIN w = 1..n /\ DOMAIN Tail(w) = 1..n - 1 /\ \A a \in 1..n - 1 : Tail(w)[a] = w[a + 1]
    BY <1>1, <2>1
  <2>3. \A a \in 1..n - 1 : a \in Int /\ a + 1 \in 1..n /\ a + 1 # 1
    BY <2>1
  <2>4. \A b \in 1..n : b # 1 => b - 1 \in 1..n - 1 /\ (b - 1) + 1 = b
    BY <2>1
  <2>5. \A b \in 1..n : b # 1 => b - 1 \in 1..n - 1 /\ Tail(w)[b - 1] = w[b]
    BY <2>2, <2>4
  <2>6. 1 \in 1..n
    BY <2>1
  <2> QED BY <2>2, <2>3, <2>5, <2>6 DEF Rest
<1>2. ASSUME NEW k \in 0..Len(w) PROVE Rest(w, SubSeq(w, 1, k), 0, k + 1..Len(w))
  <2>1. PICK n \in Nat : n = Len(w)
    OBVIOUS
  <2>2. PICK w2 : w2 = SubSeq(w, 1, k)
    OBVIOUS
  <2>3. DOMAIN w = 1..n /\ DOMAIN w2 = 1..k /\ \A a \in 1..k : w2[a] = w[a]
    BY <2>1, <2>2
  <2>4. \A a \in 1..k : a \in Int /\ a + 0 = a /\ a \in 1..n /\ a \notin k + 1..n
    BY <2>1
  <2>5. \A b \in 1..n : b \notin k + 1..n => b - 0 = b /\ b \in 1..k
    BY <2>1
  <2>6. k + 1..n \subseteq 1..n
    BY <2>1
  <2>7. Rest(w, w2, 0, k + 1..n)
    BY <2>3, <2>4, <2>5, <2>6 DEF Rest
  <2> QED BY <2>1, <2>2, <2>7
<1> QED BY <1>1, <1>2

\* A bus reads a packet from a connection.
LEMMA ProcessPkgCounts ==
    ASSUME IInv, AllCounted, NEW c \in Clusters, NEW d \in Clusters, NEW i \in DOMAIN wire[c][d],
           ProcessPkg(d, c, i)
    PROVE  AllCounted'
<1>1. /\ Routed(sent, clusterQ, job, wire, Boxes)
      /\ wire \in [Clusters -> [Clusters -> Seq(Seq(WireCopy))]]
      /\ svrQ \in [Servers -> Seq(BoxCopy)] /\ got \in [Servers -> Seq(BoxCopy)]
      /\ UNCHANGED <<sent, clusterQ, job, got, link, breaks>>
      /\ WireOnce(sent, wire)
  BY DEF ProcessPkg, IInv, TypeInv, Routed, PlacesType, AllCounted, Counted
<1>2. PICK w \in Seq(WireCopy) : w = wire[c][d][i]
  <2>1. wire[c][d] \in Seq(Seq(WireCopy))
    BY <1>1
  <2> QED BY <2>1
<1>3. w # << >> /\ wire' = [wire EXCEPT ![c][d][i] = Tail(w)]
  BY <1>2 DEF ProcessPkg
<1>4. PICK k : k = Head(w)
  OBVIOUS
<1>5. Tail(w) \in Seq(WireCopy) /\ k = w[1] /\ k \in WireCopy /\ 1 \in DOMAIN w
  BY <1>3, <1>4, TailIs
<1>6. PICK wr2 : wr2 = wire'
  OBVIOUS
<1>7. Taken(sent, wire, wr2, {<<k.id, k.dst>>})
  <2>1. PICK w2 \in Seq(WireCopy) : w2 = Tail(w)
    BY <1>5
  <2>2. Rest(w, w2, 1, {1}) /\ wr2 = [wire EXCEPT ![c][d][i] = w2]
    BY <1>3, <1>6, <2>1, RestIs
  <2>3. Taken(sent, wire, wr2, PairsAt(w, {1}))
    BY <1>1, <1>2, <2>2, WireFewer
  <2>4. PairsAt(w, {1}) = {<<k.id, k.dst>>}
    BY <1>5 DEF PairsAt
  <2> QED BY <2>3, <2>4
<1>8. k.id \in DOMAIN sent /\ k.dst \in Dsts /\ (ForServers(sent, k.id) => k.dst \in Servers)
  <2>1. WireOK(sent, d, w)
    BY <1>1, <1>2 DEF Routed, WireInv
  <2> QED BY <1>5, <2>1 DEF WireOK, WireCopy
<1>9. CASE ~ForServers(sent, k.id)
  <2>1. svrQ' = svrQ /\ lost' = lost
    BY <1>2, <1>4, <1>9 DEF ProcessPkg, ForServers
  <2>2. Taken(sent, wire, wr2, {})
    <3>1. \A id, s : ForServers(sent, id) => <<id, s>> \notin {<<k.id, k.dst>>}
      BY <1>9
    <3> QED BY <1>7, <3>1 DEF Taken
  <2>3. Counted(sent, clusterQ, job, wr2, Boxes, lost)
    BY <1>1, <2>2, WireSame DEF AllCounted
  <2>4. Boxes' = Boxes
    BY <1>1, <2>1 DEF Boxes
  <2> QED BY <1>1, <1>6, <2>1, <2>3, <2>4 DEF AllCounted
<1>10. CASE ForServers(sent, k.id) /\ ClusterOf[k.dst] = d /\ Len(svrQ[k.dst]) < QueueCap
  <2>1. PICK b : b = [id |-> k.id, dst |-> k.dst, via |-> <<c, i>>]
    OBVIOUS
  <2>2. InQueue(k.dst, b) /\ lost' = lost
    BY <1>2, <1>4, <1>10, <2>1 DEF ProcessPkg, ForServers
  <2>3. PICK s \in Servers : s = k.dst
    BY <1>8, <1>10
  <2>4. b \in BoxCopy /\ b.id = k.id
    <3>1. i \in Nat
      BY <1>1
    <3> QED BY <1>5, <2>1, <2>3, <3>1 DEF BoxCopy, WireCopy
  <2>5. PICK bx2 : bx2 = [Boxes EXCEPT ![s] = Append(@, b)]
    OBVIOUS
  <2>6. Boxes' = bx2
    BY <1>1, <2>2, <2>3, <2>4, <2>5, InQueueIs
  <2>7. PICK id \in DOMAIN sent : id = k.id
    BY <1>8
  <2>8. Taken(sent, wire, wr2, {<<id, s>>}) /\ ForServers(sent, id) /\ b.id = id
    BY <1>7, <1>10, <2>3, <2>4, <2>7
  <2>9. Counted(sent, clusterQ, job, wr2, bx2, lost)
    BY <1>1, <2>4, <2>5, <2>8, WireBox DEF AllCounted
  <2> QED BY <1>1, <1>6, <2>2, <2>6, <2>9 DEF AllCounted
<1>11. CASE ForServers(sent, k.id) /\ ~(ClusterOf[k.dst] = d /\ Len(svrQ[k.dst]) < QueueCap)
  <2>1. GiveUp(k.id, <<k.dst>>) /\ svrQ' = svrQ
    BY <1>2, <1>4, <1>11 DEF ProcessPkg, ForServers
  <2>2. PICK L : L = {<<k.id, k.dst>>}
    OBVIOUS
  <2>3. lost' = lost \cup L
    <3>1. Range1(<<k.dst>>) = {k.dst}
      BY DEF Range1
    <3> QED BY <2>1, <2>2, <3>1 DEF GiveUp
  <2>4. L \subseteq (DOMAIN sent) \X Dsts /\ Taken(sent, wire, wr2, L)
    BY <1>7, <1>8, <2>2
  <2>5. Counted(sent, clusterQ, job, wr2, Boxes, lost')
    BY <1>1, <2>3, <2>4, WireLost DEF AllCounted
  <2>6. Boxes' = Boxes
    BY <1>1, <2>1 DEF Boxes
  <2> QED BY <1>1, <1>6, <2>5, <2>6 DEF AllCounted
<1> QED BY <1>9, <1>10, <1>11

\* A server takes a packet.
LEMMA SvrRecvCounts ==
    ASSUME IInv, AllCounted, NEW s \in Servers, SvrRecv(s)
    PROVE  AllCounted'
<1>1. /\ svrQ \in [Servers -> Seq(BoxCopy)] /\ got \in [Servers -> Seq(BoxCopy)]
      /\ UNCHANGED <<sent, clusterQ, job, link, wire, breaks, lost>>
  BY DEF SvrRecv, IInv, TypeInv
<1>2. PICK q \in Seq(BoxCopy) : q = svrQ[s]
  BY <1>1
<1>3. PICK g \in Seq(BoxCopy) : g = got[s]
  BY <1>1
<1>4. q # << >> /\ svrQ' = [svrQ EXCEPT ![s] = Tail(q)] /\ got' = [got EXCEPT ![s] = Append(g, Head(q))]
  BY <1>2, <1>3 DEF SvrRecv
<1>5. \A t \in Servers : got'[t] \o svrQ'[t] = got[t] \o svrQ[t]
  <2>1. Append(g, Head(q)) \o Tail(q) = g \o q
    BY <1>4, BoxMove
  <2>2. svrQ'[s] = Tail(q) /\ got'[s] = Append(g, Head(q))
    BY <1>1, <1>4
  <2>3. \A t \in Servers : t # s => svrQ'[t] = svrQ[t] /\ got'[t] = got[t]
    BY <1>1, <1>4
  <2> QED BY <1>2, <1>3, <2>1, <2>2, <2>3
<1>6. Boxes' = Boxes
  BY <1>5 DEF Boxes
<1> QED BY <1>1, <1>6 DEF AllCounted

\* A connection breaks.
LEMMA LinkBreakCounts ==
    ASSUME IInv, AllCounted, NEW c \in Clusters, NEW d \in Clusters, LinkBreak(c, d)
    PROVE  AllCounted'
<1>1. /\ Routed(sent, clusterQ, job, wire, Boxes)
      /\ wire \in [Clusters -> [Clusters -> Seq(Seq(WireCopy))]]
      /\ UNCHANGED <<sent, clusterQ, job, svrQ, got>>
      /\ link[c][d] = "up" /\ WireOnce(sent, wire)
  BY DEF LinkBreak, IInv, TypeInv, Routed, PlacesType, AllCounted, Counted
<1>2. PICK i : i = LastOf(c, d)
  OBVIOUS
<1>3. wire[c][d] \in Seq(Seq(WireCopy)) /\ i \in DOMAIN wire[c][d]
  <2>1. wire[c][d] \in Seq(Seq(WireCopy)) /\ wire[c][d] # << >>
    BY <1>1 DEF IInv, TypeInv
  <2> QED BY <1>2, <2>1 DEF LastOf
<1>4. PICK w \in Seq(WireCopy) : w = wire[c][d][i]
  BY <1>3
<1>5. PICK k \in 0..Len(w) :
        /\ wire' = [wire EXCEPT ![c][d][i] = SubSeq(w, 1, k)]
        /\ lost' = lost \cup PairsAt(w, k + 1..Len(w))
  <2>1. Current(c, d) = w
    BY <1>2, <1>4 DEF Current
  <2>2. PICK k \in 0..Len(Current(c, d)) :
          /\ wire' = [wire EXCEPT ![c][d][LastOf(c, d)] = SubSeq(@, 1, k)]
          /\ lost' = lost \cup {<<Current(c, d)[j].id, Current(c, d)[j].dst>> :
                                  j \in k + 1..Len(Current(c, d))}
    BY DEF LinkBreak
  <2>3. wire' = [wire EXCEPT ![c][d][i] = SubSeq(w, 1, k)]
    BY <1>2, <1>4, <2>2
  <2>4. lost' = lost \cup PairsAt(w, k + 1..Len(w))
    BY <2>1, <2>2 DEF PairsAt
  <2> QED BY <2>1, <2>2, <2>3, <2>4
<1>6. PICK w2 \in Seq(WireCopy) : w2 = SubSeq(w, 1, k)
  BY PrefixIs
<1>7. PICK G : G = k + 1..Len(w)
  OBVIOUS
<1>8. PICK L : L = PairsAt(w, G)
  OBVIOUS
<1>9. Rest(w, w2, 0, G)
  BY <1>6, <1>7, RestIs
<1>10. Taken(sent, wire, wire', L)
  <2>1. wire' = [wire EXCEPT ![c][d][i] = w2]
    BY <1>5, <1>6
  <2> QED BY <1>1, <1>3, <1>4, <1>8, <1>9, <2>1, WireFewer
<1>11. L \subseteq (DOMAIN sent) \X Dsts
  <2>1. WireOK(sent, d, w)
    BY <1>1, <1>3, <1>4 DEF Routed, WireInv
  <2>2. \A j \in DOMAIN w : w[j].id \in DOMAIN sent
    BY <2>1 DEF WireOK
  <2>3. \A j \in DOMAIN w : w[j] \in WireCopy
    OBVIOUS
  <2>4. \A j \in DOMAIN w : w[j].dst \in Dsts
    BY <2>3 DEF WireCopy
  <2>5. G \subseteq DOMAIN w
    BY <1>9 DEF Rest
  <2> QED BY <1>8, <2>2, <2>4, <2>5 DEF PairsAt
<1>12. Counted(sent, clusterQ, job, wire', Boxes, lost')
  <2>1. lost' = lost \cup L
    BY <1>5, <1>7, <1>8
  <2> QED BY <1>1, <1>10, <1>11, <2>1, WireLost DEF AllCounted
<1>13. Boxes' = Boxes
  BY <1>1 DEF Boxes
<1> QED BY <1>1, <1>12, <1>13 DEF AllCounted

\* A connection is opened.
LEMMA ReconnectCounts ==
    ASSUME IInv, AllCounted, NEW c \in Clusters, NEW d \in Clusters, Reconnect(c, d)
    PROVE  AllCounted'
<1>1. /\ Routed(sent, clusterQ, job, wire, Boxes)
      /\ wire \in [Clusters -> [Clusters -> Seq(Seq(WireCopy))]]
      /\ UNCHANGED <<sent, clusterQ, job, svrQ, got, lost>>
      /\ wire' = [wire EXCEPT ![c][d] = Append(wire[c][d], << >>)]
      /\ WireOnce(sent, wire)
  BY DEF Reconnect, IInv, TypeInv, Routed, PlacesType, AllCounted, Counted
<1>2. PICK S : S = Seq(WireCopy)
  OBVIOUS
<1>3. PICK o \in Seq(S) : o = wire[c][d]
  BY <1>1, <1>2
<1>4. PICK l : l = Append(o, << >>)
  OBVIOUS
<1>5. /\ DOMAIN l = DOMAIN o \cup {Len(o) + 1}
      /\ \A j \in DOMAIN o : l[j] = o[j]
      /\ l[Len(o) + 1] = << >> /\ DOMAIN l[Len(o) + 1] = {}
  BY <1>2, <1>4, AppendIs
<1>6. PICK wr2 : wr2 = wire'
  OBVIOUS
<1>7. /\ wr2[c][d] = l
      /\ \A x, y \in Clusters : ~(x = c /\ y = d) => wr2[x][y] = wire[x][y]
  BY <1>1, <1>3, <1>4, <1>6
<1>8. ASSUME NEW e, NEW f, NEW j, NEW a
      PROVE  /\ At(wr2, e, f, j, a) <=> At(wire, e, f, j, a)
             /\ At(wire, e, f, j, a) => Val(wr2, e, f, j, a) = Val(wire, e, f, j, a)
  <2>1. CASE e = c /\ f = d
    BY <1>3, <1>5, <1>7, <2>1 DEF At, Val
  <2>2. CASE ~(e = c /\ f = d)
    BY <1>7, <2>2 DEF At, Val
  <2> QED BY <2>1, <2>2
<1>9. \A id, s : OnWire(wr2, id, s) <=> OnWire(wire, id, s)
  <2> SUFFICES ASSUME NEW id, NEW s PROVE OnWire(wr2, id, s) <=> OnWire(wire, id, s)
    OBVIOUS
  <2>1. \A e, f, j, a : At(wr2, e, f, j, a) <=> At(wire, e, f, j, a)
    BY <1>8
  <2>2. \A e, f, j, a : At(wire, e, f, j, a) => Val(wr2, e, f, j, a) = Val(wire, e, f, j, a)
    BY <1>8
  <2>3. ASSUME OnWire(wr2, id, s) PROVE OnWire(wire, id, s)
    <3>1. PICK e, f, j, a : /\ At(wr2, e, f, j, a)
                            /\ Val(wr2, e, f, j, a).id = id /\ Val(wr2, e, f, j, a).dst = s
      BY <2>3, OnWireIs
    <3>2. At(wire, e, f, j, a) /\ Val(wire, e, f, j, a).id = id /\ Val(wire, e, f, j, a).dst = s
      BY <1>8, <3>1
    <3> QED BY <3>2, OnWireIs
  <2>4. ASSUME OnWire(wire, id, s) PROVE OnWire(wr2, id, s)
    <3>1. PICK e, f, j, a : /\ At(wire, e, f, j, a)
                            /\ Val(wire, e, f, j, a).id = id /\ Val(wire, e, f, j, a).dst = s
      BY <2>4, OnWireIs
    <3>2. At(wr2, e, f, j, a) /\ Val(wr2, e, f, j, a).id = id /\ Val(wr2, e, f, j, a).dst = s
      BY <1>8, <3>1
    <3> QED BY <3>2, OnWireIs
  <2> QED BY <2>3, <2>4
<1>10. Once(sent, wr2)
  <2> SUFFICES ASSUME NEW e, NEW f, NEW j, NEW a, NEW g, NEW h, NEW n, NEW b,
                      Same(sent, wr2, e, f, j, a, g, h, n, b)
               PROVE  e = g /\ f = h /\ j = n /\ a = b
    BY DEF Once
  <2>1. Once(sent, wire)
    BY <1>1, WireOnceIs
  <2>2. At(wire, e, f, j, a) /\ Val(wr2, e, f, j, a) = Val(wire, e, f, j, a)
    BY <1>8 DEF Same
  <2>3. At(wire, g, h, n, b) /\ Val(wr2, g, h, n, b) = Val(wire, g, h, n, b)
    BY <1>8 DEF Same
  <2>4. Same(sent, wire, e, f, j, a, g, h, n, b)
    BY <2>2, <2>3 DEF Same
  <2> QED BY <2>1, <2>4 DEF Once
<1>11. Taken(sent, wire, wr2, {})
  BY <1>9, <1>10, WireOnceIs DEF Taken
<1>12. Counted(sent, clusterQ, job, wr2, Boxes, lost)
  BY <1>1, <1>11, WireSame DEF AllCounted
<1>13. Boxes' = Boxes
  BY <1>1 DEF Boxes
<1> QED BY <1>1, <1>6, <1>12, <1>13 DEF AllCounted

\* A packet not yet in the history is nowhere.
LEMMA FreshUnseen ==
    ASSUME NEW sn, NEW q, NEW jb, NEW wr, NEW bx, NEW ls,
           Routed(sn, q, jb, wr, bx), LostType(sn, ls),
           NEW n \in Nat, n # 0, n \notin DOMAIN sn
    PROVE  /\ ~Seen(jb, wr, bx, ls, n) /\ ~Queued(q, n)
           /\ \A s \in Servers : Apart(jb, wr, bx, ls, n, s)
<1>1. \A c \in Clusters : jb[c].id # n
  <2> SUFFICES ASSUME NEW c \in Clusters PROVE jb[c].id # n
    OBVIOUS
  <2>1. JobOK(sn, q[c], jb[c])
    BY DEF Routed, JobInv
  <2> QED BY <2>1 DEF JobOK, NoJob
<1>2. \A s : ~OnWire(wr, n, s)
  <2> SUFFICES ASSUME NEW s, OnWire(wr, n, s) PROVE FALSE
    OBVIOUS
  <2>1. PICK c \in Clusters, d \in Clusters : \E i \in DOMAIN wr[c][d] : \E a \in DOMAIN wr[c][d][i] :
          wr[c][d][i][a].id = n
    BY DEF OnWire
  <2>2. PICK i \in DOMAIN wr[c][d] : \E a \in DOMAIN wr[c][d][i] : wr[c][d][i][a].id = n
    BY <2>1
  <2>3. WireOK(sn, d, wr[c][d][i])
    BY DEF Routed, WireInv
  <2> QED BY <2>2, <2>3 DEF WireOK
<1>3. \A s \in Servers : ~InBox(bx, n, s)
  <2> SUFFICES ASSUME NEW s \in Servers PROVE ~InBox(bx, n, s)
    OBVIOUS
  <2>1. BoxOK(sn, s, bx[s])
    BY DEF Routed, BoxInv
  <2> QED BY <2>1 DEF InBox, BoxOK
<1>4. \A s : ~IsLost(ls, n, s)
  BY DEF LostType, IsLost
<1>5. ~Queued(q, n)
  <2>1. \A c \in Clusters : QueueOK(sn, q[c])
    BY DEF Routed, QueueInv
  <2> QED BY <2>1 DEF Queued, Waits, QueueOK
<1>6. \A s \in Servers : ~InTodo(jb, n, s)
  BY <1>1 DEF InTodo
<1>7. ~Seen(jb, wr, bx, ls, n)
  BY <1>1, <1>2, <1>3, <1>4 DEF Seen
<1>8. \A s \in Servers : Apart(jb, wr, bx, ls, n, s)
  BY <1>2, <1>3, <1>6 DEF Apart
<1> QED BY <1>5, <1>7, <1>8

\* The history grows.
LEMMA GrowsCount ==
    ASSUME NEW sn, NEW q, NEW jb, NEW wr, NEW bx, NEW ls,
           Routed(sn, q, jb, wr, bx), Counted(sn, q, jb, wr, bx, ls), NEW sn2, Grows(sn, sn2)
    PROVE  LostType(sn2, ls) /\ JobOnce(sn2, jb) /\ WireOnce(sn2, wr)
<1>1. \A id \in DOMAIN sn : id \in DOMAIN sn2 /\ (ForServers(sn2, id) <=> ForServers(sn, id))
  BY DEF Grows, ForServers
<1>2. LostType(sn2, ls)
  BY <1>1 DEF Counted, LostType
<1>3. JobOnce(sn2, jb)
  <2> SUFFICES ASSUME NEW c \in Clusters, NEW e \in Clusters, jb[c] # NoJob, ForServers(sn2, jb[c].id),
                      jb[c].id = jb[e].id
               PROVE  c = e
    BY DEF JobOnce
  <2>1. JobOK(sn, q[c], jb[c])
    BY DEF Routed, JobInv
  <2>2. ForServers(sn, jb[c].id)
    BY <1>1, <2>1 DEF JobOK
  <2> QED BY <2>2 DEF Counted, JobOnce
<1>4. Once(sn2, wr)
  <2> SUFFICES ASSUME NEW e, NEW f, NEW j, NEW a, NEW g, NEW h, NEW l, NEW b,
                      Same(sn2, wr, e, f, j, a, g, h, l, b)
               PROVE  e = g /\ f = h /\ j = l /\ a = b
    BY DEF Once
  <2>1. Once(sn, wr)
    BY WireOnceIs DEF Counted
  <2>2. At(wr, e, f, j, a)
    BY DEF Same
  <2>3. WireOK(sn, f, wr[e][f][j]) /\ a \in DOMAIN wr[e][f][j]
    BY <2>2 DEF At, Routed, WireInv
  <2>4. Val(wr, e, f, j, a).id \in DOMAIN sn
    BY <2>3 DEF Val, WireOK
  <2>5. Same(sn, wr, e, f, j, a, g, h, l, b)
    BY <1>1, <2>4 DEF Same
  <2> QED BY <2>1, <2>5 DEF Once
<1> QED BY <1>2, <1>3, <1>4, WireOnceIs

\* A new packet n.
IsNext(sn, sn2, n) ==
    n \in Nat /\ n # 0 /\ n \notin DOMAIN sn /\ Grows(sn, sn2) /\ DOMAIN sn2 = DOMAIN sn \cup {n}

\* It is put into the queue of c.
QueueMore(q, q2, c, n) ==
    \A e \in Clusters : \A id : Waits(q2, e, id) <=> Waits(q, e, id) \/ (e = c /\ id = n)

\* Every copy still is in one place.
LEMMA SendCounts ==
    ASSUME NEW sn, NEW q, NEW jb, NEW wr, NEW bx, NEW ls,
           Routed(sn, q, jb, wr, bx), Counted(sn, q, jb, wr, bx, ls),
           NEW sn2, NEW n, IsNext(sn, sn2, n), NEW q2, NEW c \in Clusters, QueueMore(q, q2, c, n)
    PROVE  Counted(sn2, q2, jb, wr, bx, ls)
<1>1. LostType(sn2, ls) /\ JobOnce(sn2, jb) /\ WireOnce(sn2, wr)
  BY GrowsCount DEF IsNext
<1>2. /\ ~Seen(jb, wr, bx, ls, n) /\ ~Queued(q, n)
      /\ \A s \in Servers : Apart(jb, wr, bx, ls, n, s)
  BY FreshUnseen DEF IsNext, Counted
<1>3. \A id \in DOMAIN sn : sn2[id] = sn[id] /\ (ForServers(sn2, id) <=> ForServers(sn, id))
  BY DEF IsNext, Grows, ForServers
<1>4. \A id : Queued(q2, id) <=> Queued(q, id) \/ id = n
  BY DEF QueueMore, Queued
<1>5. QueuesApart(q2)
  <2>1. \A e \in Clusters : ~Waits(q, e, n)
    BY <1>2 DEF Queued
  <2>2. QueuesApart(q)
    BY DEF Counted
  <2> SUFFICES ASSUME NEW e \in Clusters, NEW f \in Clusters, NEW id, Waits(q2, e, id), Waits(q2, f, id)
               PROVE  e = f
    BY DEF QueuesApart
  <2>3. CASE id = n
    BY <2>1, <2>3 DEF QueueMore
  <2>4. CASE id # n
    BY <2>2, <2>4 DEF QueueMore, QueuesApart
  <2> QED BY <2>3, <2>4
<1>6. WaitInv(q2, jb, wr, bx, ls)
  BY <1>2, <1>4 DEF WaitInv, Counted
<1>7. ApartInv(sn2, jb, wr, bx, ls)
  BY <1>2, <1>3 DEF ApartInv, Counted, IsNext
<1>8. ServedInv(sn2, q2, jb, wr, bx, ls)
  <2> SUFFICES ASSUME NEW id \in DOMAIN sn2, ForServers(sn2, id), ~Queued(q2, id)
               PROVE  Serves(sn2[id], Holders(jb, wr, bx, ls, id))
    BY DEF ServedInv
  <2>1. id \in DOMAIN sn /\ ~Queued(q, id)
    BY <1>4 DEF IsNext
  <2> QED BY <1>3, <2>1 DEF Counted, ServedInv
<1>9. BoxOnce(bx)
  BY DEF Counted
<1> QED BY <1>1, <1>5, <1>6, <1>7, <1>8, <1>9 DEF Counted

\* It is a heartbeat, which the idle bus c has in hand.
LEMMA BeatCounts ==
    ASSUME NEW sn, NEW q, NEW jb, NEW wr, NEW bx, NEW ls,
           Routed(sn, q, jb, wr, bx), Counted(sn, q, jb, wr, bx, ls),
           NEW sn2, NEW n, IsNext(sn, sn2, n), ~ForServers(sn2, n),
           NEW jb2, NEW c \in Clusters, jb[c] = NoJob,
           jb2[c] = NoJob \/ jb2[c].id = n, \A e \in Clusters : e # c => jb2[e] = jb[e]
    PROVE  Counted(sn2, q, jb2, wr, bx, ls)
<1>1. LostType(sn2, ls) /\ JobOnce(sn2, jb) /\ WireOnce(sn2, wr) /\ BoxOnce(bx) /\ QueuesApart(q)
  BY GrowsCount DEF IsNext, Counted
<1>2. \A id \in DOMAIN sn : sn2[id] = sn[id] /\ (ForServers(sn2, id) <=> ForServers(sn, id))
  BY DEF IsNext, Grows, ForServers
<1>3. 0 \notin DOMAIN sn /\ jb[c].id = 0
  BY DEF Routed, PlacesType, NoJob
<1>4. \A id \in DOMAIN sn : jb2[c].id # id
  BY <1>3 DEF IsNext, NoJob
<1>5. \A e \in Clusters : \A id \in DOMAIN sn : jb2[e].id = id <=> e # c /\ jb[e].id = id
  BY <1>4
<1>6. \A id \in DOMAIN sn : \A s : InTodo(jb2, id, s) <=> InTodo(jb, id, s)
  BY <1>3, <1>4 DEF InTodo
<1>7. \A id \in DOMAIN sn : Seen(jb2, wr, bx, ls, id) <=> Seen(jb, wr, bx, ls, id)
  BY <1>3, <1>5 DEF Seen
<1>8. JobOnce(sn2, jb2)
  <2> SUFFICES ASSUME NEW e \in Clusters, NEW f \in Clusters, jb2[e] # NoJob, ForServers(sn2, jb2[e].id),
                      jb2[e].id = jb2[f].id
               PROVE  e = f
    BY DEF JobOnce
  <2>1. e # c /\ jb2[e] = jb[e]
    OBVIOUS
  <2>2. JobOK(sn, q[e], jb[e])
    BY DEF Routed, JobInv
  <2>3. jb[e].id \in DOMAIN sn
    BY <2>1, <2>2 DEF JobOK
  <2>4. f # c /\ jb2[f] = jb[f]
    BY <1>4, <2>1, <2>3
  <2> QED BY <1>1, <2>1, <2>4 DEF JobOnce
<1>9. WaitInv(q, jb2, wr, bx, ls)
  <2> SUFFICES ASSUME NEW id, Queued(q, id) PROVE ~Seen(jb2, wr, bx, ls, id)
    BY DEF WaitInv
  <2>1. id \in DOMAIN sn
    BY DEF Queued, Waits, Routed, QueueInv, QueueOK
  <2> QED BY <1>7, <2>1 DEF Counted, WaitInv
<1>10. ApartInv(sn2, jb2, wr, bx, ls)
  <2> SUFFICES ASSUME NEW id \in DOMAIN sn2, NEW s \in Servers, ForServers(sn2, id)
               PROVE  Apart(jb2, wr, bx, ls, id, s)
    BY DEF ApartInv
  <2>1. id \in DOMAIN sn
    BY DEF IsNext
  <2>2. Apart(jb, wr, bx, ls, id, s)
    BY <1>2, <2>1 DEF Counted, ApartInv
  <2> QED BY <1>6, <2>1, <2>2 DEF Apart
<1>11. ServedInv(sn2, q, jb2, wr, bx, ls)
  <2> SUFFICES ASSUME NEW id \in DOMAIN sn2, ForServers(sn2, id), ~Queued(q, id)
               PROVE  Serves(sn2[id], Holders(jb2, wr, bx, ls, id))
    BY DEF ServedInv
  <2>1. id \in DOMAIN sn
    BY DEF IsNext
  <2>2. Serves(sn[id], Holders(jb, wr, bx, ls, id))
    BY <1>2, <2>1 DEF Counted, ServedInv
  <2>3. Holders(jb2, wr, bx, ls, id) = Holders(jb, wr, bx, ls, id)
    BY <1>6, <2>1 DEF Holders, Somewhere
  <2> QED BY <1>2, <2>1, <2>2, <2>3
<1> QED BY <1>1, <1>8, <1>9, <1>10, <1>11 DEF Counted

\* The members of a group are servers.
LEMMA MembersAre ==
    ASSUME NEW p
    PROVE  Members(p) \in Seq(Servers)
<1>1. ASSUME p.dst \in DOMAIN Groups
      PROVE  Groups[p.dst] \in Seq(Servers) /\ NoDup(Groups[p.dst])
  BY <1>1, RouteAssumption DEF NoDup
<1>2. ASSUME p.dst \in DOMAIN Groups
      PROVE  Without(Groups[p.dst], p.src) \in Seq(Servers)
  BY <1>1, <1>2, WithoutIs
<1> QED BY <1>1, <1>2 DEF Members

\* A list that is drawn up names the servers that are to have the packet.
LEMMA DstListsServe ==
    ASSUME NEW c \in Clusters, NEW p, p.type \notin ToBuses, NEW todo \in DstLists(c, p)
    PROVE  Serves(p, {s \in Servers : s \in Range1(todo)})
<1>1. PICK S : S = {s \in Servers : s \in Range1(todo)}
  OBVIOUS
<1>2. Members(p) \in Seq(Servers)
  BY MembersAre
<1>3. ASSUME p.type \in ToAll
      PROVE  Range1(Members(p)) \subseteq S /\ p.type \notin RandomOne \cup Unicast
  <2>1. p.type \notin RandomOne \cup Unicast
    BY <1>3 DEF ToAll, RandomOne, Unicast
  <2>2. todo = Members(p)
    BY <1>3, <2>1 DEF DstLists
  <2>3. Range1(Members(p)) \subseteq Servers
    BY <1>2 DEF Range1
  <2> QED BY <1>1, <2>1, <2>2, <2>3
<1>4. ASSUME p.type \in RandomOne, Members(p) # << >>
      PROVE  \E s \in S : S = {s}
  <2>1. PICK s \in Range1(Members(p)) : todo = <<s>>
    BY <1>4 DEF DstLists
  <2>2. s \in Servers
    BY <1>2, <2>1 DEF Range1
  <2>3. Range1(todo) = {s}
    BY <2>1 DEF Range1
  <2>4. S = {s}
    BY <1>1, <2>2, <2>3
  <2> QED BY <2>4
<1>5. ASSUME p.type \in Unicast, p.dst \in Servers
      PROVE  p.dst \in S
  <2>1. todo = <<p.dst>>
    BY <1>5 DEF DstLists, Unicast, RandomOne, ToAll
  <2>2. Range1(todo) = {p.dst}
    BY <2>1 DEF Range1
  <2> QED BY <1>1, <1>5, <2>2
<1>6. Serves(p, S)
  BY <1>3, <1>4, <1>5 DEF Serves
<1> QED BY <1>1, <1>6

\* Packet id0 leaves the queue of c, ...
QueueLess(q, q2, c, id0) ==
    \A e \in Clusters : \A id : Waits(q2, e, id) <=> Waits(q, e, id) /\ ~(e = c /\ id = id0)

\* ... and c, which was idle, has it in hand, unless it is for nobody.
Begins(jb, jb2, c, id0, todo) ==
    /\ jb[c] = NoJob
    /\ \/ jb2[c] = NoJob /\ Range1(todo) = {}
       \/ jb2[c].id = id0 /\ jb2[c].todo = todo
    /\ \A e \in Clusters : e # c => jb2[e] = jb[e]

\* Its copies are in one place.
LEMMA TakeCounts ==
    ASSUME NEW sn, NEW q, NEW jb, NEW wr, NEW bx, NEW ls,
           Routed(sn, q, jb, wr, bx), Counted(sn, q, jb, wr, bx, ls),
           NEW c \in Clusters, NEW id0 \in DOMAIN sn, Waits(q, c, id0),
           NEW q2, QueueLess(q, q2, c, id0), NEW jb2, NEW todo, Begins(jb, jb2, c, id0, todo),
           ForServers(sn, id0) => Serves(sn[id0], {s \in Servers : s \in Range1(todo)})
    PROVE  Counted(sn, q2, jb2, wr, bx, ls)
<1>1. 0 \notin DOMAIN sn /\ jb[c].id = 0
  BY DEF Routed, PlacesType, Begins, NoJob
<1>2. ~Seen(jb, wr, bx, ls, id0)
  BY DEF Counted, WaitInv, Queued
<1>3. /\ \A e \in Clusters : jb[e].id # id0
      /\ \A s \in Servers : ~OnWire(wr, id0, s) /\ ~InBox(bx, id0, s) /\ ~IsLost(ls, id0, s)
  BY <1>2 DEF Seen, Dsts
<1>4. \A id : Queued(q2, id) <=> Queued(q, id) /\ id # id0
  BY DEF QueueLess, Queued, Counted, QueuesApart
<1>5. QueuesApart(q2)
  BY DEF QueueLess, QueuesApart, Counted
<1>6. jb2[c] = NoJob => jb2[c].id = 0
  BY DEF NoJob
<1>7. ASSUME NEW id \in DOMAIN sn, NEW s
      PROVE  InTodo(jb2, id, s) <=> InTodo(jb, id, s) \/ (id = id0 /\ s \in Range1(todo))
  <2>1. CASE id # id0
    <3>1. jb2[c].id # id /\ jb[c].id # id
      BY <1>1, <1>6, <2>1 DEF Begins
    <3> QED BY <2>1, <3>1 DEF InTodo, Begins
  <2>2. CASE id = id0
    <3>1. ~InTodo(jb, id, s)
      BY <1>3, <2>2 DEF InTodo
    <3>2. \A e \in Clusters : jb2[e].id = id => e = c
      BY <1>3, <2>2 DEF Begins
    <3>3. InTodo(jb2, id, s) <=> jb2[c].id = id /\ \E x \in DOMAIN jb2[c].todo : jb2[c].todo[x] = s
      BY <3>2 DEF InTodo
    <3>4. CASE jb2[c] = NoJob /\ Range1(todo) = {}
      BY <1>1, <1>6, <2>2, <3>1, <3>3, <3>4
    <3>5. CASE jb2[c].id = id0 /\ jb2[c].todo = todo
      BY <2>2, <3>1, <3>3, <3>5 DEF Range1
    <3> QED BY <3>4, <3>5 DEF Begins
  <2> QED BY <2>1, <2>2
<1>8. JobOnce(sn, jb2)
  <2> SUFFICES ASSUME NEW e \in Clusters, NEW f \in Clusters, jb2[e] # NoJob, ForServers(sn, jb2[e].id),
                      jb2[e].id = jb2[f].id
               PROVE  e = f
    BY DEF JobOnce
  <2>1. CASE e = c
    <3>1. jb2[f].id = id0
      BY <2>1 DEF Begins
    <3> QED BY <1>3, <2>1, <3>1 DEF Begins
  <2>2. CASE e # c
    <3>1. jb2[e] = jb[e] /\ JobOK(sn, q[e], jb[e])
      BY <2>2 DEF Begins, Routed, JobInv
    <3>2. jb[e].id \in DOMAIN sn /\ jb[e].id # id0
      BY <1>3, <3>1 DEF JobOK
    <3>3. f # c
      BY <1>1, <1>6, <3>1, <3>2 DEF Begins
    <3>4. jb2[f] = jb[f]
      BY <3>3 DEF Begins
    <3> QED BY <3>1, <3>4 DEF Counted, JobOnce
  <2> QED BY <2>1, <2>2
<1>9. WaitInv(q2, jb2, wr, bx, ls)
  <2> SUFFICES ASSUME NEW id, Queued(q2, id) PROVE ~Seen(jb2, wr, bx, ls, id)
    BY DEF WaitInv
  <2>1. Queued(q, id) /\ id # id0
    BY <1>4
  <2>2. ~Seen(jb, wr, bx, ls, id)
    BY <2>1 DEF Counted, WaitInv
  <2>3. id \in DOMAIN sn
    BY <2>1 DEF Queued, Waits, Routed, QueueInv, QueueOK
  <2>4. jb2[c].id # id
    BY <1>1, <1>6, <2>1, <2>3 DEF Begins
  <2>5. \A e \in Clusters : jb2[e].id = id => jb[e].id = id
    BY <2>4 DEF Begins
  <2> QED BY <2>2, <2>5 DEF Seen
<1>10. ApartInv(sn, jb2, wr, bx, ls)
  <2> SUFFICES ASSUME NEW id \in DOMAIN sn, NEW s \in Servers, ForServers(sn, id)
               PROVE  Apart(jb2, wr, bx, ls, id, s)
    BY DEF ApartInv
  <2>1. Apart(jb, wr, bx, ls, id, s)
    BY DEF Counted, ApartInv
  <2>2. CASE id = id0
    BY <1>3, <2>2 DEF Apart
  <2>3. CASE id # id0
    BY <1>7, <2>1, <2>3 DEF Apart
  <2> QED BY <2>2, <2>3
<1>11. ServedInv(sn, q2, jb2, wr, bx, ls)
  <2> SUFFICES ASSUME NEW id \in DOMAIN sn, ForServers(sn, id), ~Queued(q2, id)
               PROVE  Serves(sn[id], Holders(jb2, wr, bx, ls, id))
    BY DEF ServedInv
  <2>1. CASE id = id0
    <3>1. \A s \in Servers : ~InTodo(jb, id, s)
      BY <1>3, <2>1 DEF InTodo
    <3>2. \A s \in Servers : Somewhere(jb2, wr, bx, ls, id, s) <=> s \in Range1(todo)
      BY <1>3, <1>7, <2>1, <3>1 DEF Somewhere
    <3>3. Holders(jb2, wr, bx, ls, id) = {s \in Servers : s \in Range1(todo)}
      BY <3>2 DEF Holders
    <3> QED BY <2>1, <3>3
  <2>2. CASE id # id0
    <3>1. Serves(sn[id], Holders(jb, wr, bx, ls, id))
      BY <1>4, <2>2 DEF Counted, ServedInv
    <3>2. \A s \in Servers : Somewhere(jb2, wr, bx, ls, id, s) <=> Somewhere(jb, wr, bx, ls, id, s)
      BY <1>7, <2>2 DEF Somewhere
    <3>3. Holders(jb2, wr, bx, ls, id) = Holders(jb, wr, bx, ls, id)
      BY <3>2 DEF Holders
    <3> QED BY <3>1, <3>3
  <2> QED BY <2>1, <2>2
<1>12. LostType(sn, ls) /\ WireOnce(sn, wr) /\ BoxOnce(bx)
  BY DEF Counted
<1> QED BY <1>5, <1>8, <1>9, <1>10, <1>11, <1>12 DEF Counted

\* The history after a packet p is sent.
LEMMA NextIs ==
    ASSUME NEW sn \in Seq(Pkts), NEW p \in Pkts
    PROVE  IsNext(sn, Append(sn, p), Len(sn) + 1) /\ Append(sn, p)[Len(sn) + 1] = p
<1>1. PICK sn2 : sn2 = Append(sn, p)
  OBVIOUS
<1>2. PICK n \in Nat : n = Len(sn) + 1
  OBVIOUS
<1>3. /\ DOMAIN sn2 = DOMAIN sn \cup {n} /\ sn2[n] = p
      /\ \A x \in DOMAIN sn : sn2[x] = sn[x]
  BY <1>1, <1>2, AppendIs
<1>4. n # 0 /\ n \notin DOMAIN sn
  BY <1>2
<1>5. IsNext(sn, sn2, n)
  BY <1>3, <1>4 DEF IsNext, Grows
<1> QED BY <1>1, <1>2, <1>3, <1>5

\* A server sends.
LEMMA SvrSendCounts ==
    ASSUME IInv, AllCounted, NEW s \in Servers, SvrSend(s)
    PROVE  AllCounted'
<1>1. PICK t \in Traffic :
        /\ sent' = Append(sent, t)
        /\ clusterQ' = [clusterQ EXCEPT ![ClusterOf[s]] = Append(@, Len(sent) + 1)]
  BY DEF SvrSend
<1>2. PICK c \in Clusters : c = ClusterOf[s]
  BY RouteAssumption
<1>3. /\ sent \in Seq(Pkts) /\ clusterQ \in [Clusters -> Seq(Nat)] /\ t \in Pkts
      /\ Routed(sent, clusterQ, job, wire, Boxes)
  BY DEF IInv, Routed, PlacesType, Pkts
<1>4. PICK n \in Nat : n = Len(sent) + 1
  BY <1>3
<1>5. IsNext(sent, sent', n)
  BY <1>1, <1>3, <1>4, NextIs
<1>6. QueueMore(clusterQ, clusterQ', c, n)
  <2>1. PICK q \in Seq(Nat) : q = clusterQ[c]
    BY <1>3
  <2>2. PICK q2 : q2 = Append(q, n)
    OBVIOUS
  <2>3. DOMAIN q2 = DOMAIN q \cup {Len(q) + 1} /\ q2[Len(q) + 1] = n /\ \A x \in DOMAIN q : q2[x] = q[x]
    BY <2>2, AppendIs
  <2>4. clusterQ'[c] = q2 /\ \A e \in Clusters : e # c => clusterQ'[e] = clusterQ[e]
    BY <1>1, <1>2, <1>3, <1>4, <2>1, <2>2
  <2>5. \A id : (\E x \in DOMAIN q2 : q2[x] = id) <=> (\E x \in DOMAIN q : q[x] = id) \/ id = n
    BY <2>3
  <2>6. \A id : Waits(clusterQ', c, id) <=> Waits(clusterQ, c, id) \/ id = n
    BY <2>1, <2>4, <2>5 DEF Waits
  <2>7. \A e \in Clusters : \A id : e # c => (Waits(clusterQ', e, id) <=> Waits(clusterQ, e, id))
    BY <2>4 DEF Waits
  <2> QED BY <2>6, <2>7 DEF QueueMore
<1>7. Counted(sent', clusterQ', job, wire, Boxes, lost)
  BY <1>3, <1>5, <1>6, SendCounts DEF AllCounted
<1>8. Boxes' = Boxes /\ UNCHANGED <<job, wire, lost>>
  BY DEF SvrSend, Boxes
<1> QED BY <1>7, <1>8 DEF AllCounted

\* A bus starts a heartbeat.
LEMMA HeartBeatCounts ==
    ASSUME IInv, AllCounted, NEW c \in Clusters, SendHeartBeetMessage(c)
    PROVE  AllCounted'
<1>1. PICK hb : hb = [src |-> c, type |-> "Heartbeat", dst |-> c]
  OBVIOUS
<1>2. hb \in Pkts /\ hb.type \in ToBuses
  BY <1>1 DEF Pkts, ToBuses
<1>3. /\ sent \in Seq(Pkts) /\ job \in [Clusters -> [id : Nat, todo : Seq(Dsts)]]
      /\ Routed(sent, clusterQ, job, wire, Boxes)
  BY DEF IInv, Routed, PlacesType
<1>4. PICK n \in Nat : n = Len(sent) + 1
  BY <1>3
<1>5. sent' = Append(sent, hb) /\ Work(c, n, Others(c)) /\ job[c] = NoJob
  BY <1>1, <1>4 DEF SendHeartBeetMessage, Idle
<1>6. IsNext(sent, sent', n) /\ sent'[n] = hb
  BY <1>2, <1>3, <1>4, <1>5, NextIs
<1>7. ~ForServers(sent', n)
  BY <1>2, <1>6 DEF ForServers
<1>8. PICK j2 : j2 = Left(n, Others(c))
  OBVIOUS
<1>9. j2 = NoJob \/ j2.id = n
  BY <1>8 DEF Left
<1>10. job'[c] = j2 /\ \A e \in Clusters : e # c => job'[e] = job[e]
  BY <1>3, <1>5, <1>8 DEF Work, Left
<1>11. PICK jb2 : jb2 = job'
  OBVIOUS
<1>12. Counted(sent', clusterQ, jb2, wire, Boxes, lost)
  <2>1. jb2[c] = NoJob \/ jb2[c].id = n
    BY <1>9, <1>10, <1>11
  <2>2. \A e \in Clusters : e # c => jb2[e] = job[e]
    BY <1>10, <1>11
  <2> QED BY <1>3, <1>5, <1>6, <1>7, <2>1, <2>2, BeatCounts DEF AllCounted
<1>13. Boxes' = Boxes /\ UNCHANGED <<clusterQ, wire, lost>>
  BY DEF SendHeartBeetMessage, Boxes
<1> QED BY <1>11, <1>12, <1>13 DEF AllCounted

\* A bus takes a packet and draws up its list.
LEMMA TakeMsgCounts ==
    ASSUME IInv, AllCounted, NEW c \in Clusters, TakeMsg(c)
    PROVE  AllCounted'
<1>1. /\ sent \in Seq(Pkts) /\ job \in [Clusters -> [id : Nat, todo : Seq(Dsts)]]
      /\ clusterQ \in [Clusters -> Seq(Nat)]
      /\ Routed(sent, clusterQ, job, wire, Boxes)
  BY DEF IInv, Routed, PlacesType
<1>2. PICK q \in Seq(Nat) : q = clusterQ[c]
  BY <1>1
<1>3. q # << >> /\ job[c] = NoJob /\ clusterQ' = [clusterQ EXCEPT ![c] = Tail(@)]
  BY <1>2 DEF TakeMsg, Idle
<1>4. PICK id : id = Head(q)
  OBVIOUS
<1>5. PICK n \in Nat : n = Len(q) /\ n # 0
  BY <1>3
<1>6. PICK q2 : q2 = Tail(q)
  OBVIOUS
<1>7. /\ DOMAIN q = 1..n /\ DOMAIN q2 = 1..n - 1 /\ id = q[1] /\ 1 \in 1..n
      /\ \A x \in 1..n - 1 : q2[x] = q[x + 1]
  BY <1>3, <1>4, <1>5, <1>6
<1>8. QueueOK(sent, q)
  BY <1>1, <1>2 DEF Routed, QueueInv
<1>9. id \in DOMAIN sent /\ Waits(clusterQ, c, id)
  BY <1>2, <1>7, <1>8 DEF QueueOK, Waits
<1>10. \A x \in 1..n : x # 1 => q[x] # id
  <2>1. \A x \in 1..n : x # 1 => 1 < x
    BY <1>5
  <2>2. \A x \in 1..n : x # 1 => id < q[x]
    BY <1>7, <1>8, <2>1 DEF QueueOK
  <2>3. id \in Nat
    BY <1>1, <1>9
  <2> QED BY <2>2, <2>3
<1>11. \A y : (\E x \in 1..n - 1 : q2[x] = y) <=> (\E x \in 1..n : q[x] = y) /\ y # id
  <2>1. \A x \in 1..n - 1 : x + 1 \in 1..n /\ x + 1 # 1
    BY <1>5
  <2>2. \A x \in 1..n : x # 1 => x - 1 \in 1..n - 1 /\ (x - 1) + 1 = x
    BY <1>5
  <2>3. \A x \in 1..n : x # 1 => x - 1 \in 1..n - 1 /\ q2[x - 1] = q[x]
    BY <1>7, <2>2
  <2> QED BY <1>7, <1>10, <2>1, <2>3
<1>12. QueueLess(clusterQ, clusterQ', c, id)
  <2>1. clusterQ'[c] = q2 /\ \A e \in Clusters : e # c => clusterQ'[e] = clusterQ[e]
    BY <1>1, <1>2, <1>3, <1>6
  <2>2. \A y : Waits(clusterQ', c, y) <=> Waits(clusterQ, c, y) /\ y # id
    BY <1>2, <1>7, <1>11, <2>1 DEF Waits
  <2>3. \A e \in Clusters : \A y : e # c => (Waits(clusterQ', e, y) <=> Waits(clusterQ, e, y))
    BY <2>1 DEF Waits
  <2> QED BY <2>2, <2>3 DEF QueueLess
<1>13. PICK todo \in DstLists(c, sent[id]) : Work(c, id, todo)
  BY <1>2, <1>4 DEF TakeMsg
<1>14. PICK jb2 : jb2 = job'
  OBVIOUS
<1>15. Begins(job, jb2, c, id, todo)
  <2>1. PICK j2 : j2 = Left(id, todo)
    OBVIOUS
  <2>2. jb2[c] = j2 /\ \A e \in Clusters : e # c => jb2[e] = job[e]
    BY <1>1, <1>13, <1>14, <2>1 DEF Work, Left
  <2>3. (j2 = NoJob /\ Range1(todo) = {}) \/ (j2.id = id /\ j2.todo = todo)
    <3>1. CASE todo = << >>
      BY <2>1, <3>1 DEF Left, Range1
    <3>2. CASE todo # << >>
      BY <2>1, <3>2 DEF Left
    <3> QED BY <3>1, <3>2
  <2> QED BY <1>3, <2>2, <2>3 DEF Begins
<1>16. ForServers(sent, id) => Serves(sent[id], {s \in Servers : s \in Range1(todo)})
  BY <1>13, DstListsServe DEF ForServers
<1>17. Counted(sent, clusterQ', jb2, wire, Boxes, lost)
  BY <1>1, <1>9, <1>12, <1>15, <1>16, TakeCounts DEF AllCounted
<1>18. sent' = sent /\ wire' = wire /\ Boxes' = Boxes /\ lost' = lost
  BY DEF TakeMsg, Boxes
<1> QED BY <1>14, <1>17, <1>18 DEF AllCounted

\* Connections are only added by a reconnect, which follows a break.
LEMMA WireLenKept ==
    ASSUME IInv, WireLen, [Next]_vars
    PROVE  WireLen'
<1> USE DEF IInv, TypeInv
<1>t. /\ wire \in [Clusters -> [Clusters -> Seq(Seq(WireCopy))]]
      /\ link \in [Clusters -> [Clusters -> {"up", "down", "dead"}]] /\ breaks \in Nat
  BY RouteAssumption DEF Routed, PlacesType
<1>1. ASSUME wire' = wire, breaks' = breaks, link' = link
      PROVE  WireLen'
  BY <1>1 DEF WireLen
<1>2. ASSUME NEW c \in Clusters, NEW d \in Clusters, wire' = wire, breaks' = breaks,
             link[c][d] # "up", link' = [link EXCEPT ![c][d] = "down"]
      PROVE  WireLen'
  <2>1. \A x, y \in Clusters : link'[x][y] = "up" <=> link[x][y] = "up"
    BY <1>t, <1>2
  <2> QED BY <1>2, <2>1 DEF WireLen
<1>3. ASSUME NEW c \in Clusters, NEW d \in Clusters, NEW i \in DOMAIN wire[c][d], NEW w2 \in Seq(WireCopy),
             wire' = [wire EXCEPT ![c][d][i] = w2]
      PROVE  \A x, y \in Clusters : Len(wire'[x][y]) = Len(wire[x][y])
  <2>1. Changed(wire, c, d, i, w2, wire')
    BY <1>t, <1>3, WireChange
  <2>2. /\ \A x, y \in Clusters : DOMAIN wire'[x][y] = DOMAIN wire[x][y]
        /\ wire' \in [Clusters -> [Clusters -> Seq(Seq(WireCopy))]]
    BY <2>1 DEF Changed
  <2>3. ASSUME NEW x \in Clusters, NEW y \in Clusters
        PROVE  Len(wire'[x][y]) = Len(wire[x][y])
    <3>1. PICK u \in Seq(Seq(WireCopy)) : u = wire'[x][y]
      BY <2>2, SMTT(30)
    <3>2. PICK v \in Seq(Seq(WireCopy)) : v = wire[x][y]
      BY <1>t
    <3>3. DOMAIN u = DOMAIN v
      BY <2>2, <3>1, <3>2
    <3>4. Len(u) = Len(v)
      BY <3>3
    <3> QED BY <3>1, <3>2, <3>4
  <2> QED BY <2>3
<1>4. ASSUME NEW c \in Clusters, Forward(c) PROVE WireLen'
  <2>1. CASE ForwardUnknown(c)
    BY <1>1, <2>1 DEF ForwardUnknown
  <2>2. CASE ForwardLocal(c)
    BY <1>1, <2>2 DEF ForwardLocal
  <2>3. CASE ForwardNoLink(c)
    BY <1>1, <2>3 DEF ForwardNoLink
  <2>4. CASE ForwardSwallowed(c)
    BY <1>1, <2>4 DEF ForwardSwallowed
  <2>5. CASE ForwardFails(c)
    <3>1. Via(sent[job[c].id], Head(job[c].todo)) \in Clusters
      BY <2>5, ViaIs DEF ForwardFails
    <3>2. PICK d \in Clusters : link[c][d] = "dead" /\ link' = [link EXCEPT ![c][d] = "down"]
      BY <2>5, <3>1 DEF ForwardFails
    <3>3. wire' = wire /\ breaks' = breaks
      BY <2>5 DEF ForwardFails
    <3> QED BY <1>2, <3>2, <3>3
  <2>6. CASE ForwardWrite(c)
    <3>1. PICK d \in Clusters : d = Via(sent[job[c].id], Head(job[c].todo))
      BY <2>6, ViaIs DEF ForwardWrite
    <3>2. PICK k : k = [id |-> job[c].id, dst |-> Head(job[c].todo)]
      OBVIOUS
    <3>3. k \in WireCopy
      <4>1. job[c].id \in Nat /\ Head(job[c].todo) \in Dsts
        BY <2>6, JobIs DEF ForwardWrite, Remote
      <4> QED BY <3>2, <4>1 DEF WireCopy
    <3>4. /\ link[c][d] = "up" /\ breaks' = breaks /\ link' = link
          /\ wire' = [wire EXCEPT ![c][d][LastOf(c, d)] = Append(@, k)]
      BY <2>6, <3>1, <3>2 DEF ForwardWrite
    <3>5. PICK i : i = LastOf(c, d)
      OBVIOUS
    <3>6. wire[c][d] \in Seq(Seq(WireCopy)) /\ i \in DOMAIN wire[c][d]
      <4>1. wire[c][d] \in Seq(Seq(WireCopy)) /\ wire[c][d] # << >>
        BY <1>t, <3>4
      <4> QED BY <3>5, <4>1 DEF LastOf
    <3>7. wire[c][d][i] \in Seq(WireCopy)
      BY <3>6
    <3>8. PICK w2 \in Seq(WireCopy) : w2 = Append(wire[c][d][i], k)
      BY <3>3, <3>7, AppendIs
    <3>9. wire' = [wire EXCEPT ![c][d][i] = w2]
      BY <3>4, <3>5, <3>8
    <3>10. \A x, y \in Clusters : Len(wire'[x][y]) = Len(wire[x][y])
      BY <1>3, <3>6, <3>9
    <3> QED BY <3>4, <3>10 DEF WireLen
  <2> QED BY <1>4, <2>1, <2>2, <2>3, <2>4, <2>5, <2>6 DEF Forward
<1>5. ASSUME NEW c \in Clusters, NEW d \in Clusters, NEW i \in DOMAIN wire[c][d], ProcessPkg(d, c, i)
      PROVE  WireLen'
  <2>1. wire[c][d] \in Seq(Seq(WireCopy))
    BY <1>t
  <2>2. wire[c][d][i] \in Seq(WireCopy) /\ wire[c][d][i] # << >>
    BY <1>5, <2>1 DEF ProcessPkg
  <2>3. PICK w2 \in Seq(WireCopy) : w2 = Tail(wire[c][d][i])
    BY <2>2, TailIs
  <2>4. wire' = [wire EXCEPT ![c][d][i] = w2] /\ breaks' = breaks /\ link' = link
    BY <1>5, <2>3 DEF ProcessPkg
  <2>5. \A x, y \in Clusters : Len(wire'[x][y]) = Len(wire[x][y])
    BY <1>3, <2>4
  <2> QED BY <2>4, <2>5 DEF WireLen
<1>6. ASSUME NEW c \in Clusters, NEW d \in Clusters, LinkBreak(c, d)
      PROVE  WireLen'
  <2>1. /\ link[c][d] = "up" /\ breaks' = breaks + 1 /\ link' = [link EXCEPT ![c][d] = "dead"]
    BY <1>6 DEF LinkBreak
  <2>2. PICK i : i = LastOf(c, d)
    OBVIOUS
  <2>3. wire[c][d] \in Seq(Seq(WireCopy)) /\ i \in DOMAIN wire[c][d]
    <3>1. wire[c][d] \in Seq(Seq(WireCopy)) /\ wire[c][d] # << >>
      BY <1>t, <2>1
    <3> QED BY <2>2, <3>1 DEF LastOf
  <2>4. PICK w \in Seq(WireCopy) : w = wire[c][d][i]
    BY <2>3
  <2>5. PICK k \in 0..Len(w) : wire' = [wire EXCEPT ![c][d][i] = SubSeq(w, 1, k)]
    BY <1>6, <2>2, <2>4 DEF LinkBreak, Current
  <2>6. PICK w2 \in Seq(WireCopy) : w2 = SubSeq(w, 1, k)
    BY PrefixIs
  <2>7. \A x, y \in Clusters : Len(wire'[x][y]) = Len(wire[x][y])
    BY <1>3, <2>3, <2>5, <2>6
  <2>8. \A x, y \in Clusters : ~(x = c /\ y = d) => link'[x][y] = link[x][y]
    BY <1>t, <2>1
  <2>9. link'[c][d] = "dead"
    BY <1>t, <2>1
  <2>10. ASSUME NEW x \in Clusters, NEW y \in Clusters
         PROVE  Len(wire'[x][y]) <= breaks' + (IF link'[x][y] = "up" THEN 1 ELSE 0)
    <3>1. Len(wire[x][y]) \in Nat
      BY <1>t
    <3>2. Len(wire[x][y]) <= breaks + (IF link[x][y] = "up" THEN 1 ELSE 0)
      BY DEF WireLen
    <3>3. CASE x = c /\ y = d
      BY <1>t, <2>1, <2>7, <2>9, <3>1, <3>2, <3>3
    <3>4. CASE ~(x = c /\ y = d)
      <4>1. PICK m \in Nat : m = breaks + (IF link[x][y] = "up" THEN 1 ELSE 0)
        BY <1>t, SMTT(30)
      <4>2. breaks' + (IF link'[x][y] = "up" THEN 1 ELSE 0) = m + 1
        BY <1>t, <2>1, <2>8, <3>4, <4>1, SMTT(30)
      <4>3. Len(wire'[x][y]) = Len(wire[x][y])
        BY <2>7
      <4> QED BY <3>1, <3>2, <4>1, <4>2, <4>3
    <3> QED BY <3>3, <3>4
  <2> QED BY <2>10 DEF WireLen
<1>7. ASSUME NEW c \in Clusters, NEW d \in Clusters, Reconnect(c, d)
      PROVE  WireLen'
  <2>1. /\ link[c][d] = "down" /\ breaks' = breaks /\ link' = [link EXCEPT ![c][d] = "up"]
        /\ wire' = [wire EXCEPT ![c][d] = Append(@, << >>)]
    BY <1>7 DEF Reconnect
  <2>2. \A x, y \in Clusters : ~(x = c /\ y = d) => link'[x][y] = link[x][y] /\ wire'[x][y] = wire[x][y]
    BY <1>t, <2>1
  <2>3. link'[c][d] = "up" /\ wire'[c][d] = Append(wire[c][d], << >>)
    BY <1>t, <2>1
  <2>4. wire[c][d] \in Seq(Seq(WireCopy)) /\ << >> \in Seq(WireCopy)
    BY <1>t
  <2>5. Len(wire'[c][d]) = Len(wire[c][d]) + 1 /\ Len(wire[c][d]) \in Nat
    BY <2>3, <2>4, AppendIs
  <2>6. ASSUME NEW x \in Clusters, NEW y \in Clusters
        PROVE  Len(wire'[x][y]) <= breaks' + (IF link'[x][y] = "up" THEN 1 ELSE 0)
    <3>1. Len(wire[x][y]) \in Nat
      BY <1>t
    <3>2. Len(wire[x][y]) <= breaks + (IF link[x][y] = "up" THEN 1 ELSE 0)
      BY DEF WireLen
    <3>3. CASE x = c /\ y = d
      BY <1>t, <2>1, <2>3, <2>5, <3>2, <3>3
    <3>4. CASE ~(x = c /\ y = d)
      BY <2>1, <2>2, <3>2, <3>4
    <3> QED BY <3>3, <3>4
  <2> QED BY <2>6 DEF WireLen
<1>8. ASSUME NEW c \in Clusters, NEW d \in Clusters, EpollErr(c, d) PROVE WireLen'
  BY <1>2, <1>8 DEF EpollErr
<1>9. ASSUME NEW c \in Clusters, SendHeartBeetMessage(c) \/ TakeMsg(c) PROVE WireLen'
  BY <1>1, <1>9 DEF SendHeartBeetMessage, TakeMsg
<1>10. ASSUME NEW s \in Servers, SvrSend(s) \/ SvrRecv(s) PROVE WireLen'
  BY <1>1, <1>10 DEF SvrSend, SvrRecv
<1>11. CASE UNCHANGED vars
  BY <1>1, <1>11 DEF vars
<1> QED BY <1>4, <1>5, <1>6, <1>7, <1>8, <1>9, <1>10, <1>11 DEF Next

\* The first state.
LEMMA InitCounts == Init => CInv
<1> SUFFICES ASSUME Init PROVE CInv
  OBVIOUS
<1>1. /\ \A c \in Clusters : clusterQ[c] = << >> /\ job[c] = NoJob
      /\ \A c, d \in Clusters : wire[c][d] = << >>
      /\ sent = << >> /\ lost = {} /\ breaks = 0
  BY DEF Init
<1>2. Boxes = [s \in Servers |-> << >>]
  BY DEF Init, Boxes
<1>3. \A s \in Servers : Boxes[s] = << >>
  BY <1>2
<1>4. /\ \A c \in Clusters : \A id : ~Waits(clusterQ, c, id)
      /\ \A s \in Servers : DOMAIN Boxes[s] = {}
      /\ \A c, d \in Clusters : DOMAIN wire[c][d] = {}
      /\ DOMAIN sent = {}
  BY <1>1, <1>3 DEF Waits
<1>5. LostType(sent, lost)
  BY <1>1 DEF LostType
<1>6. QueuesApart(clusterQ) /\ WaitInv(clusterQ, job, wire, Boxes, lost)
  BY <1>4 DEF QueuesApart, WaitInv, Queued
<1>7. JobOnce(sent, job)
  BY <1>1 DEF JobOnce
<1>8. WireOnce(sent, wire)
  BY <1>4 DEF WireOnce
<1>9. BoxOnce(Boxes)
  BY <1>4 DEF BoxOnce
<1>10. ApartInv(sent, job, wire, Boxes, lost) /\ ServedInv(sent, clusterQ, job, wire, Boxes, lost)
  BY <1>4 DEF ApartInv, ServedInv
<1>11. WireLen
  BY <1>1 DEF WireLen
<1> QED BY <1>5, <1>6, <1>7, <1>8, <1>9, <1>10, <1>11 DEF CInv, Counted

\* Every step.
LEMMA NextCounts == IInv /\ CInv /\ [Next]_vars => CInv'
<1> SUFFICES ASSUME IInv, AllCounted, WireLen, [Next]_vars PROVE AllCounted' /\ WireLen'
  BY DEF CInv, AllCounted
<1>1. WireLen'
  BY WireLenKept
<1>2. CASE UNCHANGED vars
  <2>1. Boxes' = Boxes
    BY <1>2 DEF vars, Boxes
  <2>2. AllCounted'
    BY <1>2, <2>1 DEF AllCounted, vars
  <2> QED BY <1>1, <2>2
<1>3. ASSUME NEW s \in Servers, SvrSend(s) PROVE AllCounted'
  BY <1>3, SvrSendCounts
<1>4. ASSUME NEW s \in Servers, SvrRecv(s) PROVE AllCounted'
  BY <1>4, SvrRecvCounts
<1>5. ASSUME NEW c \in Clusters, SendHeartBeetMessage(c) PROVE AllCounted'
  BY <1>5, HeartBeatCounts
<1>6. ASSUME NEW c \in Clusters, TakeMsg(c) PROVE AllCounted'
  BY <1>6, TakeMsgCounts
<1>7. ASSUME NEW c \in Clusters, Forward(c) PROVE AllCounted'
  BY <1>7, GiveUpRoundsCount, ForwardLocalCounts, ForwardWriteCounts DEF Forward
<1>8. ASSUME NEW c \in Clusters, NEW d \in Clusters, LinkBreak(c, d) PROVE AllCounted'
  BY <1>8, LinkBreakCounts
<1>9. ASSUME NEW c \in Clusters, NEW d \in Clusters, EpollErr(c, d) PROVE AllCounted'
  <2>1. Boxes' = Boxes /\ UNCHANGED <<sent, clusterQ, job, wire, lost>>
    BY <1>9 DEF EpollErr, Boxes
  <2> QED BY <2>1 DEF AllCounted
<1>10. ASSUME NEW c \in Clusters, NEW d \in Clusters, Reconnect(c, d) PROVE AllCounted'
  BY <1>10, ReconnectCounts
<1>11. ASSUME NEW c \in Clusters, NEW d \in Clusters, NEW i \in DOMAIN wire[c][d], ProcessPkg(d, c, i)
       PROVE  AllCounted'
  BY <1>11, ProcessPkgCounts
<1> QED BY <1>1, <1>2, <1>3, <1>4, <1>5, <1>6, <1>7, <1>8, <1>9, <1>10, <1>11 DEF Next

\* It holds always.
LEMMA CInvAlways == Spec => []CInv
<1>1. Init => CInv
  BY InitCounts
<1>2. IInv /\ CInv /\ [Next]_vars => CInv'
  BY NextCounts
<1> QED BY <1>1, <1>2, IInvAlways, PTL DEF Spec

-----------------------------------------------------------------------------
(* The places of Copies *)

QueuePart(id, s) == {<<"queue", k>> : k \in {k \in DOMAIN svrQ[s] : svrQ[s][k].id = id}}
GotPart(id, s) == {<<"got", k>> : k \in {k \in DOMAIN got[s] : got[s][k].id = id}}
WirePart(id, s) ==
    UNION {{<<"wire", x, k>> : k \in {k \in DOMAIN wire[x[1]][x[2]][x[3]] :
                                    wire[x[1]][x[2]][x[3]][k] = [id |-> id, dst |-> s]}} :
             x \in {y \in Clusters \X Clusters \X (1..MaxBreaks + 1) :
                      y[3] \in DOMAIN wire[y[1]][y[2]]}}
TodoPart(id, s) ==
    UNION {{<<"todo", c, k>> : k \in {k \in DOMAIN job[c].todo :
                                        job[c].id = id /\ job[c].todo[k] = s}} : c \in Clusters}
LostPart(id, s) == IF <<id, s>> \in lost THEN {<<"lost">>} ELSE {}

\* S has one element.
One(S) == \E v : S = {v}

\* Together they are Copies.
LEMMA CopiesAre ==
    ASSUME NEW id, NEW s
    PROVE  Copies(id, s) = QueuePart(id, s) \cup GotPart(id, s) \cup WirePart(id, s)
                             \cup TodoPart(id, s) \cup LostPart(id, s)
BY DEF Copies, QueuePart, GotPart, WirePart, TodoPart, LostPart

\* A copy on a connection is in one place.
LEMMA WirePartIs ==
    ASSUME IInv, WireLen, WireOnce(sent, wire), NEW id, NEW s
    PROVE  /\ ~OnWire(wire, id, s) => WirePart(id, s) = {}
           /\ OnWire(wire, id, s) /\ ForServers(sent, id) => One(WirePart(id, s))
<1>1. /\ wire \in [Clusters -> [Clusters -> Seq(Seq(WireCopy))]]
      /\ breaks \in Nat /\ MaxBreaks \in Nat /\ breaks <= MaxBreaks
  BY RouteAssumption DEF IInv, TypeInv, Routed, PlacesType
<1>2. ASSUME NEW v \in WirePart(id, s)
      PROVE  \E e, f, j, a : /\ At(wire, e, f, j, a) /\ Val(wire, e, f, j, a) = [id |-> id, dst |-> s]
                             /\ v = <<"wire", <<e, f, j>>, a>>
  <2>1. PICK x \in Clusters \X Clusters \X (1..MaxBreaks + 1) :
          /\ x[3] \in DOMAIN wire[x[1]][x[2]]
          /\ \E k \in DOMAIN wire[x[1]][x[2]][x[3]] :
                wire[x[1]][x[2]][x[3]][k] = [id |-> id, dst |-> s] /\ v = <<"wire", x, k>>
    BY <1>2 DEF WirePart
  <2>2. PICK k \in DOMAIN wire[x[1]][x[2]][x[3]] :
          wire[x[1]][x[2]][x[3]][k] = [id |-> id, dst |-> s] /\ v = <<"wire", x, k>>
    BY <2>1
  <2>3. x = <<x[1], x[2], x[3]>> /\ x[1] \in Clusters /\ x[2] \in Clusters
    OBVIOUS
  <2>4. PICK e, f, j : e = x[1] /\ f = x[2] /\ j = x[3]
    OBVIOUS
  <2>5. /\ At(wire, e, f, j, k) /\ Val(wire, e, f, j, k) = [id |-> id, dst |-> s]
        /\ v = <<"wire", <<e, f, j>>, k>>
    BY <2>1, <2>2, <2>3, <2>4 DEF At, Val
  <2> QED BY <2>5
<1>3. ASSUME NEW e, NEW f, NEW j, NEW a, At(wire, e, f, j, a),
             Val(wire, e, f, j, a) = [id |-> id, dst |-> s]
      PROVE  <<"wire", <<e, f, j>>, a>> \in WirePart(id, s)
  <2>1. e \in Clusters /\ f \in Clusters /\ j \in DOMAIN wire[e][f] /\ a \in DOMAIN wire[e][f][j]
    BY <1>3 DEF At
  <2>2. j \in 1..MaxBreaks + 1
    <3>1. PICK u \in Seq(Seq(WireCopy)) : u = wire[e][f]
      BY <1>1, <2>1
    <3>2. Len(u) \in Nat /\ j \in 1..Len(u)
      BY <2>1, <3>1
    <3>3. Len(u) <= breaks + (IF link[e][f] = "up" THEN 1 ELSE 0)
      BY <2>1, <3>1 DEF WireLen
    <3>4. Len(u) <= breaks + 1
      BY <1>1, <3>2, <3>3
    <3> QED BY <1>1, <3>2, <3>4
  <2>3. PICK x : x = <<e, f, j>>
    OBVIOUS
  <2>4. /\ x \in Clusters \X Clusters \X (1..MaxBreaks + 1)
        /\ x[1] = e /\ x[2] = f /\ x[3] = j
    BY <2>1, <2>2, <2>3
  <2>5. <<"wire", x, a>> \in WirePart(id, s)
    BY <1>3, <2>1, <2>4 DEF WirePart, Val
  <2> QED BY <2>3, <2>5
<1>4. ASSUME ~OnWire(wire, id, s) PROVE WirePart(id, s) = {}
  <2> SUFFICES ASSUME NEW v \in WirePart(id, s) PROVE FALSE
    OBVIOUS
  <2>1. PICK e, f, j, a : At(wire, e, f, j, a) /\ Val(wire, e, f, j, a) = [id |-> id, dst |-> s]
    BY <1>2
  <2>2. Val(wire, e, f, j, a).id = id /\ Val(wire, e, f, j, a).dst = s
    BY <2>1
  <2> QED BY <1>4, <2>1, <2>2, OnWireIs
<1>5. ASSUME OnWire(wire, id, s), ForServers(sent, id) PROVE One(WirePart(id, s))
  <2>1. PICK e, f, j, a : /\ At(wire, e, f, j, a)
                          /\ Val(wire, e, f, j, a).id = id /\ Val(wire, e, f, j, a).dst = s
    BY <1>5, OnWireIs
  <2>2. Val(wire, e, f, j, a) = [id |-> id, dst |-> s]
    <3>1. PICK x \in WireCopy : x = Val(wire, e, f, j, a)
      BY <1>1, <2>1, ValType
    <3>2. x = [id |-> x.id, dst |-> x.dst]
      BY DEF WireCopy
    <3> QED BY <2>1, <3>1, <3>2
  <2>3. PICK v0 : v0 = <<"wire", <<e, f, j>>, a>>
    OBVIOUS
  <2>4. v0 \in WirePart(id, s)
    BY <1>3, <2>1, <2>2, <2>3
  <2>5. ASSUME NEW v \in WirePart(id, s) PROVE v = v0
    <3>1. PICK g, h, l, b : /\ At(wire, g, h, l, b) /\ Val(wire, g, h, l, b) = [id |-> id, dst |-> s]
                            /\ v = <<"wire", <<g, h, l>>, b>>
      BY <1>2
    <3>2. Same(sent, wire, e, f, j, a, g, h, l, b)
      BY <1>5, <2>1, <2>2, <3>1 DEF Same
    <3>3. Once(sent, wire)
      BY WireOnceIs
    <3>4. e = g /\ f = h /\ j = l /\ a = b
      BY <3>2, <3>3 DEF Once
    <3> QED BY <2>3, <3>1, <3>4
  <2>6. WirePart(id, s) = {v0}
    BY <2>4, <2>5
  <2> QED BY <2>6 DEF One
<1> QED BY <1>4, <1>5

\* So is one still to be sent.
LEMMA TodoPartIs ==
    ASSUME IInv, JobOnce(sent, job), NEW id, NEW s
    PROVE  /\ ~InTodo(job, id, s) => TodoPart(id, s) = {}
           /\ InTodo(job, id, s) /\ ForServers(sent, id) => One(TodoPart(id, s))
<1>1. \A v : v \in TodoPart(id, s) <=>
        \E c \in Clusters : \E k \in DOMAIN job[c].todo :
           job[c].id = id /\ job[c].todo[k] = s /\ v = <<"todo", c, k>>
  BY DEF TodoPart
<1>2. ASSUME ~InTodo(job, id, s) PROVE TodoPart(id, s) = {}
  BY <1>1, <1>2 DEF InTodo
<1>3. ASSUME InTodo(job, id, s), ForServers(sent, id) PROVE One(TodoPart(id, s))
  <2>1. PICK c \in Clusters : job[c].id = id /\ \E x \in DOMAIN job[c].todo : job[c].todo[x] = s
    BY <1>3 DEF InTodo
  <2>2. PICK x \in DOMAIN job[c].todo : job[c].todo[x] = s
    BY <2>1
  <2>3. job[c] # NoJob
    BY <2>2 DEF NoJob
  <2>4. NoDup(job[c].todo)
    BY <1>3, <2>1, <2>3 DEF IInv, Routed, JobInv, JobOK
  <2>5. PICK v0 : v0 = <<"todo", c, x>>
    OBVIOUS
  <2>6. v0 \in TodoPart(id, s)
    BY <1>1, <2>1, <2>2, <2>5
  <2>7. ASSUME NEW v \in TodoPart(id, s) PROVE v = v0
    <3>1. PICK e \in Clusters : \E k \in DOMAIN job[e].todo :
             job[e].id = id /\ job[e].todo[k] = s /\ v = <<"todo", e, k>>
      BY <1>1
    <3>2. e = c
      BY <1>3, <2>1, <2>3, <3>1 DEF JobOnce
    <3>3. PICK k \in DOMAIN job[c].todo : job[c].todo[k] = s /\ v = <<"todo", c, k>>
      BY <3>1, <3>2
    <3>4. k = x
      BY <2>2, <2>4, <3>3 DEF NoDup
    <3> QED BY <2>5, <3>3, <3>4
  <2>8. TodoPart(id, s) = {v0}
    BY <2>6, <2>7
  <2> QED BY <2>8 DEF One
<1> QED BY <1>2, <1>3

\* So is one that is delivered.
LEMMA BoxPartIs ==
    ASSUME IInv, BoxOnce(Boxes), NEW id, NEW s \in Servers
    PROVE  /\ ~InBox(Boxes, id, s) => QueuePart(id, s) \cup GotPart(id, s) = {}
           /\ InBox(Boxes, id, s) => One(QueuePart(id, s) \cup GotPart(id, s))
<1>1. PICK g \in Seq(BoxCopy) : g = got[s]
  BY DEF IInv, TypeInv
<1>2. PICK q \in Seq(BoxCopy) : q = svrQ[s]
  BY DEF IInv, TypeInv
<1>3. PICK b : b = g \o q
  OBVIOUS
<1>4. b = Boxes[s]
  BY <1>1, <1>2, <1>3 DEF Boxes
<1>5. PICK n \in Nat, m \in Nat : n = Len(g) /\ m = Len(q)
  OBVIOUS
<1>6. /\ DOMAIN b = 1..n + m /\ DOMAIN g = 1..n /\ DOMAIN q = 1..m
      /\ \A k \in 1..n : b[k] = g[k]
      /\ \A k \in 1..m : b[n + k] = q[k]
  BY <1>3, <1>5
<1>7. PICK S : S = QueuePart(id, s) \cup GotPart(id, s)
  OBVIOUS
<1>8. \A v : v \in S <=> \/ \E k \in 1..m : q[k].id = id /\ v = <<"queue", k>>
                         \/ \E k \in 1..n : g[k].id = id /\ v = <<"got", k>>
  BY <1>1, <1>2, <1>6, <1>7 DEF QueuePart, GotPart
<1>9. /\ \A k \in 1..m : n + k \in 1..n + m /\ n + k \notin 1..n
      /\ \A k \in 1..n : k \in 1..n + m
      /\ \A k \in 1..n + m : k \notin 1..n => k - n \in 1..m /\ n + (k - n) = k
      /\ \A k, l \in 1..m : n + k = n + l => k = l
  BY <1>5
<1>10. ASSUME ~InBox(Boxes, id, s) PROVE S = {}
  <2>1. \A k \in 1..n + m : b[k].id # id
    BY <1>4, <1>6, <1>10 DEF InBox
  <2>2. \A k \in 1..n : g[k].id # id
    BY <1>6, <1>9, <2>1
  <2>3. \A k \in 1..m : q[k].id # id
    BY <1>6, <1>9, <2>1
  <2> QED BY <1>8, <2>2, <2>3
<1>11. ASSUME InBox(Boxes, id, s) PROVE One(S)
  <2>1. PICK k0 \in 1..n + m : b[k0].id = id
    BY <1>4, <1>6, <1>11 DEF InBox
  <2>2. \A k \in 1..n + m : b[k].id = id => k = k0
    BY <1>4, <1>6, <2>1 DEF BoxOnce
  <2>3. \A k \in 1..n : g[k].id = id => k = k0
    BY <1>6, <1>9, <2>2
  <2>4. \A k \in 1..m : q[k].id = id => n + k = k0
    BY <1>6, <1>9, <2>2
  <2>5. CASE k0 \in 1..n
    <3>1. g[k0].id = id
      BY <1>6, <2>1, <2>5
    <3>2. \A k \in 1..m : q[k].id # id
      BY <1>9, <2>4, <2>5
    <3>3. S = {<<"got", k0>>}
      BY <1>8, <2>3, <2>5, <3>1, <3>2
    <3> QED BY <3>3 DEF One
  <2>6. CASE k0 \notin 1..n
    <3>1. PICK l \in 1..m : n + l = k0
      BY <1>9, <2>6
    <3>2. q[l].id = id
      BY <1>6, <2>1, <3>1
    <3>3. \A k \in 1..n : g[k].id # id
      BY <2>3, <2>6
    <3>4. \A k \in 1..m : q[k].id = id => k = l
      BY <1>9, <2>4, <3>1
    <3>5. S = {<<"queue", l>>}
      BY <1>8, <3>2, <3>3, <3>4
    <3> QED BY <3>5 DEF One
  <2> QED BY <2>5, <2>6
<1> QED BY <1>7, <1>10, <1>11

\* A copy that is nowhere, and one that is somewhere.
LEMMA CopiesCount ==
    ASSUME IInv, CInv, NEW id \in DOMAIN sent, NEW s \in Servers
    PROVE  /\ ~Somewhere(job, wire, Boxes, lost, id, s) => Copies(id, s) = {}
           /\ Somewhere(job, wire, Boxes, lost, id, s) /\ ForServers(sent, id) => One(Copies(id, s))
<1>1. PICK B : B = QueuePart(id, s) \cup GotPart(id, s)
  OBVIOUS
<1>2. PICK W : W = WirePart(id, s)
  OBVIOUS
<1>3. PICK T : T = TodoPart(id, s)
  OBVIOUS
<1>4. PICK L : L = LostPart(id, s)
  OBVIOUS
<1>5. Copies(id, s) = B \cup W \cup T \cup L
  BY <1>1, <1>2, <1>3, <1>4, CopiesAre
<1>6. /\ WireLen /\ WireOnce(sent, wire) /\ JobOnce(sent, job) /\ BoxOnce(Boxes)
      /\ ForServers(sent, id) => Apart(job, wire, Boxes, lost, id, s)
  BY DEF CInv, Counted, ApartInv
<1>7. /\ ~InBox(Boxes, id, s) => B = {}
      /\ InBox(Boxes, id, s) => One(B)
  BY <1>1, <1>6, BoxPartIs
<1>8. /\ ~OnWire(wire, id, s) => W = {}
      /\ OnWire(wire, id, s) /\ ForServers(sent, id) => One(W)
  BY <1>2, <1>6, WirePartIs
<1>9. /\ ~InTodo(job, id, s) => T = {}
      /\ InTodo(job, id, s) /\ ForServers(sent, id) => One(T)
  BY <1>3, <1>6, TodoPartIs
<1>10. /\ ~IsLost(lost, id, s) => L = {}
       /\ IsLost(lost, id, s) => One(L)
  BY <1>4 DEF IsLost, LostPart, One
<1>11. ASSUME ~Somewhere(job, wire, Boxes, lost, id, s)
       PROVE  Copies(id, s) = {}
  BY <1>5, <1>7, <1>8, <1>9, <1>10, <1>11 DEF Somewhere
<1>12. ASSUME Somewhere(job, wire, Boxes, lost, id, s), ForServers(sent, id)
       PROVE  One(Copies(id, s))
  <2>1. Apart(job, wire, Boxes, lost, id, s)
    BY <1>6, <1>12
  <2>2. CASE InTodo(job, id, s)
    <3>1. B = {} /\ W = {} /\ L = {} /\ One(T)
      BY <1>7, <1>8, <1>9, <1>10, <1>12, <2>1, <2>2 DEF Apart
    <3>2. Copies(id, s) = T
      BY <1>5, <3>1
    <3> QED BY <3>1, <3>2
  <2>3. CASE OnWire(wire, id, s)
    <3>1. B = {} /\ T = {} /\ L = {} /\ One(W)
      BY <1>7, <1>8, <1>9, <1>10, <1>12, <2>1, <2>3 DEF Apart
    <3>2. Copies(id, s) = W
      BY <1>5, <3>1
    <3> QED BY <3>1, <3>2
  <2>4. CASE InBox(Boxes, id, s)
    <3>1. T = {} /\ W = {} /\ L = {} /\ One(B)
      BY <1>7, <1>8, <1>9, <1>10, <1>12, <2>1, <2>4 DEF Apart
    <3>2. Copies(id, s) = B
      BY <1>5, <3>1
    <3> QED BY <3>1, <3>2
  <2>5. CASE IsLost(lost, id, s)
    <3>1. T = {} /\ W = {} /\ B = {} /\ One(L)
      BY <1>7, <1>8, <1>9, <1>10, <1>12, <2>1, <2>5 DEF Apart
    <3>2. Copies(id, s) = L
      BY <1>5, <3>1
    <3> QED BY <3>1, <3>2
  <2> QED BY <1>12, <2>2, <2>3, <2>4, <2>5 DEF Somewhere
<1> QED BY <1>11, <1>12

\* The number of elements of such a set.
LEMMA OneIs ==
    ASSUME NEW S, One(S)
    PROVE  Cardinality(S) = 1
BY FS_Singleton DEF One

\* Every packet is accounted for: once a bus has taken it from the queue, each
\* server it is meant for has exactly one copy of it, delivered, on its way or
\* given up at one of the places where ForwardMsg, ProcessPkg or a broken
\* connection gives copies up; before that there is none.
THEOREM AccountedAlways == Spec => []Accounted
<1>1. IInv /\ CInv => Accounted
  <2> SUFFICES ASSUME IInv, CInv, NEW id \in DOMAIN sent, NEW p, p = sent[id]
               PROVE  /\ Waiting(id) => \A s \in Servers : Copies(id, s) = {}
                      /\ ~Waiting(id) /\ p.type \in ToAll =>
                            \A s \in Range1(Members(p)) : Cardinality(Copies(id, s)) = 1
                      /\ ~Waiting(id) /\ p.type \in RandomOne /\ Members(p) # <<>> =>
                            Cardinality(UNION {{s} \X Copies(id, s) : s \in Servers}) = 1
                      /\ ~Waiting(id) /\ p.type \in Unicast /\ p.dst \in Servers =>
                            Cardinality(Copies(id, p.dst)) = 1
    BY DEF Accounted
  <2>1. Waiting(id) <=> Queued(clusterQ, id)
    BY DEF Waiting, Queued, Waits, Range1
  <2>2. ASSUME Waiting(id), NEW s \in Servers PROVE Copies(id, s) = {}
    <3>1. ~Seen(job, wire, Boxes, lost, id)
      BY <2>1, <2>2 DEF CInv, Counted, WaitInv
    <3>2. ~Somewhere(job, wire, Boxes, lost, id, s)
      BY <3>1 DEF Seen, Somewhere, InTodo, Dsts
    <3> QED BY <3>2, CopiesCount
  <2>3. PICK H : H = Holders(job, wire, Boxes, lost, id)
    OBVIOUS
  <2>4. p.type \in ToAll \cup RandomOne \cup Unicast => ForServers(sent, id)
    BY DEF ForServers, ToAll, RandomOne, Unicast, ToBuses
  <2>5. ASSUME ~Waiting(id), ForServers(sent, id)
        PROVE  /\ Serves(p, H)
               /\ \A s \in H : s \in Servers /\ One(Copies(id, s))
               /\ \A s \in Servers : s \notin H => Copies(id, s) = {}
    <3>1. Serves(p, H)
      BY <2>1, <2>3, <2>5 DEF CInv, Counted, ServedInv
    <3>2. \A s \in Servers : s \in H <=> Somewhere(job, wire, Boxes, lost, id, s)
      BY <2>3 DEF Holders
    <3>3. H \subseteq Servers
      BY <2>3 DEF Holders
    <3> QED BY <2>5, <3>1, <3>2, <3>3, CopiesCount
  <2>6. ASSUME ~Waiting(id), p.type \in ToAll, NEW s \in Range1(Members(p))
        PROVE  Cardinality(Copies(id, s)) = 1
    <3>1. s \in H
      BY <2>4, <2>5, <2>6 DEF Serves
    <3> QED BY <2>4, <2>5, <2>6, <3>1, OneIs
  <2>7. ASSUME ~Waiting(id), p.type \in Unicast, p.dst \in Servers
        PROVE  Cardinality(Copies(id, p.dst)) = 1
    <3>1. p.dst \in H
      BY <2>4, <2>5, <2>7 DEF Serves
    <3> QED BY <2>4, <2>5, <2>7, <3>1, OneIs
  <2>8. ASSUME ~Waiting(id), p.type \in RandomOne, Members(p) # << >>
        PROVE  Cardinality(UNION {{s} \X Copies(id, s) : s \in Servers}) = 1
    <3>1. PICK s0 \in H : H = {s0}
      BY <2>4, <2>5, <2>8 DEF Serves
    <3>2. s0 \in Servers /\ One(Copies(id, s0))
      BY <2>4, <2>5, <2>8, <3>1
    <3>3. PICK v : Copies(id, s0) = {v}
      BY <3>2 DEF One
    <3>4. \A s \in Servers : s # s0 => Copies(id, s) = {}
      BY <2>4, <2>5, <2>8, <3>1
    <3>5. PICK U : U = UNION {{s} \X Copies(id, s) : s \in Servers}
      OBVIOUS
    <3>6. \A u : u \in U <=> \E s \in Servers : u \in {s} \X Copies(id, s)
      BY <3>5
    <3>7. \A u : u \in {s0} \X Copies(id, s0) <=> u = <<s0, v>>
      BY <3>3
    <3>8. \A s \in Servers : s # s0 => {s} \X Copies(id, s) = {}
      BY <3>4
    <3>9. U = {<<s0, v>>}
      BY <3>2, <3>6, <3>7, <3>8
    <3>10. One(U)
      BY <3>9 DEF One
    <3> QED BY <3>5, <3>10, OneIs
  <2> QED BY <2>2, <2>6, <2>7, <2>8
<1> QED BY <1>1, IInvAlways, CInvAlways, PTL
=============================================================================
