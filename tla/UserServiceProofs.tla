------------------------- MODULE UserServiceProofs -------------------------
(***************************************************************************)
(* Proofs about registration and friend requests, for every set of users,  *)
(* requests and processes, every table and queue size, and any number of   *)
(* faults.                                                                 *)
(*                                                                         *)
(* The properties of UserService are not inductive one by one.  FriendOnce *)
(* and OnePlace need that a request is in one place only (PlaceInv), since *)
(* a second copy of it would run the handler again; CopiesFaithful needs   *)
(* that the packets that carry a name are about the user who has it        *)
(* (PktInv), and that holds because INSERT accepts one row for a user id;  *)
(* RegisteredKept needs that a positive answer still on the bus was sent   *)
(* after the write was asked for (GoodPkt, Kept).  All of them need the    *)
(* types of what processes hold in hand (TypeInv).                         *)
(***************************************************************************)
EXTENDS UserService, FiniteSetTheorems, SequenceTheorems, TLAPS

-----------------------------------------------------------------------------
(* The inductive invariant *)

Loads == [user : Users, req : Packets]
Loadeds == [ret : {0, -1}, req : Packets]
InHand == {"query", "insert", "answer"}
FriendCmds == {"AddFriendReq", "AddFriendReq2"}
FullList == [1..MaxRequestNum -> [user : Users \cup {None}, time : Clock \cup {0},
                                  valid : BOOLEAN]]

\* Types, the private state of the processes included.
TypeInv ==
  /\ now \in Clock /\ online \subseteq Users /\ up \subseteq Servers
  /\ passwd \in [Users -> Tags \cup {None}]
  /\ net \subseteq Packets
  /\ cache \in [Servers -> [Users -> Infos]]
  /\ db \in [Users -> Infos]
  /\ loadQ \in [Servers -> Seq(Loads)]
  /\ loadedQ \in [Servers -> Seq(Loadeds)]
  /\ writeQ \in [Servers -> Seq(Users)]
  /\ loader \in [AllLoaders -> [pc : {"idle", "down"} \cup InHand,
                                load : Loads \cup {NoLoad}, row : Infos]]
  /\ writer \in [AllWriters -> [pc : {"idle", "down", "get", "replace"},
                                user : Users \cup {None}, row : Infos]]
  /\ \A l \in AllLoaders : loader[l].pc \in InHand => loader[l].load \in Loads
  /\ \A w \in AllWriters : writer[w].pc \in {"get", "replace"} => writer[w].user \in Users
  /\ faults \in 0..MaxFaults /\ sent \subseteq Requests
  /\ answer \in [Requests -> [ret : -1..2, user : Users \cup {None}]]
  /\ dropped \subseteq Requests /\ unsaved \subseteq Users
  /\ effects \in [Requests -> Nat]

\* The queues and the tables keep to their limits.
RoomInv ==
  \A s \in Servers :
    /\ IsFiniteSet(Cached(s)) /\ Cardinality(Cached(s)) <= MaxUserNodeNum
    /\ Len(loadQ[s]) <= QueueLen /\ Len(loadedQ[s]) <= QueueLen
    /\ Len(writeQ[s]) <= QueueLen

\* Each place where a packet can be holds at most one of a request ...
UniqN(n) == \A m, k \in n : m.sn = k.sn => m = k
UniqQ(q) == \A s, t \in Servers : \A i \in 1..Len(q[s]), j \in 1..Len(q[t]) :
              q[s][i].req.sn = q[t][j].req.sn => s = t /\ i = j
UniqL(ld) == \A l, k \in AllLoaders :
               /\ ld[l].pc \in InHand /\ ld[k].pc \in InHand
               /\ ld[l].load.req.sn = ld[k].load.req.sn
               => l = k

\* ... and a request is in at most one of the places.
InN(n, sn) == \E m \in n : m.sn = sn
InQ(q, sn) == \E s \in Servers : \E i \in 1..Len(q[s]) : q[s][i].req.sn = sn
InL(ld, sn) == \E l \in AllLoaders : ld[l].pc \in InHand /\ ld[l].load.req.sn = sn

Pending(sn) == InN(net, sn) \/ InQ(loadQ, sn) \/ InQ(loadedQ, sn) \/ InL(loader, sn)

PlaceOf(sn) ==
  /\ ~(InN(net, sn) /\ InQ(loadQ, sn))
  /\ ~(InN(net, sn) /\ InQ(loadedQ, sn))
  /\ ~(InN(net, sn) /\ InL(loader, sn))
  /\ ~(InQ(loadQ, sn) /\ InQ(loadedQ, sn))
  /\ ~(InQ(loadQ, sn) /\ InL(loader, sn))
  /\ ~(InQ(loadedQ, sn) /\ InL(loader, sn))
  /\ Pending(sn) <=> (sn \in sent /\ answer[sn] = NotYet /\ sn \notin dropped)
  /\ (answer[sn] # NotYet \/ sn \in dropped) => sn \in sent
  /\ ~(answer[sn] # NotYet /\ sn \in dropped)

PlaceInv ==
  /\ UniqN(net) /\ UniqQ(loadQ) /\ UniqQ(loadedQ) /\ UniqL(loader)
  /\ \A sn \in Requests : PlaceOf(sn)

\* The write of a new user is done, under way or given up.
Kept(u) ==
  \/ db[u] # NoInfo
  \/ u \in unsaved
  \/ \E i \in 1..Len(writeQ[RegisterServer(u)]) : writeQ[RegisterServer(u)][i] = u
  \/ \E w \in AllWriters : writer[w].pc \in {"get", "replace"} /\ writer[w].user = u

\* What a packet says is true.
GoodPkt(m) ==
  /\ m.cmd # "AuthRegisterReq" => m.user \in Users
  /\ m.cmd \in FriendCmds => m.other \in Users
  /\ m.cmd = "AuthRegisterReq" => m.tag = m.sn
  /\ m.cmd = "AddFriendReq2" \/ m.cmd = "UserRegisterReq"
       \/ (m.cmd = "AuthRegisterRsp" /\ m.ret = 0)
     => m.tag # None /\ m.tag = passwd[m.user]
  /\ m.cmd = "UserRegisterRsp" => Kept(m.user)
  /\ effects[m.sn] = (IF m.cmd = "AddFriendRsp" THEN 1 ELSE 0)
  /\ m.cmd \notin {"AuthRegisterRsp", "UserRegisterReq", "UserRegisterRsp"}
     => \A u \in Users : passwd[u] # m.sn

\* Only friend requests wait for a load.
GoodParked(m) == GoodPkt(m) /\ m.cmd \in FriendCmds

PktInv ==
  /\ \A m \in net : GoodPkt(m)
  /\ \A s \in Servers : \A i \in 1..Len(loadQ[s]) : GoodParked(loadQ[s][i].req)
  /\ \A s \in Servers : \A i \in 1..Len(loadedQ[s]) : GoodParked(loadedQ[s][i].req)
  /\ \A l \in AllLoaders : loader[l].pc \in InHand => GoodParked(loader[l].load.req)
  /\ \A sn \in Requests \ sent : effects[sn] = 0 /\ \A u \in Users : passwd[u] # sn
  /\ \A sn \in Requests : effects[sn] <= 1

\* A copy of user u carries the name the auth database has for him.
Own(info, u) ==
  info # NoInfo => /\ passwd[u] # None
                   /\ info.nick = passwd[u] /\ info.birthday \in {passwd[u], None}

CopyInv ==
  /\ \A u \in Users :
       /\ Own(db[u], u)
       /\ \A s \in Servers :
            /\ Own(cache[s][u], u)
            /\ cache[s][u] # NoInfo => cache[s][u].active \in Clock
                                       /\ cache[s][u].reqs \in FullList
  /\ \A l \in AllLoaders : loader[l].pc = "insert" => Own(loader[l].row, loader[l].load.user)
  /\ \A w \in AllWriters :
       writer[w].pc = "replace" => /\ writer[w].row # NoInfo
                                   /\ Own(writer[w].row, writer[w].user)

IInv == TypeInv /\ RoomInv /\ PlaceInv /\ PktInv /\ CopyInv /\ RegisteredKept

-----------------------------------------------------------------------------
(* The clock starts at its least value, which exists. *)

\* A nonempty set of naturals has a least element.
LEMMA LeastOfNat ==
    ASSUME NEW S \in SUBSET Nat, S # {}
    PROVE  \E x \in S : \A y \in S : x <= y
<1> DEFINE R == {ss \in Nat \X Nat : ss[1] < ss[2]}
<1>0. OpToRel(<, Nat) = R
  BY Zenon DEF OpToRel
<1>1. IsWellFoundedOn(R, Nat)
  BY <1>0, NatLessThanWellFounded, Zenon
<1>2. PICK x \in S : \A y \in S : ~(<<y, x>> \in R)
  <2> HIDE DEF R
  <2> QED BY <1>1, WFMin, Zenon
<1>3. ASSUME NEW y \in S, y < x  PROVE FALSE
  <2>1. <<y, x>> \in Nat \X Nat /\ <<y, x>>[1] = y /\ <<y, x>>[2] = x
    OBVIOUS
  <2>2. <<y, x>> \in R
    BY <2>1, <1>3, Zenon
  <2> QED BY <2>2, <1>2
<1> QED
  BY <1>3

-----------------------------------------------------------------------------
(* Places: what taking a packet away and putting one in does to each. *)

\* A packet leaves the bus.
LEMMA RemoveN ==
  ASSUME NEW n, NEW m \in n, UniqN(n)
  PROVE  /\ UniqN(n \ {m})
         /\ \A x : InN(n \ {m}, x) <=> InN(n, x) /\ x # m.sn
BY DEF UniqN, InN

\* A packet enters the bus.
LEMMA AddN ==
  ASSUME NEW n, NEW m, UniqN(n), ~InN(n, m.sn)
  PROVE  /\ UniqN(n \cup {m})
         /\ \A x : InN(n \cup {m}, x) <=> InN(n, x) \/ x = m.sn
BY DEF UniqN, InN

Pop(q, s) == [q EXCEPT ![s] = Tail(@)]
Push(q, s, e) == [q EXCEPT ![s] = Append(@, e)]

\* Queue r is queue q of server s without its first entry, a request sn.
Popped(T, q, s, sn, r) ==
  /\ r \in [Servers -> Seq(T)]
  /\ UniqQ(r)
  /\ \A x : InQ(r, x) <=> InQ(q, x) /\ x # sn
  /\ Len(r[s]) <= Len(q[s])
  /\ \A t \in Servers : \A i \in 1..Len(r[t]) : \E j \in 1..Len(q[t]) : r[t][i] = q[t][j]

\* Queue r is queue q of server s and entry e of request sn.
Pushed(T, q, s, sn, e, r) ==
  /\ r \in [Servers -> Seq(T)]
  /\ UniqQ(r)
  /\ \A x : InQ(r, x) <=> InQ(q, x) \/ x = sn
  /\ Len(r[s]) = Len(q[s]) + 1
  /\ \A t \in Servers : \A i \in 1..Len(r[t]) :
       r[t][i] = e \/ \E j \in 1..Len(q[t]) : r[t][i] = q[t][j]

\* The first entry of a queue is taken.
LEMMA TailQ ==
  ASSUME NEW T, NEW q \in [Servers -> Seq(T)], NEW s \in Servers, q[s] # << >>, UniqQ(q)
  PROVE  Popped(T, q, s, Head(q[s]).req.sn, Pop(q, s))
<1> DEFINE r == Pop(q, s)
<1>1. /\ q[s] \in Seq(T) /\ Len(q[s]) \in Nat \ {0} /\ Tail(q[s]) \in Seq(T)
      /\ Len(Tail(q[s])) = Len(q[s]) - 1 /\ Head(q[s]) = q[s][1]
      /\ \A i \in 1..Len(q[s]) - 1 : Tail(q[s])[i] = q[s][i + 1]
  OBVIOUS
<1>2. r \in [Servers -> Seq(T)]
  BY <1>1 DEF Pop
<1>3. /\ Len(r[s]) = Len(q[s]) - 1
      /\ \A i \in 1..Len(r[s]) : i + 1 \in 1..Len(q[s]) /\ r[s][i] = q[s][i + 1]
      /\ \A t \in Servers \ {s} : r[t] = q[t]
  BY <1>1 DEF Pop
<1> HIDE DEF r
<1>4. \A i \in 2..Len(q[s]) : i - 1 \in 1..Len(r[s]) /\ r[s][i - 1] = q[s][i]
  <2> TAKE i \in 2..Len(q[s])
  <2>1. i - 1 \in 1..Len(r[s]) /\ (i - 1) + 1 = i
    <3>1. Len(q[s]) \in Nat /\ Len(r[s]) = Len(q[s]) - 1
      BY <1>1, <1>3
    <3> QED BY <3>1
  <2> QED BY <2>1, <1>3
<1>l. \A t \in Servers : Len(r[t]) \in Nat /\ Len(q[t]) \in Nat
  BY <1>2
<1>5. UniqQ(r)
  <2> SUFFICES ASSUME NEW t \in Servers, NEW v \in Servers,
                      NEW i \in 1..Len(r[t]), NEW j \in 1..Len(r[v]),
                      r[t][i].req.sn = r[v][j].req.sn
               PROVE  t = v /\ i = j
    BY DEF UniqQ
  <2> DEFINE a == IF t = s THEN i + 1 ELSE i
             b == IF v = s THEN j + 1 ELSE j
  <2>1. a \in 1..Len(q[t]) /\ b \in 1..Len(q[v]) /\ q[t][a] = r[t][i] /\ q[v][b] = r[v][j]
    BY <1>3
  <2>2. t = v /\ a = b
    <3> HIDE DEF a, b
    <3> QED BY <2>1, SMTT(30) DEF UniqQ
  <2> QED BY <2>2, <1>l
<1>6. ASSUME NEW x PROVE InQ(r, x) <=> InQ(q, x) /\ x # Head(q[s]).req.sn
  <2>1. ASSUME NEW t \in Servers, NEW i \in 1..Len(r[t]), r[t][i].req.sn = x
        PROVE  InQ(q, x) /\ x # Head(q[s]).req.sn
    <3> DEFINE a == IF t = s THEN i + 1 ELSE i
    <3>1. a \in 1..Len(q[t]) /\ q[t][a] = r[t][i] /\ (t = s => a # 1)
      BY <1>3, <1>l
    <3>2. 1 \in 1..Len(q[s])
      BY <1>1
    <3>3. q[t][a].req.sn # q[s][1].req.sn
      BY <3>1, <3>2 DEF UniqQ
    <3> QED BY <2>1, <3>1, <3>3, <1>1 DEF InQ
  <2>2. ASSUME NEW t \in Servers, NEW i \in 1..Len(q[t]), q[t][i].req.sn = x,
               x # Head(q[s]).req.sn
        PROVE  InQ(r, x)
    <3>1. CASE t # s
      BY <2>2, <3>1, <1>3 DEF InQ
    <3>2. CASE t = s
      <4>1. i # 1
        BY <2>2, <3>2, <1>1
      <4>2. i - 1 \in 1..Len(r[s]) /\ r[s][i - 1] = q[s][i]
        BY <3>2, <4>1, <1>4, <1>l
      <4> QED BY <2>2, <3>2, <4>2 DEF InQ
    <3> QED BY <3>1, <3>2
  <2> QED BY <2>1, <2>2 DEF InQ
<1>7. \A t \in Servers : \A i \in 1..Len(r[t]) : \E j \in 1..Len(q[t]) : r[t][i] = q[t][j]
  BY <1>3
<1>8. Len(r[s]) <= Len(q[s])
  BY <1>3, <1>l
<1> QED BY <1>2, <1>5, <1>6, <1>7, <1>8 DEF Popped, r

\* An entry is put at the end of a queue.
LEMMA AppendQ ==
  ASSUME NEW T, NEW q \in [Servers -> Seq(T)], NEW s \in Servers, NEW e \in T, UniqQ(q),
         NEW sn, sn = e.req.sn, ~InQ(q, sn)
  PROVE  Pushed(T, q, s, sn, e, Push(q, s, e))
<1> DEFINE r == Push(q, s, e)
           k == Len(q[s]) + 1
<1>1. /\ r \in [Servers -> Seq(T)]
      /\ Len(q[s]) \in Nat /\ Len(r[s]) = k /\ r[s][k] = e
      /\ \A i \in 1..Len(q[s]) : r[s][i] = q[s][i]
      /\ \A t \in Servers \ {s} : r[t] = q[t]
  BY DEF Push
<1> HIDE DEF r
<1>2. \A t \in Servers : \A i \in 1..Len(r[t]) :
        \/ t = s /\ i = k /\ r[t][i] = e
        \/ i \in 1..Len(q[t]) /\ r[t][i] = q[t][i]
  BY <1>1
<1>3. \A t \in Servers : \A i \in 1..Len(q[t]) : i \in 1..Len(r[t]) /\ r[t][i] = q[t][i]
  <2> TAKE t \in Servers
  <2> TAKE i \in 1..Len(q[t])
  <2>1. CASE t = s
    <3>1. Len(r[t]) = Len(q[t]) + 1 /\ Len(q[t]) \in Nat
      BY <2>1, <1>1
    <3> QED BY <2>1, <3>1, <1>1
  <2>2. CASE t # s
    BY <2>2, <1>1
  <2> QED BY <2>1, <2>2
<1>4. k \in 1..Len(r[s])
  BY <1>1
<1>5. UniqQ(r)
  <2> SUFFICES ASSUME NEW t \in Servers, NEW v \in Servers,
                      NEW i \in 1..Len(r[t]), NEW j \in 1..Len(r[v]),
                      r[t][i].req.sn = r[v][j].req.sn
               PROVE  t = v /\ i = j
    BY DEF UniqQ
  <2> HIDE DEF k
  <2>1. CASE r[t][i] = e /\ t = s /\ i = k
    BY <2>1, <1>2 DEF InQ
  <2>2. CASE i \in 1..Len(q[t]) /\ r[t][i] = q[t][i]
    <3>1. r[v][j] # e
      BY <2>2 DEF InQ
    <3>2. j \in 1..Len(q[v]) /\ r[v][j] = q[v][j]
      BY <3>1, <1>2
    <3> QED BY <2>2, <3>2 DEF UniqQ
  <2> QED BY <2>1, <2>2, <1>2
<1>6. ASSUME NEW x PROVE InQ(r, x) <=> InQ(q, x) \/ x = sn
  <2>1. InQ(r, x) => InQ(q, x) \/ x = sn
    BY <1>2 DEF InQ
  <2>2. InQ(q, x) => InQ(r, x)
    BY <1>3 DEF InQ
  <2>3. InQ(r, sn)
    BY <1>1, <1>4 DEF InQ
  <2> QED BY <2>1, <2>2, <2>3
<1>7. \A t \in Servers : \A i \in 1..Len(r[t]) :
        r[t][i] = e \/ \E j \in 1..Len(q[t]) : r[t][i] = q[t][j]
  BY <1>2
<1> QED BY <1>1, <1>2, <1>5, <1>6, <1>7 DEF Pushed, r

\* A loader gets rid of its request.
LEMMA ClearL ==
  ASSUME NEW ld, NEW l \in AllLoaders, NEW e, e.pc \notin InHand,
         UniqL(ld), DOMAIN ld = AllLoaders,
         NEW r, r = [ld EXCEPT ![l] = e]
  PROVE  /\ UniqL(r)
         /\ \A x : InL(r, x) <=>
              InL(ld, x) /\ ~(ld[l].pc \in InHand /\ ld[l].load.req.sn = x)
<1>1. r[l] = e /\ \A k \in AllLoaders \ {l} : r[k] = ld[k]
  OBVIOUS
<1>2. UniqL(r)
  BY <1>1 DEF UniqL
<1>3. ASSUME NEW x
      PROVE InL(r, x) <=> InL(ld, x) /\ ~(ld[l].pc \in InHand /\ ld[l].load.req.sn = x)
  BY <1>1 DEF InL, UniqL
<1> QED BY <1>2, <1>3

-----------------------------------------------------------------------------
(* Every request in one place: the steps that move packets. *)


\* Packet m is in nobody's hands: it was taken from the bus or from the loaders'
\* answers, which are now n and q.
Taken(m, n, q) ==
  /\ n \subseteq net /\ UniqN(n)
  /\ q \in [Servers -> Seq(Loadeds)] /\ UniqQ(q)
  /\ \A s \in Servers : Len(q[s]) <= QueueLen
  /\ \A s \in Servers : \A i \in 1..Len(q[s]) : \E j \in 1..Len(loadedQ[s]) : q[s][i] = loadedQ[s][j]
  /\ \A x : InN(n, x) => InN(net, x) /\ x # m.sn
  /\ \A x : InQ(q, x) => InQ(loadedQ, x) /\ x # m.sn
  /\ \A x : x # m.sn => /\ InN(net, x) => InN(n, x)
                        /\ InQ(loadedQ, x) => InQ(q, x)
  /\ ~InQ(loadQ, m.sn) /\ ~InL(loader, m.sn)
  /\ m \in Packets /\ GoodPkt(m)
  /\ m.sn \in sent /\ answer[m.sn] = NotYet /\ m.sn \notin dropped

\* A packet that conn, auth or a user server takes off the bus is nowhere then.
LEMMA TakeBus ==
  ASSUME IInv, NEW m \in net
  PROVE  Taken(m, net \ {m}, loadedQ)
<1>1. m \in Packets /\ m.sn \in Requests /\ GoodPkt(m)
  BY DEF IInv, TypeInv, Packets, PktInv
<1>2. /\ UniqN(net \ {m}) /\ UniqQ(loadedQ)
      /\ \A x : InN(net \ {m}, x) <=> InN(net, x) /\ x # m.sn
  BY RemoveN DEF IInv, PlaceInv
<1>3. InN(net, m.sn) /\ PlaceOf(m.sn)
  BY <1>1 DEF InN, IInv, PlaceInv
<1>4. /\ loadedQ \in [Servers -> Seq(Loadeds)]
      /\ \A s \in Servers : Len(loadedQ[s]) <= QueueLen
  BY DEF IInv, TypeInv, RoomInv
<1>5. /\ ~InQ(loadedQ, m.sn) /\ ~InQ(loadQ, m.sn) /\ ~InL(loader, m.sn)
      /\ m.sn \in sent /\ answer[m.sn] = NotYet /\ m.sn \notin dropped
  BY <1>3 DEF PlaceOf, Pending
<1> QED BY <1>1, <1>2, <1>4, <1>5 DEF Taken

\* So is the request of the first answer of the loaders.
LEMMA TakeLoaded ==
  ASSUME IInv, NEW s \in Servers, loadedQ[s] # << >>
  PROVE  /\ Taken(Head(loadedQ[s]).req, net, Pop(loadedQ, s))
         /\ Head(loadedQ[s]).req.cmd \in FriendCmds
<1> DEFINE m == Head(loadedQ[s]).req
           q == Pop(loadedQ, s)
<1>1. loadedQ \in [Servers -> Seq(Loadeds)] /\ UniqQ(loadedQ) /\ UniqN(net)
  BY DEF IInv, TypeInv, PlaceInv
<1>2. 1 \in 1..Len(loadedQ[s]) /\ Head(loadedQ[s]) = loadedQ[s][1] /\ loadedQ[s][1] \in Loadeds
  BY <1>1
<1>3. m \in Packets /\ m.sn \in Requests /\ GoodParked(m)
  BY <1>2 DEF IInv, PktInv, Loadeds, Packets
<1>4. Popped(Loadeds, loadedQ, s, m.sn, q)
  BY <1>1, TailQ, Zenon
<1>5. \A t \in Servers : Len(q[t]) <= QueueLen
  <2>1. \A t \in Servers : t # s => q[t] = loadedQ[t]
    BY <1>1 DEF Pop
  <2>2. Len(q[s]) \in Nat /\ Len(loadedQ[s]) \in Nat /\ QueueLen \in Nat
    BY <1>1, <1>4, ServiceAssumption DEF Popped
  <2> HIDE DEF q
  <2> QED BY <1>4, <2>1, <2>2 DEF IInv, RoomInv, Popped
<1>6. InQ(loadedQ, m.sn) /\ PlaceOf(m.sn)
  BY <1>2, <1>3 DEF InQ, IInv, PlaceInv
<1>7. /\ ~InN(net, m.sn) /\ ~InQ(loadQ, m.sn) /\ ~InL(loader, m.sn)
      /\ m.sn \in sent /\ answer[m.sn] = NotYet /\ m.sn \notin dropped
  BY <1>6 DEF PlaceOf, Pending
<1> HIDE DEF q, m
<1>8. Taken(m, net, q)
  BY <1>1, <1>3, <1>4, <1>5, <1>7 DEF Taken, GoodParked, Popped
<1> QED BY <1>3, <1>8 DEF q, m, GoodParked

\* A packet is replaced by another one of its request.
LEMMA PlaceReplace ==
  ASSUME IInv, NEW m, NEW n, Taken(m, n, loadedQ'), NEW k, k.sn = m.sn, net' = n \cup {k},
         UNCHANGED <<loadQ, loader, sent, answer, dropped>>
  PROVE  PlaceInv'
<1>1. UniqN(net') /\ UniqQ(loadedQ')
  BY AddN DEF Taken
<1>2. \A x : InN(net', x) <=> InN(n, x) \/ x = m.sn
  BY AddN DEF Taken
<1>3. ASSUME NEW sn \in Requests PROVE PlaceOf(sn)'
  <2>1. PlaceOf(sn)
    BY DEF IInv, PlaceInv
  <2> QED BY <1>2, <2>1 DEF Taken, PlaceOf, Pending
<1> QED BY <1>1, <1>3 DEF IInv, PlaceInv

\* A packet is dropped.
LEMMA PlaceDrop ==
  ASSUME IInv, NEW m, Taken(m, net', loadedQ'), dropped' = dropped \cup {m.sn},
         UNCHANGED <<loadQ, loader, sent, answer>>
  PROVE  PlaceInv'
<1>1. UniqN(net') /\ UniqQ(loadedQ')
  BY DEF Taken
<1>3. ASSUME NEW sn \in Requests PROVE PlaceOf(sn)'
  <2>1. PlaceOf(sn)
    BY DEF IInv, PlaceInv
  <2> QED BY <2>1 DEF Taken, PlaceOf, Pending
<1> QED BY <1>1, <1>3 DEF IInv, PlaceInv

\* A packet is answered.
LEMMA PlaceAnswer ==
  ASSUME IInv, NEW m, Taken(m, net', loadedQ'), Answered(m),
         UNCHANGED <<loadQ, loader, sent, dropped>>
  PROVE  PlaceInv'
<1>1. UniqN(net') /\ UniqQ(loadedQ')
  BY DEF Taken
<1>2. /\ m.sn \in Requests /\ answer'[m.sn] # NotYet
      /\ \A x \in Requests \ {m.sn} : answer'[x] = answer[x]
  <2>1. m.ret \in 0..2 /\ m.sn \in Requests
    BY DEF Taken, Packets
  <2>2. answer' = [answer EXCEPT ![m.sn] = [ret |-> m.ret, user |-> m.user]]
    BY DEF Answered
  <2> QED BY <2>1, <2>2 DEF NotYet, IInv, TypeInv
<1>3. ASSUME NEW sn \in Requests PROVE PlaceOf(sn)'
  <2>1. PlaceOf(sn)
    BY DEF IInv, PlaceInv
  <2> QED BY <2>1, <1>2 DEF Taken, PlaceOf, Pending
<1> QED BY <1>1, <1>3 DEF IInv, PlaceInv

\* A packet is parked with the loaders of server s.
LEMMA PlacePark ==
  ASSUME IInv, NEW m, Taken(m, net', loadedQ'), NEW s \in Servers, NEW u \in Users,
         loadQ' = Push(loadQ, s, [user |-> u, req |-> m]),
         UNCHANGED <<loader, sent, answer, dropped>>
  PROVE  /\ PlaceInv'
         /\ loadQ' \in [Servers -> Seq(Loads)]
         /\ Len(loadQ'[s]) = Len(loadQ[s]) + 1
         /\ \A t \in Servers : \A i \in 1..Len(loadQ'[t]) :
              loadQ'[t][i].req = m \/ \E j \in 1..Len(loadQ[t]) : loadQ'[t][i] = loadQ[t][j]
<1> DEFINE e == [user |-> u, req |-> m]
<1>1. UniqN(net') /\ UniqQ(loadedQ')
  BY DEF Taken
<1>2. e \in Loads /\ e.req = m
  BY DEF Taken, Loads
<1>3. loadQ \in [Servers -> Seq(Loads)] /\ UniqQ(loadQ) /\ ~InQ(loadQ, m.sn)
  BY DEF IInv, TypeInv, PlaceInv, Taken
<1> HIDE DEF e
<1>4. loadQ' = Push(loadQ, s, e)
  BY DEF e
<1>5. Pushed(Loads, loadQ, s, m.sn, e, loadQ')
  <2>1. m.sn = e.req.sn
    BY <1>2
  <2> QED BY <2>1, <1>2, <1>3, <1>4, AppendQ, Zenon
<1>6. ASSUME NEW sn \in Requests PROVE PlaceOf(sn)'
  <2>1. PlaceOf(sn)
    BY DEF IInv, PlaceInv
  <2> QED BY <2>1, <1>5 DEF Taken, PlaceOf, Pending, Pushed
<1>7. PlaceInv'
  BY <1>1, <1>5, <1>6 DEF IInv, PlaceInv, Pushed
<1> QED BY <1>2, <1>5, <1>7 DEF Pushed

\* A client sends a request.
LEMMA PlaceNew ==
  ASSUME IInv, NEW k, k.sn \notin sent, net' = net \cup {k}, sent' = sent \cup {k.sn},
         k.sn \in Requests, UNCHANGED <<loadQ, loadedQ, loader, answer, dropped>>
  PROVE  PlaceInv'
<1>1. PlaceOf(k.sn)
  BY DEF IInv, PlaceInv
<1>2. ~Pending(k.sn) /\ answer[k.sn] = NotYet /\ k.sn \notin dropped
  BY <1>1 DEF PlaceOf
<1>3. UniqN(net') /\ \A x : InN(net', x) <=> InN(net, x) \/ x = k.sn
  BY <1>2, AddN DEF Pending, IInv, PlaceInv
<1>4. ASSUME NEW sn \in Requests PROVE PlaceOf(sn)'
  <2>1. PlaceOf(sn)
    BY DEF IInv, PlaceInv
  <2> QED BY <1>2, <1>3, <2>1 DEF PlaceOf, Pending
<1> QED BY <1>3, <1>4 DEF IInv, PlaceInv

\* Nothing moves.
LEMMA PlaceSame ==
  ASSUME IInv, UNCHANGED <<net, loadQ, loadedQ, loader, sent, answer, dropped>>
  PROVE  PlaceInv'
BY DEF IInv, PlaceInv, PlaceOf, Pending

-----------------------------------------------------------------------------
(* What the packets say, and the write of a new user. *)

KeptMono == \A u \in Users : Kept(u) => Kept(u)'

\* Frame lemmas: what holds of state that a step leaves alone still holds.
LEMMA KeptSame ==
  ASSUME UNCHANGED <<db, unsaved, writeQ, writer>>
  PROVE  KeptMono
BY DEF KeptMono, Kept

\* A true packet stays true while no password, no effect changes.
LEMMA GoodMono ==
  ASSUME UNCHANGED <<passwd, effects>>, KeptMono
  PROVE  \A m : GoodPkt(m) => GoodPkt(m)'
BY DEF KeptMono, GoodPkt

\* The packets after a step are packets from before and true new ones.
LEMMA PktStep ==
  ASSUME PktInv, UNCHANGED <<passwd, effects>>, KeptMono, sent \subseteq sent',
         \A m \in net' : m \in net \/ GoodPkt(m)',
         \A s \in Servers : \A i \in 1..Len(loadQ'[s]) :
           \/ GoodParked(loadQ'[s][i].req)
           \/ \E j \in 1..Len(loadQ[s]) : loadQ'[s][i] = loadQ[s][j],
         \A s \in Servers : \A i \in 1..Len(loadedQ'[s]) :
           \/ GoodParked(loadedQ'[s][i].req)
           \/ \E j \in 1..Len(loadedQ[s]) : loadedQ'[s][i] = loadedQ[s][j],
         \A l \in AllLoaders : loader'[l].pc \in InHand =>
           \/ GoodParked(loader'[l].load.req)
           \/ loader[l].pc \in InHand /\ loader'[l].load = loader[l].load
  PROVE  PktInv'
<1>1. \A m : GoodPkt(m) => GoodPkt(m)'
  BY GoodMono
<1>2. \A m : GoodParked(m) => GoodParked(m)'
  BY <1>1 DEF GoodParked
<1>3. \A m \in net' : GoodPkt(m)'
  BY <1>1 DEF PktInv
<1>4. \A s \in Servers : \A i \in 1..Len(loadQ'[s]) : GoodParked(loadQ'[s][i].req)
  BY DEF PktInv
<1>5. \A s \in Servers : \A i \in 1..Len(loadedQ'[s]) : GoodParked(loadedQ'[s][i].req)
  BY DEF PktInv
<1>6. \A l \in AllLoaders : loader'[l].pc \in InHand => GoodParked(loader'[l].load.req)
  BY DEF PktInv
<1>4a. (\A s \in Servers : \A i \in 1..Len(loadQ[s]) : GoodParked(loadQ[s][i].req))'
  BY <1>2, <1>4
<1>5a. (\A s \in Servers : \A i \in 1..Len(loadedQ[s]) : GoodParked(loadedQ[s][i].req))'
  BY <1>2, <1>5
<1>6a. (\A l \in AllLoaders : loader[l].pc \in InHand => GoodParked(loader[l].load.req))'
  BY <1>2, <1>6
<1>7. /\ \A sn \in Requests \ sent' : effects'[sn] = 0 /\ \A u \in Users : passwd'[u] # sn
      /\ \A sn \in Requests : effects'[sn] <= 1
  BY DEF PktInv
<1> QED BY <1>3, <1>4a, <1>5a, <1>6a, <1>7 DEF PktInv

\* The answers given stay justified.
LEMMA RegisteredMono ==
  ASSUME RegisteredKept, KeptMono, UNCHANGED <<answer, passwd>>, Clock \subseteq Users
  PROVE  RegisteredKept'
<1>1. \A sn \in Requests : answer[sn].ret = 0 /\ answer[sn].user \in Clock
                           /\ passwd[answer[sn].user] = sn => Kept(answer[sn].user)
  BY DEF RegisteredKept, Kept
<1>2. ASSUME NEW sn \in Requests, NEW u \in Clock, u = answer'[sn].user,
             answer'[sn].ret = 0, passwd'[u] = sn
      PROVE  Kept(u)'
  BY <1>1, <1>2 DEF KeptMono
<1> QED BY <1>2 DEF RegisteredKept, Kept

-----------------------------------------------------------------------------
(* Frames of the other parts. *)

\* The same for the limits ...
LEMMA RoomSame ==
  ASSUME RoomInv, UNCHANGED <<cache, loadQ, loadedQ, writeQ>>
  PROVE  RoomInv'
BY DEF RoomInv, Cached

\* ... for the copies of users ...
LEMMA CopySame ==
  ASSUME CopyInv, UNCHANGED <<passwd, db, cache, loader, writer>>
  PROVE  CopyInv'
BY DEF CopyInv, Own

\* ... and for the packets.
LEMMA PktSame ==
  ASSUME PktInv, UNCHANGED <<net, loadQ, loadedQ, loader, sent, passwd, effects>>, KeptMono
  PROVE  PktInv'
BY PktStep

\* The constants.
LEMMA ConstFacts ==
  /\ Clock \subseteq Users /\ Known \subseteq Users /\ Users \subseteq Nat \ {0}
  /\ Requests \cap Known = {} /\ None \notin Tags
  /\ MaxFaults \in Nat /\ QueueLen \in Nat /\ NoInfo \in Infos
<1>1. /\ Clock \subseteq Users /\ Known \subseteq Users /\ Users \subseteq Nat \ {0}
      /\ Requests \cap Known = {} /\ None \notin Tags
      /\ MaxFaults \in Nat /\ QueueLen \in Nat
  BY ServiceAssumption DEF Users, Tags, None
<1>2. NoInfo \in Infos
  BY DEF NoInfo, Infos
<1> QED BY <1>1, <1>2

-----------------------------------------------------------------------------
(* Clients *)

\* A new packet k of a client.
LEMMA ClientKeeps ==
  ASSUME IInv, NEW k \in Packets, k.sn \notin sent,
         net' = net \cup {k}, sent' = sent \cup {k.sn},
         UNCHANGED <<now, passwd, online, cache, loadQ, loadedQ, writeQ, db, loader,
                     writer, up, faults, answer, dropped, effects, unsaved>>,
         \/ k.cmd = "AuthRegisterReq" /\ k.tag = k.sn
         \/ k.cmd = "AuthLoginReq" /\ k.user \in Users
         \/ k.cmd = "AddFriendReq" /\ k.user \in Users /\ k.other \in Users
  PROVE  IInv'
<1>0. k.sn \in Requests
  BY DEF Packets
<1>1. TypeInv'
  BY <1>0 DEF IInv, TypeInv
<1>2. RoomInv'
  BY RoomSame DEF IInv
<1>3. PlaceInv'
  BY <1>0, PlaceNew
<1>4. KeptMono
  BY KeptSame
<1>5. PktInv'
  <2>1. GoodPkt(k)
    <3>1. effects[k.sn] = 0 /\ \A u \in Users : passwd[u] # k.sn
      BY <1>0 DEF IInv, PktInv
    <3> QED BY <3>1 DEF GoodPkt, FriendCmds
  <2>2. GoodPkt(k)'
    BY <2>1, <1>4, GoodMono
  <2> QED BY <2>2, <1>4, PktStep DEF IInv
<1>6. CopyInv'
  BY CopySame DEF IInv
<1>7. RegisteredKept'
  BY <1>4, RegisteredMono, ConstFacts DEF IInv
<1> QED BY <1>1, <1>2, <1>3, <1>5, <1>6, <1>7 DEF IInv

\* ClientRegister, ClientLogin and ClientAddFriend put one packet on the bus.
LEMMA ClientStepKeeps == ASSUME IInv, ClientStep PROVE IInv'
<1>1. PICK sn \in Requests :
        \/ ClientRegister(sn)
        \/ \E u \in Clock : \E tag \in {passwd[u], None} : ClientLogin(sn, u, tag)
        \/ \E f \in Friendships : ClientAddFriend(sn, f[1], f[2])
  BY DEF ClientStep
<1>2. CASE ClientRegister(sn)
  <2> DEFINE k == Packet("AuthRegisterReq", sn, None, None, sn, 0)
  <2>1. k \in Packets /\ k.sn = sn /\ k.cmd = "AuthRegisterReq" /\ k.tag = k.sn
    BY DEF Packet, Packets, UserCmds, Tags
  <2>2. /\ sn \notin sent /\ net' = net \cup {k} /\ sent' = sent \cup {sn}
        /\ UNCHANGED <<now, passwd, online, cache, loadQ, loadedQ, writeQ, db, loader,
                       writer, up, faults, answer, dropped, effects, unsaved>>
    BY <1>2 DEF ClientRegister
  <2> HIDE DEF k
  <2> QED BY <2>1, <2>2, ClientKeeps
<1>3. ASSUME NEW u \in Clock, NEW tag \in {passwd[u], None}, ClientLogin(sn, u, tag)
      PROVE IInv'
  <2> DEFINE k == Packet("AuthLoginReq", sn, u, None, tag, 0)
  <2>0. tag \in Tags \cup {None} /\ u \in Users
    BY ConstFacts DEF IInv, TypeInv
  <2>1. k \in Packets /\ k.sn = sn /\ k.cmd = "AuthLoginReq" /\ k.user \in Users
    BY <2>0 DEF Packet, Packets, UserCmds
  <2>2. /\ sn \notin sent /\ net' = net \cup {k} /\ sent' = sent \cup {sn}
        /\ UNCHANGED <<now, passwd, online, cache, loadQ, loadedQ, writeQ, db, loader,
                       writer, up, faults, answer, dropped, effects, unsaved>>
    BY <1>3 DEF ClientLogin
  <2> HIDE DEF k
  <2> QED BY <2>1, <2>2, ClientKeeps
<1>4. ASSUME NEW f \in Friendships, ClientAddFriend(sn, f[1], f[2])
      PROVE IInv'
  <2> DEFINE k == Packet("AddFriendReq", sn, f[1], f[2], None, 0)
  <2>0. f[1] \in Users /\ f[2] \in Users
    BY ServiceAssumption
  <2>1. k \in Packets /\ k.sn = sn /\ k.cmd = "AddFriendReq" /\ k.user \in Users /\ k.other \in Users
    BY <2>0 DEF Packet, Packets, UserCmds
  <2>2. /\ sn \notin sent /\ net' = net \cup {k} /\ sent' = sent \cup {sn}
        /\ UNCHANGED <<now, passwd, online, cache, loadQ, loadedQ, writeQ, db, loader,
                       writer, up, faults, answer, dropped, effects, unsaved>>
    BY <1>4 DEF ClientAddFriend
  <2> HIDE DEF k
  <2> QED BY <2>1, <2>2, ClientKeeps
<1> QED BY <1>1, <1>2, <1>3, <1>4

-----------------------------------------------------------------------------
(* conn and auth *)

\* An answer to a client.
LEMMA AnswerKeeps ==
  ASSUME IInv, NEW m \in net, Answered(m), net' = net \ {m}, online' \subseteq Users,
         m.user \in Users,
         m.cmd = "AuthRegisterRsp" => m.ret # 0,
         m.cmd \in {"AuthRegisterRsp", "UserRegisterRsp", "AuthLoginRsp", "AddFriendRsp"},
         UNCHANGED <<now, passwd, cache, loadQ, loadedQ, writeQ, db, loader,
                     writer, up, faults, sent, dropped, effects, unsaved>>
  PROVE  IInv'
<1>0. Taken(m, net', loadedQ') /\ m \in Packets /\ m.sn \in Requests /\ m.ret \in 0..2 /\ GoodPkt(m)
  BY TakeBus DEF Taken, Packets
<1>a. answer' = [answer EXCEPT ![m.sn] = [ret |-> m.ret, user |-> m.user]]
  BY DEF Answered
<1>1. TypeInv'
  <2>1. answer' \in [Requests -> [ret : -1..2, user : Users \cup {None}]]
    BY <1>0, <1>a DEF IInv, TypeInv
  <2> QED BY <2>1 DEF IInv, TypeInv
<1>2. RoomInv'
  BY RoomSame DEF IInv
<1>3. PlaceInv'
  BY <1>0, PlaceAnswer
<1>4. KeptMono
  BY KeptSame
<1>5. PktInv'
  BY <1>4, PktStep DEF IInv
<1>6. CopyInv'
  BY CopySame DEF IInv
<1>7. RegisteredKept'
  <2>1. /\ answer'[m.sn].ret = m.ret /\ answer'[m.sn].user = m.user
        /\ \A sn \in Requests \ {m.sn} : answer'[sn] = answer[sn]
    BY <1>0, <1>a DEF IInv, TypeInv
  <2>2. m.ret = 0 /\ passwd[m.user] = m.sn => Kept(m.user)
    BY <1>0 DEF GoodPkt
  <2>3. \A sn \in Requests : answer[sn].ret = 0 /\ answer[sn].user \in Clock
                             /\ passwd[answer[sn].user] = sn => Kept(answer[sn].user)
    BY DEF IInv, RegisteredKept, Kept
  <2>4. ASSUME NEW sn \in Requests, NEW u \in Clock, u = answer'[sn].user,
               answer'[sn].ret = 0, passwd'[u] = sn
        PROVE  Kept(u)'
    <3>1. passwd[u] = sn /\ u \in Users
      BY <2>4, ConstFacts
    <3>2. CASE sn = m.sn
      BY <3>1, <3>2, <2>1, <2>2, <2>4, <1>4 DEF KeptMono
    <3>3. CASE sn # m.sn
      BY <3>1, <3>3, <2>1, <2>3, <2>4, <1>4 DEF KeptMono
    <3> QED BY <3>2, <3>3
  <2> QED BY <2>4 DEF RegisteredKept, Kept
<1> QED BY <1>1, <1>2, <1>3, <1>5, <1>6, <1>7 DEF IInv

\* A packet on the bus becomes another one of the same request; nothing else
\* changes but the fault count.
LEMMA ReplaceKeeps ==
  ASSUME IInv, NEW m \in net, NEW k \in Packets, k.sn = m.sn, net' = (net \ {m}) \cup {k},
         GoodPkt(k), faults' \in 0..MaxFaults,
         UNCHANGED <<now, passwd, online, cache, loadQ, loadedQ, writeQ, db, loader,
                     writer, up, sent, answer, dropped, effects, unsaved>>
  PROVE  IInv'
<1>0. Taken(m, net \ {m}, loadedQ')
  BY TakeBus
<1>1. TypeInv'
  BY DEF IInv, TypeInv
<1>2. RoomInv'
  BY RoomSame DEF IInv
<1>3. PlaceInv'
  BY <1>0, PlaceReplace
<1>4. KeptMono
  BY KeptSame
<1>5. PktInv'
  <2>1. GoodPkt(k)'
    BY <1>4, GoodMono
  <2> QED BY <2>1, <1>4, PktStep DEF IInv
<1>6. CopyInv'
  BY CopySame DEF IInv
<1>7. RegisteredKept'
  BY <1>4, RegisteredMono, ConstFacts DEF IInv
<1> QED BY <1>1, <1>2, <1>3, <1>5, <1>6, <1>7 DEF IInv

\* ConnRegistered and ConnAnswers take one off, and answer or pass it on.
LEMMA ConnStepKeeps == ASSUME IInv, ConnStep PROVE IInv'
<1>1. PICK m \in net : ConnRegistered(m) \/ ConnAnswers(m)
  BY DEF ConnStep
<1>2. m \in Packets /\ GoodPkt(m)
  BY DEF IInv, TypeInv, PktInv
<1>3. CASE ConnRegistered(m) /\ m.ret # 0
  <2>1. /\ Answered(m) /\ net' = net \ {m} /\ online' \subseteq Users /\ m.user \in Users
        /\ m.cmd = "AuthRegisterRsp"
        /\ UNCHANGED <<now, passwd, cache, loadQ, loadedQ, writeQ, db, loader,
                       writer, up, faults, sent, dropped, effects, unsaved>>
    BY <1>2, <1>3 DEF ConnRegistered, GoodPkt, IInv, TypeInv
  <2> QED BY <2>1, <1>3, AnswerKeeps
<1>4. CASE ConnRegistered(m) /\ m.ret = 0
  <2> DEFINE k == Packet("UserRegisterReq", m.sn, m.user, None, m.tag, 0)
  <2>1. /\ m.cmd = "AuthRegisterRsp" /\ net' = (net \ {m}) \cup {k}
        /\ UNCHANGED <<now, passwd, online, cache, loadQ, loadedQ, writeQ, db, loader,
                       writer, up, faults, sent, answer, dropped, effects, unsaved>>
    BY <1>4 DEF ConnRegistered
  <2>2. /\ k \in Packets /\ k.sn = m.sn /\ k.cmd = "UserRegisterReq"
        /\ k.user = m.user /\ k.tag = m.tag
    BY <1>2 DEF Packet, Packets, UserCmds
  <2> HIDE DEF k
  <2>3. GoodPkt(k)
    BY <1>2, <1>4, <2>1, <2>2 DEF GoodPkt, FriendCmds
  <2>4. faults' \in 0..MaxFaults
    BY <2>1 DEF IInv, TypeInv
  <2> QED BY <2>1, <2>2, <2>3, <2>4, ReplaceKeeps
<1>5. CASE ConnAnswers(m)
  <2>1. /\ Answered(m) /\ net' = net \ {m}
        /\ m.cmd \in {"UserRegisterRsp", "AuthLoginRsp", "AddFriendRsp"}
        /\ online' = online \/ online' = online \cup {m.user}
        /\ UNCHANGED <<now, passwd, cache, loadQ, loadedQ, writeQ, db, loader,
                       writer, up, faults, sent, dropped, effects, unsaved>>
    BY <1>5 DEF ConnAnswers
  <2>2. m.user \in Users
    BY <1>2, <2>1 DEF GoodPkt
  <2>3. online' \subseteq Users
    BY <2>1, <2>2 DEF IInv, TypeInv
  <2> QED BY <2>1, <2>2, <2>3, AnswerKeeps
<1> QED BY <1>1, <1>3, <1>4, <1>5

\* A query that fails is one fault, within the bound.
LEMMA QueryFaults ==
  ASSUME IInv, NEW ok \in BOOLEAN, Query(ok)
  PROVE  faults' \in 0..MaxFaults
BY ConstFacts DEF IInv, TypeInv, Query

\* A registration that the auth database accepts: the password of the user
\* whose id is the time is set, for the first time.
LEMMA AuthRegisterKeeps ==
  ASSUME IInv, NEW m \in net, NEW ok \in BOOLEAN, AuthRegister(m, ok)
  PROVE  IInv'
<1> DEFINE rsp == Packet("AuthRegisterRsp", m.sn, now, None, m.tag, Register(ok))
<1>0. /\ m \in Packets /\ m.sn \in Requests /\ GoodPkt(m) /\ m.cmd = "AuthRegisterReq"
      /\ m.tag = m.sn /\ now \in Users /\ m.tag \in Tags \cup {None}
  BY ConstFacts DEF IInv, TypeInv, PktInv, Packets, GoodPkt, AuthRegister
<1>f. faults' \in 0..MaxFaults
  BY QueryFaults DEF AuthRegister
<1>r. /\ rsp \in Packets /\ rsp.sn = m.sn /\ rsp.cmd = "AuthRegisterRsp" /\ rsp.user = now
      /\ rsp.tag = m.sn /\ rsp.ret = Register(ok)
  BY <1>0 DEF Packet, Packets, UserCmds, Register
<1>k. PICK k \in Packets :
        /\ k = rsp /\ k.sn = m.sn /\ k.cmd = "AuthRegisterRsp" /\ k.user = now
        /\ k.tag = m.sn /\ k.ret = Register(ok)
  <2> HIDE DEF rsp
  <2> QED BY <1>r
<1>n. /\ net' = (net \ {m}) \cup {k}
      /\ UNCHANGED <<now, online, cache, loadQ, loadedQ, writeQ, db, loader, writer,
                     up, sent, answer, dropped, effects, unsaved>>
  BY <1>k DEF AuthRegister
<1> HIDE DEF rsp
<1>s. \A u \in Users : passwd[u] # m.sn
  BY <1>0 DEF GoodPkt
<1>1. CASE Register(ok) # 0
  <2>1. UNCHANGED passwd
    BY <1>1 DEF AuthRegister
  <2>2. GoodPkt(k)
    BY <1>0, <1>k, <1>1, <1>s DEF GoodPkt, FriendCmds
  <2> QED BY <1>f, <1>k, <1>n, <2>1, <2>2, ReplaceKeeps
<1>2. CASE Register(ok) = 0
  <2>p. passwd' = [passwd EXCEPT ![now] = m.sn] /\ passwd[now] = None
    BY <1>2, <1>0 DEF AuthRegister, Register
  <2>t. Taken(m, net \ {m}, loadedQ)
    BY TakeBus
  <2>q. passwd'[now] = m.sn /\ \A u \in Users \ {now} : passwd'[u] = passwd[u]
    BY <2>p, <1>0 DEF IInv, TypeInv
  <2>1. TypeInv'
    <3>1. passwd' \in [Users -> Tags \cup {None}]
      BY <2>p, <1>0 DEF IInv, TypeInv, Tags
    <3>2. net' \subseteq Packets
      BY <1>k, <1>n DEF IInv, TypeInv
    <3> QED BY <1>f, <1>n, <3>1, <3>2 DEF IInv, TypeInv
  <2>2. RoomInv'
    BY <1>n, RoomSame DEF IInv
  <2>3. PlaceInv'
    BY <2>t, <1>k, <1>n, PlaceReplace
  <2>4. KeptMono
    BY <1>n, KeptSame
  <2>5. PktInv'
    <3>1. ASSUME NEW x, GoodPkt(x), x.sn # m.sn PROVE GoodPkt(x)'
      <4>1. ASSUME NEW u \in Users, passwd[u] # x.sn PROVE passwd'[u] # x.sn
        BY <3>1, <4>1, <2>q
      <4>2. ASSUME x.tag # None, x.tag = passwd[x.user], x.user \in Users PROVE x.tag = passwd'[x.user]
        BY <4>2, <2>p, <2>q
      <4>3. x.user \in Users /\ Kept(x.user) => Kept(x.user)'
        BY <2>4 DEF KeptMono
      <4>4. effects' = effects
        BY <1>n
      <4> QED BY <3>1, <4>1, <4>2, <4>3, <4>4 DEF GoodPkt, FriendCmds
    <3>2. GoodPkt(k)'
      <4>1. effects'[k.sn] = 0
        BY <1>0, <1>k, <1>n DEF GoodPkt
      <4>2. k.tag # None
        BY <1>0, <1>k, ConstFacts DEF Tags
      <4> QED BY <1>0, <1>k, <2>q, <4>1, <4>2 DEF GoodPkt, FriendCmds
    <3>3. ASSUME NEW x \in net' PROVE GoodPkt(x)'
      <4>1. CASE x \in net \ {m}
        <5>1. x.sn # m.sn
          BY <4>1 DEF IInv, PlaceInv, UniqN
        <5> QED BY <4>1, <5>1, <3>1 DEF IInv, PktInv
      <4> QED BY <4>1, <3>2, <1>n
    <3>p. ASSUME NEW x, GoodParked(x), x.sn # m.sn PROVE GoodParked(x)'
      BY <3>1, <3>p DEF GoodParked
    <3>4. ASSUME NEW s \in Servers, NEW i \in 1..Len(loadQ[s]) PROVE GoodParked(loadQ[s][i].req)'
      <4>1. loadQ[s][i].req.sn # m.sn
        BY <2>t DEF Taken, InQ
      <4>2. GoodParked(loadQ[s][i].req)
        BY DEF IInv, PktInv
      <4>3. PICK x : x = loadQ[s][i].req
        OBVIOUS
      <4>4. GoodParked(x)'
        BY <4>1, <4>2, <4>3, <3>p
      <4>5. x = loadQ'[s][i].req
        BY <4>3, <1>n
      <4> QED BY <4>4, <4>5
    <3>5. ASSUME NEW s \in Servers, NEW i \in 1..Len(loadedQ[s]) PROVE GoodParked(loadedQ[s][i].req)'
      <4>1. loadedQ[s][i].req.sn # m.sn
        BY <2>t DEF Taken, InQ
      <4>2. GoodParked(loadedQ[s][i].req)
        BY DEF IInv, PktInv
      <4>3. PICK x : x = loadedQ[s][i].req
        OBVIOUS
      <4>4. GoodParked(x)'
        BY <4>1, <4>2, <4>3, <3>p
      <4>5. x = loadedQ'[s][i].req
        BY <4>3, <1>n
      <4> QED BY <4>4, <4>5
    <3>6. ASSUME NEW l \in AllLoaders, loader[l].pc \in InHand PROVE GoodParked(loader[l].load.req)'
      <4>1. loader[l].load.req.sn # m.sn
        BY <2>t, <3>6 DEF Taken, InL
      <4>2. GoodParked(loader[l].load.req)
        BY <3>6 DEF IInv, PktInv
      <4>3. PICK x : x = loader[l].load.req
        OBVIOUS
      <4>4. GoodParked(x)'
        BY <4>1, <4>2, <4>3, <3>p
      <4>5. x = loader'[l].load.req
        BY <4>3, <1>n
      <4> QED BY <4>4, <4>5
    <3>7. /\ \A sn \in Requests \ sent' : effects'[sn] = 0 /\ \A u \in Users : passwd'[u] # sn
          /\ \A sn \in Requests : effects'[sn] <= 1
      <4>1. m.sn \in sent
        BY <2>t DEF Taken
      <4> QED BY <4>1, <2>q, <1>n DEF IInv, PktInv
    <3> QED BY <3>3, <3>4, <3>5, <3>6, <3>7, <1>n DEF PktInv
  <2>6. CopyInv'
    <3>1. ASSUME NEW info, NEW u \in Users, Own(info, u) PROVE Own(info, u)'
      BY <3>1, <2>p, <2>q DEF Own
    <3>2. \A l \in AllLoaders : loader[l].pc = "insert" => loader[l].load.user \in Users
      BY DEF IInv, TypeInv, Loads, InHand
    <3>3. \A w \in AllWriters : writer[w].pc = "replace" => writer[w].user \in Users
      BY DEF IInv, TypeInv
    <3> QED BY <3>1, <3>2, <3>3, <1>n DEF IInv, CopyInv, Own
  <2>7. RegisteredKept'
    <3>1. \A sn \in Requests : answer[sn].ret = 0 /\ answer[sn].user \in Clock
                             /\ passwd[answer[sn].user] = sn => Kept(answer[sn].user)
      BY DEF IInv, RegisteredKept, Kept
    <3>2. answer[m.sn].ret # 0
      BY <2>t DEF Taken, NotYet
    <3>4. ASSUME NEW sn \in Requests, NEW u \in Clock, u = answer'[sn].user,
                 answer'[sn].ret = 0, passwd'[u] = sn
          PROVE  Kept(u)'
      <4>1. u \in Users /\ answer' = answer
        BY <1>n, ConstFacts
      <4>2. u # now
        BY <3>2, <3>4, <4>1, <2>q
      <4>3. Kept(u)
        BY <3>1, <3>4, <4>1, <4>2, <2>q
      <4> QED BY <4>1, <4>3, <2>4 DEF KeptMono
    <3> QED BY <3>4 DEF RegisteredKept, Kept
  <2> QED BY <2>1, <2>2, <2>3, <2>5, <2>6, <2>7 DEF IInv
<1> QED BY <1>1, <1>2

\* AuthRegister and AuthLogin, whatever the database says.
LEMMA AuthStepKeeps == ASSUME IInv, AuthStep PROVE IInv'
<1>1. PICK m \in net, ok \in BOOLEAN : AuthRegister(m, ok) \/ AuthLogin(m, ok)
  BY DEF AuthStep
<1>2. CASE AuthLogin(m, ok)
  <2> DEFINE k == Packet("AuthLoginRsp", m.sn, m.user, None, None, LoginCheck(m, ok))
  <2>0. m \in Packets /\ GoodPkt(m) /\ m.cmd = "AuthLoginReq" /\ LoginCheck(m, ok) \in 0..2
    BY <1>2 DEF IInv, TypeInv, PktInv, AuthLogin, LoginCheck
  <2>1. /\ net' = (net \ {m}) \cup {k}
        /\ UNCHANGED <<now, passwd, online, cache, loadQ, loadedQ, writeQ, db, loader,
                       writer, up, sent, answer, dropped, effects, unsaved>>
    BY <1>2 DEF AuthLogin
  <2>2. k \in Packets /\ k.sn = m.sn /\ k.cmd = "AuthLoginRsp" /\ k.user = m.user
    BY <2>0 DEF Packet, Packets, UserCmds
  <2> HIDE DEF k
  <2>3. GoodPkt(k)
    BY <2>0, <2>2 DEF GoodPkt, FriendCmds
  <2>4. faults' \in 0..MaxFaults
    BY <1>2, QueryFaults DEF AuthLogin
  <2> QED BY <2>1, <2>2, <2>3, <2>4, ReplaceKeeps
<1> QED BY <1>1, <1>2, AuthRegisterKeeps

-----------------------------------------------------------------------------
(* The user table *)

\* A user is put into the table of server s, or his entry is changed.
LEMMA CacheSet ==
  ASSUME IInv, NEW s \in Servers, NEW u \in Users, NEW e \in Infos,
         cache' = [cache EXCEPT ![s][u] = e], e # NoInfo,
         cache[s][u] # NoInfo \/ Cardinality(Cached(s)) < MaxUserNodeNum
  PROVE  /\ cache' \in [Servers -> [Users -> Infos]]
         /\ \A t \in Servers : IsFiniteSet(Cached(t)') /\ Cardinality(Cached(t)') <= MaxUserNodeNum
         /\ cache'[s][u] = e
         /\ \A t \in Servers, v \in Users : t # s \/ v # u => cache'[t][v] = cache[t][v]
<1>1. cache \in [Servers -> [Users -> Infos]]
  BY DEF IInv, TypeInv
<1>2. /\ cache' \in [Servers -> [Users -> Infos]] /\ cache'[s][u] = e
      /\ \A t \in Servers, v \in Users : t # s \/ v # u => cache'[t][v] = cache[t][v]
  BY <1>1
<1>3. Cached(s)' = Cached(s) \cup {u} /\ \A t \in Servers \ {s} : Cached(t)' = Cached(t)
  BY <1>2 DEF Cached
<1>4. \A t \in Servers : IsFiniteSet(Cached(t)) /\ Cardinality(Cached(t)) <= MaxUserNodeNum
  BY DEF IInv, RoomInv
<1>5. Cardinality(Cached(s)) \in Nat /\ MaxUserNodeNum \in Nat
  BY <1>4, FS_CardinalityType, ServiceAssumption
<1>6. /\ IsFiniteSet(Cached(s) \cup {u})
      /\ Cardinality(Cached(s) \cup {u}) =
           IF u \in Cached(s) THEN Cardinality(Cached(s)) ELSE Cardinality(Cached(s)) + 1
  BY <1>4, FS_AddElement
<1>7. cache[s][u] # NoInfo => u \in Cached(s)
  BY DEF Cached
<1>8. IsFiniteSet(Cached(s)') /\ Cardinality(Cached(s)') <= MaxUserNodeNum
  BY <1>3, <1>4, <1>5, <1>6, <1>7
<1> QED BY <1>2, <1>3, <1>4, <1>8

\* The changed entry is the user's own and has a full list.
LEMMA CacheCopy ==
  ASSUME IInv, NEW s \in Servers, NEW u \in Users, cache'[s][u] # NoInfo,
         \A t \in Servers, v \in Users : t # s \/ v # u => cache'[t][v] = cache[t][v],
         UNCHANGED <<passwd, db, writer>>,
         \A l \in AllLoaders : loader'[l].pc = "insert" => loader'[l] = loader[l],
         Own(cache'[s][u], u), cache'[s][u].active \in Clock, cache'[s][u].reqs \in FullList
  PROVE  CopyInv'
<1>1. \A t \in Servers, v \in Users :
        /\ Own(cache'[t][v], v)
        /\ cache'[t][v] # NoInfo => cache'[t][v].active \in Clock /\ cache'[t][v].reqs \in FullList
  BY DEF IInv, CopyInv
<1>2. \A x, v : Own(x, v) => Own(x, v)'
  BY DEF Own
<1>3. \A t \in Servers, v \in Users :
        /\ Own(cache[t][v], v)'
        /\ cache'[t][v] # NoInfo => cache'[t][v].active \in Clock /\ cache'[t][v].reqs \in FullList
  BY <1>1, <1>2
<1> QED BY <1>2, <1>3 DEF IInv, CopyInv

\* A new user's entry.
LEMMA NewInfo ==
  ASSUME NEW nick \in Tags \cup {None}, NEW birthday \in Tags \cup {None}, now \in Clock,
         NEW e, e = [nick |-> nick, birthday |-> birthday, active |-> now, reqs |-> EmptyList]
  PROVE  /\ e \in Infos /\ e # NoInfo /\ e.nick = nick /\ e.birthday = birthday
         /\ e.active \in Clock /\ e.reqs \in FullList
<1>1. EmptyList \in FullList
  BY DEF EmptyList, FullList
<1>2. now # 0
  BY ServiceAssumption
<1> QED BY <1>1, <1>2 DEF Infos, NoInfo, FullList

\* An entry after AddFriendReq, whatever slot it chose.
LEMMA AddFriendInfo ==
  ASSUME NEW info \in Infos, info.reqs \in FullList, NEW u \in Users, now \in Clock,
         NEW e, e = AddFriendReq(info, u)
  PROVE  /\ e \in Infos /\ e # NoInfo /\ e.nick = info.nick /\ e.birthday = info.birthday
         /\ e.active \in Clock /\ e.reqs \in FullList
<1> DEFINE slot == RequestSlot(info.reqs)
           reqs == [info.reqs EXCEPT ![slot] = [user |-> u, time |-> now,
                                                valid |-> info.reqs[slot].valid]]
<1>1. e = [info EXCEPT !.active = now, !.reqs = reqs]
  BY DEF AddFriendReq
<1> HIDE DEF slot
<1>2. reqs \in FullList
  BY DEF FullList
<1>3. now # 0
  BY ServiceAssumption
<1> HIDE DEF reqs
<1>4. e = [nick |-> info.nick, birthday |-> info.birthday, active |-> now, reqs |-> reqs]
  BY <1>1 DEF Infos
<1> QED BY <1>2, <1>3, <1>4 DEF Infos, NoInfo, FullList

\* WriteUserInfo: the write of u is under way or given up.
LEMMA WriteKept ==
  ASSUME IInv, NEW s \in Servers, NEW u \in Users, WriteUserInfo(s, u), UNCHANGED <<db, writer>>
  PROVE  /\ writeQ' \in [Servers -> Seq(Users)]
         /\ \A t \in Servers : Len(writeQ'[t]) <= QueueLen
         /\ unsaved' \subseteq Users
         /\ KeptMono
         /\ s = RegisterServer(u) => Kept(u)'
<1>0. /\ writeQ \in [Servers -> Seq(Users)] /\ unsaved \subseteq Users
      /\ \A t \in Servers : Len(writeQ[t]) <= QueueLen
      /\ QueueLen \in Nat
  BY ConstFacts DEF IInv, TypeInv, RoomInv
<1>r. \A v \in Users : RegisterServer(v) \in Servers
  BY ConstFacts DEF RegisterServer, Servers
<1>1. CASE Len(writeQ[s]) < QueueLen
  <2>1. writeQ' = [writeQ EXCEPT ![s] = Append(@, u)] /\ unsaved' = unsaved
    BY <1>1 DEF WriteUserInfo
  <2>2. /\ writeQ' \in [Servers -> Seq(Users)]
        /\ Len(writeQ'[s]) = Len(writeQ[s]) + 1 /\ writeQ'[s][Len(writeQ[s]) + 1] = u
        /\ \A i \in 1..Len(writeQ[s]) : writeQ'[s][i] = writeQ[s][i]
        /\ \A t \in Servers \ {s} : writeQ'[t] = writeQ[t]
        /\ Len(writeQ[s]) \in Nat
    BY <2>1, <1>0
  <2>3. \A t \in Servers : Len(writeQ'[t]) <= QueueLen
    <3>1. Len(writeQ'[s]) <= QueueLen
      BY <2>2, <1>0, <1>1
    <3>2. \A t \in Servers \ {s} : Len(writeQ'[t]) <= QueueLen
      BY <2>2, <1>0
    <3> QED BY <3>1, <3>2
  <2>4. \A t \in Servers : \A i \in 1..Len(writeQ[t]) : i \in 1..Len(writeQ'[t]) /\ writeQ'[t][i] = writeQ[t][i]
    <3> TAKE t \in Servers
    <3> TAKE i \in 1..Len(writeQ[t])
    <3>1. CASE t = s
      <4>1. Len(writeQ'[t]) = Len(writeQ[t]) + 1 /\ Len(writeQ[t]) \in Nat
        BY <2>2, <3>1
      <4> QED BY <2>2, <3>1, <4>1
    <3>2. CASE t # s
      BY <2>2, <3>2
    <3> QED BY <3>1, <3>2
  <2>5. KeptMono
    BY <1>r, <2>1, <2>4 DEF KeptMono, Kept
  <2>6. Len(writeQ[s]) + 1 \in 1..Len(writeQ'[s])
    BY <2>2
  <2>7. s = RegisterServer(u) => Kept(u)'
    BY <2>2, <2>6 DEF Kept
  <2> QED BY <1>0, <2>1, <2>2, <2>3, <2>5, <2>7
<1>2. CASE ~(Len(writeQ[s]) < QueueLen)
  <2>1. writeQ' = writeQ /\ unsaved' = unsaved \cup {u}
    BY <1>2 DEF WriteUserInfo
  <2>2. KeptMono
    BY <2>1 DEF KeptMono, Kept
  <2>3. Kept(u)'
    BY <2>1 DEF Kept
  <2> QED BY <1>0, <2>1, <2>2, <2>3
<1> QED BY <1>1, <1>2

-----------------------------------------------------------------------------
(* DealPkg *)

\* What the steps of DealPkg have in common: the types and the limits, also
\* when the server dies in it ...
LEMMA DeathTypes ==
  ASSUME IInv, NEW m, NEW n, Taken(m, n, loadedQ'),
         net' \subseteq Packets, cache' \in [Servers -> [Users -> Infos]],
         loadQ' \in [Servers -> Seq(Loads)], writeQ' \in [Servers -> Seq(Users)],
         dropped' \subseteq Requests, unsaved' \subseteq Users, effects' \in [Requests -> Nat],
         \A t \in Servers : IsFiniteSet(Cached(t)') /\ Cardinality(Cached(t)') <= MaxUserNodeNum,
         \A t \in Servers : Len(loadQ'[t]) <= QueueLen,
         \A t \in Servers : Len(writeQ'[t]) <= QueueLen,
         up' \subseteq Servers, faults' \in 0..MaxFaults,
         UNCHANGED <<now, passwd, online, db, loader, writer, sent, answer>>
  PROVE  TypeInv' /\ RoomInv'
<1>1. TypeInv'
  BY DEF IInv, TypeInv, Taken
<1>2. RoomInv'
  BY DEF RoomInv, Taken
<1> QED BY <1>1, <1>2

\* ... and when it does not.
LEMMA DealTypes ==
  ASSUME IInv, NEW m, NEW n, Taken(m, n, loadedQ'),
         net' \subseteq Packets, cache' \in [Servers -> [Users -> Infos]],
         loadQ' \in [Servers -> Seq(Loads)], writeQ' \in [Servers -> Seq(Users)],
         dropped' \subseteq Requests, unsaved' \subseteq Users, effects' \in [Requests -> Nat],
         \A t \in Servers : IsFiniteSet(Cached(t)') /\ Cardinality(Cached(t)') <= MaxUserNodeNum,
         \A t \in Servers : Len(loadQ'[t]) <= QueueLen,
         \A t \in Servers : Len(writeQ'[t]) <= QueueLen,
         UNCHANGED <<now, passwd, online, db, loader, writer, up, faults, sent, answer>>
  PROVE  TypeInv' /\ RoomInv'
<1>1. up' \subseteq Servers /\ faults' \in 0..MaxFaults
  BY DEF IInv, TypeInv
<1> QED BY <1>1, DeathTypes

\* A step that leaves the tables alone leaves them within their limit.
LEMMA CachedSame ==
  ASSUME IInv, UNCHANGED cache
  PROVE  \A t \in Servers : IsFiniteSet(Cached(t)') /\ Cardinality(Cached(t)') <= MaxUserNodeNum
BY DEF IInv, RoomInv, Cached

\* The tables are within their limit and hold what they should.
TableInv ==
  /\ cache \in [Servers -> [Users -> Infos]]
  /\ \A t \in Servers : IsFiniteSet(Cached(t)) /\ Cardinality(Cached(t)) <= MaxUserNodeNum
  /\ CopyInv

\* InsertUserInfo of a new user, refused or not.
LEMMA InsertNewTable ==
  ASSUME IInv, NEW s \in Servers, NEW m, m.user \in Users, m.tag \in Tags \cup {None},
         m.tag # None, m.tag = passwd[m.user], InsertNew(s, m),
         UNCHANGED <<passwd, db, loader, writer>>
  PROVE  TableInv'
<1>0. now \in Clock
  BY DEF IInv, TypeInv
<1>1. CASE ~CanInsert(s, m.user)
  <2>1. UNCHANGED cache
    BY <1>1 DEF InsertNew
  <2>2. CopyInv'
    BY <2>1, CopySame DEF IInv
  <2> QED BY <2>1, <2>2, CachedSame DEF IInv, TypeInv, TableInv
<1>2. CASE CanInsert(s, m.user)
  <2>e. PICK e : e = [nick |-> m.tag, birthday |-> m.tag, active |-> now, reqs |-> EmptyList]
    OBVIOUS
  <2>1. cache' = [cache EXCEPT ![s][m.user] = e]
    BY <1>2, <2>e DEF InsertNew
  <2>2. /\ e \in Infos /\ e # NoInfo /\ e.nick = m.tag /\ e.birthday = m.tag
        /\ e.active \in Clock /\ e.reqs \in FullList
    BY <1>0, <2>e, NewInfo
  <2>3. /\ cache' \in [Servers -> [Users -> Infos]]
        /\ \A t \in Servers : IsFiniteSet(Cached(t)') /\ Cardinality(Cached(t)') <= MaxUserNodeNum
        /\ cache'[s][m.user] = e
        /\ \A t \in Servers, v \in Users : t # s \/ v # m.user => cache'[t][v] = cache[t][v]
    BY <1>2, <2>1, <2>2, CacheSet, ZenonT(60) DEF CanInsert
  <2>4. CopyInv'
    BY <2>2, <2>3, CacheCopy DEF Own
  <2> QED BY <2>3, <2>4 DEF TableInv
<1> QED BY <1>1, <1>2

\* A request enters the list of the other user.
LEMMA AddToListTable ==
  ASSUME IInv, NEW s \in Servers, NEW m, m.user \in Users, m.other \in Users,
         cache[s][m.other] # NoInfo, AddToList(s, m), UNCHANGED <<passwd, db, loader, writer>>
  PROVE  TableInv'
<1>t. now \in Clock
  BY DEF IInv, TypeInv
<1>0. PICK info : info = cache[s][m.other]
  OBVIOUS
<1>e. PICK e : e = AddFriendReq(info, m.user)
  OBVIOUS
<1>1. cache' = [cache EXCEPT ![s][m.other] = e]
  BY <1>0, <1>e DEF AddToList
<1>2. info \in Infos /\ info.reqs \in FullList /\ Own(info, m.other) /\ info # NoInfo
  BY <1>0 DEF IInv, TypeInv, CopyInv
<1>3. /\ e \in Infos /\ e # NoInfo /\ e.nick = info.nick /\ e.birthday = info.birthday
      /\ e.active \in Clock /\ e.reqs \in FullList
  BY <1>t, <1>2, <1>e, AddFriendInfo
<1>4. /\ cache' \in [Servers -> [Users -> Infos]]
      /\ \A t \in Servers : IsFiniteSet(Cached(t)') /\ Cardinality(Cached(t)') <= MaxUserNodeNum
      /\ cache'[s][m.other] = e
      /\ \A t \in Servers, v \in Users : t # s \/ v # m.other => cache'[t][v] = cache[t][v]
  BY <1>1, <1>3, CacheSet, ZenonT(60)
<1>5. Own(e, m.other)
  BY <1>2, <1>3 DEF Own
<1>6. CopyInv'
  BY <1>3, <1>4, <1>5, CacheCopy
<1> QED BY <1>4, <1>6 DEF TableInv

\* Cmd_User_Register_Req.
LEMMA UserRegisterKeeps ==
  ASSUME IInv, NEW s \in Servers, NEW m, NEW n, Taken(m, n, loadedQ'),
         m.cmd = "UserRegisterReq" => s = RegisterServer(m.user),
         UserRegister(s, m, n),
         UNCHANGED <<now, passwd, online, db, loader, writer, up, faults, sent, answer>>
  PROVE  IInv'
<1>0. /\ m.cmd = "UserRegisterReq" /\ m \in Packets /\ GoodPkt(m) /\ m.user \in Users
      /\ m.tag # None /\ m.tag = passwd[m.user] /\ m.tag \in Tags \cup {None} /\ m.sn \in Requests
      /\ now \in Clock /\ effects[m.sn] = 0 /\ n \subseteq net
  BY DEF UserRegister, Taken, GoodPkt, Packets, IInv, TypeInv
<1>k. PICK k : k = Packet("UserRegisterRsp", m.sn, m.user, None, None, 0)
  OBVIOUS
<1>p. k \in Packets /\ k.sn = m.sn /\ k.cmd = "UserRegisterRsp" /\ k.user = m.user
  BY <1>0, <1>k DEF Packet, Packets, UserCmds
<1>n. net' = n \cup {k} /\ WriteUserInfo(s, m.user) /\ UNCHANGED <<loadQ, dropped, effects>>
  BY <1>k DEF UserRegister
<1>w. /\ writeQ' \in [Servers -> Seq(Users)]
      /\ \A t \in Servers : Len(writeQ'[t]) <= QueueLen
      /\ unsaved' \subseteq Users
      /\ KeptMono
      /\ Kept(m.user)'
  BY <1>0, <1>n, WriteKept
<1>c. TableInv'
  BY <1>0, InsertNewTable DEF UserRegister
<1>1. TypeInv' /\ RoomInv'
  <2>1. net' \subseteq Packets /\ loadQ' \in [Servers -> Seq(Loads)] /\ dropped' \subseteq Requests
        /\ effects' \in [Requests -> Nat] /\ \A t \in Servers : Len(loadQ'[t]) <= QueueLen
    BY <1>0, <1>n, <1>p DEF IInv, TypeInv, RoomInv
  <2>2. /\ cache' \in [Servers -> [Users -> Infos]]
        /\ \A t \in Servers : IsFiniteSet(Cached(t)') /\ Cardinality(Cached(t)') <= MaxUserNodeNum
    BY <1>c DEF TableInv
  <2> QED BY <2>1, <2>2, <1>w, DealTypes
<1>3. PlaceInv'
  BY <1>n, <1>p, PlaceReplace
<1>5. PktInv'
  <2>1. GoodPkt(k)'
    BY <1>0, <1>n, <1>p, <1>w DEF GoodPkt, FriendCmds
  <2>2. \A x \in net' : x \in net \/ GoodPkt(x)'
    BY <2>1, <1>0, <1>n
  <2> QED BY <2>2, <1>n, <1>w, PktStep DEF IInv, Taken
<1>7. RegisteredKept'
  BY <1>w, RegisteredMono, ConstFacts DEF IInv
<1> QED BY <1>1, <1>3, <1>5, <1>7, <1>c DEF IInv, TableInv

\* effects goes from 0 to 1 for request m alone, since no other packet belongs
\* to it.
LEMMA EffectPkts ==
  ASSUME IInv, NEW m, NEW n, Taken(m, n, loadedQ'), KeptMono,
         effects' = [effects EXCEPT ![m.sn] = @ + 1],
         \A x \in net' : x \in n \/ GoodPkt(x)',
         UNCHANGED <<passwd, loadQ, loader, sent>>,
         m.cmd \in FriendCmds
  PROVE  PktInv' /\ effects' \in [Requests -> Nat]
<1>0. m.sn \in Requests /\ effects[m.sn] = 0 /\ n \subseteq net
  BY DEF Taken, GoodPkt, Packets, FriendCmds
<1>e. /\ effects' \in [Requests -> Nat] /\ effects'[m.sn] = 1
      /\ \A sn \in Requests \ {m.sn} : effects'[sn] = effects[sn]
  BY <1>0 DEF IInv, TypeInv
<1>2. ASSUME NEW x, GoodPkt(x), x.sn \in Requests \ {m.sn} PROVE GoodPkt(x)'
  <2>1. effects'[x.sn] = effects[x.sn] /\ passwd' = passwd
    BY <1>2, <1>e
  <2>2. x.user \in Users /\ Kept(x.user) => Kept(x.user)'
    BY DEF KeptMono
  <2> QED BY <1>2, <2>1, <2>2 DEF GoodPkt, FriendCmds
<1>3. ASSUME NEW x \in net' PROVE GoodPkt(x)'
  <2>1. CASE x \in n
    <3>1. x.sn # m.sn /\ x.sn \in Requests /\ GoodPkt(x)
      <4>1. InN(n, x.sn) /\ x \in net
        BY <2>1, <1>0 DEF InN
      <4>2. x.sn # m.sn
        BY <4>1 DEF Taken
      <4> QED BY <4>1, <4>2 DEF IInv, TypeInv, Packets, PktInv
    <3> QED BY <3>1, <1>2
  <2> QED BY <2>1
<1>p. ASSUME NEW x, GoodParked(x), x.sn \in Requests \ {m.sn} PROVE GoodParked(x)'
  BY <1>2, <1>p DEF GoodParked
<1>4. ASSUME NEW t \in Servers, NEW i \in 1..Len(loadQ[t]) PROVE GoodParked(loadQ[t][i].req)'
  <2>1. PICK x : x = loadQ[t][i].req
    OBVIOUS
  <2>2. x.sn # m.sn
    BY <2>1 DEF Taken, InQ
  <2>3. GoodParked(x) /\ x.sn \in Requests
    <3>1. loadQ[t][i] \in Loads
      BY DEF IInv, TypeInv
    <3> QED BY <2>1, <3>1 DEF IInv, PktInv, Loads, Packets
  <2>4. GoodParked(x)' /\ x = loadQ'[t][i].req
    BY <2>1, <2>2, <2>3, <1>p
  <2> QED BY <2>4
<1>5. ASSUME NEW t \in Servers, NEW i \in 1..Len(loadedQ'[t]) PROVE GoodParked(loadedQ[t][i].req)'
  <2>1. PICK x : x = loadedQ'[t][i].req
    OBVIOUS
  <2>2. x.sn # m.sn
    BY <2>1 DEF Taken, InQ
  <2>3. GoodParked(x) /\ x.sn \in Requests
    <3>1. loadedQ'[t][i] \in Loadeds
      BY DEF Taken
    <3>2. PICK j \in 1..Len(loadedQ[t]) : loadedQ'[t][i] = loadedQ[t][j]
      BY DEF Taken
    <3> QED BY <2>1, <3>1, <3>2 DEF IInv, PktInv, Loadeds, Packets
  <2>4. GoodParked(x)'
    BY <2>2, <2>3, <1>p
  <2> QED BY <2>1, <2>4
<1>6. ASSUME NEW l \in AllLoaders, loader[l].pc \in InHand PROVE GoodParked(loader[l].load.req)'
  <2>1. PICK x : x = loader[l].load.req
    OBVIOUS
  <2>2. x.sn # m.sn
    BY <1>6, <2>1 DEF Taken, InL
  <2>3. GoodParked(x) /\ x.sn \in Requests
    <3>1. loader[l].load \in Loads
      BY <1>6 DEF IInv, TypeInv
    <3> QED BY <1>6, <2>1, <3>1 DEF IInv, PktInv, Loads, Packets
  <2>4. GoodParked(x)' /\ x = loader'[l].load.req
    BY <2>1, <2>2, <2>3, <1>p
  <2> QED BY <2>4
<1>7. /\ \A sn \in Requests \ sent' : effects'[sn] = 0 /\ \A u \in Users : passwd'[u] # sn
      /\ \A sn \in Requests : effects'[sn] <= 1
  <2>1. m.sn \in sent
    BY DEF Taken
  <2> QED BY <2>1, <1>e DEF IInv, PktInv
<1> QED BY <1>e, <1>3, <1>4, <1>5, <1>6, <1>7 DEF PktInv

\* The end of a friend request.
LEMMA BefriendKeeps ==
  ASSUME IInv, NEW s \in Servers, NEW m, NEW n, Taken(m, n, loadedQ'),
         m.cmd \in FriendCmds, cache[s][m.other] # NoInfo, Befriend(s, m, n),
         UNCHANGED <<now, passwd, online, db, loader, writer, up, faults, sent, answer>>
  PROVE  IInv'
<1>0. /\ m \in Packets /\ GoodPkt(m) /\ m.user \in Users /\ m.other \in Users
      /\ m.sn \in Requests /\ now \in Clock /\ effects[m.sn] = 0 /\ n \subseteq net
      /\ \A u \in Users : passwd[u] # m.sn
  BY DEF Taken, GoodPkt, Packets, IInv, TypeInv, FriendCmds
<1>k. PICK k : k = Packet("AddFriendRsp", m.sn, m.user, m.other, None, 0)
  OBVIOUS
<1>p. k \in Packets /\ k.sn = m.sn /\ k.cmd = "AddFriendRsp" /\ k.user = m.user
  BY <1>0, <1>k DEF Packet, Packets, UserCmds
<1>n. /\ net' = n \cup {k} /\ WriteUserInfo(s, m.other) /\ UNCHANGED <<loadQ, dropped>>
      /\ effects' = [effects EXCEPT ![m.sn] = @ + 1]
  BY <1>k DEF Befriend, AddToList
<1>w. /\ writeQ' \in [Servers -> Seq(Users)]
      /\ \A t \in Servers : Len(writeQ'[t]) <= QueueLen
      /\ unsaved' \subseteq Users
      /\ KeptMono
  BY <1>0, <1>n, WriteKept
<1>c. TableInv'
  BY <1>0, AddToListTable DEF Befriend
<1>g. GoodPkt(k)'
  <2>1. effects'[m.sn] = 1
    BY <1>0, <1>n DEF IInv, TypeInv
  <2> QED BY <1>0, <1>p, <2>1 DEF GoodPkt, FriendCmds
<1>5. PktInv' /\ effects' \in [Requests -> Nat]
  <2>1. \A x \in net' : x \in n \/ GoodPkt(x)'
    BY <1>g, <1>n
  <2> QED BY <2>1, <1>n, <1>w, EffectPkts
<1>1. TypeInv' /\ RoomInv'
  <2>1. net' \subseteq Packets /\ loadQ' \in [Servers -> Seq(Loads)] /\ dropped' \subseteq Requests
        /\ \A t \in Servers : Len(loadQ'[t]) <= QueueLen
    BY <1>0, <1>n, <1>p DEF IInv, TypeInv, RoomInv
  <2>2. /\ cache' \in [Servers -> [Users -> Infos]]
        /\ \A t \in Servers : IsFiniteSet(Cached(t)') /\ Cardinality(Cached(t)') <= MaxUserNodeNum
    BY <1>c DEF TableInv
  <2> QED BY <2>1, <2>2, <1>w, <1>5, DealTypes
<1>3. PlaceInv'
  BY <1>n, <1>p, PlaceReplace
<1>7. RegisteredKept'
  BY <1>w, RegisteredMono, ConstFacts DEF IInv
<1> QED BY <1>1, <1>3, <1>5, <1>7, <1>c DEF IInv, TableInv

\* A friend request waits for the load of user u, or is given up.
LEMMA LoadUserKeeps ==
  ASSUME IInv, NEW s \in Servers, NEW m, Taken(m, net', loadedQ'), m.cmd \in FriendCmds,
         NEW u \in Users, LoadUserInfo(s, u, m),
         UNCHANGED <<cache, writeQ, effects, unsaved>>,
         UNCHANGED <<now, passwd, online, db, loader, writer, up, faults, sent, answer>>
  PROVE  IInv'
<1>0. m \in Packets /\ GoodPkt(m) /\ m.sn \in Requests /\ net' \subseteq net
  BY DEF Taken, Packets
<1>k. KeptMono
  BY KeptSame
<1>c. CopyInv'
  BY CopySame DEF IInv
<1>r. RegisteredKept'
  BY <1>k, RegisteredMono, ConstFacts DEF IInv
<1>q. /\ PlaceInv'
      /\ loadQ' \in [Servers -> Seq(Loads)] /\ dropped' \subseteq Requests
      /\ \A t \in Servers : Len(loadQ'[t]) <= QueueLen
      /\ \A t \in Servers : \A i \in 1..Len(loadQ'[t]) :
           loadQ'[t][i].req = m \/ \E j \in 1..Len(loadQ[t]) : loadQ'[t][i] = loadQ[t][j]
  <2>0. loadQ \in [Servers -> Seq(Loads)] /\ dropped \subseteq Requests
        /\ \A t \in Servers : Len(loadQ[t]) <= QueueLen
    BY DEF IInv, TypeInv, RoomInv
  <2>1. CASE Len(loadQ[s]) < QueueLen
    <3>1. loadQ' = Push(loadQ, s, [user |-> u, req |-> m]) /\ UNCHANGED dropped
      BY <2>1 DEF LoadUserInfo, Push
    <3>2. /\ PlaceInv'
          /\ loadQ' \in [Servers -> Seq(Loads)]
          /\ Len(loadQ'[s]) = Len(loadQ[s]) + 1
          /\ \A t \in Servers : \A i \in 1..Len(loadQ'[t]) :
              loadQ'[t][i].req = m \/ \E j \in 1..Len(loadQ[t]) : loadQ'[t][i] = loadQ[t][j]
      BY <3>1, PlacePark
    <3>3. \A t \in Servers : Len(loadQ'[t]) <= QueueLen
      <4>1. Len(loadQ[s]) \in Nat /\ QueueLen \in Nat
        BY <2>0, ConstFacts
      <4>2. Len(loadQ'[s]) <= QueueLen
        BY <2>1, <3>2, <4>1
      <4>3. \A t \in Servers \ {s} : loadQ'[t] = loadQ[t]
        BY <2>0, <3>1 DEF Push
      <4> QED BY <2>0, <4>2, <4>3
    <3> QED BY <2>0, <3>1, <3>2, <3>3
  <2>2. CASE ~(Len(loadQ[s]) < QueueLen)
    <3>1. dropped' = dropped \cup {m.sn} /\ UNCHANGED loadQ
      BY <2>2 DEF LoadUserInfo
    <3>2. PlaceInv'
      BY <3>1, PlaceDrop
    <3> QED BY <1>0, <2>0, <3>1, <3>2
  <2> QED BY <2>1, <2>2
<1>1. TypeInv' /\ RoomInv'
  <2>1. /\ net' \subseteq Packets /\ cache' \in [Servers -> [Users -> Infos]]
        /\ writeQ' \in [Servers -> Seq(Users)] /\ unsaved' \subseteq Users
        /\ effects' \in [Requests -> Nat] /\ \A t \in Servers : Len(writeQ'[t]) <= QueueLen
    BY <1>0 DEF IInv, TypeInv, RoomInv
  <2> QED BY <2>1, <1>q, CachedSame, DealTypes
<1>5. PktInv'
  <2>1. GoodParked(m)
    BY <1>0 DEF GoodParked
  <2>2. \A t \in Servers : \A i \in 1..Len(loadQ'[t]) :
          \/ GoodParked(loadQ'[t][i].req)
          \/ \E j \in 1..Len(loadQ[t]) : loadQ'[t][i] = loadQ[t][j]
    BY <2>1, <1>q
  <2> QED BY <2>2, <1>0, <1>k, PktStep DEF IInv, Taken
<1> QED BY <1>1, <1>5, <1>q, <1>c, <1>r DEF IInv

\* A friend request goes on to the server of the other user, with the name of
\* the first one.
LEMMA ForwardKeeps ==
  ASSUME IInv, NEW s \in Servers, NEW m, NEW n, Taken(m, n, loadedQ'), m.cmd = "AddFriendReq",
         cache[s][m.user] # NoInfo,
         net' = n \cup {Packet("AddFriendReq2", m.sn, m.user, m.other, cache[s][m.user].nick, 0)},
         UNCHANGED <<cache, loadQ, writeQ, dropped, effects, unsaved>>,
         UNCHANGED <<now, passwd, online, db, loader, writer, up, faults, sent, answer>>
  PROVE  IInv'
<1>0. /\ m \in Packets /\ GoodPkt(m) /\ m.user \in Users /\ m.other \in Users
      /\ m.sn \in Requests /\ n \subseteq net /\ effects[m.sn] = 0
      /\ \A u \in Users : passwd[u] # m.sn
  BY DEF Taken, GoodPkt, Packets, FriendCmds
<1>k. PICK k : k = Packet("AddFriendReq2", m.sn, m.user, m.other, cache[s][m.user].nick, 0)
  OBVIOUS
<1>p. /\ k \in Packets /\ k.sn = m.sn /\ k.cmd = "AddFriendReq2" /\ k.user = m.user
      /\ k.other = m.other /\ k.tag = passwd[m.user] /\ k.tag # None
  <2>1. cache[s][m.user] \in Infos /\ cache[s][m.user].nick = passwd[m.user] /\ passwd[m.user] # None
    BY <1>0 DEF IInv, TypeInv, CopyInv, Own
  <2>2. cache[s][m.user].nick \in Tags \cup {None}
    BY <2>1 DEF Infos
  <2> QED BY <1>0, <1>k, <2>1, <2>2 DEF Packet, Packets, UserCmds
<1>n. net' = n \cup {k}
  BY <1>k
<1>m. KeptMono
  BY KeptSame
<1>1. TypeInv' /\ RoomInv'
  <2>1. /\ net' \subseteq Packets /\ cache' \in [Servers -> [Users -> Infos]]
        /\ writeQ' \in [Servers -> Seq(Users)] /\ unsaved' \subseteq Users
        /\ effects' \in [Requests -> Nat] /\ \A t \in Servers : Len(writeQ'[t]) <= QueueLen
        /\ loadQ' \in [Servers -> Seq(Loads)] /\ dropped' \subseteq Requests
        /\ \A t \in Servers : Len(loadQ'[t]) <= QueueLen
    BY <1>0, <1>n, <1>p DEF IInv, TypeInv, RoomInv
  <2> QED BY <2>1, CachedSame, DealTypes
<1>3. PlaceInv'
  BY <1>n, <1>p, PlaceReplace
<1>5. PktInv'
  <2>1. GoodPkt(k)'
    BY <1>0, <1>p DEF GoodPkt, FriendCmds
  <2>2. \A x \in net' : x \in net \/ GoodPkt(x)'
    BY <2>1, <1>0, <1>n
  <2> QED BY <2>2, <1>m, PktStep DEF IInv, Taken
<1>6. CopyInv'
  BY CopySame DEF IInv
<1>7. RegisteredKept'
  BY <1>m, RegisteredMono, ConstFacts DEF IInv
<1> QED BY <1>1, <1>3, <1>5, <1>6, <1>7 DEF IInv

\* DealPkg, with a packet from the bus or from a loader.
LEMMA DealPkgKeeps ==
  ASSUME IInv, NEW s \in Servers, NEW m, NEW n, Taken(m, n, loadedQ'),
         m.cmd = "UserRegisterReq" => s = RegisterServer(m.user), DealPkg(s, m, n)
  PROVE  IInv'
<1>0. UNCHANGED <<now, passwd, online, db, loader, writer, up, faults, sent, answer>>
  BY DEF DealPkg
<1>g. GoodPkt(m)
  BY DEF Taken
<1>1. CASE UserRegister(s, m, n)
  BY <1>0, <1>1, UserRegisterKeeps
<1>2. CASE UserAddFriend(s, m, n)
  <2>0. m.cmd = "AddFriendReq" /\ m.cmd \in FriendCmds /\ m.user \in Users /\ m.other \in Users
    BY <1>2, <1>g DEF UserAddFriend, FriendCmds, GoodPkt
  <2>1. CASE cache[s][m.user] = NoInfo
    <3>1. LoadUserInfo(s, m.user, m) /\ net' = n /\ UNCHANGED <<cache, writeQ, effects, unsaved>>
      BY <1>2, <2>1 DEF UserAddFriend
    <3> QED BY <1>0, <2>0, <3>1, LoadUserKeeps
  <2>2. CASE cache[s][m.user] # NoInfo /\ GetUserServer(m.other) # s
    <3>1. /\ net' = n \cup {Packet("AddFriendReq2", m.sn, m.user, m.other, cache[s][m.user].nick, 0)}
          /\ UNCHANGED <<cache, loadQ, writeQ, dropped, effects, unsaved>>
      BY <1>2, <2>2 DEF UserAddFriend
    <3> QED BY <1>0, <2>0, <2>2, <3>1, ForwardKeeps
  <2>3. CASE cache[s][m.user] # NoInfo /\ GetUserServer(m.other) = s /\ cache[s][m.other] = NoInfo
    <3>1. LoadUserInfo(s, m.other, m) /\ net' = n /\ UNCHANGED <<cache, writeQ, effects, unsaved>>
      BY <1>2, <2>3 DEF UserAddFriend
    <3> QED BY <1>0, <2>0, <3>1, LoadUserKeeps
  <2>4. CASE cache[s][m.user] # NoInfo /\ GetUserServer(m.other) = s /\ cache[s][m.other] # NoInfo
    <3>1. Befriend(s, m, n)
      BY <1>2, <2>4 DEF UserAddFriend
    <3> QED BY <1>0, <2>0, <2>4, <3>1, BefriendKeeps
  <2> QED BY <2>1, <2>2, <2>3, <2>4
<1>3. CASE UserAddFriend2(s, m, n)
  <2>0. m.cmd \in FriendCmds /\ m.other \in Users
    BY <1>3, <1>g DEF UserAddFriend2, FriendCmds, GoodPkt
  <2>1. CASE cache[s][m.other] = NoInfo
    <3>1. LoadUserInfo(s, m.other, m) /\ net' = n /\ UNCHANGED <<cache, writeQ, effects, unsaved>>
      BY <1>3, <2>1 DEF UserAddFriend2
    <3> QED BY <1>0, <2>0, <3>1, LoadUserKeeps
  <2>2. CASE cache[s][m.other] # NoInfo
    <3>1. Befriend(s, m, n)
      BY <1>3, <2>2 DEF UserAddFriend2
    <3> QED BY <1>0, <2>0, <2>2, <3>1, BefriendKeeps
  <2> QED BY <2>1, <2>2
<1> QED BY <1>1, <1>2, <1>3 DEF DealPkg

-----------------------------------------------------------------------------
(* The user server *)

\* Run of the user server: a packet from the bus.
LEMMA UserRecvKeeps ==
  ASSUME IInv, NEW s \in Servers, NEW m \in net, UserRecv(s, m)
  PROVE  IInv'
<1>1. Taken(m, net \ {m}, loadedQ')
  BY TakeBus DEF UserRecv
<1>2. m.cmd = "UserRegisterReq" => s = RegisterServer(m.user)
  BY DEF UserRecv, ServerOf
<1> QED BY <1>1, <1>2, DealPkgKeeps DEF UserRecv

\* A packet leaves the system, dropped.
LEMMA DropKeeps ==
  ASSUME IInv, NEW m, Taken(m, net', loadedQ'), dropped' = dropped \cup {m.sn},
         faults' \in 0..MaxFaults, up' \subseteq Servers,
         UNCHANGED <<now, passwd, online, cache, loadQ, writeQ, db, loader,
                     writer, sent, answer, effects, unsaved>>
  PROVE  IInv'
<1>0. net' \subseteq net /\ m.sn \in Requests
  BY DEF Taken, Packets
<1>1. TypeInv'
  BY <1>0 DEF IInv, TypeInv, Taken
<1>2. RoomInv'
  BY DEF IInv, RoomInv, Cached, Taken
<1>3. PlaceInv'
  BY PlaceDrop
<1>4. KeptMono
  BY KeptSame
<1>5. PktInv'
  BY <1>0, <1>4, PktStep DEF IInv, Taken
<1>6. CopyInv'
  BY CopySame DEF IInv
<1>7. RegisteredKept'
  BY <1>4, RegisteredMono, ConstFacts DEF IInv
<1> QED BY <1>1, <1>2, <1>3, <1>5, <1>6, <1>7 DEF IInv

\* The server dies in DealPkg, with or without the stores to the table and the
\* write it asks for.
LEMMA DieKeeps ==
  ASSUME IInv, NEW s \in Servers, NEW m, Taken(m, net', loadedQ'), m.cmd \in UserCmds,
         DieInDealPkg(s, m)
  PROVE  IInv'
<1>0. /\ dropped' = dropped \cup {m.sn} /\ up' \subseteq Servers /\ faults' \in 0..MaxFaults
      /\ UNCHANGED <<now, passwd, online, loadQ, db, loader, writer, sent, answer>>
  BY ConstFacts DEF DieInDealPkg, Fault, IInv, TypeInv
<1>1. CASE UNCHANGED <<cache, effects, writeQ, unsaved>>
  BY <1>0, <1>1, DropKeeps
<1>2. CASE /\ UserStores(s, m)
           /\ \/ unsaved' = unsaved \cup {Written(m)} /\ UNCHANGED writeQ
              \/ WriteUserInfo(s, Written(m))
  <2>0. /\ m \in Packets /\ GoodPkt(m) /\ m.sn \in Requests /\ m.user \in Users
        /\ m.tag \in Tags \cup {None} /\ net' \subseteq net
    BY DEF Taken, Packets, GoodPkt, UserCmds
  <2>1. Written(m) \in Users
    BY <2>0 DEF Written, GoodPkt, UserCmds, FriendCmds
  <2>w. /\ writeQ' \in [Servers -> Seq(Users)]
        /\ \A t \in Servers : Len(writeQ'[t]) <= QueueLen
        /\ unsaved' \subseteq Users
        /\ KeptMono
    <3>1. CASE unsaved' = unsaved \cup {Written(m)} /\ UNCHANGED writeQ
      <4>1. KeptMono
        BY <1>0, <3>1 DEF KeptMono, Kept
      <4> QED BY <2>1, <3>1, <4>1 DEF IInv, TypeInv, RoomInv
    <3>2. CASE WriteUserInfo(s, Written(m))
      BY <1>0, <2>1, <3>2, WriteKept
    <3> QED BY <1>2, <3>1, <3>2
  <2>2. TableInv' /\ PktInv' /\ effects' \in [Requests -> Nat]
    <3>1. CASE m.cmd = "UserRegisterReq" /\ InsertNew(s, m) /\ UNCHANGED effects
      <4>1. TableInv'
        BY <1>0, <2>0, <3>1, InsertNewTable DEF GoodPkt
      <4>2. PktInv'
        BY <1>0, <2>0, <2>w, <3>1, PktStep DEF IInv, Taken
      <4> QED BY <3>1, <4>1, <4>2 DEF IInv, TypeInv
    <3>2. CASE m.cmd \in FriendCmds /\ cache[s][m.other] # NoInfo /\ AddToList(s, m)
      <4>1. m.other \in Users
        BY <2>0, <3>2 DEF GoodPkt
      <4>2. TableInv'
        BY <1>0, <2>0, <3>2, <4>1, AddToListTable
      <4>3. effects' = [effects EXCEPT ![m.sn] = @ + 1]
        BY <3>2 DEF AddToList
      <4> QED BY <1>0, <2>w, <3>2, <4>2, <4>3, EffectPkts
    <3> QED BY <1>2, <3>1, <3>2 DEF UserStores, FriendCmds
  <2>3. TypeInv' /\ RoomInv'
    <3>1. /\ net' \subseteq Packets /\ loadQ' \in [Servers -> Seq(Loads)] /\ dropped' \subseteq Requests
          /\ \A t \in Servers : Len(loadQ'[t]) <= QueueLen
      BY <1>0, <2>0 DEF IInv, TypeInv, RoomInv
    <3>2. /\ cache' \in [Servers -> [Users -> Infos]]
          /\ \A t \in Servers : IsFiniteSet(Cached(t)') /\ Cardinality(Cached(t)') <= MaxUserNodeNum
      BY <2>2 DEF TableInv
    <3> QED BY <3>1, <3>2, <1>0, <2>2, <2>w, DeathTypes
  <2>4. PlaceInv'
    BY <1>0, PlaceDrop
  <2>5. RegisteredKept'
    BY <1>0, <2>w, RegisteredMono, ConstFacts DEF IInv
  <2> QED BY <2>2, <2>3, <2>4, <2>5 DEF IInv, TableInv
<1> QED BY <1>1, <1>2 DEF DieInDealPkg

\* Run of the user server: an answer of the loaders.
LEMMA UserLoadedKeeps ==
  ASSUME IInv, NEW s \in Servers, UserLoaded(s)
  PROVE  IInv'
<1> DEFINE rsp == Head(loadedQ[s])
<1>1. loadedQ[s] # << >> /\ loadedQ' = Pop(loadedQ, s)
  BY DEF UserLoaded, Pop
<1>2. PICK m : m = rsp.req
  OBVIOUS
<1>3. Taken(m, net, loadedQ') /\ m.cmd \in FriendCmds
  BY <1>1, <1>2, TakeLoaded
<1>4. CASE rsp.ret # 0
  <2>1. /\ dropped' = dropped \cup {m.sn}
        /\ UNCHANGED <<now, passwd, online, net, cache, loadQ, writeQ, db,
                       loader, writer, up, faults, sent, answer, effects, unsaved>>
    BY <1>2, <1>4 DEF UserLoaded
  <2>2. faults' \in 0..MaxFaults /\ up' \subseteq Servers
    BY <2>1 DEF IInv, TypeInv
  <2>3. Taken(m, net', loadedQ')
    BY <1>3, <2>1
  <2> HIDE DEF rsp
  <2> QED BY <2>1, <2>2, <2>3, DropKeeps
<1>5. CASE rsp.ret = 0
  <2>1. DealPkg(s, m, net)
    BY <1>2, <1>5 DEF UserLoaded
  <2>2. m.cmd # "UserRegisterReq"
    BY <1>3 DEF FriendCmds
  <2> HIDE DEF rsp
  <2> QED BY <1>3, <2>1, <2>2, DealPkgKeeps
<1> QED BY <1>4, <1>5

\* A step that changes nothing but the time, who runs and the fault count.
LEMMA QuietKeeps ==
  ASSUME IInv, now' \in Clock, up' \subseteq Servers, faults' \in 0..MaxFaults,
         UNCHANGED <<passwd, online, net, cache, loadQ, loadedQ, writeQ, db, loader,
                     writer, sent, answer, dropped, effects, unsaved>>
  PROVE  IInv'
<1>1. TypeInv'
  BY DEF IInv, TypeInv
<1>2. RoomInv' /\ PlaceInv' /\ CopyInv' /\ KeptMono
  BY RoomSame, PlaceSame, CopySame, KeptSame DEF IInv
<1>3. PktInv'
  BY <1>2, PktSame DEF IInv
<1>4. RegisteredKept'
  BY <1>2, RegisteredMono, ConstFacts DEF IInv
<1> QED BY <1>1, <1>2, <1>3, <1>4 DEF IInv

\* A step that takes users out of the tables and puts nobody in.
Forgets ==
  /\ cache' \in [Servers -> [Users -> Infos]]
  /\ \A t \in Servers, v \in Users : cache'[t][v] = NoInfo \/ cache'[t][v] = cache[t][v]

\* Nothing else depends on who is in the tables.
LEMMA ForgetKeeps ==
  ASSUME IInv, Forgets, up' \subseteq Servers, faults' \in 0..MaxFaults,
         UNCHANGED <<now, passwd, online, net, loadQ, loadedQ, writeQ, db, loader,
                     writer, sent, answer, dropped, effects, unsaved>>
  PROVE  IInv'
<1>1. TypeInv'
  BY DEF IInv, TypeInv, Forgets
<1>2. RoomInv'
  <2>1. \A t \in Servers : Cached(t)' \subseteq Cached(t)
    BY DEF Cached, Forgets
  <2>2. ASSUME NEW t \in Servers
        PROVE  IsFiniteSet(Cached(t)') /\ Cardinality(Cached(t)') <= MaxUserNodeNum
    <3>1. IsFiniteSet(Cached(t)) /\ Cardinality(Cached(t)) <= MaxUserNodeNum
      BY DEF IInv, RoomInv
    <3>2. IsFiniteSet(Cached(t)') /\ Cardinality(Cached(t)') <= Cardinality(Cached(t))
      BY <2>1, <3>1, FS_Subset
    <3>3. Cardinality(Cached(t)) \in Nat /\ Cardinality(Cached(t)') \in Nat /\ MaxUserNodeNum \in Nat
      BY <3>1, <3>2, FS_CardinalityType, ServiceAssumption
    <3> QED BY <3>1, <3>2, <3>3
  <2> QED BY <2>2 DEF IInv, RoomInv
<1>3. PlaceInv'
  BY PlaceSame
<1>4. KeptMono
  BY KeptSame
<1>5. PktInv'
  BY <1>4, PktSame DEF IInv
<1>6. CopyInv'
  <2>1. \A x, v : Own(x, v) => Own(x, v)'
    BY DEF Own
  <2>2. \A v : Own(NoInfo, v)'
    BY DEF Own
  <2>3. \A t \in Servers, v \in Users :
          /\ Own(cache[t][v], v)'
          /\ cache'[t][v] # NoInfo => cache'[t][v].active \in Clock /\ cache'[t][v].reqs \in FullList
    <3> TAKE t \in Servers, v \in Users
    <3>1. CASE cache'[t][v] = NoInfo
      BY <3>1 DEF Own
    <3>2. CASE cache'[t][v] = cache[t][v]
      BY <3>2 DEF IInv, CopyInv, Own
    <3> QED BY <3>1, <3>2 DEF Forgets
  <2> QED BY <2>1, <2>3 DEF IInv, CopyInv
<1>7. RegisteredKept'
  BY <1>4, RegisteredMono, ConstFacts DEF IInv
<1> QED BY <1>1, <1>2, <1>3, <1>5, <1>6, <1>7 DEF IInv

\* One user is taken out.
LEMMA EvictForgets ==
  ASSUME IInv, NEW s \in Servers, NEW u \in Users, cache' = [cache EXCEPT ![s][u] = NoInfo]
  PROVE  Forgets
<1>1. /\ cache' \in [Servers -> [Users -> Infos]] /\ cache'[s][u] = NoInfo
      /\ \A t \in Servers, v \in Users : t # s \/ v # u => cache'[t][v] = cache[t][v]
  BY ConstFacts DEF IInv, TypeInv
<1> QED BY <1>1 DEF Forgets

\* All steps of a user server.
LEMMA UserStepKeeps ==
  ASSUME IInv, NEW s \in Servers, UserStep(s)
  PROVE  IInv'
<1>1. CASE UserInit(s)
  <2>1. /\ up' \subseteq Servers /\ faults' \in 0..MaxFaults
        /\ UNCHANGED <<now, passwd, online, net, loadQ, loadedQ, writeQ, db, loader,
                       writer, sent, answer, dropped, effects, unsaved>>
        /\ cache' = cache \/ cache' = [cache EXCEPT ![s] = [u \in Users |-> NoInfo]]
    BY <1>1 DEF UserInit, IInv, TypeInv
  <2>2. Forgets
    <3>1. CASE cache' = cache
      BY <3>1 DEF Forgets, IInv, TypeInv
    <3>2. CASE cache' = [cache EXCEPT ![s] = [u \in Users |-> NoInfo]]
      BY <3>2, ConstFacts DEF Forgets, IInv, TypeInv
    <3> QED BY <2>1, <3>1, <3>2
  <2> QED BY <2>1, <2>2, ForgetKeeps
<1> QED BY <1>1, UserRecvKeeps, UserLoadedKeeps DEF UserStep

\* An eviction from the table.
LEMMA CheckValidKeeps ==
  ASSUME IInv, NEW s \in Servers, NEW u \in Users, CheckValid(s, u)
  PROVE  IInv'
<1>1. /\ cache' = [cache EXCEPT ![s][u] = NoInfo]
      /\ up' \subseteq Servers /\ faults' \in 0..MaxFaults
      /\ UNCHANGED <<now, passwd, online, net, loadQ, loadedQ, writeQ, db, loader,
                     writer, sent, answer, dropped, effects, unsaved>>
  BY DEF CheckValid, IInv, TypeInv
<1>2. Forgets
  BY <1>1, EvictForgets
<1> QED BY <1>1, <1>2, ForgetKeeps

-----------------------------------------------------------------------------
(* Loaders *)

\* A loader takes a request out of its queue.
LEMMA LoaderTakeKeeps ==
  ASSUME IInv, NEW s \in Servers, NEW l \in AllLoaders, LoaderTake(s, l)
  PROVE  IInv'
<1>e. PICK e : e = [pc |-> "query", load |-> Head(loadQ[s]), row |-> NoInfo]
  OBVIOUS
<1>0. /\ loadQ[s] # << >> /\ loadQ' = Pop(loadQ, s) /\ loader' = [loader EXCEPT ![l] = e]
      /\ loader[l].pc = "idle"
      /\ UNCHANGED <<now, passwd, online, net, cache, loadedQ, writeQ, db, writer,
                     up, faults, sent, answer, dropped, effects, unsaved>>
  BY <1>e DEF LoaderTake, Pop
<1>h. PICK h : h = Head(loadQ[s])
  OBVIOUS
<1>t. loadQ \in [Servers -> Seq(Loads)] /\ UniqQ(loadQ) /\ UniqL(loader) /\ DOMAIN loader = AllLoaders
  BY DEF IInv, TypeInv, PlaceInv
<1>a. 1 \in 1..Len(loadQ[s]) /\ h = loadQ[s][1] /\ h \in Loads
  BY <1>0, <1>h, <1>t
<1>b. /\ h.req \in Packets /\ h.req.sn \in Requests /\ GoodParked(h.req)
      /\ InQ(loadQ, h.req.sn)
  BY <1>a DEF Loads, Packets, IInv, PktInv, InQ
<1>c. e.pc = "query" /\ e.load = h /\ e.row = NoInfo /\ e.pc \in InHand
  BY <1>e, <1>h DEF InHand
<1>q. Popped(Loads, loadQ, s, h.req.sn, loadQ')
  BY <1>0, <1>h, <1>t, TailQ, Zenon
<1>p. PlaceOf(h.req.sn)
  BY <1>b DEF IInv, PlaceInv
<1>d. loader'[l] = e /\ \A k \in AllLoaders \ {l} : loader'[k] = loader[k]
  BY <1>0, <1>t
<1>l. UniqL(loader') /\ \A x : InL(loader', x) <=> InL(loader, x) \/ x = h.req.sn
  <2>1. ~InL(loader, h.req.sn) /\ loader[l].pc \notin InHand
    BY <1>p, <1>b, <1>0 DEF PlaceOf, InHand
  <2> QED BY <2>1, <1>c, <1>d, <1>t DEF UniqL, InL
<1>1. TypeInv'
  <2>1. loadQ' \in [Servers -> Seq(Loads)]
    BY <1>q DEF Popped
  <2>2. e \in [pc : {"idle", "down"} \cup InHand, load : Loads \cup {NoLoad}, row : Infos]
    BY <1>a, <1>e, <1>h, ConstFacts DEF InHand
  <2>3. loader' \in [AllLoaders -> [pc : {"idle", "down"} \cup InHand,
                                    load : Loads \cup {NoLoad}, row : Infos]]
    BY <2>2, <1>0 DEF IInv, TypeInv
  <2>4. \A k \in AllLoaders : loader'[k].pc \in InHand => loader'[k].load \in Loads
    BY <1>a, <1>c, <1>d DEF IInv, TypeInv
  <2> QED BY <2>1, <2>3, <2>4, <1>0 DEF IInv, TypeInv
<1>2. RoomInv'
  <2>1. \A t \in Servers \ {s} : loadQ'[t] = loadQ[t]
    BY <1>0, <1>t DEF Pop
  <2>2. Len(loadQ'[s]) <= QueueLen
    <3>1. Len(loadQ'[s]) <= Len(loadQ[s]) /\ Len(loadQ[s]) <= QueueLen
      BY <1>q DEF Popped, IInv, RoomInv
    <3>2. Len(loadQ'[s]) \in Nat /\ Len(loadQ[s]) \in Nat /\ QueueLen \in Nat
      BY <1>q, <1>t, ConstFacts DEF Popped
    <3> QED BY <3>1, <3>2
  <2> QED BY <2>1, <2>2, <1>0 DEF IInv, RoomInv, Cached
<1>3. PlaceInv'
  <2>1. ASSUME NEW sn \in Requests PROVE PlaceOf(sn)'
    <3>1. PlaceOf(sn)
      BY DEF IInv, PlaceInv
    <3>2. /\ InN(net', sn) <=> InN(net, sn)
          /\ InQ(loadQ', sn) <=> InQ(loadQ, sn) /\ sn # h.req.sn
          /\ InQ(loadedQ', sn) <=> InQ(loadedQ, sn)
          /\ InL(loader', sn) <=> InL(loader, sn) \/ sn = h.req.sn
      BY <1>0, <1>q, <1>l DEF Popped
    <3> QED BY <3>1, <3>2, <1>0, <1>b, <1>p DEF PlaceOf, Pending
  <2> QED BY <2>1, <1>0, <1>q, <1>l DEF IInv, PlaceInv, Popped
<1>4. KeptMono
  BY <1>0, KeptSame
<1>5. PktInv'
  <2>1. \A k \in AllLoaders : loader'[k].pc \in InHand =>
          \/ GoodParked(loader'[k].load.req)
          \/ loader[k].pc \in InHand /\ loader'[k].load = loader[k].load
    BY <1>b, <1>c, <1>d
  <2>2. \A t \in Servers : \A i \in 1..Len(loadQ'[t]) : \E j \in 1..Len(loadQ[t]) : loadQ'[t][i] = loadQ[t][j]
    BY <1>q DEF Popped
  <2> QED BY <2>1, <2>2, <1>0, <1>4, PktStep DEF IInv
<1>6. CopyInv'
  <2>1. \A x, v : Own(x, v) => Own(x, v)'
    BY <1>0 DEF Own
  <2>2. \A k \in AllLoaders : loader'[k].pc = "insert" => loader'[k] = loader[k]
    BY <1>c, <1>d
  <2> QED BY <2>1, <2>2, <1>0 DEF IInv, CopyInv
<1>7. RegisteredKept'
  BY <1>0, <1>4, RegisteredMono, ConstFacts DEF IInv
<1> QED BY <1>1, <1>2, <1>3, <1>5, <1>6, <1>7 DEF IInv

\* A loader reads the row of the user.
LEMMA LoaderQueryKeeps ==
  ASSUME IInv, NEW l \in AllLoaders, NEW ok \in BOOLEAN, LoaderQuery(l, ok)
  PROVE  IInv'
<1>e. PICK e : e = [pc |-> "insert", load |-> loader[l].load,
                    row |-> IF ok THEN db[loader[l].load.user] ELSE NoInfo]
  OBVIOUS
<1>0. /\ loader' = [loader EXCEPT ![l] = e] /\ loader[l].pc = "query"
      /\ UNCHANGED <<now, passwd, online, net, cache, loadQ, loadedQ, writeQ, db,
                     writer, up, sent, answer, dropped, effects, unsaved>>
  BY <1>e DEF LoaderQuery
<1>t. UniqL(loader) /\ DOMAIN loader = AllLoaders
  BY DEF IInv, TypeInv, PlaceInv
<1>a. loader[l].pc \in InHand /\ loader[l].load \in Loads /\ loader[l].load.user \in Users
  BY <1>0 DEF InHand, IInv, TypeInv, Loads
<1>c. /\ e.pc = "insert" /\ e.load = loader[l].load /\ e.pc \in InHand
      /\ e.row \in Infos /\ Own(e.row, loader[l].load.user)
      /\ e \in [pc : {"idle", "down"} \cup InHand, load : Loads \cup {NoLoad}, row : Infos]
  <2>1. db[loader[l].load.user] \in Infos /\ Own(db[loader[l].load.user], loader[l].load.user)
    BY <1>a DEF IInv, TypeInv, CopyInv
  <2>2. Own(NoInfo, loader[l].load.user)
    BY DEF Own
  <2>3. e.row = db[loader[l].load.user] \/ e.row = NoInfo
    BY <1>e
  <2>4. e.pc = "insert" /\ e.load = loader[l].load /\ e.pc \in InHand
    BY <1>e DEF InHand
  <2>5. e.row \in Infos /\ Own(e.row, loader[l].load.user)
    BY <2>1, <2>2, <2>3, ConstFacts
  <2>6. e = [pc |-> "insert", load |-> loader[l].load, row |-> e.row]
    BY <1>e
  <2> QED BY <2>4, <2>5, <2>6, <1>a DEF InHand
<1>d. loader'[l] = e /\ \A k \in AllLoaders \ {l} : loader'[k] = loader[k]
  BY <1>0, <1>t
<1>l. UniqL(loader') /\ \A x : InL(loader', x) <=> InL(loader, x)
  BY <1>a, <1>c, <1>d DEF UniqL, InL, IInv, PlaceInv
<1>f. faults' \in 0..MaxFaults
  BY QueryFaults DEF LoaderQuery
<1>1. TypeInv'
  <2>3. loader' \in [AllLoaders -> [pc : {"idle", "down"} \cup InHand,
                                    load : Loads \cup {NoLoad}, row : Infos]]
    BY <1>c, <1>0 DEF IInv, TypeInv
  <2>4. \A k \in AllLoaders : loader'[k].pc \in InHand => loader'[k].load \in Loads
    BY <1>a, <1>c, <1>d DEF IInv, TypeInv
  <2> QED BY <2>3, <2>4, <1>0, <1>f DEF IInv, TypeInv
<1>2. RoomInv'
  BY <1>0, RoomSame DEF IInv
<1>3. PlaceInv'
  <2>1. ASSUME NEW sn \in Requests PROVE PlaceOf(sn)'
    <3>1. PlaceOf(sn)
      BY DEF IInv, PlaceInv
    <3> QED BY <3>1, <1>0, <1>l DEF PlaceOf, Pending
  <2> QED BY <2>1, <1>0, <1>l DEF IInv, PlaceInv
<1>4. KeptMono
  BY <1>0, KeptSame
<1>5. PktInv'
  <2>1. \A k \in AllLoaders : loader'[k].pc \in InHand =>
          loader[k].pc \in InHand /\ loader'[k].load = loader[k].load
    BY <1>a, <1>c, <1>d
  <2> QED BY <2>1, <1>0, <1>4, PktStep DEF IInv
<1>6. CopyInv'
  <2>1. \A x, v : Own(x, v) => Own(x, v)'
    BY <1>0 DEF Own
  <2>2. \A k \in AllLoaders : loader'[k].pc = "insert" => Own(loader'[k].row, loader'[k].load.user)
    BY <1>c, <1>d DEF IInv, CopyInv
  <2>3. (\A k \in AllLoaders : loader[k].pc = "insert" => Own(loader[k].row, loader[k].load.user))'
    BY <2>1, <2>2
  <2> QED BY <2>1, <2>3, <1>0 DEF IInv, CopyInv
<1>7. RegisteredKept'
  BY <1>0, <1>4, RegisteredMono, ConstFacts DEF IInv
<1> QED BY <1>1, <1>2, <1>3, <1>5, <1>6, <1>7 DEF IInv

\* A loader that ends up without a request, its last one gone or dropped.
LEMMA LoaderDropKeeps ==
  ASSUME IInv, NEW l \in AllLoaders, NEW e, e \in {Idle, [Idle EXCEPT !.pc = "down"]},
         loader' = [loader EXCEPT ![l] = e], faults' \in 0..MaxFaults,
         dropped' = IF loader[l].pc \in InHand THEN dropped \cup {loader[l].load.req.sn}
                    ELSE dropped,
         UNCHANGED <<now, passwd, online, net, cache, loadQ, loadedQ, writeQ, db,
                     writer, up, sent, answer, effects, unsaved>>
  PROVE  IInv'
<1>t. UniqL(loader) /\ DOMAIN loader = AllLoaders
  BY DEF IInv, TypeInv, PlaceInv
<1>e. /\ e \in [pc : {"idle", "down"} \cup InHand, load : Loads \cup {NoLoad}, row : Infos]
      /\ e.pc \notin InHand /\ e.pc # "insert"
  BY ConstFacts DEF Idle, InHand
<1>d. loader'[l] = e /\ \A k \in AllLoaders \ {l} : loader'[k] = loader[k]
  BY <1>t
<1>l. /\ UniqL(loader')
      /\ \A x : InL(loader', x) <=>
           InL(loader, x) /\ ~(loader[l].pc \in InHand /\ loader[l].load.req.sn = x)
  BY <1>t, <1>e, ClearL
<1>s. loader[l].pc \in InHand => loader[l].load.req.sn \in Requests /\ InL(loader, loader[l].load.req.sn)
  BY DEF IInv, TypeInv, Loads, Packets, InL
<1>1. TypeInv'
  <2>3. loader' \in [AllLoaders -> [pc : {"idle", "down"} \cup InHand,
                                    load : Loads \cup {NoLoad}, row : Infos]]
    BY <1>e DEF IInv, TypeInv
  <2>4. \A k \in AllLoaders : loader'[k].pc \in InHand => loader'[k].load \in Loads
    BY <1>e, <1>d DEF IInv, TypeInv
  <2>5. dropped' \subseteq Requests
    BY <1>s DEF IInv, TypeInv
  <2> QED BY <2>3, <2>4, <2>5 DEF IInv, TypeInv
<1>2. RoomInv'
  BY RoomSame DEF IInv
<1>3. PlaceInv'
  <2>1. ASSUME NEW sn \in Requests PROVE PlaceOf(sn)'
    <3>1. PlaceOf(sn)
      BY DEF IInv, PlaceInv
    <3>2. CASE loader[l].pc \in InHand /\ loader[l].load.req.sn = sn
      <4>1. ~InL(loader', sn) /\ InL(loader, sn) /\ dropped' = dropped \cup {sn}
        BY <3>2, <1>l, <1>s
      <4> QED BY <3>1, <4>1 DEF PlaceOf, Pending
    <3>3. CASE ~(loader[l].pc \in InHand /\ loader[l].load.req.sn = sn)
      <4>1. (InL(loader', sn) <=> InL(loader, sn)) /\ (sn \in dropped' <=> sn \in dropped)
        BY <3>3, <1>l
      <4> QED BY <3>1, <4>1 DEF PlaceOf, Pending
    <3> QED BY <3>2, <3>3
  <2> QED BY <2>1, <1>l DEF IInv, PlaceInv
<1>4. KeptMono
  BY KeptSame
<1>5. PktInv'
  <2>1. \A k \in AllLoaders : loader'[k].pc \in InHand =>
          loader[k].pc \in InHand /\ loader'[k].load = loader[k].load
    BY <1>d, <1>e
  <2> QED BY <2>1, <1>4, PktStep DEF IInv
<1>6. CopyInv'
  <2>1. \A x, v : Own(x, v) => Own(x, v)'
    BY DEF Own
  <2>2. \A k \in AllLoaders : loader'[k].pc = "insert" => loader'[k] = loader[k]
    BY <1>e, <1>d
  <2> QED BY <2>1, <2>2 DEF IInv, CopyInv
<1>7. RegisteredKept'
  BY <1>4, RegisteredMono, ConstFacts DEF IInv
<1> QED BY <1>1, <1>2, <1>3, <1>5, <1>6, <1>7 DEF IInv

\* A loader enters the user into the table.
LEMMA LoaderInsertKeeps ==
  ASSUME IInv, NEW s \in Servers, NEW l \in AllLoaders, LoaderInsert(s, l)
  PROVE  IInv'
<1>m. PICK load, row : load = loader[l].load /\ row = loader[l].row
  OBVIOUS
<1> DEFINE good == row # NoInfo /\ CanInsert(s, load.user)
<1>g. PICK ok \in BOOLEAN : ok = good
  OBVIOUS
<1>n. PICK n : n = [pc |-> "answer", load |-> load, row |-> IF ok THEN row ELSE NoInfo]
  OBVIOUS
<1>0. /\ loader[l].pc = "insert" /\ loader' = [loader EXCEPT ![l] = n]
      /\ cache' = IF ok THEN [cache EXCEPT ![s][load.user] = UserProtoString2Struct(row)]
                  ELSE cache
      /\ UNCHANGED <<now, passwd, online, net, loadQ, loadedQ, writeQ, db, writer, up, faults,
                     sent, answer, dropped, effects, unsaved>>
  BY <1>m, <1>g, <1>n DEF LoaderInsert
<1>t. UniqL(loader) /\ DOMAIN loader = AllLoaders /\ now \in Clock
  BY DEF IInv, TypeInv, PlaceInv
<1>a. /\ loader[l].pc \in InHand /\ load \in Loads /\ load.user \in Users
      /\ row \in Infos /\ Own(row, load.user)
  <2>1. loader[l].pc \in InHand /\ load \in Loads /\ row \in Infos
    BY <1>0, <1>m DEF InHand, IInv, TypeInv
  <2>2. Own(row, load.user)
    BY <1>0, <1>m, <2>1 DEF IInv, CopyInv
  <2> QED BY <1>m, <2>1, <2>2 DEF Loads
<1>i. /\ n.pc \in InHand /\ n.pc # "insert" /\ n.load = loader[l].load
      /\ n \in [pc : {"idle", "down"} \cup InHand, load : Loads \cup {NoLoad}, row : Infos]
  <2>1. n.row \in Infos /\ n = [pc |-> "answer", load |-> load, row |-> n.row]
    BY <1>a, <1>n, ConstFacts
  <2>2. n.pc = "answer" /\ n.load = load
    BY <1>n
  <2> QED BY <1>a, <1>m, <2>1, <2>2 DEF InHand
<1>d. loader'[l] = n /\ \A k \in AllLoaders \ {l} : loader'[k] = loader[k]
  BY <1>0, <1>t
<1>l. UniqL(loader') /\ \A x : InL(loader', x) <=> InL(loader, x)
  BY <1>a, <1>i, <1>d DEF UniqL, InL, IInv, PlaceInv
<1>c. /\ cache' \in [Servers -> [Users -> Infos]]
      /\ \A t \in Servers : IsFiniteSet(Cached(t)') /\ Cardinality(Cached(t)') <= MaxUserNodeNum
      /\ CopyInv'
  <2>0. \A k \in AllLoaders : loader'[k].pc = "insert" => loader'[k] = loader[k]
    BY <1>d, <1>i
  <2>1. CASE ~ok
    <3>1. UNCHANGED cache
      BY <1>0, <2>1
    <3>2. CopyInv'
      <4>1. \A x, v : Own(x, v) => Own(x, v)'
        BY <1>0 DEF Own
      <4> QED BY <2>0, <3>1, <4>1, <1>0 DEF IInv, CopyInv
    <3> QED BY <3>1, <3>2, CachedSame DEF IInv, TypeInv
  <2>2. CASE ok
    <3>e. PICK e : e = UserProtoString2Struct(row)
      OBVIOUS
    <3>1. cache' = [cache EXCEPT ![s][load.user] = e]
      BY <1>0, <2>2, <3>e
    <3>2. /\ e \in Infos /\ e # NoInfo /\ e.nick = row.nick /\ e.birthday = None
          /\ e.active \in Clock /\ e.reqs \in FullList
      <4>1. PICK nk \in Tags \cup {None}, nb \in Tags \cup {None} : nk = row.nick /\ nb = None
        BY <1>a DEF Infos
      <4>2. e = [nick |-> nk, birthday |-> nb, active |-> now, reqs |-> EmptyList]
        BY <3>e, <4>1 DEF UserProtoString2Struct
      <4>3. /\ e \in Infos /\ e # NoInfo /\ e.nick = nk /\ e.birthday = nb
            /\ e.active \in Clock /\ e.reqs \in FullList
        BY <1>t, <4>2, NewInfo
      <4> QED BY <4>1, <4>3
    <3>3. /\ cache' \in [Servers -> [Users -> Infos]]
          /\ \A t \in Servers : IsFiniteSet(Cached(t)') /\ Cardinality(Cached(t)') <= MaxUserNodeNum
          /\ cache'[s][load.user] = e
          /\ \A t \in Servers, v \in Users : t # s \/ v # load.user => cache'[t][v] = cache[t][v]
      <4>1. Cardinality(Cached(s)) < MaxUserNodeNum
        BY <2>2, <1>g DEF CanInsert
      <4>2. PICK u \in Users : u = load.user
        BY <1>a
      <4>3. cache' = [cache EXCEPT ![s][u] = e]
        BY <3>1, <4>2
      <4>4. /\ cache' \in [Servers -> [Users -> Infos]]
            /\ \A t \in Servers : IsFiniteSet(Cached(t)') /\ Cardinality(Cached(t)') <= MaxUserNodeNum
            /\ cache'[s][u] = e
            /\ \A t \in Servers, v \in Users : t # s \/ v # u => cache'[t][v] = cache[t][v]
        <5> HIDE DEF good
        <5> QED BY <4>1, <4>3, <3>2, CacheSet, ZenonT(60)
      <4> QED BY <4>2, <4>4
    <3>4. Own(e, load.user)
      BY <1>a, <1>g, <2>2, <3>2 DEF Own
    <3>5. CopyInv'
      BY <1>0, <1>a, <2>0, <3>2, <3>3, <3>4, CacheCopy
    <3> QED BY <3>3, <3>5
  <2> QED BY <2>1, <2>2
<1>1. TypeInv'
  <2>3. loader' \in [AllLoaders -> [pc : {"idle", "down"} \cup InHand,
                                    load : Loads \cup {NoLoad}, row : Infos]]
    BY <1>i, <1>0 DEF IInv, TypeInv
  <2>4. \A k \in AllLoaders : loader'[k].pc \in InHand => loader'[k].load \in Loads
    BY <1>a, <1>i, <1>d, <1>m DEF IInv, TypeInv
  <2> QED BY <2>3, <2>4, <1>0, <1>c DEF IInv, TypeInv
<1>2. RoomInv'
  BY <1>0, <1>c DEF IInv, RoomInv
<1>3. PlaceInv'
  <2>1. ASSUME NEW sn \in Requests PROVE PlaceOf(sn)'
    <3>1. PlaceOf(sn)
      BY DEF IInv, PlaceInv
    <3> QED BY <3>1, <1>0, <1>l DEF PlaceOf, Pending
  <2> QED BY <2>1, <1>0, <1>l DEF IInv, PlaceInv
<1>4. KeptMono
  BY <1>0, KeptSame
<1>5. PktInv'
  <2>1. \A k \in AllLoaders : loader'[k].pc \in InHand =>
          loader[k].pc \in InHand /\ loader'[k].load = loader[k].load
    BY <1>a, <1>i, <1>d
  <2> QED BY <2>1, <1>0, <1>4, PktStep DEF IInv
<1>7. RegisteredKept'
  BY <1>0, <1>4, RegisteredMono, ConstFacts DEF IInv
<1> QED BY <1>1, <1>2, <1>3, <1>5, <1>7, <1>c DEF IInv

\* A loader gives the request back.
LEMMA LoaderAnswerKeeps ==
  ASSUME IInv, NEW s \in Servers, NEW l \in AllLoaders, LoaderAnswer(s, l)
  PROVE  IInv'
<1>m. PICK load, m : load = loader[l].load /\ m = load.req
  OBVIOUS
<1>g. PICK ret \in {0, -1} : ret = IF loader[l].row # NoInfo THEN 0 ELSE -1
  OBVIOUS
<1>0. /\ loader[l].pc = "answer" /\ loader' = [loader EXCEPT ![l] = Idle]
      /\ IF Len(loadedQ[s]) < QueueLen
         THEN /\ loadedQ' = Push(loadedQ, s, [ret |-> ret, req |-> m])
              /\ UNCHANGED dropped
         ELSE dropped' = dropped \cup {m.sn} /\ UNCHANGED loadedQ
      /\ UNCHANGED <<now, passwd, online, net, cache, loadQ, writeQ, db, writer, up, faults,
                     sent, answer, effects, unsaved>>
  BY <1>m, <1>g DEF LoaderAnswer, Push
<1>t. /\ UniqL(loader) /\ DOMAIN loader = AllLoaders /\ now \in Clock
      /\ loadedQ \in [Servers -> Seq(Loadeds)] /\ UniqQ(loadedQ)
  BY DEF IInv, TypeInv, PlaceInv
<1>a. /\ loader[l].pc \in InHand /\ load \in Loads /\ load.user \in Users /\ m \in Packets
      /\ m.sn \in Requests /\ GoodParked(m)
  <2>1. loader[l].pc \in InHand /\ load \in Loads
    BY <1>0, <1>m DEF InHand, IInv, TypeInv
  <2>2. GoodParked(m)
    BY <1>m, <2>1 DEF IInv, PktInv
  <2> QED BY <1>m, <2>1, <2>2 DEF Loads, Packets
<1>i. /\ Idle.pc \notin InHand /\ Idle.pc # "insert"
      /\ Idle \in [pc : {"idle", "down"} \cup InHand, load : Loads \cup {NoLoad}, row : Infos]
  BY ConstFacts DEF Idle, InHand
<1>d. loader'[l] = Idle /\ \A k \in AllLoaders \ {l} : loader'[k] = loader[k]
  BY <1>0, <1>t
<1>l. /\ UniqL(loader')
      /\ \A x : InL(loader', x) <=> InL(loader, x) /\ m.sn # x
  <2>1. loader[l].pc \in InHand /\ loader[l].load.req.sn = m.sn /\ loader'[l].pc \notin InHand
    BY <1>a, <1>d, <1>i, <1>m
  <2>2. \A k \in AllLoaders : loader'[k].pc \in InHand => k # l /\ loader'[k] = loader[k]
    BY <1>d, <2>1
  <2>3. UniqL(loader')
    BY <1>t, <2>2 DEF UniqL
  <2>4. \A k \in AllLoaders : loader[k].pc \in InHand /\ loader[k].load.req.sn = m.sn => k = l
    BY <1>t, <2>1 DEF UniqL
  <2>5. ASSUME NEW x PROVE InL(loader', x) => InL(loader, x) /\ m.sn # x
    BY <2>2, <2>4 DEF InL
  <2>6. ASSUME NEW x PROVE InL(loader, x) /\ m.sn # x => InL(loader', x)
    BY <1>d, <2>1 DEF InL
  <2> QED BY <2>3, <2>5, <2>6
<1>p. PlaceOf(m.sn) /\ InL(loader, m.sn)
  BY <1>a, <1>m DEF IInv, PlaceInv, InL
<1>q. /\ PlaceInv' /\ dropped' \subseteq Requests /\ loadedQ' \in [Servers -> Seq(Loadeds)]
      /\ \A t \in Servers : Len(loadedQ'[t]) <= QueueLen
      /\ \A t \in Servers : \A i \in 1..Len(loadedQ'[t]) :
           loadedQ'[t][i].req = m \/ \E j \in 1..Len(loadedQ[t]) : loadedQ'[t][i] = loadedQ[t][j]
  <2>0. dropped \subseteq Requests /\ \A t \in Servers : Len(loadedQ[t]) <= QueueLen
    BY DEF IInv, TypeInv, RoomInv
  <2>1. CASE Len(loadedQ[s]) < QueueLen
    <3>e. PICK e : e = [ret |-> ret, req |-> m]
      OBVIOUS
    <3>1. loadedQ' = Push(loadedQ, s, e) /\ UNCHANGED dropped
      BY <1>0, <2>1, <3>e
    <3>2. e \in Loadeds /\ e.req = m /\ m.sn = e.req.sn
      BY <1>a, <3>e DEF Loadeds
    <3>3. ~InQ(loadedQ, m.sn)
      BY <1>p DEF PlaceOf
    <3>4. Pushed(Loadeds, loadedQ, s, m.sn, e, loadedQ')
      BY <1>t, <3>1, <3>2, <3>3, AppendQ, Zenon
    <3>5. PlaceInv'
      <4>1. ASSUME NEW sn \in Requests PROVE PlaceOf(sn)'
        <5>1. PlaceOf(sn)
          BY DEF IInv, PlaceInv
        <5>2. /\ InN(net', sn) <=> InN(net, sn)
              /\ InQ(loadQ', sn) <=> InQ(loadQ, sn)
              /\ InQ(loadedQ', sn) <=> InQ(loadedQ, sn) \/ sn = m.sn
              /\ InL(loader', sn) <=> InL(loader, sn) /\ m.sn # sn
          BY <1>0, <1>l, <3>4 DEF Pushed
        <5> QED BY <5>1, <5>2, <1>0, <1>p, <3>1 DEF PlaceOf, Pending
      <4> QED BY <4>1, <1>0, <1>l, <3>4 DEF IInv, PlaceInv, Pushed
    <3>6. \A t \in Servers : Len(loadedQ'[t]) <= QueueLen
      <4>1. Len(loadedQ[s]) \in Nat /\ QueueLen \in Nat
        BY <1>t, ConstFacts
      <4>2. Len(loadedQ'[s]) <= QueueLen
        BY <2>1, <3>4, <4>1 DEF Pushed
      <4>3. \A t \in Servers \ {s} : loadedQ'[t] = loadedQ[t]
        BY <1>t, <3>1 DEF Push
      <4> QED BY <2>0, <4>2, <4>3
    <3>7. loadedQ' \in [Servers -> Seq(Loadeds)]
      BY <3>4 DEF Pushed
    <3>8. \A t \in Servers : \A i \in 1..Len(loadedQ'[t]) :
            loadedQ'[t][i].req = m \/ \E j \in 1..Len(loadedQ[t]) : loadedQ'[t][i] = loadedQ[t][j]
      BY <3>2, <3>4 DEF Pushed
    <3> QED BY <2>0, <3>1, <3>5, <3>6, <3>7, <3>8
  <2>2. CASE ~(Len(loadedQ[s]) < QueueLen)
    <3>1. dropped' = dropped \cup {m.sn} /\ UNCHANGED loadedQ
      BY <1>0, <2>2
    <3>2. PlaceInv'
      <4>1. ASSUME NEW sn \in Requests PROVE PlaceOf(sn)'
        <5>1. PlaceOf(sn)
          BY DEF IInv, PlaceInv
        <5>2. InL(loader', sn) <=> InL(loader, sn) /\ m.sn # sn
          BY <1>l
        <5> QED BY <5>1, <5>2, <1>0, <1>p, <3>1 DEF PlaceOf, Pending
      <4> QED BY <4>1, <1>0, <1>l, <3>1 DEF IInv, PlaceInv
    <3> QED BY <1>a, <1>t, <2>0, <3>1, <3>2
  <2> QED BY <2>1, <2>2
<1>1. TypeInv'
  <2>3. loader' \in [AllLoaders -> [pc : {"idle", "down"} \cup InHand,
                                    load : Loads \cup {NoLoad}, row : Infos]]
    BY <1>i, <1>0 DEF IInv, TypeInv
  <2>4. \A k \in AllLoaders : loader'[k].pc \in InHand => loader'[k].load \in Loads
    BY <1>i, <1>d DEF IInv, TypeInv
  <2> QED BY <2>3, <2>4, <1>0, <1>q DEF IInv, TypeInv
<1>2. RoomInv'
  BY <1>0, <1>q DEF IInv, RoomInv, Cached
<1>3. CopyInv'
  <2>1. \A x, v : Own(x, v) => Own(x, v)'
    BY <1>0 DEF Own
  <2>2. \A k \in AllLoaders : loader'[k].pc = "insert" => loader'[k] = loader[k]
    BY <1>d, <1>i
  <2> QED BY <2>1, <2>2, <1>0 DEF IInv, CopyInv
<1>4. KeptMono
  BY <1>0, KeptSame
<1>5. PktInv'
  <2>1. \A k \in AllLoaders : loader'[k].pc \in InHand =>
          loader[k].pc \in InHand /\ loader'[k].load = loader[k].load
    BY <1>i, <1>d
  <2>2. \A t \in Servers : \A i \in 1..Len(loadedQ'[t]) :
          \/ GoodParked(loadedQ'[t][i].req)
          \/ \E j \in 1..Len(loadedQ[t]) : loadedQ'[t][i] = loadedQ[t][j]
    BY <1>a, <1>q
  <2> QED BY <2>1, <2>2, <1>0, <1>4, PktStep DEF IInv
<1>7. RegisteredKept'
  BY <1>0, <1>4, RegisteredMono, ConstFacts DEF IInv
<1> QED BY <1>1, <1>2, <1>3, <1>5, <1>7, <1>q DEF IInv

\* All steps of a loader.
LEMMA LoaderStepKeeps ==
  ASSUME IInv, NEW s \in Servers, NEW l \in Loaders[s], LoaderStep(s, l)
  PROVE  IInv'
<1>1. l \in AllLoaders
  BY DEF AllLoaders
<1>2. CASE LoaderEntity(l)
  <2>1. /\ loader[l].pc = "down" /\ loader' = [loader EXCEPT ![l] = Idle]
        /\ UNCHANGED <<now, passwd, online, net, cache, loadQ, loadedQ, writeQ, db,
                       writer, up, faults, sent, answer, dropped, effects, unsaved>>
    BY <1>2 DEF LoaderEntity
  <2>2. faults' \in 0..MaxFaults /\ loader[l].pc \notin InHand
    BY <2>1 DEF IInv, TypeInv, InHand
  <2> QED BY <1>1, <2>1, <2>2, LoaderDropKeeps
<1> QED BY <1>1, <1>2, LoaderTakeKeeps, LoaderQueryKeeps, LoaderInsertKeeps,
          LoaderAnswerKeeps DEF LoaderStep

-----------------------------------------------------------------------------
(* Writers *)

\* A step of a writer: every write under way stays under way, is done or is
\* given up.
LEMMA WriterKeeps ==
  ASSUME IInv, KeptMono,
         writer' \in [AllWriters -> [pc : {"idle", "down", "get", "replace"},
                                     user : Users \cup {None}, row : Infos]],
         \A w \in AllWriters : writer'[w].pc \in {"get", "replace"} => writer'[w].user \in Users,
         \A w \in AllWriters : writer'[w].pc = "replace" =>
            writer'[w].row # NoInfo /\ Own(writer'[w].row, writer'[w].user),
         writeQ' \in [Servers -> Seq(Users)], \A t \in Servers : Len(writeQ'[t]) <= QueueLen,
         db' \in [Users -> Infos], \A u \in Users : Own(db'[u], u),
         unsaved' \subseteq Users, faults' \in 0..MaxFaults,
         UNCHANGED <<now, passwd, online, net, cache, loadQ, loadedQ, loader,
                     up, sent, answer, dropped, effects>>
  PROVE  IInv'
<1>1. TypeInv'
  BY DEF IInv, TypeInv
<1>2. RoomInv'
  BY DEF IInv, RoomInv, Cached
<1>3. PlaceInv'
  BY PlaceSame
<1>5. PktInv'
  BY PktSame DEF IInv
<1>6. CopyInv'
  <2>1. \A x, v : Own(x, v) => Own(x, v)'
    BY DEF Own
  <2>2. (\A w \in AllWriters : writer[w].pc = "replace" =>
            writer[w].row # NoInfo /\ Own(writer[w].row, writer[w].user))'
    BY <2>1
  <2>3. (\A u \in Users : Own(db[u], u))'
    BY <2>1
  <2> QED BY <2>1, <2>2, <2>3 DEF IInv, CopyInv
<1>7. RegisteredKept'
  BY RegisteredMono, ConstFacts DEF IInv
<1> QED BY <1>1, <1>2, <1>3, <1>5, <1>6, <1>7 DEF IInv

\* What a writer's step finds.
LEMMA WriterFacts ==
  ASSUME IInv
  PROVE  /\ writer \in [AllWriters -> [pc : {"idle", "down", "get", "replace"},
                                       user : Users \cup {None}, row : Infos]]
         /\ \A w \in AllWriters : writer[w].pc \in {"get", "replace"} => writer[w].user \in Users
         /\ \A w \in AllWriters : writer[w].pc = "replace" =>
              writer[w].row # NoInfo /\ Own(writer[w].row, writer[w].user)
         /\ writeQ \in [Servers -> Seq(Users)] /\ \A t \in Servers : Len(writeQ[t]) <= QueueLen
         /\ db \in [Users -> Infos] /\ \A u \in Users : Own(db[u], u)
         /\ unsaved \subseteq Users /\ faults \in 0..MaxFaults
         /\ \A u \in Users : RegisterServer(u) \in Servers
<1>1. \A u \in Users : RegisterServer(u) \in Servers
  BY ConstFacts DEF RegisterServer, Servers
<1> QED BY <1>1 DEF IInv, TypeInv, RoomInv, CopyInv

\* A writer takes a user id out of its queue.
LEMMA WriterTakeKeeps ==
  ASSUME IInv, NEW s \in Servers, NEW w \in AllWriters, WriterTake(s, w)
  PROVE  IInv'
<1>e. PICK e : e = [pc |-> "get", user |-> Head(writeQ[s]), row |-> NoInfo]
  OBVIOUS
<1>0. /\ writer[w].pc = "idle" /\ writeQ[s] # << >>
      /\ writer' = [writer EXCEPT ![w] = e] /\ writeQ' = [writeQ EXCEPT ![s] = Tail(@)]
      /\ UNCHANGED <<now, passwd, online, net, cache, loadQ, loadedQ, db, loader, up,
                     faults, sent, answer, dropped, effects, unsaved>>
  BY <1>e DEF WriterTake
<1>f. /\ writer \in [AllWriters -> [pc : {"idle", "down", "get", "replace"},
                                     user : Users \cup {None}, row : Infos]]
      /\ writeQ \in [Servers -> Seq(Users)] /\ \A t \in Servers : Len(writeQ[t]) <= QueueLen
      /\ QueueLen \in Nat
  BY WriterFacts, ConstFacts
<1>1. /\ writeQ[s] \in Seq(Users) /\ Len(writeQ[s]) \in Nat \ {0} /\ Tail(writeQ[s]) \in Seq(Users)
      /\ Len(Tail(writeQ[s])) = Len(writeQ[s]) - 1 /\ Head(writeQ[s]) = writeQ[s][1]
      /\ \A i \in 1..Len(writeQ[s]) - 1 : Tail(writeQ[s])[i] = writeQ[s][i + 1]
      /\ Head(writeQ[s]) \in Users
  BY <1>0, <1>f
<1>2. /\ writeQ' \in [Servers -> Seq(Users)] /\ writeQ'[s] = Tail(writeQ[s])
      /\ \A t \in Servers \ {s} : writeQ'[t] = writeQ[t]
  BY <1>0, <1>1, <1>f
<1>3. \A t \in Servers : Len(writeQ'[t]) <= QueueLen
  <2>1. Len(writeQ'[s]) <= QueueLen
    BY <1>1, <1>2, <1>f
  <2> QED BY <2>1, <1>2, <1>f
<1>4. /\ e.pc = "get" /\ e.user = writeQ[s][1]
      /\ e \in [pc : {"idle", "down", "get", "replace"}, user : Users \cup {None}, row : Infos]
  BY <1>e, <1>1, ConstFacts
<1>5. writer'[w] = e /\ \A v \in AllWriters \ {w} : writer'[v] = writer[v]
  BY <1>0, <1>f
<1>6. writer' \in [AllWriters -> [pc : {"idle", "down", "get", "replace"},
                                   user : Users \cup {None}, row : Infos]]
  BY <1>0, <1>4, <1>f
<1>7. \A v \in AllWriters : writer'[v].pc \in {"get", "replace"} => writer'[v].user \in Users
  BY <1>1, <1>4, <1>5, WriterFacts
<1>8. \A v \in AllWriters : writer'[v].pc = "replace" =>
        writer'[v].row # NoInfo /\ Own(writer'[v].row, writer'[v].user)
  BY <1>4, <1>5, WriterFacts
<1>9. KeptMono
  <2> SUFFICES ASSUME NEW u \in Users, Kept(u) PROVE Kept(u)'
    BY DEF KeptMono
  <2>1. RegisterServer(u) \in Servers
    BY WriterFacts
  <2>2. CASE db[u] # NoInfo \/ u \in unsaved
    BY <2>2, <1>0 DEF Kept
  <2>3. ASSUME NEW v \in AllWriters, writer[v].pc \in {"get", "replace"}, writer[v].user = u
        PROVE Kept(u)'
    <3>1. writer'[v] = writer[v]
      BY <2>3, <1>0, <1>5
    <3> QED BY <2>3, <3>1 DEF Kept
  <2>4. ASSUME NEW i \in 1..Len(writeQ[RegisterServer(u)]), writeQ[RegisterServer(u)][i] = u
        PROVE Kept(u)'
    <3>1. CASE RegisterServer(u) # s
      <4>1. writeQ'[RegisterServer(u)] = writeQ[RegisterServer(u)]
        BY <3>1, <2>1, <1>2
      <4> QED BY <2>4, <4>1 DEF Kept
    <3>2. CASE RegisterServer(u) = s /\ i = 1
      <4>1. writer'[w].pc = "get" /\ writer'[w].user = u
        BY <2>4, <3>2, <1>4, <1>5
      <4> QED BY <4>1 DEF Kept
    <3>3. CASE RegisterServer(u) = s /\ i # 1
      <4>1. i - 1 \in 1..Len(writeQ[s]) - 1 /\ (i - 1) + 1 = i
        BY <3>3, <1>1
      <4>2. i - 1 \in 1..Len(writeQ'[s]) /\ writeQ'[s][i - 1] = u
        BY <2>4, <3>3, <4>1, <1>1, <1>2
      <4> QED BY <3>3, <4>2 DEF Kept
    <3> QED BY <3>1, <3>2, <3>3
  <2> QED BY <2>2, <2>3, <2>4 DEF Kept
<1>10. /\ db' \in [Users -> Infos] /\ \A u \in Users : Own(db'[u], u)
       /\ unsaved' \subseteq Users /\ faults' \in 0..MaxFaults
  BY <1>0, WriterFacts
<1> QED BY <1>0, <1>2, <1>3, <1>6, <1>7, <1>8, <1>9, <1>10, WriterKeeps

\* A writer's state changes; the queue of writes does not.
LEMMA WriterSetKeeps ==
  ASSUME IInv, NEW w \in AllWriters,
         NEW e \in [pc : {"idle", "down", "get", "replace"}, user : Users \cup {None}, row : Infos],
         writer' = [writer EXCEPT ![w] = e],
         e.pc \in {"get", "replace"} => e.user \in Users,
         e.pc = "replace" => e.row # NoInfo /\ Own(e.row, e.user),
         writer[w].pc \in {"get", "replace"} =>
           \/ e.pc \in {"get", "replace"} /\ e.user = writer[w].user
           \/ writer[w].user \in unsaved'
           \/ db'[writer[w].user] # NoInfo,
         db' \in [Users -> Infos], \A u \in Users : Own(db'[u], u),
         \A u \in Users : db[u] # NoInfo => db'[u] # NoInfo,
         unsaved \subseteq unsaved', unsaved' \subseteq Users, faults' \in 0..MaxFaults,
         UNCHANGED <<now, passwd, online, net, cache, loadQ, loadedQ, loader, writeQ,
                     up, sent, answer, dropped, effects>>
  PROVE  IInv'
<1>1. writer'[w] = e /\ \A v \in AllWriters \ {w} : writer'[v] = writer[v]
  BY WriterFacts
<1>2. writer' \in [AllWriters -> [pc : {"idle", "down", "get", "replace"},
                                   user : Users \cup {None}, row : Infos]]
  BY WriterFacts
<1>3. \A v \in AllWriters : writer'[v].pc \in {"get", "replace"} => writer'[v].user \in Users
  BY <1>1, WriterFacts
<1>4. \A v \in AllWriters : writer'[v].pc = "replace" =>
        writer'[v].row # NoInfo /\ Own(writer'[v].row, writer'[v].user)
  BY <1>1, WriterFacts
<1>5. KeptMono
  <2> SUFFICES ASSUME NEW u \in Users, Kept(u) PROVE Kept(u)'
    BY DEF KeptMono
  <2>1. CASE db[u] # NoInfo \/ u \in unsaved
    BY <2>1 DEF Kept
  <2>2. ASSUME NEW v \in AllWriters, writer[v].pc \in {"get", "replace"}, writer[v].user = u
        PROVE Kept(u)'
    <3>1. CASE v # w
      <4>1. writer'[v] = writer[v]
        BY <3>1, <1>1
      <4> QED BY <2>2, <4>1 DEF Kept
    <3>2. CASE v = w
      BY <2>2, <3>2, <1>1 DEF Kept
    <3> QED BY <3>1, <3>2
  <2> QED BY <2>1, <2>2 DEF Kept
<1>6. writeQ' \in [Servers -> Seq(Users)] /\ \A t \in Servers : Len(writeQ'[t]) <= QueueLen
  BY WriterFacts
<1> QED BY <1>2, <1>3, <1>4, <1>5, <1>6, WriterKeeps

\* A writer that is idle or dead holds no copy.
LEMMA NoWriteFacts ==
  ASSUME NEW e, e \in {NoWrite, [NoWrite EXCEPT !.pc = "down"]}
  PROVE  /\ e \in [pc : {"idle", "down", "get", "replace"}, user : Users \cup {None}, row : Infos]
         /\ e.pc \notin {"get", "replace"} /\ e.pc # "replace"
BY ConstFacts DEF NoWrite

\* A writer copies the user out of the table.
LEMMA WriterGetKeeps ==
  ASSUME IInv, NEW s \in Servers, NEW w \in AllWriters, WriterGet(s, w)
  PROVE  IInv'
<1>u. PICK u : u = writer[w].user
  OBVIOUS
<1>0. /\ writer[w].pc = "get" /\ u \in Users
      /\ UNCHANGED <<now, passwd, online, net, cache, loadQ, loadedQ, writeQ, db,
                     loader, up, faults, sent, answer, dropped, effects>>
  BY <1>u, WriterFacts DEF WriterGet
<1>f. /\ db' \in [Users -> Infos] /\ \A v \in Users : Own(db'[v], v)
      /\ \A v \in Users : db[v] # NoInfo => db'[v] # NoInfo
      /\ faults' \in 0..MaxFaults /\ unsaved \subseteq Users
  BY <1>0, WriterFacts
<1>1. CASE cache[s][u] = NoInfo
  <2>1. writer' = [writer EXCEPT ![w] = NoWrite] /\ unsaved' = unsaved \cup {u}
    BY <1>1, <1>u DEF WriterGet
  <2>2. /\ NoWrite \in [pc : {"idle", "down", "get", "replace"}, user : Users \cup {None}, row : Infos]
        /\ NoWrite.pc \notin {"get", "replace"} /\ NoWrite.pc # "replace"
    BY NoWriteFacts
  <2>3. unsaved \subseteq unsaved' /\ unsaved' \subseteq Users /\ writer[w].user \in unsaved'
    BY <1>0, <1>f, <1>u, <2>1
  <2> QED BY <1>0, <1>f, <2>1, <2>2, <2>3, WriterSetKeeps
<1>2. CASE cache[s][u] # NoInfo
  <2>i. PICK info : info = cache[s][u]
    OBVIOUS
  <2>e. PICK e : e = [pc |-> "replace", user |-> u, row |-> Struct2ProtoStringUser(info)]
    OBVIOUS
  <2>1. writer' = [writer EXCEPT ![w] = e] /\ unsaved' = unsaved
    BY <1>2, <1>u, <2>i, <2>e DEF WriterGet
  <2>2. info \in Infos /\ Own(info, u) /\ info # NoInfo
    BY <1>0, <1>2, <2>i DEF IInv, TypeInv, CopyInv
  <2>3. PICK row : row = Struct2ProtoStringUser(info)
    OBVIOUS
  <2>4. row = [nick |-> info.nick, birthday |-> info.birthday, active |-> 0, reqs |-> << >>]
    BY <2>3 DEF Struct2ProtoStringUser
  <2>5. row \in Infos /\ row.nick = info.nick /\ row.birthday = info.birthday
    BY <2>2, <2>4 DEF Infos
  <2>6. row # NoInfo /\ Own(row, u)
    <3>1. info.nick # None
      BY <2>2 DEF Own
    <3>2. NoInfo.nick = None
      BY DEF NoInfo
    <3> QED BY <2>2, <2>5, <3>1, <3>2 DEF Own
  <2>7. /\ e.pc = "replace" /\ e.user = u /\ e.row = row
        /\ e \in [pc : {"idle", "down", "get", "replace"}, user : Users \cup {None}, row : Infos]
    BY <1>0, <2>e, <2>3, <2>5
  <2>8. unsaved \subseteq unsaved' /\ unsaved' \subseteq Users
    BY <1>f, <2>1
  <2> QED BY <1>0, <1>f, <1>u, <2>1, <2>6, <2>7, <2>8, WriterSetKeeps
<1> QED BY <1>1, <1>2

\* A writer replaces the row of the user.
LEMMA WriterReplaceKeeps ==
  ASSUME IInv, NEW w \in AllWriters, NEW ok \in BOOLEAN, WriterReplace(w, ok)
  PROVE  IInv'
<1>u. PICK u, row : u = writer[w].user /\ row = writer[w].row
  OBVIOUS
<1>0. /\ writer[w].pc = "replace" /\ writer' = [writer EXCEPT ![w] = NoWrite]
      /\ UNCHANGED <<now, passwd, online, net, cache, loadQ, loadedQ, writeQ, loader,
                     up, sent, answer, dropped, effects>>
  BY DEF WriterReplace
<1>r. u \in Users /\ row \in Infos /\ row # NoInfo /\ Own(row, u)
  BY <1>0, <1>u, WriterFacts
<1>n. /\ NoWrite \in [pc : {"idle", "down", "get", "replace"}, user : Users \cup {None}, row : Infos]
      /\ NoWrite.pc \notin {"get", "replace"} /\ NoWrite.pc # "replace"
  BY NoWriteFacts
<1>f. faults' \in 0..MaxFaults
  BY QueryFaults DEF WriterReplace
<1>d. db \in [Users -> Infos] /\ (\A v \in Users : Own(db[v], v)) /\ unsaved \subseteq Users
  BY WriterFacts
<1>1. CASE ok
  <2>1. db' = [db EXCEPT ![u] = row] /\ unsaved' = unsaved
    BY <1>1, <1>u DEF WriterReplace
  <2>2. db' \in [Users -> Infos] /\ db'[u] = row /\ \A v \in Users \ {u} : db'[v] = db[v]
    BY <2>1, <1>d, <1>r
  <2>3. /\ \A v \in Users : Own(db'[v], v)
        /\ \A v \in Users : db[v] # NoInfo => db'[v] # NoInfo
        /\ db'[writer[w].user] # NoInfo
        /\ unsaved \subseteq unsaved' /\ unsaved' \subseteq Users
    BY <2>1, <2>2, <1>d, <1>r, <1>u
  <2> QED BY <2>2, <2>3, <1>0, <1>f, <1>n, WriterSetKeeps
<1>2. CASE ~ok
  <2>1. db' = db /\ unsaved' = unsaved \cup {u}
    BY <1>2, <1>u DEF WriterReplace
  <2>2. /\ db' \in [Users -> Infos] /\ \A v \in Users : Own(db'[v], v)
        /\ \A v \in Users : db[v] # NoInfo => db'[v] # NoInfo
        /\ writer[w].user \in unsaved'
        /\ unsaved \subseteq unsaved' /\ unsaved' \subseteq Users
    BY <2>1, <1>d, <1>r, <1>u
  <2> QED BY <2>2, <1>0, <1>f, <1>n, WriterSetKeeps
<1> QED BY <1>1, <1>2

\* All steps of a writer.
LEMMA WriterStepKeeps ==
  ASSUME IInv, NEW s \in Servers, NEW w \in Writers[s], WriterStep(s, w)
  PROVE  IInv'
<1>1. w \in AllWriters
  BY DEF AllWriters
<1>2. CASE WriterEntity(w)
  <2>1. /\ writer[w].pc = "down" /\ writer' = [writer EXCEPT ![w] = NoWrite]
        /\ UNCHANGED <<now, passwd, online, net, cache, loadQ, loadedQ, writeQ, db,
                       loader, up, faults, sent, answer, dropped, effects, unsaved>>
    BY <1>2 DEF WriterEntity
  <2>2. /\ db' \in [Users -> Infos] /\ \A v \in Users : Own(db'[v], v)
        /\ \A v \in Users : db[v] # NoInfo => db'[v] # NoInfo
        /\ faults' \in 0..MaxFaults /\ unsaved \subseteq unsaved' /\ unsaved' \subseteq Users
        /\ writer[w].pc \notin {"get", "replace"}
    BY <2>1, WriterFacts
  <2>3. /\ NoWrite \in [pc : {"idle", "down", "get", "replace"}, user : Users \cup {None}, row : Infos]
        /\ NoWrite.pc \notin {"get", "replace"} /\ NoWrite.pc # "replace"
    BY NoWriteFacts
  <2> QED BY <1>1, <2>1, <2>2, <2>3, WriterSetKeeps
<1> QED BY <1>1, <1>2, WriterTakeKeeps, WriterGetKeeps, WriterReplaceKeeps DEF WriterStep

-----------------------------------------------------------------------------
(* Faults *)

\* Lost packets and deaths: what was in hand is given up, nothing else changes.
LEMMA FaultStepKeeps == ASSUME IInv, FaultStep PROVE IInv'
<1>0. Fault => faults' \in 0..MaxFaults
  BY ConstFacts DEF IInv, TypeInv, Fault
<1>1. ASSUME NEW m \in net, Lose(m) PROVE IInv'
  <2>1. /\ dropped' = dropped \cup {m.sn} /\ faults' \in 0..MaxFaults /\ up' \subseteq Servers
        /\ net' = net \ {m}
        /\ UNCHANGED <<now, passwd, online, cache, loadQ, loadedQ, writeQ, db, loader,
                       writer, sent, answer, effects, unsaved>>
    BY <1>0, <1>1 DEF Lose, IInv, TypeInv
  <2>2. Taken(m, net', loadedQ')
    BY <2>1, TakeBus
  <2> QED BY <2>1, <2>2, DropKeeps
<1>2. ASSUME NEW m \in net, NEW s \in Servers, UserDies(s, m) PROVE IInv'
  <2>1. m.cmd \in UserCmds /\ DieInDealPkg(s, m) /\ net' = net \ {m} /\ loadedQ' = loadedQ
    BY <1>2 DEF UserDies
  <2>2. Taken(m, net', loadedQ')
    BY <2>1, TakeBus
  <2> QED BY <2>1, <2>2, DieKeeps
<1>2a. ASSUME NEW s \in Servers, UserDiesLoaded(s) PROVE IInv'
  <2>1. PICK m : m = Head(loadedQ[s]).req
    OBVIOUS
  <2>2. /\ loadedQ[s] # << >> /\ DieInDealPkg(s, m)
        /\ loadedQ' = Pop(loadedQ, s) /\ net' = net
    BY <1>2a, <2>1 DEF UserDiesLoaded, Pop
  <2>3. Taken(m, net', loadedQ') /\ m.cmd \in FriendCmds
    BY <2>1, <2>2, TakeLoaded
  <2>4. m.cmd \in UserCmds
    BY <2>3 DEF FriendCmds, UserCmds
  <2> QED BY <2>2, <2>3, <2>4, DieKeeps
<1>2b. ASSUME NEW s \in Servers, NEW u \in Users, UserDiesChecking(s, u) PROVE IInv'
  <2>1. /\ up' \subseteq Servers /\ faults' \in 0..MaxFaults
        /\ UNCHANGED <<now, passwd, online, net, loadQ, loadedQ, writeQ, db, loader,
                       writer, sent, answer, dropped, effects, unsaved>>
        /\ cache' = cache \/ cache' = [cache EXCEPT ![s][u] = NoInfo]
    BY <1>0, <1>2b DEF UserDiesChecking, IInv, TypeInv
  <2>2. CASE cache' = cache
    <3>1. Forgets
      BY <2>2 DEF Forgets, IInv, TypeInv
    <3> QED BY <2>1, <3>1, ForgetKeeps
  <2>3. CASE cache' = [cache EXCEPT ![s][u] = NoInfo]
    <3>1. Forgets
      BY <2>3, EvictForgets
    <3> QED BY <2>1, <3>1, ForgetKeeps
  <2> QED BY <2>1, <2>2, <2>3
<1>3. ASSUME NEW l \in AllLoaders, LoaderDies(l) PROVE IInv'
  <2>e. PICK e : e = [Idle EXCEPT !.pc = "down"]
    OBVIOUS
  <2>1. /\ loader[l].pc # "down" /\ faults' \in 0..MaxFaults
        /\ dropped' = IF loader[l].pc = "idle" THEN dropped ELSE dropped \cup {loader[l].load.req.sn}
        /\ loader' = [loader EXCEPT ![l] = e]
        /\ UNCHANGED <<now, passwd, online, net, cache, loadQ, loadedQ, writeQ, db,
                       writer, up, sent, answer, effects, unsaved>>
    BY <1>0, <1>3, <2>e DEF LoaderDies
  <2>2. loader[l].pc \in InHand <=> loader[l].pc # "idle"
    BY <2>1 DEF IInv, TypeInv, InHand
  <2>3. dropped' = IF loader[l].pc \in InHand THEN dropped \cup {loader[l].load.req.sn} ELSE dropped
    BY <2>1, <2>2
  <2> QED BY <2>1, <2>3, <2>e, LoaderDropKeeps
<1>4. ASSUME NEW w \in AllWriters, WriterDies(w) PROVE IInv'
  <2>e. PICK e : e = [NoWrite EXCEPT !.pc = "down"]
    OBVIOUS
  <2>1. /\ writer[w].pc # "down" /\ faults' \in 0..MaxFaults
        /\ unsaved' = IF writer[w].pc = "idle" THEN unsaved ELSE unsaved \cup {writer[w].user}
        /\ writer' = [writer EXCEPT ![w] = e]
        /\ UNCHANGED <<now, passwd, online, net, cache, loadQ, loadedQ, writeQ, db,
                       loader, up, sent, answer, dropped, effects>>
    BY <1>0, <1>4, <2>e DEF WriterDies
  <2>2. writer[w].pc \in {"idle", "get", "replace"}
    BY <2>1, WriterFacts
  <2>3. writer[w].pc \in {"get", "replace"} => writer[w].user \in Users
    BY WriterFacts
  <2>4. /\ db' \in [Users -> Infos] /\ \A v \in Users : Own(db'[v], v)
        /\ \A v \in Users : db[v] # NoInfo => db'[v] # NoInfo
        /\ unsaved \subseteq unsaved' /\ unsaved' \subseteq Users
        /\ writer[w].pc \in {"get", "replace"} => writer[w].user \in unsaved'
    BY <2>1, <2>2, <2>3, WriterFacts
  <2>5. /\ e \in [pc : {"idle", "down", "get", "replace"}, user : Users \cup {None}, row : Infos]
        /\ e.pc \notin {"get", "replace"} /\ e.pc # "replace"
    BY <2>e, NoWriteFacts
  <2> QED BY <2>1, <2>4, <2>5, WriterSetKeeps
<1> QED BY <1>1, <1>2, <1>2a, <1>2b, <1>3, <1>4 DEF FaultStep

-----------------------------------------------------------------------------
(* All steps *)

\* The invariant holds at the start ...
LEMMA InitIInv == SvcInit => IInv
<1> SUFFICES ASSUME SvcInit PROVE IInv
  OBVIOUS
<1>c. now \in Clock
  <2>1. Clock \subseteq Nat /\ Clock # {}
    BY ServiceAssumption
  <2>2. \E t \in Clock : \A x \in Clock : t <= x
    BY <2>1, LeastOfNat
  <2> QED BY <2>2 DEF SvcInit
<1>l. \A l \in AllLoaders : loader[l] = Idle
  BY DEF SvcInit
<1>w. \A w \in AllWriters : writer[w] = NoWrite
  BY DEF SvcInit
<1>i. Idle.pc \notin InHand /\ Idle.pc # "insert" /\ Idle \in [pc : {"idle", "down"} \cup InHand, load : Loads \cup {NoLoad}, row : Infos]
  BY ConstFacts DEF Idle, InHand
<1>n. /\ NoWrite \in [pc : {"idle", "down", "get", "replace"}, user : Users \cup {None}, row : Infos]
      /\ NoWrite.pc \notin {"get", "replace"} /\ NoWrite.pc # "replace"
  BY NoWriteFacts
<1>d. \A u \in Users : db[u] \in Infos /\ Own(db[u], u)
  <2> TAKE u \in Users
  <2>1. CASE u \in Known
    <3>1. db[u] = [nick |-> u, birthday |-> u, active |-> 0, reqs |-> << >>] /\ passwd[u] = u /\ u # None
      BY <2>1, ConstFacts DEF SvcInit, None
    <3>2. u \in Tags
      BY <2>1 DEF Tags
    <3> QED BY <3>1, <3>2 DEF Infos, Own
  <2>2. CASE u \notin Known
    BY <2>2, ConstFacts DEF SvcInit, Own
  <2> QED BY <2>1, <2>2
<1>1. TypeInv
  <2>1. passwd \in [Users -> Tags \cup {None}]
    BY DEF SvcInit, Tags
  <2>2. cache \in [Servers -> [Users -> Infos]]
    BY ConstFacts DEF SvcInit
  <2>3. db \in [Users -> Infos]
    BY <1>d DEF SvcInit
  <2>4. /\ loadQ \in [Servers -> Seq(Loads)] /\ loadedQ \in [Servers -> Seq(Loadeds)]
        /\ writeQ \in [Servers -> Seq(Users)]
    BY DEF SvcInit
  <2>5. loader \in [AllLoaders -> [pc : {"idle", "down"} \cup InHand, load : Loads \cup {NoLoad}, row : Infos]]
    BY <1>i DEF SvcInit
  <2>6. writer \in [AllWriters -> [pc : {"idle", "down", "get", "replace"}, user : Users \cup {None}, row : Infos]]
    BY <1>n DEF SvcInit
  <2>7. /\ \A l \in AllLoaders : loader[l].pc \in InHand => loader[l].load \in Loads
        /\ \A w \in AllWriters : writer[w].pc \in {"get", "replace"} => writer[w].user \in Users
    BY <1>l, <1>w, <1>i, <1>n
  <2>8. answer \in [Requests -> [ret : -1..2, user : Users \cup {None}]]
    BY DEF SvcInit, NotYet
  <2>9. faults \in 0..MaxFaults /\ online \subseteq Users /\ up \subseteq Servers
        /\ net \subseteq Packets /\ sent \subseteq Requests /\ dropped \subseteq Requests
        /\ unsaved \subseteq Users /\ effects \in [Requests -> Nat]
    BY ConstFacts DEF SvcInit
  <2> QED BY <1>c, <2>1, <2>2, <2>3, <2>4, <2>5, <2>6, <2>7, <2>8, <2>9 DEF TypeInv
<1>q. \A s \in Servers : loadQ[s] = << >> /\ loadedQ[s] = << >> /\ writeQ[s] = << >>
  BY DEF SvcInit
<1>2. RoomInv
  <2>1. \A s \in Servers : Cached(s) = {}
    BY DEF Cached, SvcInit
  <2>2. IsFiniteSet({}) /\ Cardinality({}) = 0 /\ MaxUserNodeNum \in Nat /\ QueueLen \in Nat
    BY FS_EmptySet, ServiceAssumption
  <2>3. Len(<< >>) = 0 /\ 0 <= MaxUserNodeNum /\ 0 <= QueueLen
    BY <2>2
  <2> SUFFICES ASSUME NEW s \in Servers
               PROVE  /\ IsFiniteSet(Cached(s)) /\ Cardinality(Cached(s)) <= MaxUserNodeNum
                      /\ Len(loadQ[s]) <= QueueLen /\ Len(loadedQ[s]) <= QueueLen
                      /\ Len(writeQ[s]) <= QueueLen
    BY DEF RoomInv
  <2>4. IsFiniteSet(Cached(s)) /\ Cardinality(Cached(s)) <= MaxUserNodeNum
    BY <2>1, <2>2, <2>3, Zenon
  <2>5. Len(loadQ[s]) <= QueueLen /\ Len(loadedQ[s]) <= QueueLen /\ Len(writeQ[s]) <= QueueLen
    BY <1>q, <2>3, Zenon
  <2> QED BY <2>4, <2>5
<1>3. PlaceInv
  <2>1. UniqN(net) /\ UniqQ(loadQ) /\ UniqQ(loadedQ) /\ UniqL(loader)
    BY <1>q, <1>l, <1>i DEF SvcInit, UniqN, UniqQ, UniqL
  <2>2. \A x : ~InN(net, x) /\ ~InQ(loadQ, x) /\ ~InQ(loadedQ, x) /\ ~InL(loader, x)
    BY <1>q, <1>l, <1>i DEF SvcInit, InN, InQ, InL
  <2>3. sent = {} /\ dropped = {} /\ \A sn \in Requests : answer[sn] = NotYet
    BY DEF SvcInit
  <2> QED BY <2>1, <2>2, <2>3 DEF PlaceInv, PlaceOf, Pending
<1>5. PktInv
  <2>1. \A sn \in Requests, u \in Users : passwd[u] # sn
    BY ServiceAssumption DEF SvcInit, None
  <2>2. \A sn \in Requests : effects[sn] = 0
    BY DEF SvcInit
  <2> QED BY <1>q, <1>l, <1>i, <2>1, <2>2 DEF PktInv, SvcInit
<1>6. CopyInv
  <2>1. \A s \in Servers, u \in Users : cache[s][u] = NoInfo
    BY DEF SvcInit
  <2> QED BY <1>d, <1>l, <1>w, <1>i, <1>n, <2>1 DEF CopyInv, Own
<1>7. RegisteredKept
  BY DEF RegisteredKept, SvcInit, NotYet
<1> QED BY <1>1, <1>2, <1>3, <1>5, <1>6, <1>7 DEF IInv

\* ... every step keeps it ...
LEMMA NextIInv == IInv /\ [SvcNext]_svcVars => IInv'
<1> SUFFICES ASSUME IInv, [SvcNext]_svcVars PROVE IInv'
  OBVIOUS
<1>1. CASE Tick
  <2>1. /\ now' \in Clock /\ up' \subseteq Servers /\ faults' \in 0..MaxFaults
        /\ UNCHANGED <<passwd, online, net, cache, loadQ, loadedQ, writeQ, db, loader,
                       writer, sent, answer, dropped, effects, unsaved>>
    BY <1>1 DEF Tick, IInv, TypeInv
  <2> QED BY <2>1, QuietKeeps
<1>2. CASE UNCHANGED svcVars
  <2>1. /\ now' \in Clock /\ up' \subseteq Servers /\ faults' \in 0..MaxFaults
        /\ UNCHANGED <<passwd, online, net, cache, loadQ, loadedQ, writeQ, db, loader,
                       writer, sent, answer, dropped, effects, unsaved>>
    BY <1>2 DEF svcVars, IInv, TypeInv
  <2> QED BY <2>1, QuietKeeps
<1> QED BY <1>1, <1>2, ClientStepKeeps, ConnStepKeeps, AuthStepKeeps, FaultStepKeeps,
           UserStepKeeps, CheckValidKeeps, LoaderStepKeeps, WriterStepKeeps DEF SvcNext

\* ... and so it always holds.
LEMMA IInvAlways == SvcSpec => []IInv
BY InitIInv, NextIInv, PTL DEF SvcSpec

-----------------------------------------------------------------------------
(* The places a request is in, counted. *)

\* Where a request waits, place by place.
OnBus(sn) == {<<"bus", m>> : m \in {x \in net : x.sn = sn}}
InLoad(sn, s) == {<<"load", s, i>> : i \in {j \in 1..Len(loadQ[s]) : loadQ[s][j].req.sn = sn}}
InLoaded(sn, s) ==
  {<<"loaded", s, i>> : i \in {j \in 1..Len(loadedQ[s]) : loadedQ[s][j].req.sn = sn}}
AtLoader(sn) == {<<"loader", l>> : l \in {x \in AllLoaders : /\ loader[x].pc \in {"query", "insert", "answer"}
                                                             /\ loader[x].load.req.sn = sn}}

\* Waiting is the union of the four.
LEMMA WaitingParts ==
  ASSUME NEW sn, NEW x
  PROVE  x \in Waiting(sn) <=> \/ x \in OnBus(sn) \/ x \in AtLoader(sn)
                               \/ \E s \in Servers : x \in InLoad(sn, s) \/ x \in InLoaded(sn, s)
<1> DEFINE A == OnBus(sn)  D == AtLoader(sn)
           B(s) == InLoad(sn, s)
           C(s) == InLoaded(sn, s)
<1>1. Waiting(sn) = A \cup (UNION {B(s) \cup C(s) : s \in Servers}) \cup D
  BY Zenon DEF Waiting, OnBus, InLoad, InLoaded, AtLoader
<1> HIDE DEF A, B, C, D
<1>2. x \in A \cup (UNION {B(s) \cup C(s) : s \in Servers}) \cup D
        <=> x \in A \/ x \in D \/ \E s \in Servers : x \in B(s) \/ x \in C(s)
  <2>1. x \in UNION {B(s) \cup C(s) : s \in Servers} <=> \E s \in Servers : x \in B(s) \cup C(s)
    BY Zenon
  <2> QED BY <2>1, Zenon
<1> QED BY <1>1, <1>2, Zenon DEF A, B, C, D

\* Whoever waits is a packet on the bus, an entry of a queue or a loader.
LEMMA WaitingIs ==
  ASSUME NEW sn, NEW x \in Waiting(sn)
  PROVE  \/ \E m \in net : m.sn = sn /\ x = <<"bus", m>>
         \/ \E s \in Servers : \E i \in 1..Len(loadQ[s]) :
              loadQ[s][i].req.sn = sn /\ x = <<"load", s, i>>
         \/ \E s \in Servers : \E i \in 1..Len(loadedQ[s]) :
              loadedQ[s][i].req.sn = sn /\ x = <<"loaded", s, i>>
         \/ \E l \in AllLoaders : /\ loader[l].pc \in InHand /\ loader[l].load.req.sn = sn
                                  /\ x = <<"loader", l>>
<1>1. ASSUME x \in OnBus(sn) PROVE \E m \in net : m.sn = sn /\ x = <<"bus", m>>
  BY <1>1, Zenon DEF OnBus
<1>2. ASSUME NEW s \in Servers, x \in InLoad(sn, s)
      PROVE  \E i \in 1..Len(loadQ[s]) : loadQ[s][i].req.sn = sn /\ x = <<"load", s, i>>
  BY <1>2, Zenon DEF InLoad
<1>3. ASSUME NEW s \in Servers, x \in InLoaded(sn, s)
      PROVE  \E i \in 1..Len(loadedQ[s]) : loadedQ[s][i].req.sn = sn /\ x = <<"loaded", s, i>>
  BY <1>3, Zenon DEF InLoaded
<1>4. ASSUME x \in AtLoader(sn)
      PROVE  \E l \in AllLoaders : /\ loader[l].pc \in InHand /\ loader[l].load.req.sn = sn
                                   /\ x = <<"loader", l>>
  BY <1>4, Zenon DEF AtLoader, InHand
<1> QED BY <1>1, <1>2, <1>3, <1>4, WaitingParts, Zenon

\* A request that is pending waits somewhere, one that is not waits nowhere.
LEMMA WaitingPending ==
  ASSUME NEW sn
  PROVE  Waiting(sn) # {} <=> Pending(sn)
<1>1. ASSUME Waiting(sn) # {} PROVE Pending(sn)
  <2>1. PICK x : x \in Waiting(sn)
    BY <1>1
  <2> QED BY <2>1, WaitingIs DEF Pending, InN, InQ, InL
<1>2. ASSUME InN(net, sn) PROVE Waiting(sn) # {}
  <2>1. PICK m \in net : m.sn = sn
    BY <1>2 DEF InN
  <2>2. <<"bus", m>> \in OnBus(sn)
    BY <2>1, Zenon DEF OnBus
  <2> QED BY <2>2, WaitingParts, Zenon
<1>3. ASSUME InQ(loadQ, sn) PROVE Waiting(sn) # {}
  <2>1. PICK s \in Servers : \E i \in 1..Len(loadQ[s]) : loadQ[s][i].req.sn = sn
    BY <1>3 DEF InQ
  <2>i. PICK i \in 1..Len(loadQ[s]) : loadQ[s][i].req.sn = sn
    BY <2>1
  <2>2. <<"load", s, i>> \in InLoad(sn, s)
    BY <2>i, Zenon DEF InLoad
  <2> QED BY <2>2, WaitingParts, Zenon
<1>4. ASSUME InQ(loadedQ, sn) PROVE Waiting(sn) # {}
  <2>1. PICK s \in Servers : \E i \in 1..Len(loadedQ[s]) : loadedQ[s][i].req.sn = sn
    BY <1>4 DEF InQ
  <2>i. PICK i \in 1..Len(loadedQ[s]) : loadedQ[s][i].req.sn = sn
    BY <2>1
  <2>2. <<"loaded", s, i>> \in InLoaded(sn, s)
    BY <2>i, Zenon DEF InLoaded
  <2> QED BY <2>2, WaitingParts, Zenon
<1>5. ASSUME InL(loader, sn) PROVE Waiting(sn) # {}
  <2>1. PICK l \in AllLoaders : loader[l].pc \in InHand /\ loader[l].load.req.sn = sn
    BY <1>5 DEF InL
  <2>2. <<"loader", l>> \in AtLoader(sn)
    BY <2>1, Zenon DEF AtLoader, InHand
  <2> QED BY <2>2, WaitingParts, Zenon
<1> QED BY <1>1, <1>2, <1>3, <1>4, <1>5 DEF Pending

\* No request waits in two places.
LEMMA WaitingOne ==
  ASSUME PlaceInv, NEW sn \in Requests, NEW x \in Waiting(sn), NEW y \in Waiting(sn)
  PROVE  x = y
<1>p. PlaceOf(sn) /\ UniqN(net) /\ UniqQ(loadQ) /\ UniqQ(loadedQ) /\ UniqL(loader)
  BY DEF PlaceInv
<1>1. ASSUME NEW m \in net, m.sn = sn, x = <<"bus", m>> PROVE x = y
  <2>1. InN(net, sn)
    BY <1>1 DEF InN
  <2>2. PICK k \in net : k.sn = sn /\ y = <<"bus", k>>
    BY <1>p, <2>1, WaitingIs DEF PlaceOf, InQ, InL
  <2> QED BY <1>p, <1>1, <2>2 DEF UniqN
<1>2. ASSUME NEW s \in Servers, NEW i \in 1..Len(loadQ[s]),
             loadQ[s][i].req.sn = sn, x = <<"load", s, i>> PROVE x = y
  <2>1. InQ(loadQ, sn)
    BY <1>2 DEF InQ
  <2>t. PICK t \in Servers : \E j \in 1..Len(loadQ[t]) :
          loadQ[t][j].req.sn = sn /\ y = <<"load", t, j>>
    BY <1>p, <2>1, WaitingIs DEF PlaceOf, InN, InQ, InL
  <2>2. PICK j \in 1..Len(loadQ[t]) : loadQ[t][j].req.sn = sn /\ y = <<"load", t, j>>
    BY <2>t
  <2>3. s = t /\ i = j
    BY <1>p, <1>2, <2>2 DEF UniqQ
  <2> QED BY <1>2, <2>2, <2>3
<1>3. ASSUME NEW s \in Servers, NEW i \in 1..Len(loadedQ[s]),
             loadedQ[s][i].req.sn = sn, x = <<"loaded", s, i>> PROVE x = y
  <2>1. InQ(loadedQ, sn)
    BY <1>3 DEF InQ
  <2>t. PICK t \in Servers : \E j \in 1..Len(loadedQ[t]) :
          loadedQ[t][j].req.sn = sn /\ y = <<"loaded", t, j>>
    BY <1>p, <2>1, WaitingIs DEF PlaceOf, InN, InQ, InL
  <2>2. PICK j \in 1..Len(loadedQ[t]) : loadedQ[t][j].req.sn = sn /\ y = <<"loaded", t, j>>
    BY <2>t
  <2>3. s = t /\ i = j
    BY <1>p, <1>3, <2>2 DEF UniqQ
  <2> QED BY <1>3, <2>2, <2>3
<1>4. ASSUME NEW l \in AllLoaders, loader[l].pc \in InHand, loader[l].load.req.sn = sn,
             x = <<"loader", l>> PROVE x = y
  <2>1. InL(loader, sn)
    BY <1>4 DEF InL
  <2>2. PICK k \in AllLoaders : loader[k].pc \in InHand /\ loader[k].load.req.sn = sn
                                /\ y = <<"loader", k>>
    BY <1>p, <2>1, WaitingIs DEF PlaceOf, InN, InQ
  <2> QED BY <1>p, <1>4, <2>2 DEF UniqL
<1> QED BY <1>1, <1>2, <1>3, <1>4, WaitingIs

-----------------------------------------------------------------------------
(* The theorems *)

\* The tables never hold more than MaxUserNodeNum users and the queues never
\* more than QueueLen packets, and what is in them are users and packets: for
\* any set of clients, processes, sizes and faults.
THEOREM SvcTypeCorrect == SvcSpec => []SvcTypeOK
<1>1. TypeInv /\ RoomInv => SvcTypeOK
  <2> SUFFICES ASSUME TypeInv, RoomInv PROVE SvcTypeOK
    OBVIOUS
  <2>1. \A s \in Servers : /\ \A i \in 1..Len(loadQ[s]) : loadQ[s][i] \in Loads
                           /\ \A i \in 1..Len(loadedQ[s]) : loadedQ[s][i] \in Loadeds
                           /\ writeQ[s] \in Seq(Users)
    BY DEF TypeInv
  <2>2. \A s \in Servers :
       /\ Cardinality(Cached(s)) <= MaxUserNodeNum
       /\ Len(loadQ[s]) <= QueueLen /\ Len(loadedQ[s]) <= QueueLen
       /\ Len(writeQ[s]) <= QueueLen
    BY DEF RoomInv
  <2>3. \A s \in Servers :
       /\ \A i \in 1..Len(loadQ[s]) : loadQ[s][i] \in [user : Users, req : Packets]
       /\ \A i \in 1..Len(loadedQ[s]) : loadedQ[s][i] \in [ret : {0, -1}, req : Packets]
    BY <2>1, Zenon DEF Loads, Loadeds
  <2> QED BY <2>1, <2>2, <2>3 DEF SvcTypeOK, TypeInv
<1>2. IInv => SvcTypeOK
  BY <1>1 DEF IInv
<1> QED BY <1>2, IInvAlways, PTL

\* A request that was sent is in exactly one place until it is answered or
\* given up, and never both: whatever the loads, the hand-over between the two
\* user servers, the packets lost and the processes that die.
THEOREM OnePlaceAlways == SvcSpec => []OnePlace
<1>1. PlaceInv => OnePlace
  <2> SUFFICES ASSUME PlaceInv, NEW sn \in Requests
               PROVE  /\ Cardinality(Waiting(sn)) + Ended(sn) = (IF sn \in sent THEN 1 ELSE 0)
                      /\ ~(answer[sn] # NotYet /\ sn \in dropped)
    BY DEF OnePlace
  <2>p. PlaceOf(sn)
    BY DEF PlaceInv
  <2>1. CASE Pending(sn)
    <3>1. Waiting(sn) # {}
      BY <2>1, WaitingPending
    <3>2. PICK x : x \in Waiting(sn)
      BY <3>1
    <3>3. Waiting(sn) = {x}
      BY <3>2, WaitingOne
    <3>4. Cardinality(Waiting(sn)) = 1
      BY <3>3, FS_Singleton
    <3>5. sn \in sent /\ Ended(sn) = 0
      BY <2>1, <2>p DEF PlaceOf, Ended
    <3> QED BY <2>p, <3>4, <3>5 DEF PlaceOf
  <2>2. CASE ~Pending(sn)
    <3>1. Waiting(sn) = {}
      BY <2>2, WaitingPending
    <3>2. Cardinality(Waiting(sn)) = 0
      BY <3>1, FS_EmptySet
    <3>3. Ended(sn) = IF sn \in sent THEN 1 ELSE 0
      BY <2>2, <2>p DEF PlaceOf, Ended
    <3> QED BY <2>p, <3>2, <3>3 DEF PlaceOf
  <2> QED BY <2>1, <2>2
<1>2. IInv => OnePlace
  BY <1>1 DEF IInv
<1> QED BY <1>2, IInvAlways, PTL

\* No friend request is entered into a list twice, and one that is answered was
\* entered once, however often its handler was started again after a load.
THEOREM FriendOnceAlways == SvcSpec => []FriendOnce
<1>1. IInv => FriendOnce
  BY DEF IInv, PktInv, GoodPkt, FriendOnce
<1> QED BY <1>1, IInvAlways, PTL

\* Every copy of a user, in either table, in the database or in the hands of a
\* loader or writer, carries the name of the one client whose registration the
\* auth database accepted.
THEOREM CopiesFaithfulAlways == SvcSpec => []CopiesFaithful
<1>1. IInv => CopiesFaithful
  <2> SUFFICES ASSUME IInv PROVE CopiesFaithful
    OBVIOUS
  <2>1. /\ \A u \in Users : Own(db[u], u) /\ \A s \in Servers : Own(cache[s][u], u)
        /\ \A l \in AllLoaders : loader[l].pc = "insert" => Own(loader[l].row, loader[l].load.user)
        /\ \A w \in AllWriters : writer[w].pc = "replace" => Own(writer[w].row, writer[w].user)
    BY DEF IInv, CopyInv
  <2>2. \A m \in net : m.cmd = "AddFriendReq2" => m.tag = passwd[m.user]
    BY DEF IInv, PktInv, GoodPkt
  <2> QED BY <2>1, <2>2 DEF CopiesFaithful, Own
<1> QED BY <1>1, IInvAlways, PTL

\* A user whose client was told of his registration is in the database, or his
\* write is still under way or was given up for one of the known reasons.
THEOREM RegisteredKeptAlways == SvcSpec => []RegisteredKept
<1>1. IInv => RegisteredKept
  BY DEF IInv
<1> QED BY <1>1, IInvAlways, PTL
=============================================================================
