--------------------------- MODULE ConnGnsProofs ---------------------------
(***************************************************************************)
(* Proofs about the login registry, for every set of servers and users,    *)
(* every number of connections, of lost and of overtaken messages and any  *)
(* length of time, under the assumption Orderly: a client logs in once on  *)
(* a connection, and a server is not restarted while auth is checking one  *)
(* of its logins.                                                          *)
(*                                                                         *)
(* RegistryMatchesConns needs that a position is given out once and that   *)
(* the login auth is checking belongs to a connection that has no user yet *)
(* (AskedInv).  SingleSession and KickUnderWay need more than they say:    *)
(* of two connections of one user it must be the LATER login whose notice  *)
(* is on its way to the server of the earlier one, or lost (LaterNoticed), *)
(* since the notice of an earlier login is ignored by NoticeOne, and this  *)
(* holds because no message or entry is of the future (TimeInv).           *)
(*                                                                         *)
(* NoGhost has an invariant of its own (GhostInv), about what the servers  *)
(* have said and heard while no two events of a user shared a second and   *)
(* no server dropped entries: an entry or a notice is of a connection that *)
(* is there, or something newer or the leave is known or on its way        *)
(* (EntryReal, NoticeReal); what one server is told all are told           *)
(* (AllReached); a second of a user belongs to one server (OneOwner,       *)
(* Stamped); and no leave comes to a server that has not heard of the user *)
(* (LeaveHeard, LoginHeard), which would ignore it.  A lost or overtaken   *)
(* message ends these claims for its receiver and its users (Deaf), and    *)
(* for nobody else: the other queues say what they said (SameOf).          *)
(***************************************************************************)
EXTENDS ConnGns, FiniteSetTheorems, SequenceTheorems, TLAPS

-----------------------------------------------------------------------------
(* The inductive invariant *)

Data == [user : Users, srv : Servers, pos : Positions, time : 1..MaxTime]
Msg == [cmd : {"LoginNotice", "LoginSync_Rsp", "Disconnect", "LoginSync_Req"},
        data : SUBSET Data]
Holders == Users \cup {Closed, Unauth, Asked}
ConnType == [Positions -> Holders]
GnsType == [Users -> EntryType \cup {None}]

\* What a server says is about its own connections, one of each user, and not
\* of the future.
SaidBy(c, m, n) ==
    /\ \A e \in m.data : e.srv = c /\ e.time <= n
    /\ \A e, f \in m.data : e.user = f.user => e = f

TypeInv ==
    /\ TypeOK
    /\ net \in [Servers -> [Servers -> Seq(Msg)]]
    /\ lost \in [Servers -> [Servers -> SUBSET Msg]]
    /\ early \in [Servers -> [Servers -> SUBSET Msg]]
    /\ rsp \in [Servers -> SUBSET (Positions \X Users \X Nat)]
    /\ logins \in Nat

\* Messages and entries are not of the future.
TimeInv ==
    /\ \A c, d \in Servers : \A i \in 1..Len(net[c][d]) : SaidBy(c, net[c][d][i], now)
    /\ \A c \in Servers : \A u \in Users : gns[c][u] # None => gns[c][u].time <= now

\* Connections are given out in order, and a login that auth is checking is
\* the only one of a connection that has none yet.
AskedOk(cn, n, R) ==
    /\ \A p \in Positions : p > n => cn[p] = Closed
    /\ \A r \in R : r[1] <= n /\ cn[r[1]] \in {Asked, Closed}
    /\ \A r, s \in R : r[1] = s[1] => r = s

AskedInv == \A c \in Servers : AskedOk(conn[c], posCnt[c], rsp[c])

\* The notice of the login of u at time t is in queue q.
Noticed(q, u, t) == \E i \in 1..Len(q) : Tells(q[i], u, t)

\* The notice was sent: it is in queue q, or one of the lost messages L.
Sent(q, L, u, t) == Noticed(q, u, t) \/ \E m \in L : Tells(m, u, t)

\* The entry of u at d is no older than that at c, and its notice was sent to c.
LaterTold(c, d, u) ==
    gns[d][u].time >= gns[c][u].time /\ Sent(net[d][c], lost[d][c], u, gns[d][u].time)

\* Of two connections of a user, the notice of the later one is under way to
\* the server of the other, or lost.
LaterNoticed ==
    \A c, d \in Servers : \A u \in Users : \A p, q \in Positions :
        c # d /\ Session(c, u, p) /\ Session(d, u, q) => LaterTold(c, d, u) \/ LaterTold(d, c, u)

IInv == TypeInv /\ TimeInv /\ AskedInv /\ RegistryMatchesConns /\ LaterNoticed

-----------------------------------------------------------------------------
(* The effect of a handler on its server *)

StType == [conn : ConnType, gns : GnsType, out : Seq(Msg)]

\* The registry entry of u that connection p of server c has.
Names(e, c, p) == e # None /\ e.active /\ e.srv = c /\ e.pos = p

\* The registry and the connections of a server agree.
Match(c, cn, g) == \A u \in Users : \A p \in Positions : cn[p] = u <=> Names(g[u], c, p)

\* A possible state of server c.
Sane(c, st) ==
    /\ st \in StType
    /\ Match(c, st.conn, st.gns)
    /\ \A u \in Users : st.gns[u] # None => st.gns[u].time <= now
    /\ \A i \in 1..Len(st.out) : SaidBy(c, st.out[i], now)

\* Connections are closed at most; the entries of those that stay are the same.
Shrinks(st, st2) ==
    /\ \A p \in Positions : st2.conn[p] = st.conn[p] \/ st2.conn[p] = Closed
    /\ \A u \in Users : \A p \in Positions : st2.conn[p] = u => st2.gns[u] = st.gns[u]

\* What the assumptions say of the constants.
LEMMA ConstFacts ==
    /\ None \notin Users /\ Closed \notin Users /\ Unauth \notin Users /\ Asked \notin Users
    /\ Closed # Unauth /\ Closed # Asked /\ Unauth # Asked
    /\ None \notin EntryType
    /\ MaxPos \in Nat /\ MaxTime \in Nat /\ MaxTime >= 1
BY GnsAssumption, NoneAssumption

\* Entries.
LEMMA EntryIs ==
    ASSUME NEW c \in Servers, NEW p \in Positions, NEW a \in BOOLEAN, NEW t \in 1..MaxTime
    PROVE  /\ Entry(c, p, a, t) \in EntryType /\ Entry(c, p, a, t) # None
           /\ Entry(c, p, a, t).active = a /\ Entry(c, p, a, t).time = t
           /\ Entry(c, p, a, t).srv = c /\ Entry(c, p, a, t).pos = p
BY ConstFacts DEF Entry, EntryType

\* ReleaseConn closes one connection and makes its user's entry inactive.
LEMMA ReleaseIs ==
    ASSUME NEW c \in Servers, NEW st, Sane(c, st), NEW p \in Positions, NEW b,
           now \in 1..MaxTime,
           NEW r, r = ReleaseConn(c, st, p, b)
    PROVE  /\ Sane(c, r) /\ Shrinks(st, r) /\ r.conn[p] = Closed
           /\ \A q \in Positions \ {p} : r.conn[q] = st.conn[q]
           /\ \A v \in Users : v # st.conn[p] => r.gns[v] = st.gns[v]
           /\ ~b => r.out = st.out
<1>u. PICK u : u = st.conn[p]
  OBVIOUS
<1>t. st.conn \in ConnType /\ st.gns \in GnsType /\ st.out \in Seq(Msg) /\ u \in Holders
  BY <1>u DEF Sane, StType, ConnType
<1>1. /\ r.conn = [st.conn EXCEPT ![p] = Closed]
      /\ r.gns = IF u \in Users /\ st.gns[u] # None
                 THEN [st.gns EXCEPT ![u] = Entry(c, p, FALSE, now)] ELSE st.gns
      /\ r.out = IF u \in Users /\ b
                 THEN Append(st.out, [cmd |-> "Disconnect", data |-> {LoginData(u, c, p, now)}])
                 ELSE st.out
      /\ r = [conn |-> r.conn, gns |-> r.gns, out |-> r.out]
  BY <1>u DEF ReleaseConn
<1>2. r.conn \in ConnType /\ r.conn[p] = Closed /\ \A q \in Positions \ {p} : r.conn[q] = st.conn[q]
  BY <1>1, <1>t DEF ConnType, Holders
<1>e. Entry(c, p, FALSE, now) \in EntryType /\ ~Entry(c, p, FALSE, now).active
      /\ Entry(c, p, FALSE, now).time = now
  BY DEF Entry, EntryType
<1>3. r.gns \in GnsType /\ \A v \in Users : v # u => r.gns[v] = st.gns[v]
  BY <1>1, <1>t, <1>e DEF GnsType
<1>4. u \in Users => r.gns[u] = Entry(c, p, FALSE, now)
  <2>1. ASSUME u \in Users PROVE Names(st.gns[u], c, p)
    BY <2>1, <1>u DEF Sane, Match
  <2>2. ASSUME u \in Users PROVE r.gns = [st.gns EXCEPT ![u] = Entry(c, p, FALSE, now)]
    BY <2>1, <2>2, <1>1 DEF Names
  <2> QED BY <2>2, <1>t DEF GnsType
<1>5. r.out \in Seq(Msg) /\ \A i \in 1..Len(r.out) : SaidBy(c, r.out[i], now)
  <2>1. CASE u \in Users /\ b
    <3> DEFINE m == [cmd |-> "Disconnect", data |-> {LoginData(u, c, p, now)}]
    <3>1. LoginData(u, c, p, now) \in Data /\ LoginData(u, c, p, now).srv = c
          /\ LoginData(u, c, p, now).time = now
      BY <2>1 DEF LoginData, Data
    <3>2. m \in Msg /\ SaidBy(c, m, now)
      BY <3>1 DEF Msg, SaidBy
    <3>3. r.out = Append(st.out, m)
      BY <2>1, <1>1
    <3> HIDE DEF m
    <3>4. /\ r.out \in Seq(Msg)
          /\ \A i \in 1..Len(r.out) : r.out[i] = m \/ (i \in 1..Len(st.out) /\ r.out[i] = st.out[i])
      BY <3>2, <3>3, <1>t
    <3> QED BY <3>2, <3>4 DEF Sane
  <2>2. CASE ~(u \in Users /\ b)
    BY <2>2, <1>1, <1>t DEF Sane
  <2> QED BY <2>1, <2>2
<1>6. Match(c, r.conn, r.gns)
  <2> SUFFICES ASSUME NEW v \in Users, NEW q \in Positions
               PROVE  r.conn[q] = v <=> Names(r.gns[v], c, q)
    BY DEF Match
  <2>1. st.conn[q] = v <=> Names(st.gns[v], c, q)
    BY DEF Sane, Match
  <2>2. CASE v = u
    <3>1. ~Names(r.gns[v], c, q)
      BY <2>2, <1>4, <1>e DEF Names
    <3>2. r.conn[q] = v => q # p /\ st.conn[q] = u
      BY <2>2, <1>2, ConstFacts
    <3>3. ~(q # p /\ st.conn[q] = u)
      BY <1>u, <2>2 DEF Sane, Match, Names
    <3> QED BY <3>1, <3>2, <3>3
  <2>3. CASE v # u
    BY <1>u, <2>3, <2>1, <1>2, <1>3, ConstFacts
  <2> QED BY <2>2, <2>3
<1>7. \A v \in Users : r.gns[v] # None => r.gns[v].time <= now
  <2> SUFFICES ASSUME NEW v \in Users, r.gns[v] # None PROVE r.gns[v].time <= now
    OBVIOUS
  <2>1. CASE v = u
    <3>1. r.gns[v].time = now
      BY <2>1, <1>4, <1>e, Zenon
    <3> QED BY <3>1
  <2>2. CASE v # u
    BY <2>2, <1>3 DEF Sane
  <2> QED BY <2>1, <2>2
<1>8. Shrinks(st, r)
  <2>1. \A q \in Positions : r.conn[q] = st.conn[q] \/ r.conn[q] = Closed
    BY <1>2
  <2>2. ASSUME NEW v \in Users, NEW q \in Positions, r.conn[q] = v PROVE r.gns[v] = st.gns[v]
    <3>1. q # p /\ st.conn[q] = v
      BY <2>2, <1>2, ConstFacts
    <3>2. v # u
      BY <1>u, <3>1 DEF Sane, Match, Names
    <3> QED BY <3>2, <1>3
  <2> QED BY <2>1, <2>2 DEF Shrinks
<1>9. r \in StType
  BY <1>1, <1>2, <1>3, <1>5 DEF StType
<1> QED BY <1>u, <1>1, <1>2, <1>3, <1>5, <1>6, <1>7, <1>8, <1>9 DEF Sane

\* KickOwn closes the connection of u, if there is one.
LEMMA KickIs ==
    ASSUME NEW c \in Servers, NEW st, Sane(c, st), NEW u \in Users, now \in 1..MaxTime,
           NEW r, r = KickOwn(c, st, u)
    PROVE  /\ Sane(c, r) /\ Shrinks(st, r) /\ r.out = st.out
           /\ \A p \in Positions : r.conn[p] # u
           /\ \A p \in Positions : st.conn[p] # u => r.conn[p] = st.conn[p]
           /\ \A v \in Users : v # u => r.gns[v] = st.gns[v]
<1>1. \A p \in Positions : st.conn[p] = u <=> p \in OwnConn(c, st, u)
  BY DEF OwnConn, Sane, Match, Names
<1>2. CASE OwnConn(c, st, u) = {}
  BY <1>1, <1>2 DEF KickOwn, Shrinks
<1>3. CASE OwnConn(c, st, u) # {}
  <2>1. PICK p : p = CHOOSE q \in OwnConn(c, st, u) : TRUE
    OBVIOUS
  <2>2. p \in OwnConn(c, st, u)
    BY <2>1, <1>3
  <2>3. p \in Positions /\ st.conn[p] = u /\ \A q \in Positions \ {p} : st.conn[q] # u
    BY <2>2 DEF OwnConn, Sane, Match, Names
  <2>4. r = ReleaseConn(c, st, p, FALSE)
    BY <1>3, <2>1 DEF KickOwn
  <2>5. /\ Sane(c, r) /\ Shrinks(st, r) /\ r.conn[p] = Closed /\ r.out = st.out
        /\ \A q \in Positions \ {p} : r.conn[q] = st.conn[q]
        /\ \A v \in Users : v # st.conn[p] => r.gns[v] = st.gns[v]
    <3>1. PICK b : b = FALSE
      OBVIOUS
    <3>2. r = ReleaseConn(c, st, p, b)
      BY <3>1, <2>4, Zenon
    <3>3. Sane(c, r) /\ Shrinks(st, r) /\ r.conn[p] = Closed /\ (~b => r.out = st.out)
      BY <2>3, <3>2, ReleaseIs
    <3>4. /\ \A q \in Positions \ {p} : r.conn[q] = st.conn[q]
          /\ \A v \in Users : v # st.conn[p] => r.gns[v] = st.gns[v]
      BY <2>3, <3>2, ReleaseIs
    <3> QED BY <3>1, <3>3, <3>4, Zenon
  <2>6. \A q \in Positions : r.conn[q] # u /\ (st.conn[q] # u => r.conn[q] = st.conn[q])
    BY <2>3, <2>5, ConstFacts
  <2> QED BY <2>3, <2>5, <2>6
<1> QED BY <1>2, <1>3

\* A new entry for a user without a connection here, that names none.
LEMMA SetEntryIs ==
    ASSUME NEW c \in Servers, NEW st, Sane(c, st), NEW u \in Users, NEW e \in EntryType,
           \A p \in Positions : st.conn[p] # u, ~(e.active /\ e.srv = c), e.time <= now,
           NEW r, r = SetEntry(st, u, e)
    PROVE  /\ Sane(c, r) /\ Shrinks(st, r) /\ r.conn = st.conn /\ r.out = st.out
           /\ \A v \in Users : v # u => r.gns[v] = st.gns[v]
<1>1. st \in StType /\ st.gns \in GnsType
  BY DEF Sane, StType
<1>2. r.conn = st.conn /\ r.out = st.out /\ r.gns = [st.gns EXCEPT ![u] = e] /\ r \in StType
  BY <1>1 DEF SetEntry, StType, GnsType
<1>3. r.gns[u] = e /\ \A v \in Users : v # u => r.gns[v] = st.gns[v]
  BY <1>1, <1>2 DEF GnsType
<1>4. Match(c, r.conn, r.gns)
  <2> SUFFICES ASSUME NEW v \in Users, NEW q \in Positions
               PROVE  r.conn[q] = v <=> Names(r.gns[v], c, q)
    BY DEF Match
  <2>1. CASE v = u
    BY <2>1, <1>2, <1>3 DEF Names
  <2>2. CASE v # u
    BY <2>2, <1>2, <1>3 DEF Sane, Match
  <2> QED BY <2>1, <2>2
<1>5. \A v \in Users : r.gns[v] # None => r.gns[v].time <= now
  BY <1>3 DEF Sane
<1>6. Shrinks(st, r)
  BY <1>2, <1>3 DEF Shrinks
<1>7. \A i \in 1..Len(r.out) : SaidBy(c, r.out[i], now)
  BY <1>2 DEF Sane
<1> QED BY <1>2, <1>3, <1>4, <1>5, <1>6, <1>7 DEF Sane

\* What a handler for one user does.
OneUser(c, st, u, r) ==
    /\ Sane(c, r) /\ Shrinks(st, r) /\ r.out = st.out
    /\ \A p \in Positions : st.conn[p] # u => r.conn[p] = st.conn[p]

\* Closing steps add up.
LEMMA ShrinksTrans ==
    ASSUME NEW st, NEW s2, NEW s3, Shrinks(st, s2), Shrinks(s2, s3)
    PROVE  Shrinks(st, s3)
BY ConstFacts DEF Shrinks

\* The notice of a login elsewhere closes an older connection of the user.
LEMMA NoticeIs ==
    ASSUME NEW c \in Servers, NEW st, Sane(c, st), now \in 1..MaxTime,
           NEW e \in Data, e.srv # c, e.time <= now,
           NEW r, r = NoticeOne(c, st, e)
    PROVE  /\ OneUser(c, st, e.user, r)
           /\ (\E p \in Positions : r.conn[p] = e.user) => st.gns[e.user].time > e.time
<1>u. PICK u \in Users : u = e.user
  BY DEF Data
<1>1. CASE st.gns[u] # None /\ st.gns[u].time > e.time
  <2>1. r = st
    BY <1>u, <1>1 DEF NoticeOne
  <2>2. Shrinks(st, st)
    BY DEF Shrinks
  <2> QED BY <1>u, <1>1, <2>1, <2>2 DEF OneUser
<1>2. CASE ~(st.gns[u] # None /\ st.gns[u].time > e.time)
  <2>1. PICK k : k = KickOwn(c, st, u)
    OBVIOUS
  <2>2. PICK n : n = Entry(e.srv, e.pos, TRUE, e.time)
    OBVIOUS
  <2>3. r = SetEntry(k, u, n)
    BY <1>u, <1>2, <2>1, <2>2 DEF NoticeOne
  <2>4. n \in EntryType /\ n.srv # c /\ n.time <= now
    BY <2>2 DEF Data, EntryType, Entry
  <2>5. /\ Sane(c, k) /\ Shrinks(st, k) /\ k.out = st.out
        /\ \A p \in Positions : k.conn[p] # u
        /\ \A p \in Positions : st.conn[p] # u => k.conn[p] = st.conn[p]
    BY <2>1, KickIs
  <2>6. Sane(c, r) /\ Shrinks(k, r) /\ r.conn = k.conn /\ r.out = k.out
    BY <2>3, <2>4, <2>5, SetEntryIs
  <2>7. Shrinks(st, r)
    BY <2>5, <2>6, ShrinksTrans
  <2> QED BY <1>u, <2>5, <2>6, <2>7 DEF OneUser
<1> QED BY <1>1, <1>2

\* The notice that a user left elsewhere.
LEMMA DisconnectIs ==
    ASSUME NEW c \in Servers, NEW st, Sane(c, st), now \in 1..MaxTime,
           NEW e \in Data, e.srv # c, e.time <= now,
           NEW r, r = DisconnectOne(c, st, e)
    PROVE  OneUser(c, st, e.user, r)
<1>u. PICK u \in Users : u = e.user
  BY DEF Data
<1>1. CASE st.gns[u] = None \/ st.gns[u].time > e.time
  <2>1. r = st
    BY <1>u, <1>1 DEF DisconnectOne
  <2>2. Shrinks(st, st)
    BY DEF Shrinks
  <2> QED BY <1>u, <2>1, <2>2 DEF OneUser
<1>2. CASE ~(st.gns[u] = None \/ st.gns[u].time > e.time) /\ st.gns[u].srv = c /\ st.gns[u].active
  <2>1. r = KickOwn(c, st, u)
    BY <1>u, <1>2 DEF DisconnectOne
  <2> QED BY <1>u, <2>1, KickIs DEF OneUser
<1>3. CASE ~(st.gns[u] = None \/ st.gns[u].time > e.time)
           /\ ~(st.gns[u].srv = c /\ st.gns[u].active)
  <2>1. PICK n : n = Entry(e.srv, e.pos, FALSE, e.time)
    OBVIOUS
  <2>2. r = SetEntry(st, u, n)
    BY <1>u, <1>3, <2>1 DEF DisconnectOne
  <2>3. n \in EntryType /\ n.srv # c /\ n.time <= now
    BY <2>1 DEF Data, EntryType, Entry
  <2>4. \A p \in Positions : st.conn[p] # u
    BY <1>3 DEF Sane, Match, Names
  <2>5. Sane(c, r) /\ Shrinks(st, r) /\ r.conn = st.conn /\ r.out = st.out
    BY <2>2, <2>3, <2>4, SetEntryIs
  <2> QED BY <1>u, <2>5 DEF OneUser
<1> QED BY <1>1, <1>2, <1>3

\* Several users at once: F[u] is what happens for u alone.
Applied(st, named, F, r) ==
    /\ \A p \in Positions : st.conn[p] \in named => r.conn[p] = F[st.conn[p]].conn[p]
    /\ \A p \in Positions : st.conn[p] \notin named => r.conn[p] = st.conn[p]
    /\ \A u \in named : r.gns[u] = F[u].gns[u]
    /\ \A u \in Users \ named : r.gns[u] = st.gns[u]
    /\ r.out = st.out
    /\ r.conn = [p \in Positions |-> r.conn[p]] /\ r.gns = [u \in Users |-> r.gns[u]]
    /\ r = [conn |-> r.conn, gns |-> r.gns, out |-> r.out]

AllUsers(c, st, named, F) == \A u \in named : OneUser(c, st, u, F[u])

UserWise(named, F, r) ==
    \A u \in named : \A p \in Positions : r.conn[p] = u => F[u].conn[p] = u

\* Each user keeps what his own element left him.
LEMMA PerUser ==
    ASSUME NEW c \in Servers, NEW st, Sane(c, st), NEW named \in SUBSET Users, NEW F,
           AllUsers(c, st, named, F),
           NEW r, Applied(st, named, F, r)
    PROVE  Sane(c, r) /\ Shrinks(st, r) /\ r.out = st.out /\ UserWise(named, F, r)
<1>1. /\ \A p \in Positions : st.conn[p] \in named => r.conn[p] = F[st.conn[p]].conn[p]
      /\ \A p \in Positions : st.conn[p] \notin named => r.conn[p] = st.conn[p]
      /\ \A u \in named : r.gns[u] = F[u].gns[u]
      /\ \A u \in Users \ named : r.gns[u] = st.gns[u]
      /\ r.out = st.out
  BY DEF Applied
<1>2. /\ r.conn = [p \in Positions |-> r.conn[p]] /\ r.gns = [u \in Users |-> r.gns[u]]
      /\ r = [conn |-> r.conn, gns |-> r.gns, out |-> r.out]
  BY DEF Applied
<1>3. \A u \in named : /\ F[u] \in StType /\ Match(c, F[u].conn, F[u].gns)
                       /\ \A v \in Users : F[u].gns[v] # None => F[u].gns[v].time <= now
                       /\ Shrinks(st, F[u])
                       /\ \A p \in Positions : st.conn[p] # u => F[u].conn[p] = st.conn[p]
  BY DEF AllUsers, OneUser, Sane
<1>4. \A p \in Positions : r.conn[p] = st.conn[p] \/ r.conn[p] = Closed
  BY <1>1, <1>3 DEF Shrinks
<1>5. st.conn \in ConnType /\ st.gns \in GnsType /\ st.out \in Seq(Msg) /\ Match(c, st.conn, st.gns)
      /\ \A u \in Users : st.gns[u] # None => st.gns[u].time <= now
  BY DEF Sane, StType
<1>6. r \in StType
  <2>1. \A p \in Positions : r.conn[p] \in Holders
    BY <1>4, <1>5 DEF ConnType, Holders
  <2>2. \A u \in Users : r.gns[u] \in EntryType \cup {None}
    BY <1>1, <1>3, <1>5 DEF StType, GnsType
  <2>3. r.conn \in ConnType /\ r.gns \in GnsType
    BY <1>2, <2>1, <2>2 DEF ConnType, GnsType
  <2> QED BY <1>1, <1>2, <1>5, <2>3 DEF StType
<1>7. \A u \in named : \A p \in Positions : r.conn[p] = u <=> F[u].conn[p] = u
  <2> SUFFICES ASSUME NEW u \in named, NEW p \in Positions
               PROVE  r.conn[p] = u <=> F[u].conn[p] = u
    OBVIOUS
  <2>1. CASE st.conn[p] = u
    BY <2>1, <1>1
  <2>2. CASE st.conn[p] # u
    BY <2>2, <1>3, <1>4, ConstFacts
  <2> QED BY <2>1, <2>2
<1>8. Match(c, r.conn, r.gns)
  <2> SUFFICES ASSUME NEW u \in Users, NEW p \in Positions
               PROVE  r.conn[p] = u <=> Names(r.gns[u], c, p)
    BY DEF Match
  <2>1. CASE u \in named
    BY <2>1, <1>1, <1>3, <1>7 DEF Match
  <2>2. CASE u \notin named
    <3>1. r.gns[u] = st.gns[u]
      BY <2>2, <1>1
    <3>2. r.conn[p] = u <=> st.conn[p] = u
      BY <2>2, <1>1, <1>4, ConstFacts
    <3> QED BY <3>1, <3>2, <1>5 DEF Match
  <2> QED BY <2>1, <2>2
<1>9. \A u \in Users : r.gns[u] # None => r.gns[u].time <= now
  BY <1>1, <1>3, <1>5
<1>10. Shrinks(st, r)
  <2>1. ASSUME NEW u \in Users, NEW p \in Positions, r.conn[p] = u PROVE r.gns[u] = st.gns[u]
    <3>1. CASE u \in named
      BY <2>1, <3>1, <1>1, <1>3, <1>7 DEF Shrinks
    <3>2. CASE u \notin named
      BY <3>2, <1>1
    <3> QED BY <3>1, <3>2
  <2> QED BY <2>1, <1>4 DEF Shrinks
<1>11. \A i \in 1..Len(r.out) : SaidBy(c, r.out[i], now)
  BY <1>1 DEF Sane
<1> QED BY <1>1, <1>6, <1>7, <1>8, <1>9, <1>10, <1>11 DEF Sane, UserWise

\* The handlers of LoginNotice and LoginSync_Rsp.
LEMMA NoticeAll ==
    ASSUME NEW c \in Servers, NEW st, Sane(c, st), now \in 1..MaxTime,
           NEW m \in Msg, NEW d, SaidBy(d, m, now), d # c,
           NEW r, r = ForAll(NoticeOne, c, st, m.data)
    PROVE  /\ Sane(c, r) /\ Shrinks(st, r) /\ r.out = st.out
           /\ \A e \in m.data : \A p \in Positions :
                r.conn[p] = e.user => st.gns[e.user].time > e.time
<1> DEFINE data == m.data
           About(u) == CHOOSE e \in data : e.user = u
           named == {e.user : e \in data}
           F == [u \in named |-> NoticeOne(c, st, About(u))]
<1>1. data \in SUBSET Data /\ named \in SUBSET Users
  BY DEF Msg, Data
<1>2. \A u \in named : About(u) \in data /\ About(u).user = u
  OBVIOUS
<1>3. \A u \in named : F[u] = NoticeOne(c, st, About(u))
  OBVIOUS
<1>4. Applied(st, named, F, r)
  <2>1. r = [conn |-> [p \in Positions |-> IF st.conn[p] \in named
                          THEN NoticeOne(c, st, About(st.conn[p])).conn[p] ELSE st.conn[p]],
             gns  |-> [u \in Users |-> IF u \in named
                          THEN NoticeOne(c, st, About(u)).gns[u] ELSE st.gns[u]],
             out  |-> st.out]
    BY Zenon DEF ForAll
  <2> HIDE DEF data, About, named, F
  <2> QED BY <1>1, <1>3, <2>1 DEF Applied
<1>7. \A e \in data : e.user \in named /\ About(e.user) = e
  BY <1>2 DEF SaidBy
<1> HIDE DEF data, About, named, F
<1>5. ASSUME NEW u \in named
      PROVE  /\ OneUser(c, st, u, F[u])
             /\ (\E p \in Positions : F[u].conn[p] = u) => st.gns[u].time > About(u).time
  <2>1. PICK e \in data : e = About(u) /\ e.user = u
    BY <1>2
  <2>2. e \in Data /\ e.srv # c /\ e.time <= now
    BY <1>1 DEF SaidBy, data
  <2>3. F[u] = NoticeOne(c, st, e)
    BY <1>3, <2>1
  <2> QED BY <2>1, <2>2, <2>3, NoticeIs
<1>6. /\ Sane(c, r) /\ Shrinks(st, r) /\ r.out = st.out
      /\ \A u \in named : \A p \in Positions : r.conn[p] = u => F[u].conn[p] = u
  <2>1. AllUsers(c, st, named, F)
    BY <1>5 DEF AllUsers
  <2>2. Sane(c, r) /\ Shrinks(st, r) /\ r.out = st.out /\ UserWise(named, F, r)
    BY <1>1, <1>4, <2>1, PerUser
  <2> QED BY <2>2 DEF UserWise
<1> QED BY <1>5, <1>6, <1>7 DEF data

\* The handler of Disconnect.
LEMMA DisconnectAll ==
    ASSUME NEW c \in Servers, NEW st, Sane(c, st), now \in 1..MaxTime,
           NEW m \in Msg, NEW d, SaidBy(d, m, now), d # c,
           NEW r, r = ForAll(DisconnectOne, c, st, m.data)
    PROVE  Sane(c, r) /\ Shrinks(st, r) /\ r.out = st.out
<1> DEFINE data == m.data
           About(u) == CHOOSE e \in data : e.user = u
           named == {e.user : e \in data}
           F == [u \in named |-> DisconnectOne(c, st, About(u))]
<1>1. data \in SUBSET Data /\ named \in SUBSET Users
  BY DEF Msg, Data
<1>2. \A u \in named : About(u) \in data /\ About(u).user = u
  OBVIOUS
<1>3. \A u \in named : F[u] = DisconnectOne(c, st, About(u))
  OBVIOUS
<1>4. Applied(st, named, F, r)
  <2>1. r = [conn |-> [p \in Positions |-> IF st.conn[p] \in named
                          THEN DisconnectOne(c, st, About(st.conn[p])).conn[p] ELSE st.conn[p]],
             gns  |-> [u \in Users |-> IF u \in named
                          THEN DisconnectOne(c, st, About(u)).gns[u] ELSE st.gns[u]],
             out  |-> st.out]
    BY Zenon DEF ForAll
  <2> HIDE DEF data, About, named, F
  <2> QED BY <1>1, <1>3, <2>1 DEF Applied
<1> HIDE DEF data, About, named, F
<1>5. ASSUME NEW u \in named PROVE OneUser(c, st, u, F[u])
  <2>1. PICK e \in data : e = About(u) /\ e.user = u
    BY <1>2
  <2>2. e \in Data /\ e.srv # c /\ e.time <= now
    BY <1>1 DEF SaidBy, data
  <2>3. F[u] = DisconnectOne(c, st, e)
    BY <1>3, <2>1
  <2> QED BY <2>1, <2>2, <2>3, DisconnectIs
<1>6. AllUsers(c, st, named, F)
  BY <1>5 DEF AllUsers
<1> QED BY <1>1, <1>4, <1>6, PerUser

\* A successful login: the connection is the user's only one, and the others
\* are told.
LoggedIn(c, st, p, u, r) ==
    /\ Sane(c, r) /\ r.conn[p] = u
    /\ \A q \in Positions \ {p} : r.conn[q] # u
    /\ \A q \in Positions \ {p} : r.conn[q] = st.conn[q] \/ r.conn[q] = Closed
    /\ \A v \in Users \ {u} : r.gns[v] = st.gns[v]
    /\ r.gns[u] = Entry(c, p, TRUE, now)
    /\ r.out = <<[cmd |-> "LoginNotice", data |-> {LoginData(u, c, p, now)}]>>

\* LoginHere ends in such a state.
LEMMA LoginIs ==
    ASSUME NEW c \in Servers, NEW st, Sane(c, st), now \in 1..MaxTime, st.out = << >>,
           NEW p \in Positions, NEW u \in Users, st.conn[p] \notin Users,
           NEW r, r = LoginHere(c, st, p, u)
    PROVE  LoggedIn(c, st, p, u, r)
<1>t. st \in StType /\ st.conn \in ConnType /\ st.gns \in GnsType /\ Match(c, st.conn, st.gns)
      /\ \A v \in Users : st.gns[v] # None => st.gns[v].time <= now
  BY DEF Sane, StType
<1>1. PICK s1 : s1 = [st EXCEPT !.conn[p] = u]
  OBVIOUS
<1>2. /\ s1 = [conn |-> s1.conn, gns |-> st.gns, out |-> << >>] /\ s1.gns = st.gns
      /\ s1.out = << >>
      /\ s1.conn \in ConnType /\ s1.conn[p] = u
      /\ \A q \in Positions \ {p} : s1.conn[q] = st.conn[q]
  BY <1>t, <1>1 DEF StType, ConnType, Holders
<1>3. PICK k : k = KickOwn(c, s1, u)
  OBVIOUS
\* what KickOwn finds: the user's other connection
<1>4. \A q \in Positions : q \in OwnConn(c, s1, u) <=> q # p /\ st.conn[q] = u
  BY <1>t, <1>2 DEF OwnConn, Match, Names
<1>5. /\ k.conn \in ConnType /\ k.gns \in GnsType /\ k.out = << >> /\ k.conn[p] = u
      /\ k = [conn |-> k.conn, gns |-> k.gns, out |-> k.out]
      /\ \A q \in Positions \ {p} : k.conn[q] # u
      /\ \A q \in Positions \ {p} : st.conn[q] # u => k.conn[q] = st.conn[q]
      /\ \A q \in Positions \ {p} : k.conn[q] = st.conn[q] \/ k.conn[q] = Closed
      /\ \A v \in Users \ {u} : k.gns[v] = st.gns[v]
  <2>1. CASE OwnConn(c, s1, u) = {}
    <3>1. k = s1
      BY <2>1, <1>3 DEF KickOwn
    <3> QED BY <2>1, <3>1, <1>2, <1>4, <1>t
  <2>2. CASE OwnConn(c, s1, u) # {}
    <3>1. PICK q : q = CHOOSE x \in OwnConn(c, s1, u) : TRUE
      OBVIOUS
    <3>2. q \in OwnConn(c, s1, u) /\ q \in Positions
      BY <3>1, <2>2 DEF OwnConn
    <3>3. q # p /\ st.conn[q] = u /\ s1.conn[q] = u /\ Names(st.gns[u], c, q)
      BY <3>2, <1>4, <1>2, <1>t DEF Match
    <3>4. \A x \in Positions \ {p, q} : st.conn[x] # u
      BY <3>3, <1>t DEF Match, Names
    <3>5. PICK b : b = FALSE
      OBVIOUS
    <3>6. k = ReleaseConn(c, s1, q, b)
      BY <2>2, <3>1, <3>5, <1>3, Zenon DEF KickOwn
    <3>7. PICK n : n = Entry(c, q, FALSE, now)
      OBVIOUS
    <3>8. n \in EntryType
      BY <3>2, <3>7 DEF Entry, EntryType
    <3>9. k = [conn |-> [s1.conn EXCEPT ![q] = Closed], gns |-> [st.gns EXCEPT ![u] = n], out |-> << >>]
      BY <3>3, <3>5, <3>6, <3>7, <1>2 DEF ReleaseConn, Names
    <3>10. /\ k.conn = [s1.conn EXCEPT ![q] = Closed] /\ k.gns = [st.gns EXCEPT ![u] = n]
           /\ k.out = << >> /\ k = [conn |-> k.conn, gns |-> k.gns, out |-> k.out]
      BY <3>9
    <3>11. k.conn \in ConnType /\ k.conn[q] = Closed /\ \A x \in Positions \ {q} : k.conn[x] = s1.conn[x]
      BY <3>2, <3>10, <1>2 DEF ConnType, Holders
    <3>12. k.gns \in GnsType /\ \A v \in Users \ {u} : k.gns[v] = st.gns[v]
      BY <3>8, <3>10, <1>t DEF GnsType
    <3>13. Closed # u
      BY ConstFacts
    <3> QED BY <3>2, <3>3, <3>4, <3>10, <3>11, <3>12, <3>13, <1>2
  <2> QED BY <2>1, <2>2
<1>6. PICK n : n = Entry(c, p, TRUE, now)
  OBVIOUS
<1>7. /\ n \in EntryType /\ n # None /\ n.time = now /\ n.active /\ n.srv = c /\ n.pos = p
  <2>1. n = [srv |-> c, pos |-> p, active |-> TRUE, time |-> now]
    BY <1>6 DEF Entry
  <2>2. n \in EntryType
    BY <2>1 DEF EntryType
  <2> QED BY <2>1, <2>2, ConstFacts
<1>8. PICK m : m = [cmd |-> "LoginNotice", data |-> {LoginData(u, c, p, now)}]
  OBVIOUS
<1>9. m \in Msg /\ SaidBy(c, m, now)
  BY <1>8 DEF Msg, SaidBy, LoginData, Data
<1>10. r = [conn |-> k.conn, gns |-> [k.gns EXCEPT ![u] = n], out |-> <<m>>]
  <2>1. PICK s2 : s2 = SetEntry(k, u, n)
    OBVIOUS
  <2>2. s2 = [conn |-> k.conn, gns |-> [k.gns EXCEPT ![u] = n], out |-> << >>]
    BY <2>1, <1>5 DEF SetEntry
  <2>3. r = [s2 EXCEPT !.out = Append(@, m)]
    BY <2>1, <1>1, <1>3, <1>6, <1>8 DEF LoginHere
  <2> QED BY <2>2, <2>3
<1>11. /\ r.conn = k.conn /\ r.out = <<m>> /\ r.gns \in GnsType /\ r.gns[u] = n
       /\ \A v \in Users \ {u} : r.gns[v] = st.gns[v]
  BY <1>5, <1>7, <1>10 DEF GnsType
<1>12. Match(c, r.conn, r.gns)
  <2> SUFFICES ASSUME NEW v \in Users, NEW q \in Positions
               PROVE  r.conn[q] = v <=> Names(r.gns[v], c, q)
    BY DEF Match
  <2>1. CASE v = u
    BY <2>1, <1>5, <1>7, <1>11 DEF Names
  <2>2. CASE v # u
    <3>1. r.conn[q] = v <=> st.conn[q] = v
      BY <2>2, <1>5, <1>11, ConstFacts
    <3> QED BY <2>2, <3>1, <1>11, <1>t DEF Match
  <2> QED BY <2>1, <2>2
<1>13. \A v \in Users : r.gns[v] # None => r.gns[v].time <= now
  BY <1>t, <1>7, <1>11
<1>14. r \in StType /\ \A i \in 1..Len(r.out) : SaidBy(c, r.out[i], now)
  BY <1>5, <1>9, <1>10, <1>11 DEF StType
<1> QED BY <1>5, <1>6, <1>8, <1>11, <1>12, <1>13, <1>14 DEF Sane, LoggedIn

-----------------------------------------------------------------------------
(* The queues between the servers *)

\* Messages put at the end.
LEMMA NoticedCat ==
    ASSUME NEW q \in Seq(Msg), NEW o \in Seq(Msg)
    PROVE  /\ q \o o \in Seq(Msg)
           /\ \A i \in 1..Len(q \o o) : \/ \E j \in 1..Len(q) : (q \o o)[i] = q[j]
                                        \/ \E j \in 1..Len(o) : (q \o o)[i] = o[j]
           /\ \A u, t : Noticed(q, u, t) \/ Noticed(o, u, t) => Noticed(q \o o, u, t)
<1>1. /\ q \o o \in Seq(Msg) /\ Len(q) \in Nat /\ Len(o) \in Nat
      /\ Len(q \o o) = Len(q) + Len(o)
      /\ \A i \in 1..Len(q) : (q \o o)[i] = q[i]
      /\ \A i \in Len(q) + 1 .. Len(q) + Len(o) : (q \o o)[i] = o[i - Len(q)]
  OBVIOUS
<1>2. PICK r : r = q \o o
  OBVIOUS
<1>3. \A i \in 1..Len(r) : \/ i \in 1..Len(q) /\ r[i] = q[i]
                           \/ i - Len(q) \in 1..Len(o) /\ r[i] = o[i - Len(q)]
  BY <1>1, <1>2
<1>4. \A j \in 1..Len(q) : j \in 1..Len(r) /\ r[j] = q[j]
  BY <1>1, <1>2
<1>5. \A j \in 1..Len(o) : /\ j + Len(q) \in 1..Len(r)
                           /\ r[j + Len(q)] = o[j]
  <2> TAKE j \in 1..Len(o)
  <2>1. j + Len(q) \in Len(q) + 1 .. Len(q) + Len(o) /\ (j + Len(q)) - Len(q) = j
        /\ j + Len(q) \in 1..Len(q) + Len(o)
    BY <1>1
  <2> QED BY <2>1, <1>1, <1>2
<1>6. \A u, t : Noticed(q, u, t) \/ Noticed(o, u, t) => Noticed(r, u, t)
  BY <1>4, <1>5 DEF Noticed
<1> QED BY <1>1, <1>2, <1>3, <1>6

\* The first message taken out.
LEMMA NoticedTail ==
    ASSUME NEW q \in Seq(Msg), q # << >>
    PROVE  /\ Tail(q) \in Seq(Msg) /\ Head(q) \in Msg
           /\ Len(q) >= 1 /\ Head(q) = q[1]
           /\ \A i \in 1..Len(Tail(q)) : \E j \in 1..Len(q) : Tail(q)[i] = q[j]
           /\ \A u, t : Noticed(q, u, t) => Tells(Head(q), u, t) \/ Noticed(Tail(q), u, t)
<1>1. /\ Tail(q) \in Seq(Msg) /\ Len(q) \in Nat \ {0} /\ Head(q) \in Msg /\ Head(q) = q[1]
      /\ Len(Tail(q)) = Len(q) - 1
      /\ \A i \in 1..Len(q) - 1 : Tail(q)[i] = q[i + 1]
  OBVIOUS
<1>2. \A i \in 1..Len(Tail(q)) : i + 1 \in 1..Len(q) /\ Tail(q)[i] = q[i + 1]
  BY <1>1
<1>3. ASSUME NEW u, NEW t, NEW i \in 1..Len(q), Tells(q[i], u, t)
      PROVE  Tells(Head(q), u, t) \/ Noticed(Tail(q), u, t)
  <2>1. CASE i = 1
    BY <2>1, <1>1, <1>3
  <2>2. CASE i # 1
    <3>1. i - 1 \in 1..Len(Tail(q)) /\ (i - 1) + 1 = i /\ i - 1 \in 1..Len(q) - 1
      BY <2>2, <1>1
    <3>2. Tail(q)[i - 1] = q[i]
      BY <3>1, <1>1
    <3> QED BY <3>1, <3>2, <1>3 DEF Noticed
  <2> QED BY <2>1, <2>2
<1> QED BY <1>1, <1>2, <1>3 DEF Noticed

-----------------------------------------------------------------------------
(* A step of one server *)

\* The queues after a step: what they say is true, and a notice is taken only
\* by server c, which has closed an older connection of the user.
QueueStep(c) ==
    /\ net' \in [Servers -> [Servers -> Seq(Msg)]]
    /\ lost' \in [Servers -> [Servers -> SUBSET Msg]]
    /\ early' \in [Servers -> [Servers -> SUBSET Msg]]
    /\ \A x, y \in Servers : \A i \in 1..Len(net'[x][y]) : SaidBy(x, net'[x][y][i], now)
    /\ \A x, y \in Servers : \A u \in Users : \A t :
          Sent(net[x][y], lost[x][y], u, t) =>
            \/ Sent(net'[x][y], lost'[x][y], u, t)
            \/ /\ y = c /\ x # c
               /\ \A p \in Positions : conn'[c][p] = u => gns'[c][u].time > t

\* A connection of a user that is there afterwards was there before, or is a
\* new login that every other server is told of.
LoginStep(c) ==
    \A u \in Users : \A p \in Positions : conn'[c][p] = u =>
        \/ conn[c][p] = u /\ gns'[c][u] = gns[c][u]
        \/ gns'[c][u].time = now /\ \A d \in Servers \ {c} : Sent(net'[c][d], lost'[c][d], u, now)

\* Server c changes, the others do not.
OthersSame(c) ==
    /\ conn' \in [Servers -> ConnType] /\ gns' \in [Servers -> GnsType]
    /\ posCnt' \in [Servers -> 0..MaxPos]
    /\ rsp' \in [Servers -> SUBSET (Positions \X Users \X Nat)]
    /\ now' = now /\ logins' \in Nat
    /\ \A d \in Servers \ {c} : /\ conn'[d] = conn[d] /\ gns'[d] = gns[d]
                                /\ posCnt'[d] = posCnt[d] /\ rsp'[d] = rsp[d]

\* Server c is in order after the step.
ServerOk(c) ==
    /\ Match(c, conn'[c], gns'[c])
    /\ \A u \in Users : gns'[c][u] # None => gns'[c][u].time <= now
    /\ AskedOk(conn'[c], posCnt'[c], rsp'[c])

\* Such a step keeps the invariant.
LEMMA StepKeeps ==
    ASSUME IInv, NEW c \in Servers, OthersSame(c), ServerOk(c), QueueStep(c), LoginStep(c)
    PROVE  IInv'
<1> USE DEF OthersSame, ServerOk, QueueStep, LoginStep
<1>t. /\ conn \in [Servers -> ConnType] /\ gns \in [Servers -> GnsType] /\ now \in 1..MaxTime
  BY DEF IInv, TypeInv, TypeOK, ConnType, GnsType, Holders
<1>1. TypeInv'
  BY DEF IInv, TypeInv, TypeOK, ConnType, GnsType, Holders
<1>2. TimeInv'
  <2>1. \A x, y \in Servers : \A i \in 1..Len(net'[x][y]) : SaidBy(x, net'[x][y][i], now')
    BY DEF SaidBy
  <2>2. \A d \in Servers : \A u \in Users : gns'[d][u] # None => gns'[d][u].time <= now'
    BY DEF IInv, TimeInv
  <2> QED BY <2>1, <2>2 DEF TimeInv, SaidBy
<1>3. AskedInv'
  BY DEF IInv, AskedInv
<1>4. RegistryMatchesConns'
  <2> SUFFICES ASSUME NEW d \in Servers, NEW u \in Users, NEW p \in Positions
               PROVE  conn'[d][p] = u <=> Names(gns'[d][u], d, p)
    BY DEF RegistryMatchesConns, Session, ActiveHere, Names
  <2>1. CASE d = c
    BY <2>1 DEF Match
  <2>2. CASE d # c
    <3>1. conn'[d] = conn[d] /\ gns'[d] = gns[d]
      BY <2>2
    <3>2. conn[d][p] = u <=> Names(gns[d][u], d, p)
      BY DEF IInv, RegistryMatchesConns, Session, ActiveHere, Names
    <3> QED BY <3>1, <3>2
  <2> QED BY <2>1, <2>2
<1>5. ASSUME NEW b \in Servers \ {c}, NEW u \in Users, NEW p \in Positions, NEW q \in Positions,
             conn'[c][p] = u, conn'[b][q] = u
      PROVE  \/ gns'[b][u].time >= gns'[c][u].time /\ Sent(net'[b][c], lost'[b][c], u, gns'[b][u].time)
             \/ gns'[c][u].time >= gns'[b][u].time /\ Sent(net'[c][b], lost'[c][b], u, gns'[c][u].time)
  <2>1. conn[b][q] = u /\ gns'[b][u] = gns[b][u] /\ gns[b][u] # None
    BY <1>5 DEF IInv, RegistryMatchesConns, Session, ActiveHere
  <2>2. gns[b][u].time <= now /\ gns[b][u].time \in Int
    BY <2>1, <1>t DEF IInv, TimeInv, GnsType, EntryType
  <2>3. CASE gns'[c][u].time = now /\ \A d \in Servers \ {c} : Sent(net'[c][d], lost'[c][d], u, now)
    BY <2>1, <2>2, <2>3, <1>t
  <2>4. CASE conn[c][p] = u /\ gns'[c][u] = gns[c][u]
    <3>1. gns[c][u] # None
      BY <2>4 DEF IInv, RegistryMatchesConns, Session, ActiveHere
    <3>2. gns[c][u].time \in Int
      BY <3>1, <1>t DEF GnsType, EntryType
    <3>3. \/ gns[b][u].time >= gns[c][u].time /\ Sent(net[b][c], lost[b][c], u, gns[b][u].time)
          \/ gns[c][u].time >= gns[b][u].time /\ Sent(net[c][b], lost[c][b], u, gns[c][u].time)
      BY <2>1, <2>4 DEF IInv, LaterNoticed, LaterTold, Session
    <3>4. CASE gns[b][u].time >= gns[c][u].time /\ Sent(net[b][c], lost[b][c], u, gns[b][u].time)
      <4>1. \/ Sent(net'[b][c], lost'[b][c], u, gns[b][u].time)
            \/ gns'[c][u].time > gns[b][u].time
        BY <3>4, <1>5
      <4> QED BY <4>1, <3>4, <3>2, <2>1, <2>2, <2>4
    <3>5. CASE gns[c][u].time >= gns[b][u].time /\ Sent(net[c][b], lost[c][b], u, gns[c][u].time)
      <4>1. Sent(net'[c][b], lost'[c][b], u, gns[c][u].time)
        BY <3>5
      <4> QED BY <4>1, <3>5, <2>1, <2>4
    <3> QED BY <3>3, <3>4, <3>5
  <2> QED BY <1>5, <2>3, <2>4
<1>6. LaterNoticed'
  <2> SUFFICES ASSUME NEW a \in Servers, NEW b \in Servers, NEW u \in Users,
                      NEW p \in Positions, NEW q \in Positions,
                      a # b, conn'[a][p] = u, conn'[b][q] = u
               PROVE  LaterTold(a, b, u)' \/ LaterTold(b, a, u)'
    BY Zenon DEF LaterNoticed, Session
  <2>0. ASSUME NEW x \in Servers, NEW y \in Servers,
               gns'[y][u].time >= gns'[x][u].time,
               Sent(net'[y][x], lost'[y][x], u, gns'[y][u].time)
        PROVE  LaterTold(x, y, u)'
    BY <2>0 DEF LaterTold, Sent, Noticed, Tells
  <2>1. CASE a = c
    BY <2>0, <2>1, <1>5
  <2>2. CASE b = c
    BY <2>0, <2>2, <1>5
  <2>3. CASE a # c /\ b # c
    <3>1. \/ gns[b][u].time >= gns[a][u].time /\ Sent(net[b][a], lost[b][a], u, gns[b][u].time)
          \/ gns[a][u].time >= gns[b][u].time /\ Sent(net[a][b], lost[a][b], u, gns[a][u].time)
      <4>1. conn[a][p] = u /\ conn[b][q] = u
        BY <2>3
      <4> QED BY <4>1 DEF IInv, LaterNoticed, LaterTold, Session
    <3> QED BY <2>0, <2>3, <3>1
  <2> QED BY <2>1, <2>2, <2>3
<1> QED BY <1>1, <1>2, <1>3, <1>4, <1>6 DEF IInv

\* What the send queue takes of a handler's messages, and what is lost.
LEMMA TakenIs ==
    ASSUME NEW out \in Seq(Msg), NEW sent \in Taken(out)
    PROVE  /\ sent \in Seq(Msg)
           /\ \A i \in 1..Len(sent) : \E j \in 1..Len(out) : sent[i] = out[j]
           /\ \A u, t : Noticed(out, u, t) => Sent(sent, Items(out) \ Items(sent), u, t)
<1>1. DOMAIN out = 1..Len(out) /\ \A i \in 1..Len(out) : out[i] \in Msg
  OBVIOUS
<1>2. CASE sent = out
  BY <1>2 DEF Sent
<1>3. CASE sent = << >>
  <2>1. Items(sent) = {} /\ Len(sent) = 0 /\ sent \in Seq(Msg)
    BY <1>3 DEF Items
  <2> QED BY <1>1, <2>1 DEF Sent, Noticed, Items
<1>4. ASSUME NEW i \in DOMAIN out, sent = <<out[i]>>
      PROVE  /\ sent \in Seq(Msg)
             /\ \A j \in 1..Len(sent) : \E k \in 1..Len(out) : sent[j] = out[k]
             /\ \A u, t : Noticed(out, u, t) => Sent(sent, Items(out) \ Items(sent), u, t)
  <2>1. Len(sent) = 1 /\ sent[1] = out[i] /\ sent \in Seq(Msg) /\ DOMAIN sent = {1}
    BY <1>1, <1>4
  <2>2. Items(sent) = {out[i]}
    BY <2>1 DEF Items
  <2> QED BY <1>1, <2>1, <2>2 DEF Sent, Noticed, Items
<1> QED BY <1>2, <1>3, <1>4 DEF Taken

\* What Send2Server does to the queues: out is appended or lost, one message
\* taken.
Delivered(c, to, from, out) ==
    /\ net' \in [Servers -> [Servers -> Seq(Msg)]]
    /\ lost' \in [Servers -> [Servers -> SUBSET Msg]]
    /\ early' \in [Servers -> [Servers -> SUBSET Msg]]
    /\ \A x, y \in Servers : \A i \in 1..Len(net'[x][y]) : SaidBy(x, net'[x][y][i], now)
    /\ \A x, y \in Servers : \A u, t :
         Sent(net[x][y], lost[x][y], u, t) =>
           \/ Sent(net'[x][y], lost'[x][y], u, t)
           \/ from # c /\ x = from /\ y = c /\ Tells(Head(net[from][c]), u, t)
    /\ \A d \in to : \A u, t : Noticed(out, u, t) => Sent(net'[c][d], lost'[c][d], u, t)

\* Queue r is q with messages of out at its end, and L2 is L with the others.
Joined(q, L, out, r, L2) ==
    /\ r \in Seq(Msg)
    /\ \A i \in 1..Len(r) : \/ \E j \in 1..Len(q) : r[i] = q[j]
                            \/ \E j \in 1..Len(out) : r[i] = out[j]
    /\ \A u, t : Sent(q, L, u, t) \/ Noticed(out, u, t) => Sent(r, L2, u, t)

\* A queue at whose end something is put.
LEMMA SentCat ==
    ASSUME NEW q \in Seq(Msg), NEW out \in Seq(Msg), NEW sent \in Taken(out), NEW L,
           NEW r, r = q \o sent, NEW L2, L2 = L \cup (Items(out) \ Items(sent))
    PROVE  Joined(q, L, out, r, L2)
<1>1. /\ sent \in Seq(Msg)
      /\ \A i \in 1..Len(sent) : \E j \in 1..Len(out) : sent[i] = out[j]
      /\ \A u, t : Noticed(out, u, t) => Sent(sent, Items(out) \ Items(sent), u, t)
  BY TakenIs
<1>2. /\ r \in Seq(Msg)
      /\ \A i \in 1..Len(r) : \/ \E j \in 1..Len(q) : r[i] = q[j]
                              \/ \E j \in 1..Len(sent) : r[i] = sent[j]
      /\ \A u, t : Noticed(q, u, t) \/ Noticed(sent, u, t) => Noticed(r, u, t)
  BY <1>1, NoticedCat
<1>3. ASSUME NEW u, NEW t, Sent(q, L, u, t) \/ Noticed(out, u, t) PROVE Sent(r, L2, u, t)
  <2>1. CASE Sent(q, L, u, t)
    BY <2>1, <1>2 DEF Sent
  <2>2. CASE Noticed(out, u, t)
    BY <2>2, <1>1, <1>2 DEF Sent
  <2> QED BY <1>3, <2>1, <2>2
<1>4. \A i \in 1..Len(r) : \/ \E j \in 1..Len(q) : r[i] = q[j]
                           \/ \E j \in 1..Len(out) : r[i] = out[j]
  BY <1>1, <1>2
<1> QED BY <1>2, <1>3, <1>4 DEF Joined

\* Send2Server does exactly this to the queues.
LEMMA SendNet ==
    ASSUME IInv, NEW c \in Servers, NEW to \in SUBSET (Servers \ {c}), NEW from \in Servers,
           NEW out \in Seq(Msg), \A i \in 1..Len(out) : SaidBy(c, out[i], now),
           Send2Server(c, to, from, out), from # c => net[from][c] # << >>
    PROVE  Delivered(c, to, from, out)
<1>1. /\ net \in [Servers -> [Servers -> Seq(Msg)]]
      /\ lost \in [Servers -> [Servers -> SUBSET Msg]]
      /\ early \in [Servers -> [Servers -> SUBSET Msg]]
      /\ \A x, y \in Servers : \A i \in 1..Len(net[x][y]) : SaidBy(x, net[x][y][i], now)
  BY DEF IInv, TypeInv, TimeInv
<1>s. PICK sent \in Taken(out) :
        /\ net' = [s \in Servers |-> [d \in Servers |->
                     IF s = c /\ d \in to THEN net[s][d] \o sent
                     ELSE IF s = from /\ d = c /\ s # c THEN Tail(net[s][d])
                     ELSE net[s][d]]]
        /\ lost' = [s \in Servers |-> [d \in Servers |->
                      IF s = c /\ d \in to THEN lost[s][d] \cup (Items(out) \ Items(sent))
                      ELSE lost[s][d]]]
        /\ early' = early
  BY DEF Send2Server
<1>2. /\ \A d \in to : /\ net'[c][d] = net[c][d] \o sent
                       /\ lost'[c][d] = lost[c][d] \cup (Items(out) \ Items(sent))
      /\ from # c => net'[from][c] = Tail(net[from][c])
      /\ \A x, y \in Servers : ~(x = c /\ y \in to) /\ ~(x = from /\ y = c /\ x # c) => net'[x][y] = net[x][y]
      /\ \A x, y \in Servers : ~(x = c /\ y \in to) => lost'[x][y] = lost[x][y]
      /\ net' = [x \in Servers |-> [y \in Servers |-> net'[x][y]]]
  BY <1>s
<1>3. ASSUME NEW x \in Servers, NEW y \in Servers
      PROVE  /\ net'[x][y] \in Seq(Msg)
             /\ \A i \in 1..Len(net'[x][y]) : SaidBy(x, net'[x][y][i], now)
             /\ \A u, t : Sent(net[x][y], lost[x][y], u, t) =>
                  \/ Sent(net'[x][y], lost'[x][y], u, t)
                  \/ from # c /\ x = from /\ y = c /\ Tells(Head(net[from][c]), u, t)
             /\ x = c /\ y \in to => \A u, t : Noticed(out, u, t) => Sent(net'[x][y], lost'[x][y], u, t)
  <2>0. net[x][y] \in Seq(Msg)
    BY <1>1
  <2>1. CASE x = c /\ y \in to
    <3>1. PICK q \in Seq(Msg) : q = net[x][y]
      BY <2>0
    <3>2. PICK r : r = q \o sent
      OBVIOUS
    <3>3. PICK L : L = lost[x][y]
      OBVIOUS
    <3>4. PICK L2 : L2 = L \cup (Items(out) \ Items(sent))
      OBVIOUS
    <3>5. net'[x][y] = r /\ lost'[x][y] = L2
      BY <2>1, <3>1, <3>2, <3>3, <3>4, <1>2
    <3>6. /\ r \in Seq(Msg)
          /\ \A i \in 1..Len(r) : \/ \E j \in 1..Len(q) : r[i] = q[j]
                                  \/ \E j \in 1..Len(out) : r[i] = out[j]
          /\ \A u, t : Sent(q, L, u, t) \/ Noticed(out, u, t) => Sent(r, L2, u, t)
      <4>1. Joined(q, L, out, r, L2)
        BY <3>2, <3>4, SentCat
      <4> QED BY <4>1 DEF Joined
    <3>7. \A i \in 1..Len(r) : SaidBy(x, r[i], now)
      BY <3>1, <3>6, <1>1, <2>1, ZenonT(60)
    <3> QED BY <2>1, <3>1, <3>3, <3>5, <3>6, <3>7, Zenon
  <2>2. CASE x = from /\ y = c /\ x # c
    <3>1. net'[x][y] = Tail(net[x][y]) /\ lost'[x][y] = lost[x][y]
      BY <2>2, <1>2
    <3>2. PICK q \in Seq(Msg) : q = net[x][y] /\ q # << >>
      BY <2>0, <2>2
    <3>3. PICK r : r = Tail(q)
      OBVIOUS
    <3>4. /\ r \in Seq(Msg) /\ net'[x][y] = r
          /\ \A i \in 1..Len(r) : \E j \in 1..Len(q) : r[i] = q[j]
          /\ \A u, t : Noticed(q, u, t) => Tells(Head(q), u, t) \/ Noticed(r, u, t)
      BY <3>1, <3>2, <3>3, NoticedTail
    <3>5. \A i \in 1..Len(r) : SaidBy(x, r[i], now)
      BY <3>2, <3>4, <1>1
    <3>6. \A u, t : Sent(net[x][y], lost[x][y], u, t) =>
                      Sent(net'[x][y], lost'[x][y], u, t) \/ Tells(Head(q), u, t)
      BY <3>1, <3>2, <3>4, Zenon DEF Sent
    <3> QED BY <2>2, <3>2, <3>4, <3>5, <3>6, Zenon
  <2>3. CASE ~(x = c /\ y \in to) /\ ~(x = from /\ y = c /\ x # c)
    BY <2>0, <2>3, <1>1, <1>2
  <2> QED BY <2>1, <2>2, <2>3
<1>4. net' \in [Servers -> [Servers -> Seq(Msg)]]
  BY <1>2, <1>3
<1>5. lost' \in [Servers -> [Servers -> SUBSET Msg]]
  <2>1. Items(out) \subseteq Msg
    BY DEF Items
  <2> QED BY <2>1, <1>1, <1>s
<1> QED BY <1>1, <1>3, <1>4, <1>5, <1>s DEF Delivered

\* So does Become, for the other servers.
LEMMA BecomeNet ==
    ASSUME IInv, NEW c \in Servers, NEW from \in Servers, NEW st, Sane(c, st),
           Become(c, from, st), from # c => net[from][c] # << >>
    PROVE  Delivered(c, Servers \ {c}, from, st.out)
<1>1. PICK out \in Seq(Msg) : out = st.out /\ \A i \in 1..Len(out) : SaidBy(c, out[i], now)
  BY DEF Sane, StType
<1>2. PICK to \in SUBSET (Servers \ {c}) : to = Servers \ {c}
  OBVIOUS
<1>3. Send2Server(c, to, from, out)
  BY <1>1, <1>2 DEF Become
<1>4. Delivered(c, to, from, out)
  BY <1>1, <1>3, SendNet
<1> QED BY <1>1, <1>2, <1>4

\* The state a handler starts from.
LEMMA StateIs ==
    ASSUME IInv, NEW c \in Servers
    PROVE  /\ Sane(c, State(c)) /\ State(c).conn = conn[c] /\ State(c).gns = gns[c]
           /\ State(c).out = << >> /\ now \in 1..MaxTime /\ AskedOk(conn[c], posCnt[c], rsp[c])
<1>1. conn[c] \in ConnType /\ gns[c] \in GnsType /\ now \in 1..MaxTime
  BY DEF IInv, TypeInv, TypeOK, ConnType, GnsType, Holders
<1>2. /\ State(c).conn = conn[c] /\ State(c).gns = gns[c] /\ State(c).out = << >>
      /\ State(c) \in StType
  BY <1>1 DEF State, StType
<1>3. Match(c, conn[c], gns[c])
  BY DEF IInv, RegistryMatchesConns, Session, ActiveHere, Match, Names
<1>4. \A u \in Users : gns[c][u] # None => gns[c][u].time <= now
  BY DEF IInv, TimeInv
<1>5. \A i \in 1..Len(State(c).out) : SaidBy(c, State(c).out[i], now)
  BY <1>2
<1> QED BY <1>1, <1>2, <1>3, <1>4, <1>5 DEF Sane, IInv, AskedInv

\* A handler that has closed connections at most.
LEMMA ShrinkKeeps ==
    ASSUME IInv, NEW c \in Servers, NEW from \in Servers, NEW st, Sane(c, st),
           Shrinks(State(c), st), Become(c, from, st),
           from # c => /\ net[from][c] # << >>
                       /\ \A u \in Users : \A t : \A p \in Positions :
                            Tells(Head(net[from][c]), u, t) /\ st.conn[p] = u => st.gns[u].time > t,
           NEW R, R \subseteq rsp[c], rsp' = [rsp EXCEPT ![c] = R],
           UNCHANGED <<posCnt, now, logins>>
    PROVE  IInv'
<1>1. /\ conn \in [Servers -> ConnType] /\ gns \in [Servers -> GnsType] /\ now \in 1..MaxTime
      /\ rsp \in [Servers -> SUBSET (Positions \X Users \X Nat)]
      /\ posCnt \in [Servers -> 0..MaxPos] /\ logins \in Nat
  BY DEF IInv, TypeInv, TypeOK, ConnType, GnsType, Holders
<1>2. st.conn \in ConnType /\ st.gns \in GnsType
  BY DEF Sane, StType
<1>3. /\ conn' \in [Servers -> ConnType] /\ gns' \in [Servers -> GnsType]
      /\ conn'[c] = st.conn /\ gns'[c] = st.gns
      /\ \A d \in Servers \ {c} : conn'[d] = conn[d] /\ gns'[d] = gns[d]
  BY <1>1, <1>2 DEF Become
<1>4. /\ rsp' \in [Servers -> SUBSET (Positions \X Users \X Nat)] /\ rsp'[c] = R
      /\ \A d \in Servers \ {c} : rsp'[d] = rsp[d] /\ posCnt'[d] = posCnt[d]
  BY <1>1
<1>5. /\ State(c).conn = conn[c] /\ State(c).gns = gns[c] /\ AskedOk(conn[c], posCnt[c], rsp[c])
  BY StateIs
<1>6. AskedOk(conn'[c], posCnt'[c], rsp'[c])
  <2>1. \A p \in Positions : st.conn[p] = conn[c][p] \/ st.conn[p] = Closed
    BY <1>5 DEF Shrinks
  <2>2. \A r \in rsp[c] : r[1] \in Positions
    BY <1>1
  <2> QED BY <2>1, <2>2, <1>3, <1>4, <1>5 DEF AskedOk
<1>7. Match(c, conn'[c], gns'[c]) /\ \A u \in Users : gns'[c][u] # None => gns'[c][u].time <= now
  BY <1>3 DEF Sane
<1>8. LoginStep(c)
  BY <1>3, <1>5, ConstFacts DEF Shrinks, LoginStep
<1>9. Delivered(c, Servers \ {c}, from, st.out)
  BY BecomeNet
<1>10. QueueStep(c)
  BY <1>3, <1>9, ZenonT(60) DEF QueueStep, Delivered
<1>11. OthersSame(c) /\ ServerOk(c)
  BY <1>1, <1>3, <1>4, <1>6, <1>7 DEF OthersSame, ServerOk
<1> QED BY <1>8, <1>10, <1>11, StepKeeps

-----------------------------------------------------------------------------
(* The actions *)

\* The end of a connection.
LEMMA CloseKeeps ==
    ASSUME IInv, NEW c \in Servers, NEW p \in Positions, CloseConn(c, p)
    PROVE  IInv'
<1>1. PICK st : st = ReleaseConn(c, State(c), p, TRUE)
  OBVIOUS
<1>2. Become(c, c, st) /\ UNCHANGED <<posCnt, rsp, now, logins>>
  BY <1>1 DEF CloseConn
<1>3. PICK b : b = TRUE
  OBVIOUS
<1>4. st = ReleaseConn(c, State(c), p, b)
  BY <1>1, <1>3, Zenon
<1>5. Sane(c, State(c)) /\ now \in 1..MaxTime
  BY StateIs
<1>6. Sane(c, st) /\ Shrinks(State(c), st)
  BY <1>4, <1>5, ReleaseIs
<1>7. PICK R : R = rsp[c]
  OBVIOUS
<1>8. R \subseteq rsp[c] /\ rsp' = [rsp EXCEPT ![c] = R]
  BY <1>2, <1>7 DEF IInv, TypeInv
<1> QED BY <1>2, <1>6, <1>8, ShrinkKeeps

\* A message of d that c receives.
LEMMA ReceivedIs ==
    ASSUME IInv, NEW c \in Servers, NEW d \in Servers, net[d][c] # << >>
    PROVE  Head(net[d][c]) \in Msg /\ SaidBy(d, Head(net[d][c]), now)
<1>1. PICK q \in Seq(Msg) : q = net[d][c]
  BY DEF IInv, TypeInv
<1>2. Len(q) >= 1 /\ Len(q) \in Nat /\ Head(q) = q[1] /\ Head(q) \in Msg
  BY <1>1, NoticedTail
<1>3. 1 \in 1..Len(q)
  BY <1>2
<1> QED BY <1>1, <1>2, <1>3 DEF IInv, TimeInv

\* The notice of a login, and those of LoginSync_Rsp.
LEMMA NoticeKeeps ==
    ASSUME IInv, NEW c \in Servers, NEW d \in Servers \ {c},
           LoginNotice(c, d) \/ LoginSyncRsp(c, d)
    PROVE  IInv'
<1>1. PICK m : m = Head(net[d][c])
  OBVIOUS
<1>2. PICK st : st = ForAll(NoticeOne, c, State(c), m.data)
  OBVIOUS
<1>3. /\ Become(c, d, st) /\ UNCHANGED <<posCnt, rsp, now, logins>> /\ net[d][c] # << >>
  BY <1>1, <1>2 DEF LoginNotice, LoginSyncRsp, Received
<1>4. m \in Msg /\ SaidBy(d, m, now) /\ d # c
  BY <1>1, <1>3, ReceivedIs
<1>5. Sane(c, State(c)) /\ now \in 1..MaxTime /\ State(c).gns = gns[c]
  BY StateIs
<1>6. Sane(c, st) /\ Shrinks(State(c), st)
  BY <1>2, <1>4, <1>5, NoticeAll
<1>7. \A e \in m.data : \A p \in Positions :
        st.conn[p] = e.user => State(c).gns[e.user].time > e.time
  BY <1>2, <1>4, <1>5, NoticeAll
<1>8. \A u \in Users : \A t : \A p \in Positions :
        Tells(m, u, t) /\ st.conn[p] = u => st.gns[u].time > t
  BY <1>6, <1>7 DEF Tells, Shrinks
<1>9. PICK R : R = rsp[c]
  OBVIOUS
<1>10. R \subseteq rsp[c] /\ rsp' = [rsp EXCEPT ![c] = R]
  BY <1>3, <1>9 DEF IInv, TypeInv
<1> QED BY <1>1, <1>3, <1>6, <1>8, <1>10, ShrinkKeeps

\* The notice that a user left.
LEMMA DisconnectKeeps ==
    ASSUME IInv, NEW c \in Servers, NEW d \in Servers \ {c}, Disconnect(c, d)
    PROVE  IInv'
<1>1. PICK m : m = Head(net[d][c])
  OBVIOUS
<1>2. PICK st : st = ForAll(DisconnectOne, c, State(c), m.data)
  OBVIOUS
<1>3. /\ Become(c, d, st) /\ UNCHANGED <<posCnt, rsp, now, logins>> /\ net[d][c] # << >>
      /\ m.cmd = "Disconnect"
  BY <1>1, <1>2 DEF Disconnect, Received
<1>4. m \in Msg /\ SaidBy(d, m, now) /\ d # c
  BY <1>1, <1>3, ReceivedIs
<1>5. Sane(c, State(c)) /\ now \in 1..MaxTime
  BY StateIs
<1>6. Sane(c, st) /\ Shrinks(State(c), st)
  BY <1>2, <1>4, <1>5, DisconnectAll
<1>7. \A u, t : ~Tells(m, u, t)
  BY <1>3 DEF Tells
<1>8. PICK R : R = rsp[c]
  OBVIOUS
<1>9. R \subseteq rsp[c] /\ rsp' = [rsp EXCEPT ![c] = R]
  BY <1>3, <1>8 DEF IInv, TypeInv
<1> QED BY <1>1, <1>3, <1>6, <1>7, <1>9, ShrinkKeeps

\* A step that leaves the queues alone.
LEMMA NetSame ==
    ASSUME IInv, NEW c \in Servers, UNCHANGED <<net, lost, early>>
    PROVE  QueueStep(c)
BY DEF QueueStep, IInv, TypeInv, TimeInv

\* A new connection.
LEMMA AcceptKeeps ==
    ASSUME IInv, NEW c \in Servers, AcceptConn(c)
    PROVE  IInv'
<1>1. /\ conn \in [Servers -> ConnType] /\ gns \in [Servers -> GnsType]
      /\ rsp \in [Servers -> SUBSET (Positions \X Users \X Nat)]
      /\ posCnt \in [Servers -> 0..MaxPos] /\ logins \in Nat
  BY DEF IInv, TypeInv, TypeOK, ConnType, GnsType, Holders
<1>2. PICK n : n = posCnt[c] + 1
  OBVIOUS
<1>3. n \in Positions /\ n \in 0..MaxPos /\ posCnt[c] \in Nat /\ posCnt[c] < n
  BY <1>1, <1>2, ConstFacts DEF AcceptConn, Positions
<1>4. /\ conn' = [conn EXCEPT ![c][n] = Unauth] /\ posCnt' = [posCnt EXCEPT ![c] = n]
      /\ UNCHANGED <<gns, rsp, net, now, logins, lost, early>>
  BY <1>1, <1>2 DEF AcceptConn
<1>5. /\ conn'[c] \in ConnType /\ conn'[c][n] = Unauth
      /\ \A q \in Positions \ {n} : conn'[c][q] = conn[c][q]
      /\ conn' \in [Servers -> ConnType] /\ posCnt' \in [Servers -> 0..MaxPos] /\ posCnt'[c] = n
      /\ \A d \in Servers \ {c} : conn'[d] = conn[d] /\ posCnt'[d] = posCnt[d]
  BY <1>1, <1>3, <1>4 DEF ConnType, Holders
<1>6. AskedOk(conn[c], posCnt[c], rsp[c])
  BY StateIs
<1>7. AskedOk(conn'[c], posCnt'[c], rsp'[c])
  <2>1. \A r \in rsp[c] : r[1] \in Positions
    BY <1>1
  <2>2. \A p \in Positions : p \in Int
    BY DEF Positions
  <2>3. ASSUME NEW p \in Positions, p > n PROVE conn'[c][p] = Closed
    <3>1. p # n /\ p > posCnt[c]
      BY <2>2, <2>3, <1>3
    <3> QED BY <3>1, <1>5, <1>6 DEF AskedOk
  <2>4. \A r \in rsp[c] : r[1] <= n /\ conn'[c][r[1]] \in {Asked, Closed}
    <3> SUFFICES ASSUME NEW r \in rsp[c] PROVE r[1] <= n /\ conn'[c][r[1]] \in {Asked, Closed}
      OBVIOUS
    <3>1. r[1] <= posCnt[c] /\ conn[c][r[1]] \in {Asked, Closed} /\ r[1] \in Positions /\ r[1] \in Int
      BY <2>1, <2>2, <1>6 DEF AskedOk
    <3>2. r[1] # n /\ r[1] <= n
      BY <3>1, <1>3
    <3> QED BY <3>1, <3>2, <1>5
  <2> QED BY <2>3, <2>4, <1>4, <1>5, <1>6 DEF AskedOk
<1>8. \A u \in Users : \A p \in Positions : conn'[c][p] = u <=> conn[c][p] = u
  <2>1. conn[c][n] = Closed
    BY <1>3, <1>6 DEF AskedOk
  <2> QED BY <2>1, <1>5, ConstFacts
<1>9. Match(c, conn'[c], gns'[c]) /\ \A u \in Users : gns'[c][u] # None => gns'[c][u].time <= now
  BY <1>4, <1>8, StateIs DEF Match, Sane
<1>10. OthersSame(c) /\ ServerOk(c)
  BY <1>1, <1>4, <1>5, <1>7, <1>9 DEF OthersSame, ServerOk
<1>11. LoginStep(c)
  BY <1>4, <1>8 DEF LoginStep
<1> QED BY <1>4, <1>10, <1>11, NetSame, StepKeeps

\* A login request: under Orderly, the first of the connection.
LEMMA LoginReqKeeps ==
    ASSUME Orderly, IInv, NEW c \in Servers, NEW p \in Positions, NEW u \in Users, LoginReq(c, p, u)
    PROVE  IInv'
<1>1. /\ conn \in [Servers -> ConnType] /\ gns \in [Servers -> GnsType]
      /\ rsp \in [Servers -> SUBSET (Positions \X Users \X Nat)]
      /\ posCnt \in [Servers -> 0..MaxPos] /\ logins \in Nat
  BY DEF IInv, TypeInv, TypeOK, ConnType, GnsType, Holders
<1>2. PICK r : r = <<p, u, logins'>>
  OBVIOUS
<1>3. /\ conn[c][p] = Unauth /\ logins' = logins + 1
      /\ conn' = [conn EXCEPT ![c][p] = Asked] /\ rsp' = [rsp EXCEPT ![c] = @ \cup {r}]
      /\ UNCHANGED <<gns, posCnt, net, now, lost, early>>
  BY <1>1, <1>2 DEF LoginReq
<1>4. r \in Positions \X Users \X Nat /\ r[1] = p
  BY <1>1, <1>2, <1>3
<1>5. /\ conn'[c][p] = Asked
      /\ \A q \in Positions \ {p} : conn'[c][q] = conn[c][q]
      /\ conn' \in [Servers -> ConnType]
      /\ rsp' \in [Servers -> SUBSET (Positions \X Users \X Nat)] /\ rsp'[c] = rsp[c] \cup {r}
      /\ \A d \in Servers \ {c} : conn'[d] = conn[d] /\ rsp'[d] = rsp[d]
  BY <1>1, <1>3, <1>4 DEF ConnType, Holders
<1>6. AskedOk(conn[c], posCnt[c], rsp[c])
  BY StateIs
<1>7. AskedOk(conn'[c], posCnt'[c], rsp'[c])
  <2>1. \A s \in rsp[c] : s[1] \in Positions
    BY <1>1
  <2>2. p \in Int /\ posCnt[c] \in Int
    BY <1>1 DEF Positions
  <2>3. p <= posCnt[c]
    BY <2>2, <1>3, <1>6, ConstFacts DEF AskedOk
  <2>4. \A s \in rsp[c] : s[1] # p
    BY <1>3, <1>6, ConstFacts DEF AskedOk
  <2>5. \A q \in Positions : q > posCnt[c] => conn'[c][q] = Closed
    BY <2>2, <2>3, <1>5, <1>6 DEF AskedOk
  <2>6. \A s \in rsp'[c] : s[1] <= posCnt[c] /\ conn'[c][s[1]] \in {Asked, Closed}
    BY <2>1, <2>3, <2>4, <1>4, <1>5, <1>6 DEF AskedOk
  <2>7. \A s, x \in rsp'[c] : s[1] = x[1] => s = x
    BY <2>4, <1>4, <1>5, <1>6 DEF AskedOk
  <2> QED BY <2>5, <2>6, <2>7, <1>3 DEF AskedOk
<1>8. \A v \in Users : \A q \in Positions : conn'[c][q] = v <=> conn[c][q] = v
  BY <1>3, <1>5, ConstFacts
<1>9. Match(c, conn'[c], gns'[c]) /\ \A v \in Users : gns'[c][v] # None => gns'[c][v].time <= now
  BY <1>3, <1>8, StateIs DEF Match, Sane
<1>10. OthersSame(c) /\ ServerOk(c)
  BY <1>1, <1>3, <1>5, <1>7, <1>9 DEF OthersSame, ServerOk
<1>11. LoginStep(c)
  BY <1>3, <1>8 DEF LoginStep
<1> QED BY <1>3, <1>10, <1>11, NetSame, StepKeeps

\* The answer of auth that lets a user in: his connection may be closed at once
\* when he cannot be told.
LEMMA LoginRspOk ==
    ASSUME IInv, NEW c \in Servers, NEW r \in rsp[c], NEW sent \in BOOLEAN,
           conn[c][r[1]] # Closed, LoginRsp(c, r, TRUE, sent)
    PROVE  IInv'
<1>t. /\ conn \in [Servers -> ConnType] /\ gns \in [Servers -> GnsType]
      /\ rsp \in [Servers -> SUBSET (Positions \X Users \X Nat)]
      /\ posCnt \in [Servers -> 0..MaxPos] /\ logins \in Nat
  BY DEF IInv, TypeInv, TypeOK, ConnType, GnsType, Holders
<1>p. PICK p \in Positions : p = r[1]
  BY <1>t
<1>u. PICK u \in Users : u = r[2]
  BY <1>t
<1>0. /\ Sane(c, State(c)) /\ State(c).conn = conn[c] /\ State(c).gns = gns[c]
      /\ State(c).out = << >> /\ now \in 1..MaxTime /\ AskedOk(conn[c], posCnt[c], rsp[c])
  BY StateIs
<1>1. PICK s1 : s1 = LoginHere(c, State(c), p, u)
  OBVIOUS
<1>2. conn[c][p] = Asked
  BY <1>0, <1>p DEF AskedOk
<1>3. State(c).conn[p] \notin Users
  BY <1>0, <1>2, ConstFacts
<1>l. LoggedIn(c, State(c), p, u, s1)
  BY <1>0, <1>1, <1>3, LoginIs
<1>4. /\ Sane(c, s1) /\ s1.conn[p] = u
      /\ s1.gns[u] = Entry(c, p, TRUE, now)
      /\ s1.out = <<[cmd |-> "LoginNotice", data |-> {LoginData(u, c, p, now)}]>>
  BY <1>l, Zenon DEF LoggedIn
<1>5. /\ \A q \in Positions \ {p} : s1.conn[q] # u
      /\ \A q \in Positions \ {p} : s1.conn[q] = conn[c][q] \/ s1.conn[q] = Closed
      /\ \A v \in Users \ {u} : s1.gns[v] = gns[c][v]
  <2>1. /\ \A q \in Positions \ {p} : s1.conn[q] # u
        /\ \A q \in Positions \ {p} : s1.conn[q] = State(c).conn[q] \/ s1.conn[q] = Closed
        /\ \A v \in Users \ {u} : s1.gns[v] = State(c).gns[v]
    BY <1>l DEF LoggedIn
  <2> QED BY <2>1, <1>0
<1>6. s1.gns[u].time = now /\ Noticed(s1.out, u, now)
  <2>1. s1.gns[u] = [srv |-> c, pos |-> p, active |-> TRUE, time |-> now]
    BY <1>4 DEF Entry
  <2>2. PICK m : m = [cmd |-> "LoginNotice", data |-> {LoginData(u, c, p, now)}]
    OBVIOUS
  <2>3. Tells(m, u, now)
    BY <2>2 DEF Tells, LoginData
  <2>4. s1.out = <<m>> /\ Len(s1.out) = 1 /\ s1.out[1] = m
    BY <2>2, <1>4
  <2> QED BY <2>1, <2>3, <2>4 DEF Noticed
<1>7. PICK st : st = IF ~sent /\ s1.conn[p] # Closed THEN ReleaseConn(c, s1, p, TRUE) ELSE s1
  OBVIOUS
<1>8. /\ Become(c, c, st) /\ rsp' = [rsp EXCEPT ![c] = @ \ {r}] /\ UNCHANGED <<posCnt, now, logins>>
  BY <1>p, <1>u, <1>1, <1>7, Zenon DEF LoginRsp
<1>9. /\ Sane(c, st)
      /\ \A q \in Positions \ {p} : st.conn[q] = conn[c][q] \/ st.conn[q] = Closed
      /\ \A v \in Users : \A q \in Positions : st.conn[q] = v =>
           \/ conn[c][q] = v /\ st.gns[v] = gns[c][v]
           \/ v = u /\ st.gns[u].time = now /\ Noticed(st.out, u, now)
  <2>1. CASE sent
    <3>1. st = s1
      BY <2>1, <1>7
    <3>2. ASSUME NEW v \in Users, NEW q \in Positions, st.conn[q] = v
          PROVE  \/ conn[c][q] = v /\ st.gns[v] = gns[c][v]
                 \/ v = u /\ st.gns[u].time = now /\ Noticed(st.out, u, now)
      <4>1. CASE v = u
        BY <4>1, <3>1, <1>6
      <4>2. CASE v # u
        <5>1. q # p /\ st.conn[q] # Closed
          BY <4>2, <3>1, <3>2, <1>4, ConstFacts
        <5> QED BY <4>2, <5>1, <3>1, <3>2, <1>5
      <4> QED BY <4>1, <4>2
    <3> QED BY <3>1, <3>2, <1>4, <1>5
  <2>2. CASE ~sent
    <3>1. PICK b : b = TRUE
      OBVIOUS
    <3>2. s1.conn[p] # Closed
      BY <1>4, ConstFacts
    <3>3. st = ReleaseConn(c, s1, p, b)
      BY <2>2, <3>1, <3>2, <1>7, Zenon
    <3>4. Sane(c, st) /\ Shrinks(s1, st) /\ st.conn[p] = Closed
      BY <3>3, <1>0, <1>4, ReleaseIs
    <3>5. \A q \in Positions : st.conn[q] = s1.conn[q] \/ st.conn[q] = Closed
      BY <3>4 DEF Shrinks
    <3>6. ASSUME NEW v \in Users, NEW q \in Positions, st.conn[q] = v
          PROVE  conn[c][q] = v /\ st.gns[v] = gns[c][v]
      <4>1. q # p /\ st.conn[q] # Closed /\ s1.conn[q] = v
        BY <3>4, <3>5, <3>6, ConstFacts
      <4>2. v # u /\ st.gns[v] = s1.gns[v]
        BY <4>1, <3>4, <3>6, <1>5 DEF Shrinks
      <4> QED BY <4>1, <4>2, <3>6, <1>5, ConstFacts
    <3> QED BY <3>4, <3>5, <3>6, <1>5
  <2> QED BY <2>1, <2>2
<1>10. st.conn \in ConnType /\ st.gns \in GnsType
  BY <1>9 DEF Sane, StType
<1>11. /\ conn' \in [Servers -> ConnType] /\ gns' \in [Servers -> GnsType]
       /\ conn'[c] = st.conn /\ gns'[c] = st.gns
       /\ \A d \in Servers \ {c} : conn'[d] = conn[d] /\ gns'[d] = gns[d]
  BY <1>t, <1>8, <1>10 DEF Become
<1>12. /\ rsp' \in [Servers -> SUBSET (Positions \X Users \X Nat)] /\ rsp'[c] = rsp[c] \ {r}
       /\ \A d \in Servers \ {c} : rsp'[d] = rsp[d] /\ posCnt'[d] = posCnt[d]
  BY <1>t, <1>8
<1>13. AskedOk(conn'[c], posCnt'[c], rsp'[c])
  <2>1. \A s \in rsp'[c] : s \in rsp[c] /\ s[1] \in Positions \ {p}
    BY <1>0, <1>p, <1>t, <1>12 DEF AskedOk
  <2>2. p <= posCnt[c] /\ p \in Int /\ posCnt[c] \in Int
    BY <1>0, <1>p, <1>t DEF AskedOk, Positions
  <2>3. \A q \in Positions : q > posCnt[c] => st.conn[q] = Closed
    BY <2>2, <1>0, <1>9 DEF AskedOk
  <2>4. \A s \in rsp'[c] : s[1] <= posCnt[c] /\ st.conn[s[1]] \in {Asked, Closed}
    BY <2>1, <1>0, <1>9 DEF AskedOk
  <2> QED BY <2>1, <2>3, <2>4, <1>0, <1>8, <1>11 DEF AskedOk
<1>14. Match(c, conn'[c], gns'[c]) /\ \A v \in Users : gns'[c][v] # None => gns'[c][v].time <= now
  BY <1>9, <1>11 DEF Sane
<1>15. Delivered(c, Servers \ {c}, c, st.out)
  BY <1>8, <1>9, BecomeNet
<1>16. LoginStep(c)
  BY <1>9, <1>11, <1>15 DEF LoginStep, Delivered
<1>17. QueueStep(c)
  BY <1>15 DEF QueueStep, Delivered
<1>18. OthersSame(c) /\ ServerOk(c)
  BY <1>t, <1>8, <1>11, <1>12, <1>13, <1>14 DEF OthersSame, ServerOk
<1> QED BY <1>16, <1>17, <1>18, StepKeeps

\* The answer of auth.
LEMMA LoginRspKeeps ==
    ASSUME IInv, NEW c \in Servers, NEW r \in rsp[c], NEW ok \in BOOLEAN, NEW sent \in BOOLEAN,
           LoginRsp(c, r, ok, sent)
    PROVE  IInv'
<1>t. /\ conn \in [Servers -> ConnType] /\ gns \in [Servers -> GnsType]
      /\ rsp \in [Servers -> SUBSET (Positions \X Users \X Nat)]
      /\ posCnt \in [Servers -> 0..MaxPos] /\ logins \in Nat
      /\ net \in [Servers -> [Servers -> Seq(Msg)]]
  BY DEF IInv, TypeInv, TypeOK, ConnType, GnsType, Holders
<1>p. PICK p \in Positions : p = r[1]
  BY <1>t
<1>0. /\ Sane(c, State(c)) /\ State(c).conn = conn[c]
      /\ State(c).out = << >> /\ now \in 1..MaxTime
  BY StateIs
<1>r. PICK R : R = rsp[c] \ {r}
  OBVIOUS
<1>s. R \subseteq rsp[c] /\ rsp' = [rsp EXCEPT ![c] = R] /\ UNCHANGED <<posCnt, now, logins>>
  BY <1>r DEF LoginRsp
<1>f. Shrinks(State(c), State(c))
  BY DEF Shrinks
<1>1. CASE conn[c][p] = Closed
  <2>1. UNCHANGED <<conn, gns, net, lost, early>>
    BY <1>1, <1>p DEF LoginRsp
  <2>2. OthersSame(c)
    BY <2>1, <1>s, <1>t DEF OthersSame
  <2>3. AskedOk(conn[c], posCnt[c], R)
    BY <1>s, StateIs DEF AskedOk
  <2>4. rsp'[c] = R
    BY <1>s, <1>t
  <2>5. ServerOk(c)
    BY <2>1, <2>3, <2>4, <1>s, StateIs DEF ServerOk, Sane
  <2>6. LoginStep(c)
    BY <2>1 DEF LoginStep
  <2> QED BY <2>1, <2>2, <2>5, <2>6, NetSame, StepKeeps
<1>2. CASE conn[c][p] # Closed /\ ok
  <2>1. LoginRsp(c, r, TRUE, sent)
    BY <1>2
  <2> QED BY <2>1, <1>2, <1>p, LoginRspOk
<1>3. CASE conn[c][p] # Closed /\ ~ok
  <2>1. PICK st : st = IF ~sent /\ State(c).conn[p] # Closed
                       THEN ReleaseConn(c, State(c), p, TRUE) ELSE State(c)
    OBVIOUS
  <2>2. Become(c, c, st)
    BY <2>1, <1>3, <1>p, Zenon DEF LoginRsp
  <2>3. Sane(c, st) /\ Shrinks(State(c), st)
    <3>1. CASE sent
      BY <3>1, <2>1, <1>0, <1>f
    <3>2. CASE ~sent
      <4>1. PICK b : b = TRUE
        OBVIOUS
      <4>2. State(c).conn[p] # Closed
        BY <1>3, <1>0
      <4>3. st = ReleaseConn(c, State(c), p, b)
        BY <3>2, <4>1, <4>2, <2>1, Zenon
      <4> QED BY <4>3, <1>0, ReleaseIs
    <3> QED BY <3>1, <3>2
  <2> QED BY <2>2, <2>3, <1>s, ShrinkKeeps
<1> QED BY <1>1, <1>2, <1>3

\* An old entry is dropped: no connection has it.
LEMMA CheckValidKeeps ==
    ASSUME IInv, NEW c \in Servers, NEW u \in Users, CheckValid(c, u)
    PROVE  IInv'
<1>t. /\ conn \in [Servers -> ConnType] /\ gns \in [Servers -> GnsType]
      /\ rsp \in [Servers -> SUBSET (Positions \X Users \X Nat)]
      /\ posCnt \in [Servers -> 0..MaxPos] /\ logins \in Nat
  BY DEF IInv, TypeInv, TypeOK, ConnType, GnsType, Holders
<1>1. /\ gns' = [gns EXCEPT ![c][u] = None] /\ UNCHANGED <<conn, posCnt, rsp, net, now, logins, lost, early>>
      /\ ~gns[c][u].active
  BY DEF CheckValid
<1>2. /\ gns' \in [Servers -> GnsType] /\ gns'[c][u] = None
      /\ \A v \in Users \ {u} : gns'[c][v] = gns[c][v]
      /\ \A d \in Servers \ {c} : gns'[d] = gns[d]
  BY <1>t, <1>1 DEF GnsType
<1>3. Match(c, conn[c], gns[c]) /\ AskedOk(conn[c], posCnt[c], rsp[c])
      /\ \A v \in Users : gns[c][v] # None => gns[c][v].time <= now
  BY StateIs DEF Sane
<1>4. \A p \in Positions : conn[c][p] # u
  BY <1>1, <1>3 DEF Match, Names
<1>5. Match(c, conn[c], gns'[c])
  <2> SUFFICES ASSUME NEW v \in Users, NEW p \in Positions
               PROVE  conn[c][p] = v <=> Names(gns'[c][v], c, p)
    BY DEF Match
  <2>1. CASE v = u
    BY <2>1, <1>2, <1>4 DEF Names
  <2>2. CASE v # u
    BY <2>2, <1>2, <1>3 DEF Match
  <2> QED BY <2>1, <2>2
<1>6. \A v \in Users : gns'[c][v] # None => gns'[c][v].time <= now
  BY <1>2, <1>3
<1>7. OthersSame(c) /\ ServerOk(c)
  BY <1>t, <1>1, <1>2, <1>3, <1>5, <1>6 DEF OthersSame, ServerOk
<1>8. LoginStep(c)
  BY <1>1, <1>2, <1>4 DEF LoginStep
<1> QED BY <1>1, <1>7, <1>8, NetSame, StepKeeps

\* What a server says of its logins is true.
LEMMA OwnLoginsSaid ==
    ASSUME IInv, NEW c \in Servers, NEW cmd \in {"LoginSync_Rsp", "Disconnect"},
           NEW m, m = [cmd |-> cmd, data |-> OwnLogins(c)]
    PROVE  m \in Msg /\ SaidBy(c, m, now)
<1>1. gns[c] \in GnsType /\ \A u \in Users : gns[c][u] # None => gns[c][u].time <= now
  BY StateIs DEF Sane, StType
<1>2. ASSUME NEW e \in OwnLogins(c)
      PROVE  \E u \in Users : /\ e = LoginData(u, c, gns[c][u].pos, gns[c][u].time)
                              /\ gns[c][u] \in EntryType /\ gns[c][u].time <= now
  BY <1>1, <1>2 DEF OwnLogins, GnsType
<1>3. ASSUME NEW e \in OwnLogins(c)
      PROVE  /\ e \in Data /\ e.srv = c /\ e.time <= now
             /\ e = LoginData(e.user, c, gns[c][e.user].pos, gns[c][e.user].time)
  <2>1. PICK u \in Users : /\ e = LoginData(u, c, gns[c][u].pos, gns[c][u].time)
                           /\ gns[c][u] \in EntryType /\ gns[c][u].time <= now
    BY <1>2
  <2>2. gns[c][u].pos \in Positions /\ gns[c][u].time \in 1..MaxTime
    BY <2>1 DEF EntryType
  <2> QED BY <2>1, <2>2 DEF LoginData, Data
<1>4. \A e, f \in OwnLogins(c) : e.user = f.user => e = f
  BY <1>3
<1>5. OwnLogins(c) \in SUBSET Data
  BY <1>3
<1> QED BY <1>3, <1>4, <1>5 DEF Msg, SaidBy

\* A request for the logins is answered.
LEMMA SyncReqKeeps ==
    ASSUME IInv, NEW c \in Servers, NEW d \in Servers \ {c}, LoginSyncReq(c, d)
    PROVE  IInv'
<1>t. /\ conn \in [Servers -> ConnType] /\ gns \in [Servers -> GnsType]
      /\ rsp \in [Servers -> SUBSET (Positions \X Users \X Nat)]
      /\ posCnt \in [Servers -> 0..MaxPos] /\ logins \in Nat
      /\ net \in [Servers -> [Servers -> Seq(Msg)]]
      /\ \A x, y \in Servers : \A i \in 1..Len(net[x][y]) : SaidBy(x, net[x][y][i], now)
  BY DEF IInv, TypeInv, TypeOK, TimeInv, ConnType, GnsType, Holders
<1>1. UNCHANGED <<conn, posCnt, gns, rsp, now, logins>> /\ net[d][c] # << >>
      /\ Head(net[d][c]).cmd = "LoginSync_Req"
  BY DEF LoginSyncReq, Received
<1>2. PICK m : m = [cmd |-> "LoginSync_Rsp", data |-> OwnLogins(c)]
  OBVIOUS
<1>3. m \in Msg /\ SaidBy(c, m, now)
  BY <1>2, OwnLoginsSaid
<1>4. PICK out : out = IF OwnLogins(c) = {} THEN << >> ELSE <<m>>
  OBVIOUS
<1>5. out \in Seq(Msg) /\ \A i \in 1..Len(out) : SaidBy(c, out[i], now)
  BY <1>3, <1>4
<1>6. Send2Server(c, {d}, d, out)
  BY <1>2, <1>4 DEF LoginSyncReq
<1>7. QueueStep(c)
  <2>1. PICK to \in SUBSET (Servers \ {c}) : to = {d}
    OBVIOUS
  <2>2. Delivered(c, to, d, out)
    BY <2>1, <1>1, <1>5, <1>6, SendNet
  <2>3. \A u, t : ~Tells(Head(net[d][c]), u, t)
    BY <1>1 DEF Tells
  <2> QED BY <2>2, <2>3 DEF QueueStep, Delivered
<1>8. OthersSame(c) /\ ServerOk(c)
  BY <1>t, <1>1, StateIs DEF OthersSame, ServerOk, Sane
<1>9. LoginStep(c)
  BY <1>1 DEF LoginStep
<1> QED BY <1>7, <1>8, <1>9, StepKeeps

\* A message of a queue that is gone, or comes first.
LEMMA WithoutIs ==
    ASSUME NEW q \in Seq(Msg), NEW k \in DOMAIN q, NEW r, r = Without(q, k)
    PROVE  /\ r \in Seq(Msg) /\ Len(q) \in Nat /\ Len(r) = Len(q) - 1 /\ k \in 1..Len(q)
           /\ \A i \in 1..Len(r) : r[i] = IF i < k THEN q[i] ELSE q[i + 1]
<1>1. Len(q) \in Nat /\ DOMAIN q = 1..Len(q) /\ \A i \in 1..Len(q) : q[i] \in Msg
  OBVIOUS
<1>2. k \in 1..Len(q)
  BY <1>1
<1>3. r = [j \in 1..Len(q) - 1 |-> IF j < k THEN q[j] ELSE q[j + 1]]
  BY DEF Without
<1>4. \A j \in 1..Len(q) - 1 : (IF j < k THEN q[j] ELSE q[j + 1]) \in Msg
  BY <1>1, <1>2
<1>5. r \in [1..Len(q) - 1 -> Msg] /\ Len(q) - 1 \in Nat
  BY <1>1, <1>2, <1>3, <1>4
<1>6. r \in Seq(Msg) /\ Len(r) = Len(q) - 1
  BY <1>5
<1> QED BY <1>1, <1>2, <1>3, <1>6

\* The rest of the queue and the message are what was there before.
LEMMA WithoutTells ==
    ASSUME NEW q \in Seq(Msg), NEW k \in DOMAIN q, NEW r, r = Without(q, k)
    PROVE  /\ \A i \in 1..Len(r) : \E j \in 1..Len(q) : r[i] = q[j]
           /\ \A u, t : Noticed(q, u, t) => Tells(q[k], u, t) \/ Noticed(r, u, t)
<1>1. /\ r \in Seq(Msg) /\ Len(q) \in Nat /\ Len(r) = Len(q) - 1 /\ k \in 1..Len(q)
      /\ \A i \in 1..Len(r) : r[i] = IF i < k THEN q[i] ELSE q[i + 1]
  BY WithoutIs
<1>2. \A i \in 1..Len(r) : i \in 1..Len(q) /\ i + 1 \in 1..Len(q)
  BY <1>1
<1>3. ASSUME NEW i \in 1..Len(q), i # k PROVE \E j \in 1..Len(r) : r[j] = q[i]
  <2>1. CASE i < k
    <3>1. i \in 1..Len(r)
      BY <2>1, <1>1
    <3> QED BY <2>1, <3>1, <1>1
  <2>2. CASE i > k
    <3>1. i - 1 \in 1..Len(r) /\ ~(i - 1 < k) /\ (i - 1) + 1 = i
      BY <2>2, <1>1
    <3> QED BY <3>1, <1>1
  <2> QED BY <2>1, <2>2, <1>1, <1>3
<1>4. \A i \in 1..Len(r) : \E j \in 1..Len(q) : r[i] = q[j]
  BY <1>1, <1>2
<1>5. ASSUME NEW u, NEW t, NEW i \in 1..Len(q), Tells(q[i], u, t)
      PROVE  Tells(q[k], u, t) \/ Noticed(r, u, t)
  BY <1>3, <1>5 DEF Noticed
<1> QED BY <1>4, <1>5 DEF Noticed

\* Two sequences one after the other.
JoinedUp(o, w, r) ==
    /\ r \in Seq(Msg) /\ Len(r) = Len(o) + Len(w)
    /\ \A i \in 1..Len(o) : r[i] = o[i]
    /\ \A i \in Len(o) + 1 .. Len(o) + Len(w) : r[i] = w[i - Len(o)]

\* Concatenation is that.
LEMMA CatIs ==
    ASSUME NEW o \in Seq(Msg), NEW w \in Seq(Msg), NEW r, r = o \o w
    PROVE  JoinedUp(o, w, r)
<1>1. /\ o \o w \in Seq(Msg) /\ Len(o) \in Nat /\ Len(w) \in Nat
      /\ Len(o \o w) = Len(o) + Len(w)
      /\ \A i \in 1..Len(o) : (o \o w)[i] = o[i]
      /\ \A i \in Len(o) + 1 .. Len(o) + Len(w) : (o \o w)[i] = w[i - Len(o)]
  OBVIOUS
<1> QED BY <1>1 DEF JoinedUp

\* Queue r is q with message k in front.
Fronted(q, k, r) ==
    /\ r \in Seq(Msg) /\ r # << >> /\ Head(r) = q[k] /\ Tail(r) = Without(q, k)
    /\ 1 \in DOMAIN r /\ r[1] = q[k] /\ Without(r, 1) = Without(q, k)
    /\ \A i \in 1..Len(r) : \E j \in 1..Len(q) : r[i] = q[j]
    /\ \A u, t : Noticed(q, u, t) => Noticed(r, u, t)

\* Overtake makes such a queue.
LEMMA InFront ==
    ASSUME NEW q \in Seq(Msg), NEW k \in DOMAIN q, NEW r, r = <<q[k]>> \o Without(q, k)
    PROVE  Fronted(q, k, r)
<1>1. PICK w : w = Without(q, k)
  OBVIOUS
<1>2. w \in Seq(Msg) /\ k \in 1..Len(q) /\ Len(w) \in Nat
  BY <1>1, WithoutIs
<1>m. PICK m \in Msg : m = q[k]
  BY <1>2
<1>3. r = <<m>> \o w
  BY <1>1, <1>m
<1>4. /\ r \in Seq(Msg) /\ r # << >> /\ Head(r) = m /\ Tail(r) = w
      /\ Len(r) = Len(w) + 1 /\ r[1] = m /\ 1 \in 1..Len(r) /\ DOMAIN r = 1..Len(r)
      /\ \A i \in 1..Len(w) : r[i + 1] = w[i]
  <2>1. PICK o : o = <<m>>
    OBVIOUS
  <2>2. o \in Seq(Msg) /\ Len(o) = 1 /\ o[1] = m
    BY <2>1
  <2>3. r = o \o w
    BY <2>1, <1>3
  <2>c. JoinedUp(o, w, r)
    BY <2>2, <2>3, <1>2, CatIs
  <2>4. /\ r \in Seq(Msg) /\ Len(r) = 1 + Len(w) /\ r[1] = m
        /\ \A i \in 2..Len(r) : r[i] = w[i - 1]
    <3>1. /\ r \in Seq(Msg) /\ Len(r) = 1 + Len(w)
          /\ \A i \in 1..1 : r[i] = o[i]
          /\ \A i \in 1 + 1 .. 1 + Len(w) : r[i] = w[i - 1]
      BY <2>2, <2>c DEF JoinedUp
    <3> QED BY <2>2, <3>1, <1>2
  <2>5. r # << >> /\ Head(r) = m /\ Len(r) \in Nat /\ Len(r) >= 1
    BY <2>4, <1>2
  <2>6. \A i \in 1..Len(w) : r[i + 1] = w[i]
    <3> TAKE i \in 1..Len(w)
    <3>1. i + 1 \in 2..Len(r) /\ (i + 1) - 1 = i
      BY <2>4, <1>2
    <3> QED BY <3>1, <2>4
  <2>7. Tail(r) = w
    <3>1. PICK v : v = Tail(r)
      OBVIOUS
    <3>2. v \in Seq(Msg) /\ Len(v) = Len(w) /\ \A i \in 1..Len(v) : v[i] = r[i + 1]
      BY <3>1, <2>4, <2>5, <1>2
    <3>3. \A i \in 1..Len(v) : v[i] = w[i]
      BY <3>2, <2>6
    <3>4. v = w
      BY <3>2, <3>3, <1>2, SeqEqual
    <3> QED BY <3>1, <3>4
  <2> QED BY <2>4, <2>5, <2>6, <2>7, <1>2
<1>5. Without(r, 1) = w
  <2>1. 1 \in DOMAIN r
    BY <1>4
  <2>2. PICK v : v = Without(r, 1)
    OBVIOUS
  <2>3. v \in Seq(Msg) /\ Len(v) = Len(w) /\ \A i \in 1..Len(v) : v[i] = w[i]
    <3>k. PICK h \in DOMAIN r : h = 1
      BY <2>1
    <3>h. v = Without(r, h)
      BY <3>k, <2>2
    <3>1. /\ v \in Seq(Msg) /\ Len(v) = Len(r) - 1
          /\ \A i \in 1..Len(v) : v[i] = IF i < h THEN r[i] ELSE r[i + 1]
      <4>1. r \in Seq(Msg)
        BY <1>4
      <4> HIDE DEF Without
      <4> QED BY <4>1, <3>h, WithoutIs
    <3>2. Len(v) = Len(w) /\ \A i \in 1..Len(v) : v[i] = r[i + 1]
      BY <3>1, <3>k, <1>2, <1>4
    <3> QED BY <3>1, <3>2, <1>4
  <2>4. v = w
    BY <2>3, <1>2, SeqEqual
  <2> QED BY <2>2, <2>4
<1>6. /\ \A i \in 1..Len(w) : \E j \in 1..Len(q) : w[i] = q[j]
      /\ \A u, t : Noticed(q, u, t) => Tells(q[k], u, t) \/ Noticed(w, u, t)
  BY <1>1, WithoutTells
<1>7. \A i \in 1..Len(r) : \E j \in 1..Len(q) : r[i] = q[j]
  <2> SUFFICES ASSUME NEW i \in 1..Len(r) PROVE \E j \in 1..Len(q) : r[i] = q[j]
    OBVIOUS
  <2>1. CASE i = 1
    BY <2>1, <1>2, <1>4, <1>m
  <2>2. CASE i # 1
    <3>1. i - 1 \in 1..Len(w) /\ (i - 1) + 1 = i
      BY <2>2, <1>2, <1>4
    <3>2. r[i] = w[i - 1]
      BY <3>1, <1>4
    <3> QED BY <3>1, <3>2, <1>6
  <2> QED BY <2>1, <2>2
<1>8. \A i \in 1..Len(w) : i + 1 \in 1..Len(r)
  BY <1>2, <1>4
<1>9. ASSUME NEW u, NEW t, Noticed(q, u, t) PROVE Noticed(r, u, t)
  <2>1. CASE Tells(m, u, t)
    BY <2>1, <1>4 DEF Noticed
  <2>2. CASE Noticed(w, u, t)
    <3>1. PICK i \in 1..Len(w) : Tells(w[i], u, t)
      BY <2>2 DEF Noticed
    <3>2. i + 1 \in 1..Len(r) /\ r[i + 1] = w[i]
      BY <1>4, <1>8
    <3> QED BY <3>1, <3>2 DEF Noticed
  <2> QED BY <2>1, <2>2, <1>6, <1>9, <1>m
<1>10. 1 \in DOMAIN r /\ r \in Seq(Msg) /\ r # << >>
  BY <1>4
<1>11. Head(r) = q[k] /\ Tail(r) = Without(q, k) /\ r[1] = q[k] /\ Without(r, 1) = Without(q, k)
  BY <1>1, <1>4, <1>5, <1>m
<1> QED BY <1>7, <1>9, <1>10, <1>11 DEF Fronted

\* One queue is rearranged: a notice it no longer holds is among the lost.
LEMMA QueueKeeps ==
    ASSUME IInv, NEW c \in Servers, NEW d \in Servers, NEW r \in Seq(Msg), NEW L \in SUBSET Msg,
           net' = [net EXCEPT ![c][d] = r], lost' = [lost EXCEPT ![c][d] = L],
           early' \in [Servers -> [Servers -> SUBSET Msg]],
           UNCHANGED <<conn, posCnt, gns, rsp, now, logins>>,
           \A i \in 1..Len(r) : \E j \in 1..Len(net[c][d]) : r[i] = net[c][d][j],
           \A u, t : Sent(net[c][d], lost[c][d], u, t) => Sent(r, L, u, t)
    PROVE  IInv'
<1>t. /\ conn \in [Servers -> ConnType] /\ gns \in [Servers -> GnsType]
      /\ rsp \in [Servers -> SUBSET (Positions \X Users \X Nat)]
      /\ posCnt \in [Servers -> 0..MaxPos] /\ logins \in Nat
      /\ net \in [Servers -> [Servers -> Seq(Msg)]]
      /\ lost \in [Servers -> [Servers -> SUBSET Msg]]
      /\ \A x, y \in Servers : \A i \in 1..Len(net[x][y]) : SaidBy(x, net[x][y][i], now)
  BY DEF IInv, TypeInv, TypeOK, TimeInv, ConnType, GnsType, Holders
<1>1. /\ net' \in [Servers -> [Servers -> Seq(Msg)]] /\ lost' \in [Servers -> [Servers -> SUBSET Msg]]
      /\ net'[c][d] = r /\ lost'[c][d] = L
      /\ \A x, y \in Servers : ~(x = c /\ y = d) => net'[x][y] = net[x][y] /\ lost'[x][y] = lost[x][y]
  BY <1>t
<1>2. ASSUME NEW x \in Servers, NEW y \in Servers
      PROVE  /\ \A i \in 1..Len(net'[x][y]) : SaidBy(x, net'[x][y][i], now)
             /\ \A u, t : Sent(net[x][y], lost[x][y], u, t) => Sent(net'[x][y], lost'[x][y], u, t)
  <2>1. CASE x = c /\ y = d
    <3>1. \A i \in 1..Len(r) : SaidBy(x, r[i], now)
      BY <2>1, <1>t
    <3> QED BY <2>1, <3>1, <1>1, Zenon
  <2>2. CASE ~(x = c /\ y = d)
    BY <2>2, <1>1, <1>t
  <2> QED BY <2>1, <2>2
<1>3. QueueStep(c)
  BY <1>1, <1>2 DEF QueueStep
<1>4. OthersSame(c) /\ ServerOk(c)
  BY <1>t, StateIs DEF OthersSame, ServerOk, Sane
<1>5. LoginStep(c)
  BY DEF LoginStep
<1> QED BY <1>3, <1>4, <1>5, StepKeeps

\* A message is lost: if it is a notice, it is recorded.
LEMMA LoseKeeps ==
    ASSUME IInv, NEW c \in Servers, NEW d \in Servers, NEW k \in DOMAIN net[c][d], Lose(c, d, k)
    PROVE  IInv'
<1>1. PICK q \in Seq(Msg) : q = net[c][d]
  BY DEF IInv, TypeInv
<1>2. PICK r : r = Without(q, k)
  OBVIOUS
<1>3. r \in Seq(Msg) /\ q[k] \in Msg
  BY <1>1, <1>2, WithoutIs
<1>4. PICK L : L = lost[c][d] \cup {q[k]}
  OBVIOUS
<1>5. L \in SUBSET Msg /\ early' \in [Servers -> [Servers -> SUBSET Msg]]
  BY <1>3, <1>4 DEF IInv, TypeInv, Lose
<1>6. /\ net' = [net EXCEPT ![c][d] = r] /\ lost' = [lost EXCEPT ![c][d] = L]
      /\ UNCHANGED <<conn, posCnt, gns, rsp, now, logins>>
  BY <1>1, <1>2, <1>4 DEF Lose, IInv, TypeInv
<1>7. /\ \A i \in 1..Len(r) : \E j \in 1..Len(q) : r[i] = q[j]
      /\ \A u, t : Noticed(q, u, t) => Tells(q[k], u, t) \/ Noticed(r, u, t)
  BY <1>1, <1>2, WithoutTells
<1>8. \A u, t : Sent(net[c][d], lost[c][d], u, t) => Sent(r, L, u, t)
  BY <1>1, <1>4, <1>7 DEF Sent
<1>9. \A i \in 1..Len(r) : \E j \in 1..Len(net[c][d]) : r[i] = net[c][d][j]
  BY <1>1, <1>7
<1> QED BY <1>3, <1>5, <1>6, <1>8, <1>9, QueueKeeps

\* A message that overtakes others is still there.
LEMMA OvertakeKeeps ==
    ASSUME IInv, NEW c \in Servers, NEW d \in Servers, NEW k \in DOMAIN net[c][d],
           Overtake(c, d, k)
    PROVE  IInv'
<1>1. PICK q \in Seq(Msg) : q = net[c][d]
  BY DEF IInv, TypeInv
<1>2. PICK r : r = <<q[k]>> \o Without(q, k)
  OBVIOUS
<1>3. /\ r \in Seq(Msg)
      /\ \A i \in 1..Len(r) : \E j \in 1..Len(q) : r[i] = q[j]
      /\ \A u, t : Noticed(q, u, t) => Noticed(r, u, t)
  <2>1. k \in DOMAIN q
    BY <1>1
  <2>2. Fronted(q, k, r)
    BY <2>1, <1>2, InFront, Zenon
  <2> QED BY <2>2 DEF Fronted
<1>9. q[k] \in Msg
  BY <1>1
<1>4. PICK L : L = lost[c][d]
  OBVIOUS
<1>5. L \in SUBSET Msg /\ early' \in [Servers -> [Servers -> SUBSET Msg]]
  BY <1>1, <1>4, <1>9 DEF IInv, TypeInv, Overtake
<1>6. /\ net' = [net EXCEPT ![c][d] = r] /\ lost' = [lost EXCEPT ![c][d] = L]
      /\ UNCHANGED <<conn, posCnt, gns, rsp, now, logins>>
  BY <1>1, <1>2, <1>4 DEF Overtake, IInv, TypeInv
<1>7. \A u, t : Sent(net[c][d], lost[c][d], u, t) => Sent(r, L, u, t)
  BY <1>1, <1>3, <1>4 DEF Sent
<1>8. \A i \in 1..Len(r) : \E j \in 1..Len(net[c][d]) : r[i] = net[c][d][j]
  BY <1>1, <1>3
<1> QED BY <1>3, <1>5, <1>6, <1>7, <1>8, QueueKeeps

\* A restart: the connections are gone, and with them what they need.
LEMMA RestartKeeps ==
    ASSUME Orderly, IInv, NEW c \in Servers, Restart(c)
    PROVE  IInv'
<1>t. /\ conn \in [Servers -> ConnType] /\ gns \in [Servers -> GnsType]
      /\ rsp \in [Servers -> SUBSET (Positions \X Users \X Nat)]
      /\ posCnt \in [Servers -> 0..MaxPos] /\ logins \in Nat
  BY DEF IInv, TypeInv, TypeOK, ConnType, GnsType, Holders
<1>1. PICK bye : bye = IF OwnLogins(c) = {} THEN << >>
                       ELSE <<[cmd |-> "Disconnect", data |-> OwnLogins(c)]>>
  OBVIOUS
<1>2. PICK sync : sync = <<[cmd |-> "LoginSync_Req", data |-> {}]>>
  OBVIOUS
<1>3. PICK st : st = [conn |-> [p \in Positions |-> Closed], gns |-> [u \in Users |-> None],
                      out |-> bye \o sync]
  OBVIOUS
<1>4. /\ rsp[c] = {} /\ posCnt' = [posCnt EXCEPT ![c] = 0] /\ Become(c, c, st)
      /\ UNCHANGED <<rsp, now, logins>>
  BY <1>1, <1>2, <1>3, Zenon DEF Restart
<1>5. bye \in Seq(Msg) /\ \A i \in 1..Len(bye) : SaidBy(c, bye[i], now)
  <2>1. PICK m : m = [cmd |-> "Disconnect", data |-> OwnLogins(c)]
    OBVIOUS
  <2>2. m \in Msg /\ SaidBy(c, m, now)
    BY <2>1, OwnLoginsSaid
  <2>3. CASE bye = << >>
    BY <2>3
  <2>4. CASE bye = <<m>>
    <3>1. Len(bye) = 1 /\ bye[1] = m /\ bye \in Seq(Msg)
      BY <2>2, <2>4
    <3> QED BY <2>2, <3>1
  <2> QED BY <1>1, <2>1, <2>3, <2>4
<1>6. sync \in Seq(Msg) /\ \A i \in 1..Len(sync) : SaidBy(c, sync[i], now)
  BY <1>2 DEF Msg, SaidBy
<1>7. PICK o : o = bye \o sync
  OBVIOUS
<1>8. o \in Seq(Msg) /\ \A i \in 1..Len(o) : SaidBy(c, o[i], now)
  <2>1. /\ o \in Seq(Msg)
        /\ \A i \in 1..Len(o) : \/ \E j \in 1..Len(bye) : o[i] = bye[j]
                                \/ \E j \in 1..Len(sync) : o[i] = sync[j]
    BY <1>5, <1>6, <1>7, NoticedCat
  <2> QED BY <2>1, <1>5, <1>6
<1>9. /\ st.conn \in ConnType /\ st.gns \in GnsType /\ st.out = o /\ st \in StType
      /\ \A p \in Positions : st.conn[p] = Closed
      /\ \A u \in Users : st.gns[u] = None
  BY <1>3, <1>7, <1>8 DEF ConnType, GnsType, Holders, StType
<1>10. Match(c, st.conn, st.gns)
  BY <1>9, ConstFacts DEF Match, Names
<1>11. Sane(c, st)
  BY <1>8, <1>9, <1>10 DEF Sane
<1>12. /\ conn' \in [Servers -> ConnType] /\ gns' \in [Servers -> GnsType]
       /\ conn'[c] = st.conn /\ gns'[c] = st.gns
       /\ \A d \in Servers \ {c} : conn'[d] = conn[d] /\ gns'[d] = gns[d]
  BY <1>t, <1>4, <1>9 DEF Become
<1>13. posCnt' \in [Servers -> 0..MaxPos] /\ \A d \in Servers \ {c} : posCnt'[d] = posCnt[d]
  BY <1>t, <1>4, ConstFacts
<1>14. AskedOk(conn'[c], posCnt'[c], rsp'[c])
  BY <1>4, <1>9, <1>12 DEF AskedOk
<1>15. OthersSame(c) /\ ServerOk(c)
  BY <1>t, <1>4, <1>9, <1>10, <1>12, <1>13, <1>14 DEF OthersSame, ServerOk
<1>16. Delivered(c, Servers \ {c}, c, st.out)
  BY <1>4, <1>11, BecomeNet
<1>17. QueueStep(c)
  BY <1>16 DEF QueueStep, Delivered
<1>18. LoginStep(c)
  BY <1>9, <1>12, ConstFacts DEF LoginStep
<1> QED BY <1>15, <1>17, <1>18, StepKeeps

\* The clock.
LEMMA TickKeeps ==
    ASSUME IInv, Tick
    PROVE  IInv'
<1>1. /\ now \in 1..MaxTime /\ now' \in 1..MaxTime /\ now < now'
      /\ UNCHANGED <<conn, posCnt, gns, rsp, net, logins, lost, early>>
  BY ConstFacts DEF IInv, TypeInv, TypeOK, Tick
<1>2. TypeInv'
  BY <1>1 DEF IInv, TypeInv, TypeOK
<1>3. ASSUME NEW x \in Servers, NEW y \in Servers, NEW i \in 1..Len(net[x][y])
      PROVE  SaidBy(x, net[x][y][i], now')
  <2>1. PICK m : m = net[x][y][i]
    OBVIOUS
  <2>2. m \in Msg /\ SaidBy(x, m, now)
    BY <2>1 DEF IInv, TypeInv, TimeInv
  <2>3. \A e \in m.data : e.time \in Int
    BY <2>2 DEF Msg, Data
  <2>4. \A e \in m.data : e.time <= now'
    BY <2>2, <2>3, <1>1 DEF SaidBy
  <2> QED BY <2>1, <2>2, <2>4 DEF SaidBy
<1>4. ASSUME NEW c \in Servers, NEW u \in Users, gns[c][u] # None PROVE gns[c][u].time <= now'
  <2>1. gns[c][u].time <= now
    BY <1>4 DEF IInv, TimeInv
  <2>2. gns[c][u].time \in Int
    BY <1>4 DEF IInv, TypeInv, TypeOK, EntryType
  <2> QED BY <2>1, <2>2, <1>1
<1>5. TimeInv'
  BY <1>1, <1>3, <1>4 DEF TimeInv
<1>6. AskedInv'
  BY <1>1 DEF IInv, AskedInv
<1>7. RegistryMatchesConns'
  BY <1>1 DEF IInv, RegistryMatchesConns, Session, ActiveHere
<1>8. LaterNoticed'
  BY <1>1 DEF IInv, LaterNoticed, LaterTold, Session
<1> QED BY <1>2, <1>5, <1>6, <1>7, <1>8 DEF IInv

\* The invariant holds at the start ...
LEMMA InitIInv == Init => IInv
<1> SUFFICES ASSUME Init PROVE IInv
  OBVIOUS
<1>1. /\ \A c \in Servers : \A p \in Positions : conn[c][p] = Closed
      /\ \A c \in Servers : \A u \in Users : gns[c][u] = None
      /\ \A c \in Servers : rsp[c] = {}
      /\ \A c, d \in Servers : net[c][d] = << >>
  BY DEF Init
<1>2. TypeInv
  BY ConstFacts DEF Init, TypeInv, TypeOK
<1>3. TimeInv
  BY <1>1 DEF TimeInv
<1>4. AskedInv
  BY <1>1 DEF AskedInv, AskedOk
<1>5. RegistryMatchesConns
  BY <1>1, ConstFacts DEF RegistryMatchesConns, Session, ActiveHere
<1>6. LaterNoticed
  BY <1>1, ConstFacts DEF LaterNoticed, LaterTold, Session
<1> QED BY <1>2, <1>3, <1>4, <1>5, <1>6 DEF IInv

\* ... and every step keeps it.
LEMMA NextIInv == ASSUME Orderly PROVE IInv /\ [Next]_vars => IInv'
<1> SUFFICES ASSUME IInv, [Next]_vars PROVE IInv'
  OBVIOUS
<1>1. CASE UNCHANGED vars
  BY <1>1 DEF vars, IInv, TypeInv, TypeOK, TimeInv, AskedInv, RegistryMatchesConns, Session,
              ActiveHere, LaterNoticed, LaterTold
<1>2. CASE Next
  BY <1>2, TickKeeps, AcceptKeeps, RestartKeeps, CloseKeeps, LoginReqKeeps, LoginRspKeeps,
     CheckValidKeeps, NoticeKeeps, DisconnectKeeps, SyncReqKeeps, LoseKeeps, OvertakeKeeps DEF Next
<1> QED BY <1>1, <1>2

\* The invariant always holds.
LEMMA IInvAlways == ASSUME Orderly PROVE Spec => []IInv
BY InitIInv, NextIInv, PTL DEF Spec

-----------------------------------------------------------------------------
(* The theorems *)

\* The connections, the entries and the clock keep to their types; an entry is
\* of a second that has come.
THEOREM TypeCorrect == ASSUME Orderly PROVE Spec => []TypeOK
<1>1. IInv => TypeOK
  BY DEF IInv, TypeInv
<1> QED BY <1>1, IInvAlways, PTL

\* The disagreement that CheckConn and MemFullCallBack look for ("some error
\* happen!!!") never arises, while clients log in once on a connection and no
\* server restarts with a login under way.
THEOREM RegistryMatchesAlways == ASSUME Orderly PROVE Spec => []RegistryMatchesConns
<1>1. IInv => RegistryMatchesConns
  BY DEF IInv
<1> QED BY <1>1, IInvAlways, PTL

\* Of two connections of a user at different servers one is about to be closed:
\* the message that does it is on its way, or was lost.
LEMMA NoticedKicks == IInv => KickUnderWay
<1> SUFFICES ASSUME IInv, NEW c \in Servers, NEW d \in Servers, NEW u \in Users,
                    NEW p \in Positions, NEW q \in Positions,
                    c # d, Session(c, u, p), Session(d, u, q)
             PROVE  \/ Kick(d, c, u) \/ Kick(c, d, u)
                    \/ NotTold(c, d, u) \/ NotTold(d, c, u)
  BY DEF KickUnderWay
<1>1. ASSUME NEW x \in Servers, NEW y \in Servers, gns[x][u] # None, gns[y][u] # None,
             gns[x][u].time >= gns[y][u].time,
             Sent(net[x][y], lost[x][y], u, gns[x][u].time)
      PROVE  Kick(x, y, u) \/ NotTold(y, x, u)
  <2>1. net[x][y] \in Seq(Msg)
    BY DEF IInv, TypeInv
  <2>2. DOMAIN net[x][y] = 1..Len(net[x][y])
    BY <2>1
  <2>3. CASE Noticed(net[x][y], u, gns[x][u].time)
    <3>1. gns[x][u] \in EntryType /\ gns[y][u] \in EntryType
      BY <1>1 DEF IInv, TypeInv, TypeOK
    <3>2. gns[x][u].time \in 1..MaxTime /\ gns[y][u].time \in 1..MaxTime
      BY <3>1 DEF EntryType
    <3>3. gns[x][u].time \in gns[y][u].time..MaxTime
      BY <3>2, <1>1
    <3> QED BY <2>2, <2>3, <3>3 DEF Noticed, Kick
  <2>4. CASE \E m \in lost[x][y] : Tells(m, u, gns[x][u].time)
    BY <2>4, <1>1 DEF NotTold
  <2> QED BY <1>1, <2>3, <2>4 DEF Sent
<1>2. \/ gns[d][u].time >= gns[c][u].time /\ Sent(net[d][c], lost[d][c], u, gns[d][u].time)
      \/ gns[c][u].time >= gns[d][u].time /\ Sent(net[c][d], lost[c][d], u, gns[c][u].time)
  BY DEF IInv, LaterNoticed, LaterTold
<1>3. gns[c][u] # None /\ gns[d][u] # None
  BY DEF IInv, RegistryMatchesConns, ActiveHere
<1> QED BY <1>1, <1>2, <1>3

\* The same for every number of servers, users and connections, and any order of
\* logins, closes, restarts, deliveries, losses and overtakings.
THEOREM KickUnderWayAlways == ASSUME Orderly PROVE Spec => []KickUnderWay
BY NoticedKicks, IInvAlways, PTL

\* When no message is on its way a user has at most one connection, or the very
\* notice of the later login was lost on its way to the server of the earlier.
THEOREM SingleSessionAlways == ASSUME Orderly PROVE Spec => []SingleSession
<1>1. IInv => SingleSession
  <2> SUFFICES ASSUME IInv, Quiet, NEW u \in Users,
                      NEW a \in Servers \X Positions, NEW b \in Servers \X Positions,
                      a # b, Session(a[1], u, a[2]), Session(b[1], u, b[2])
               PROVE  /\ a[1] # b[1]
                      /\ NotTold(a[1], b[1], u) \/ NotTold(b[1], a[1], u)
    BY DEF SingleSession
  <2>1. \A c, d \in Servers : ~Kick(c, d, u)
    <3>1. \A c, d \in Servers : DOMAIN net[c][d] = {}
      BY DEF Quiet
    <3> QED BY <3>1 DEF Kick
  <2>2. /\ a[1] \in Servers /\ a[2] \in Positions /\ b[1] \in Servers /\ b[2] \in Positions
        /\ a = <<a[1], a[2]>> /\ b = <<b[1], b[2]>>
    OBVIOUS
  <2>3. a[1] # b[1]
    <3>1. a[1] = b[1] => a[2] = b[2]
      BY <2>2 DEF IInv, RegistryMatchesConns, ActiveHere
    <3> QED BY <2>2, <3>1
  <2>4. NotTold(a[1], b[1], u) \/ NotTold(b[1], a[1], u)
    BY <2>1, <2>2, <2>3, NoticedKicks DEF KickUnderWay
  <2> QED BY <2>3, <2>4
<1> QED BY <1>1, IInvAlways, PTL

-----------------------------------------------------------------------------
(* Logins the other servers believe in *)

\* Message m speaks of user u and second t; tells of his login at p; of his
\* leaving; of a login of u, or of his leaving, whenever it was.
SpeaksOf(m, u, t) == \E e \in m.data : e.user = u /\ e.time = t
LoginAt(m, u, p, t) == m.cmd = "LoginNotice" /\ \E e \in m.data : e.user = u /\ e.pos = p /\ e.time = t
LeaveAt(m, u, t) == m.cmd = "Disconnect" /\ \E e \in m.data : e.user = u /\ e.time = t
LoginOf(m, u) == m.cmd = "LoginNotice" /\ \E e \in m.data : e.user = u
LeaveOf(m, u) == m.cmd = "Disconnect" /\ \E e \in m.data : e.user = u

\* The same of a queue: some message does; a login no leave of that second
\* follows; a leave no login precedes.
Spoken(q, u, t) == \E i \in 1..Len(q) : SpeaksOf(q[i], u, t)
Left(q, u, t) == \E i \in 1..Len(q) : LeaveAt(q[i], u, t)
Announced(q, u) == \E i \in 1..Len(q) : LoginOf(q[i], u)
LoginStands(q, u, p, t) ==
    \E i \in 1..Len(q) : /\ LoginAt(q[i], u, p, t)
                         /\ \A j \in 1..Len(q) : j > i => ~LeaveAt(q[j], u, t)
LeaveAlone(q, u) ==
    \E i \in 1..Len(q) : /\ LeaveOf(q[i], u)
                         /\ \A j \in 1..Len(q) : j < i => ~LoginOf(q[j], u)

\* An entry of second t or later; of a later one.
AtLeast(e, t) == e # None /\ e.time >= t
After(e, t) == e # None /\ e.time > t

\* c knows of something later about u, or will; or it was lost.
Newer(c, u, t) ==
    \/ Deaf(c, u)
    \/ After(gns[c][u], t)
    \/ \E d \in Servers : \E x \in 1..MaxTime : x > t /\ Spoken(net[d][c], u, x)

\* What d says of u and second t has come to c, is on its way, or was lost.
Reached(d, c, u, t) ==
    AtLeast(gns[c][u], t) \/ (c # d /\ Spoken(net[d][c], u, t)) \/ Deaf(c, u)

\* u is logged in at s, at position p since second t.
Live(s, u, p, t) == Names(gns[s][u], s, p) /\ gns[s][u].time = t

\* The same, wherever the connection is.
Here(s, u, t) == gns[s][u] # None /\ gns[s][u].active /\ gns[s][u].srv = s /\ gns[s][u].time = t

\* Second t of u is one of server s.
Owns(s, u, t) == Here(s, u, t) \/ \E c \in Servers : Spoken(net[s][c], u, t)

\* A login that c believes in is real, or c will hear better.
EntryReal ==
    \A c, s \in Servers : \A u \in Users : \A p \in Positions : \A t \in 1..MaxTime :
        Names(gns[c][u], s, p) /\ gns[c][u].time = t =>
            Live(s, u, p, t) \/ Newer(c, u, t) \/ Left(net[s][c], u, t)
\* So is one that c is about to hear of.
NoticeReal ==
    \A c, s \in Servers : \A u \in Users : \A p \in Positions : \A t \in 1..MaxTime :
        LoginStands(net[s][c], u, p, t) => Live(s, u, p, t) \/ Newer(c, u, t)
\* A leave comes to a server that has an entry to mark.
LeaveHeard ==
    \A c, d \in Servers : \A u \in Users :
        LeaveAlone(net[d][c], u) => gns[c][u] # None \/ Deaf(c, u)
\* All know, or will know, of a user who is logged in.
LoginHeard ==
    \A c, s \in Servers : \A u \in Users : \A t \in 1..MaxTime :
        Here(s, u, t) /\ c # s => gns[c][u] # None \/ Announced(net[s][c], u) \/ Deaf(c, u)
\* What one server has yet to hear, the others have heard or will hear.
AllReached ==
    \A b, c, d \in Servers : \A u \in Users : \A t \in 1..MaxTime :
        Spoken(net[d][b], u, t) => Reached(d, c, u, t)
\* A second of a user is one in which he logged in or left, at one server.
Stamped == \A s \in Servers : \A u \in Users : \A t \in 1..MaxTime : Owns(s, u, t) => <<u, t>> \in stamps
OneOwner ==
    \A s, d \in Servers : \A u \in Users : \A t \in 1..MaxTime :
        Owns(s, u, t) /\ Owns(d, u, t) => s = d
\* No server has restarted.
NoSync ==
    \A c, d \in Servers : \A i \in 1..Len(net[c][d]) : net[c][d][i].cmd \in {"LoginNotice", "Disconnect"}

Told ==
    /\ EntryReal /\ NoticeReal /\ LeaveHeard /\ LoginHeard
    /\ AllReached /\ Stamped /\ OneOwner /\ NoSync

\* The invariant.
GhostInv == ~tied /\ ~forgot => Told

-----------------------------------------------------------------------------
(* What queues say, when messages are put in and taken out *)

\* r is q with o put at the end.
Appended(q, o, r) ==
    /\ \A u, t : Spoken(r, u, t) <=> Spoken(q, u, t) \/ Spoken(o, u, t)
    /\ \A u, t : Left(q, u, t) => Left(r, u, t)
    /\ \A u : Announced(q, u) \/ Announced(o, u) => Announced(r, u)
    /\ \A u, p, t : LoginStands(r, u, p, t) => LoginStands(q, u, p, t) \/ LoginStands(o, u, p, t)
    /\ \A u : LeaveAlone(r, u) =>
                 LeaveAlone(q, u) \/ (LeaveAlone(o, u) /\ ~Announced(q, u))
    /\ \A i \in 1..Len(r) : \/ \E j \in 1..Len(q) : r[i] = q[j]
                            \/ \E j \in 1..Len(o) : r[i] = o[j]

\* r is q without its first message m.
Shortened(q, m, r) ==
    /\ \A u, t : Spoken(q, u, t) <=> SpeaksOf(m, u, t) \/ Spoken(r, u, t)
    /\ \A u, t : Left(q, u, t) => LeaveAt(m, u, t) \/ Left(r, u, t)
    /\ \A u : Announced(q, u) => LoginOf(m, u) \/ Announced(r, u)
    /\ \A u, p, t : LoginStands(r, u, p, t) => LoginStands(q, u, p, t)
    /\ \A u, p, t : LoginAt(m, u, p, t) => LoginStands(q, u, p, t) \/ Left(r, u, t)
    /\ \A u : LeaveAlone(r, u) => LeaveAlone(q, u) \/ LoginOf(m, u)
    /\ \A u : LeaveOf(m, u) => LeaveAlone(q, u)
    /\ \A i \in 1..Len(r) : \E j \in 1..Len(q) : r[i] = q[j]

\* Messages put at the end of a queue.
LEMMA AppendedIs ==
    ASSUME NEW q \in Seq(Msg), NEW o \in Seq(Msg)
    PROVE  Appended(q, o, q \o o)
<1>1. PICK r : r = q \o o
  OBVIOUS
<1>2. PICK k \in Nat : k = Len(q)
  OBVIOUS
<1>3. PICK l \in Nat : l = Len(o)
  OBVIOUS
<1>4. /\ Len(r) = k + l
      /\ \A i \in 1..k : r[i] = q[i]
      /\ \A i \in k + 1 .. k + l : r[i] = o[i - k]
  BY <1>1, <1>2, <1>3
<1>5. \A j \in 1..l : k + j \in 1..(k + l) /\ r[k + j] = o[j]
  <2> TAKE j \in 1..l
  <2>1. k + j \in k + 1 .. k + l /\ (k + j) - k = j /\ k + j \in 1..(k + l)
    OBVIOUS
  <2>2. r[k + j] = o[(k + j) - k]
    BY <2>1, <1>4
  <2> QED BY <2>1, <2>2
<1>6. \A i \in 1..(k + l) : \/ i \in 1..k
                            \/ \E j \in 1..l : i = k + j
  <2> SUFFICES ASSUME NEW i \in 1..(k + l), i \notin 1..k PROVE \E j \in 1..l : i = k + j
    OBVIOUS
  <2>1. i - k \in 1..l /\ i = k + (i - k)
    OBVIOUS
  <2> QED BY <2>1
<1>7. \A i \in 1..k : i \in 1..(k + l)
  OBVIOUS
<1>8. \A i \in 1..k : \A j \in 1..l : k + j > i
  OBVIOUS
<1>9. \A i, j \in 1..l : (k + j > k + i <=> j > i) /\ (k + j < k + i <=> j < i)
  OBVIOUS
<1>10. \A u, t : Spoken(r, u, t) <=> Spoken(q, u, t) \/ Spoken(o, u, t)
  <2>1. ASSUME NEW u, NEW t, NEW i \in 1..(k + l), SpeaksOf(r[i], u, t)
        PROVE  Spoken(q, u, t) \/ Spoken(o, u, t)
    <3>1. CASE i \in 1..k
      BY <2>1, <3>1, <1>2, <1>4 DEF Spoken
    <3>2. ASSUME NEW j \in 1..l, i = k + j PROVE Spoken(o, u, t)
      BY <2>1, <3>2, <1>3, <1>5 DEF Spoken
    <3> QED BY <3>1, <3>2, <1>6
  <2>2. \A u, t : Spoken(q, u, t) \/ Spoken(o, u, t) => Spoken(r, u, t)
    BY <1>2, <1>3, <1>4, <1>5, <1>7 DEF Spoken
  <2> QED BY <2>1, <2>2, <1>4 DEF Spoken
<1>11. \A u, t : Left(q, u, t) => Left(r, u, t)
  BY <1>2, <1>3, <1>4, <1>7 DEF Left
<1>12. \A u : Announced(q, u) \/ Announced(o, u) => Announced(r, u)
  BY <1>2, <1>3, <1>4, <1>5, <1>7 DEF Announced
<1>13. ASSUME NEW u, NEW p, NEW t, LoginStands(r, u, p, t)
       PROVE  LoginStands(q, u, p, t) \/ LoginStands(o, u, p, t)
  <2>1. PICK i \in 1..(k + l) : /\ LoginAt(r[i], u, p, t)
                                /\ \A j \in 1..(k + l) : j > i => ~LeaveAt(r[j], u, t)
    BY <1>4, <1>13 DEF LoginStands
  <2>2. CASE i \in 1..k
    <3>1. LoginAt(q[i], u, p, t)
      BY <2>1, <2>2, <1>4
    <3>2. \A j \in 1..k : j > i => ~LeaveAt(q[j], u, t)
      BY <2>1, <1>4, <1>7
    <3> QED BY <2>2, <3>1, <3>2, <1>2 DEF LoginStands
  <2>3. ASSUME NEW n \in 1..l, i = k + n PROVE LoginStands(o, u, p, t)
    <3>1. LoginAt(o[n], u, p, t)
      BY <2>1, <2>3, <1>5
    <3>2. \A j \in 1..l : j > n => ~LeaveAt(o[j], u, t)
      BY <2>1, <2>3, <1>5, <1>9
    <3> QED BY <3>1, <3>2, <1>3 DEF LoginStands
  <2> QED BY <2>2, <2>3, <1>6
<1>14. ASSUME NEW u, LeaveAlone(r, u)
       PROVE  LeaveAlone(q, u) \/ (LeaveAlone(o, u) /\ ~Announced(q, u))
  <2>1. PICK i \in 1..(k + l) : /\ LeaveOf(r[i], u)
                                /\ \A j \in 1..(k + l) : j < i => ~LoginOf(r[j], u)
    BY <1>4, <1>14 DEF LeaveAlone
  <2>2. CASE i \in 1..k
    <3>1. LeaveOf(q[i], u)
      BY <2>1, <2>2, <1>4
    <3>2. \A j \in 1..k : j < i => ~LoginOf(q[j], u)
      BY <2>1, <1>4, <1>7
    <3> QED BY <2>2, <3>1, <3>2, <1>2 DEF LeaveAlone
  <2>3. ASSUME NEW n \in 1..l, i = k + n PROVE LeaveAlone(o, u) /\ ~Announced(q, u)
    <3>1. LeaveOf(o[n], u)
      BY <2>1, <2>3, <1>5
    <3>2. \A j \in 1..l : j < n => ~LoginOf(o[j], u)
      BY <2>1, <2>3, <1>5, <1>9
    <3>3. \A j \in 1..k : j < i
      BY <2>3
    <3>4. \A j \in 1..k : ~LoginOf(q[j], u)
      BY <2>1, <3>3, <1>4, <1>7
    <3> QED BY <3>1, <3>2, <3>4, <1>2, <1>3 DEF LeaveAlone, Announced
  <2> QED BY <2>2, <2>3, <1>6
<1>15. \A i \in 1..Len(r) : \/ \E j \in 1..Len(q) : r[i] = q[j]
                            \/ \E j \in 1..Len(o) : r[i] = o[j]
  BY <1>1, NoticedCat
<1>16. Appended(q, o, r)
  BY <1>10, <1>11, <1>12, <1>13, <1>14, <1>15 DEF Appended
<1> QED BY <1>1, <1>16

\* The first message taken out of a queue.
LEMMA ShortenedIs ==
    ASSUME NEW q \in Seq(Msg), q # << >>
    PROVE  Shortened(q, Head(q), Tail(q))
<1>1. PICK r : r = Tail(q)
  OBVIOUS
<1>2. PICK m : m = Head(q)
  OBVIOUS
<1>3. PICK k \in Nat : Len(q) = k + 1
  <2>1. Len(q) \in Nat /\ Len(q) # 0
    OBVIOUS
  <2>2. Len(q) - 1 \in Nat /\ Len(q) = (Len(q) - 1) + 1
    BY <2>1
  <2> QED BY <2>2
<1>4. /\ Len(r) = k /\ q[1] = m
      /\ \A i \in 1..k : r[i] = q[i + 1] /\ i + 1 \in 1..(k + 1)
  BY <1>1, <1>2, <1>3
<1>5. \A i \in 1..(k + 1) : i = 1 \/ \E j \in 1..k : i = j + 1
  <2> SUFFICES ASSUME NEW i \in 1..(k + 1), i # 1 PROVE \E j \in 1..k : i = j + 1
    OBVIOUS
  <2>1. i - 1 \in 1..k /\ i = (i - 1) + 1
    OBVIOUS
  <2> QED BY <2>1
<1>6. /\ 1 \in 1..(k + 1)
      /\ \A i, j \in 1..k : (i + 1 > j + 1 <=> i > j) /\ (i + 1 < j + 1 <=> i < j)
      /\ \A i \in 1..k : i + 1 > 1
      /\ \A i \in 1..(k + 1) : ~(i < 1)
  OBVIOUS
<1>7. \A u, t : Spoken(q, u, t) <=> SpeaksOf(m, u, t) \/ Spoken(r, u, t)
  BY <1>3, <1>4, <1>5, <1>6, SMTT(30) DEF Spoken
<1>8. \A u, t : Left(q, u, t) => LeaveAt(m, u, t) \/ Left(r, u, t)
  BY <1>3, <1>4, <1>5, <1>6, SMTT(30) DEF Left
<1>9. \A u : Announced(q, u) => LoginOf(m, u) \/ Announced(r, u)
  BY <1>3, <1>4, <1>5, <1>6, SMTT(30) DEF Announced
<1>10. ASSUME NEW u, NEW p, NEW t, LoginStands(r, u, p, t) PROVE LoginStands(q, u, p, t)
  <2>1. PICK i \in 1..k : /\ LoginAt(r[i], u, p, t)
                          /\ \A j \in 1..k : j > i => ~LeaveAt(r[j], u, t)
    BY <1>4, <1>10 DEF LoginStands
  <2>2. i + 1 \in 1..(k + 1) /\ LoginAt(q[i + 1], u, p, t)
    BY <2>1, <1>4
  <2>3. ASSUME NEW j \in 1..(k + 1), j > i + 1 PROVE ~LeaveAt(q[j], u, t)
    <3>1. PICK n \in 1..k : j = n + 1
      BY <2>3, <1>5
    <3> QED BY <2>1, <2>3, <3>1, <1>4, <1>6
  <2> QED BY <2>2, <2>3, <1>3 DEF LoginStands
<1>11. ASSUME NEW u, NEW p, NEW t, LoginAt(m, u, p, t) PROVE LoginStands(q, u, p, t) \/ Left(r, u, t)
  <2>1. SUFFICES ASSUME ~Left(r, u, t) PROVE LoginStands(q, u, p, t)
    OBVIOUS
  <2>2. ASSUME NEW j \in 1..(k + 1), j > 1 PROVE ~LeaveAt(q[j], u, t)
    <3>1. PICK n \in 1..k : j = n + 1
      BY <2>2, <1>5
    <3> QED BY <2>1, <3>1, <1>4 DEF Left
  <2> QED BY <2>2, <1>3, <1>4, <1>6, <1>11 DEF LoginStands
<1>12. ASSUME NEW u, LeaveAlone(r, u) PROVE LeaveAlone(q, u) \/ LoginOf(m, u)
  <2>1. SUFFICES ASSUME ~LoginOf(m, u) PROVE LeaveAlone(q, u)
    OBVIOUS
  <2>2. PICK i \in 1..k : /\ LeaveOf(r[i], u)
                          /\ \A j \in 1..k : j < i => ~LoginOf(r[j], u)
    BY <1>4, <1>12 DEF LeaveAlone
  <2>3. i + 1 \in 1..(k + 1) /\ LeaveOf(q[i + 1], u)
    BY <2>2, <1>4
  <2>4. ASSUME NEW j \in 1..(k + 1), j < i + 1 PROVE ~LoginOf(q[j], u)
    <3>1. CASE j = 1
      BY <2>1, <3>1, <1>4
    <3>2. ASSUME NEW n \in 1..k, j = n + 1 PROVE ~LoginOf(q[j], u)
      BY <2>2, <2>4, <3>2, <1>4, <1>6
    <3> QED BY <3>1, <3>2, <1>5
  <2> QED BY <2>3, <2>4, <1>3 DEF LeaveAlone
<1>13. \A u : LeaveOf(m, u) => LeaveAlone(q, u)
  BY <1>3, <1>4, <1>6 DEF LeaveAlone
<1>14. \A i \in 1..Len(r) : \E j \in 1..Len(q) : r[i] = q[j]
  BY <1>3, <1>4
<1>15. Shortened(q, m, r)
  BY <1>7, <1>8, <1>9, <1>10, <1>11, <1>12, <1>13, <1>14 DEF Shortened
<1> QED BY <1>1, <1>2, <1>15

-----------------------------------------------------------------------------
(* A step under which nothing that servers know or are told gets lost *)

\* Entries are only replaced by later ones.
Grows ==
    \A c \in Servers : \A u \in Users : \A t \in 1..MaxTime :
        AtLeast(gns[c][u], t) => AtLeast(gns'[c][u], t)

\* A message that is taken out has its effect.
Heeded ==
    \A c, d \in Servers : \A u \in Users : \A t \in 1..MaxTime :
        Spoken(net[d][c], u, t) =>
            Spoken(net'[d][c], u, t) \/ AtLeast(gns'[c][u], t) \/ Deaf(c, u)'

\* What was lost or out of order stays recorded.
Recorded ==
    \A x, y \in Servers : lost[x][y] \subseteq lost'[x][y] /\ early[x][y] \subseteq early'[x][y]

\* A login that ends is followed by something later that everyone hears of.
EndsHeard ==
    \A s \in Servers : \A u \in Users : \A p \in Positions : \A t \in 1..MaxTime :
        Live(s, u, p, t) => Live(s, u, p, t)' \/ \A b \in Servers : Newer(b, u, t)'

\* A server that missed something has missed it for good.
LEMMA DeafStays ==
    ASSUME Recorded, NEW c \in Servers, NEW u, Deaf(c, u)
    PROVE  Deaf(c, u)'
BY DEF Recorded, Deaf

\* Entries have a second of their own.
LEMMA EntryTime ==
    ASSUME IInv, NEW c \in Servers, NEW u \in Users, gns[c][u] # None
    PROVE  gns[c][u] \in EntryType /\ gns[c][u].time \in 1..MaxTime /\ gns[c][u].time <= now
BY DEF IInv, TypeInv, TypeOK, EntryType, TimeInv

\* After says the same as AtLeast of a later second.
LEMMA AfterIs ==
    ASSUME NEW e \in EntryType \cup {None}, NEW t \in 1..MaxTime
    PROVE  After(e, t) <=> \E x \in 1..MaxTime : x > t /\ AtLeast(e, x)
<1>1. e \in EntryType => e.time \in 1..MaxTime
  BY DEF EntryType
<1>2. ASSUME After(e, t) PROVE e.time \in 1..MaxTime /\ e.time > t /\ AtLeast(e, e.time)
  BY <1>1, <1>2 DEF After, AtLeast
<1>3. ASSUME NEW x \in 1..MaxTime, x > t, AtLeast(e, x) PROVE After(e, t)
  <2>1. e.time \in 1..MaxTime /\ e # None /\ e.time >= x
    BY <1>1, <1>3 DEF AtLeast
  <2> QED BY <2>1, <1>3 DEF After
<1> QED BY <1>2, <1>3

\* What is later than t stays so.
LEMMA NewerStays ==
    ASSUME IInv, IInv', Grows, Heeded, Recorded,
           NEW c \in Servers, NEW u \in Users, NEW t \in 1..MaxTime, Newer(c, u, t)
    PROVE  Newer(c, u, t)'
<1>1. gns[c][u] \in EntryType \cup {None} /\ gns'[c][u] \in EntryType \cup {None}
  BY DEF IInv, TypeInv, TypeOK
<1>d. Deaf(c, u)' => Newer(c, u, t)'
  BY DEF Newer
<1>2. CASE After(gns[c][u], t)
  <2>1. PICK x \in 1..MaxTime : x > t /\ AtLeast(gns[c][u], x)
    BY <1>1, <1>2, AfterIs
  <2>2. After(gns'[c][u], t)
    BY <1>1, <2>1, AfterIs DEF Grows
  <2> QED BY <2>2 DEF Newer, After
<1>3. ASSUME NEW d \in Servers, NEW x \in 1..MaxTime, x > t, Spoken(net[d][c], u, x)
      PROVE  Newer(c, u, t)'
  <2>1. CASE Spoken(net'[d][c], u, x)
    BY <1>3, <2>1 DEF Newer, Spoken
  <2>2. CASE AtLeast(gns'[c][u], x)
    <3>1. After(gns'[c][u], t)
      BY <1>1, <1>3, <2>2, AfterIs
    <3> QED BY <3>1 DEF Newer, After
  <2> QED BY <1>3, <1>d, <2>1, <2>2 DEF Heeded
<1> QED BY <1>2, <1>3, <1>d, DeafStays DEF Newer

\* What reached a server, or will, does so afterwards.
LEMMA ReachedStays ==
    ASSUME Grows, Heeded, Recorded,
           NEW c \in Servers, NEW d \in Servers, NEW u \in Users, NEW t \in 1..MaxTime,
           Reached(d, c, u, t)
    PROVE  Reached(d, c, u, t)'
<1>1. AtLeast(gns'[c][u], t) \/ (c # d /\ Spoken(net'[d][c], u, t)) \/ Deaf(c, u)'
  BY DeafStays DEF Reached, Grows, Heeded
<1> QED BY <1>1 DEF Reached, AtLeast, Spoken

\* What has reached a server is newer than all before.
LEMMA ReachedNewer ==
    ASSUME IInv', NEW c \in Servers, NEW d \in Servers, NEW u \in Users,
           NEW t \in 1..MaxTime, NEW x \in 1..MaxTime, x > t, Reached(d, c, u, x)'
    PROVE  Newer(c, u, t)'
<1>1. gns'[c][u] \in EntryType \cup {None}
  BY DEF IInv, TypeInv, TypeOK
<1>2. AtLeast(gns'[c][u], x) \/ Spoken(net'[d][c], u, x) \/ Deaf(c, u)'
  BY DEF Reached, AtLeast, Spoken
<1>3. CASE AtLeast(gns'[c][u], x)
  <2>1. After(gns'[c][u], t)
    BY <1>1, <1>3, AfterIs
  <2> QED BY <2>1 DEF Newer, After
<1>4. CASE Spoken(net'[d][c], u, x)
  BY <1>4 DEF Newer, Spoken
<1>5. Deaf(c, u)' => Newer(c, u, t)'
  BY DEF Newer
<1> QED BY <1>2, <1>3, <1>4, <1>5

-----------------------------------------------------------------------------
(* A message of d is taken by c *)

\* What element e of a message does to the entry of its user.
Effect(cmd, e, old, new) ==
    \/ old # None /\ old.time > e.time /\ new = old
    \/ /\ cmd = "LoginNotice" /\ (old # None => old.time <= e.time)
       /\ new # None /\ new.srv = e.srv /\ new.pos = e.pos /\ new.active /\ new.time = e.time
    \/ cmd = "Disconnect" /\ old = None /\ new = old
    \/ /\ cmd = "Disconnect" /\ old # None /\ old.time <= e.time
       /\ new # None /\ ~new.active /\ new.time >= e.time

\* Server c takes the oldest message m of d off its queue and applies it.
Takes(c, d, m) ==
    /\ net[d][c] # << >> /\ m = Head(net[d][c]) /\ net'[d][c] = Tail(net[d][c])
    /\ \A x, y \in Servers : x # d \/ y # c => net'[x][y] = net[x][y]
    /\ \A b \in Servers : b # c => gns'[b] = gns[b]
    /\ \A u \in Users : (\A e \in m.data : e.user # u) => gns'[c][u] = gns[c][u]
    /\ \A e \in m.data : Effect(m.cmd, e, gns[c][e.user], gns'[c][e.user])
    /\ stamps' = stamps /\ lost' = lost /\ early' = early

\* The facts about such a step that do not depend on the message.
LEMMA TakesIs ==
    ASSUME IInv, NEW c \in Servers, NEW d \in Servers, NEW m, Takes(c, d, m)
    PROVE  /\ m \in Msg /\ SaidBy(d, m, now) /\ m.data \subseteq Data
           /\ Shortened(net[d][c], m, net'[d][c])
           /\ \A e \in m.data : /\ e.user \in Users /\ e.time \in 1..MaxTime
                                /\ e.pos \in Positions /\ e.srv = d
                                /\ SpeaksOf(m, e.user, e.time)
<1>1. net[d][c] \in Seq(Msg) /\ net[d][c] # << >>
  BY DEF Takes, IInv, TypeInv
<1>2. m \in Msg /\ SaidBy(d, m, now)
  BY <1>1, ReceivedIs DEF Takes
<1>3. m.data \subseteq Data
  BY <1>2 DEF Msg
<1>4. Shortened(net[d][c], m, net'[d][c])
  BY <1>1, ShortenedIs DEF Takes
<1> QED BY <1>2, <1>3, <1>4 DEF SaidBy, Data, SpeaksOf

\* A message that is taken leaves an entry of its second or later.
LEMMA TakesHeeds ==
    ASSUME IInv, IInv', Told, NEW c \in Servers, NEW d \in Servers, NEW m, Takes(c, d, m), NoSync
    PROVE  /\ \A e \in m.data : AtLeast(gns'[c][e.user], e.time) \/ Deaf(c, e.user)'
           /\ Grows /\ Heeded /\ Recorded
<1>t. /\ \A b \in Servers : \A u \in Users : gns[b][u] # None => gns[b][u].time \in 1..MaxTime
      /\ \A b \in Servers : \A u \in Users : gns'[b][u] # None => gns'[b][u].time \in 1..MaxTime
  <2>1. /\ gns \in [Servers -> [Users -> EntryType \cup {None}]]
        /\ gns' \in [Servers -> [Users -> EntryType \cup {None}]]
    BY DEF IInv, TypeInv, TypeOK
  <2>2. \A e \in EntryType : e.time \in 1..MaxTime
    BY DEF EntryType
  <2> QED BY <2>1, <2>2
<1>0. /\ Shortened(net[d][c], m, net'[d][c])
      /\ \A e \in m.data : /\ e.user \in Users /\ e.time \in 1..MaxTime
                           /\ e.pos \in Positions /\ e.srv = d
                           /\ SpeaksOf(m, e.user, e.time)
  BY TakesIs
<1>1. ASSUME NEW e \in m.data
      PROVE  /\ AtLeast(gns'[c][e.user], e.time) \/ Deaf(c, e.user)
             /\ gns[c][e.user] # None =>
                  gns'[c][e.user] # None /\ gns'[c][e.user].time >= gns[c][e.user].time
  <2>1. Effect(m.cmd, e, gns[c][e.user], gns'[c][e.user]) /\ e.time \in 1..MaxTime /\ e.user \in Users
    BY <1>0 DEF Takes
  <2>2. m.cmd = "Disconnect" => gns[c][e.user] # None \/ Deaf(c, e.user)
    <3>1. m.cmd = "Disconnect" => LeaveOf(m, e.user)
      BY DEF LeaveOf
    <3>2. m.cmd = "Disconnect" => LeaveAlone(net[d][c], e.user)
      BY <3>1, <1>0 DEF Shortened
    <3> QED BY <2>1, <3>2 DEF Told, LeaveHeard
  <2> QED BY <2>1, <2>2, <1>t DEF Effect, AtLeast
<1>2. Grows
  <2> SUFFICES ASSUME NEW b \in Servers, NEW u \in Users, NEW t \in 1..MaxTime, AtLeast(gns[b][u], t)
               PROVE  AtLeast(gns'[b][u], t)
    BY DEF Grows
  <2>1. CASE gns'[b][u] = gns[b][u]
    BY <2>1
  <2>2. CASE gns'[b][u] # gns[b][u]
    <3>1. b = c /\ \E e \in m.data : e.user = u
      BY <2>2 DEF Takes
    <3>2. PICK e \in m.data : e.user = u
      BY <3>1
    <3>3. gns'[c][u] # None /\ gns[c][u] # None /\ gns'[c][u].time >= gns[c][u].time
      BY <1>1, <3>1, <3>2 DEF AtLeast
    <3> QED BY <3>1, <3>3, <1>t DEF AtLeast
  <2> QED BY <2>1, <2>2
<1>r. Recorded
  BY DEF Takes, Recorded
<1>3. Heeded
  <2> SUFFICES ASSUME NEW b \in Servers, NEW x \in Servers, NEW u \in Users, NEW t \in 1..MaxTime,
                      Spoken(net[x][b], u, t), ~Spoken(net'[x][b], u, t)
               PROVE  AtLeast(gns'[b][u], t) \/ Deaf(b, u)'
    BY DEF Heeded
  <2>1. x = d /\ b = c
    BY DEF Takes
  <2>2. SpeaksOf(m, u, t)
    BY <2>1, <1>0 DEF Shortened
  <2>3. AtLeast(gns'[b][u], t) \/ Deaf(b, u)
    BY <2>1, <2>2, <1>1 DEF SpeaksOf
  <2> QED BY <2>3, <1>r, DeafStays
<1>4. \A e \in m.data : AtLeast(gns'[c][e.user], e.time) \/ Deaf(c, e.user)'
  BY <1>1, <1>r, DeafStays
<1> QED BY <1>2, <1>3, <1>4, <1>r

\* No server gets a login of its own by a message.
LEMMA TakesHere ==
    ASSUME IInv, NEW c \in Servers, NEW d \in Servers, c # d, NEW m, Takes(c, d, m),
           NEW s \in Servers, NEW u \in Users
    PROVE  /\ gns'[s][u] = gns[s][u] \/ (s = c /\ \E e \in m.data : e.user = u)
           /\ \A t : Here(s, u, t)' => gns'[s][u] = gns[s][u] /\ Here(s, u, t)
<1>1. gns'[s][u] = gns[s][u] \/ (s = c /\ \E e \in m.data : e.user = u)
  BY DEF Takes
<1>2. ASSUME NEW t, Here(s, u, t)' PROVE gns'[s][u] = gns[s][u] /\ Here(s, u, t)
  <2>1. CASE gns'[s][u] = gns[s][u]
    BY <1>2, <2>1 DEF Here
  <2>2. ASSUME NEW e \in m.data, e.user = u, s = c PROVE gns'[s][u] = gns[s][u] /\ Here(s, u, t)
    <3>1. Effect(m.cmd, e, gns[c][u], gns'[c][u]) /\ e.srv = d
      BY <2>2, TakesIs DEF Takes
    <3>2. gns'[c][u] # None /\ gns'[c][u].active /\ gns'[c][u].srv = c
      BY <1>2, <2>2 DEF Here
    <3>3. gns'[c][u] = gns[c][u]
      BY <3>1, <3>2 DEF Effect
    <3> QED BY <1>2, <2>2, <3>3 DEF Here
  <2> QED BY <1>1, <2>1, <2>2
<1> QED BY <1>1, <1>2
\* Who is logged in at s has a second of s.
LEMMA LiveOwns ==
    ASSUME NEW s \in Servers, NEW u, NEW p, NEW t, Live(s, u, p, t)
    PROVE  Here(s, u, t) /\ Owns(s, u, t) /\ gns[s][u].time = t
BY DEF Live, Names, Here, Owns

\* A login that a message ends was an earlier one, and all hear of the later.
LEMMA TakesEnds ==
    ASSUME IInv, IInv', Told, NEW c \in Servers, NEW d \in Servers, c # d, NEW m, Takes(c, d, m)
    PROVE  EndsHeard
<1> SUFFICES ASSUME NEW s \in Servers, NEW u \in Users, NEW p \in Positions, NEW t \in 1..MaxTime,
                    Live(s, u, p, t), ~Live(s, u, p, t)', NEW b \in Servers
             PROVE  Newer(b, u, t)'
  BY DEF EndsHeard
<1>1. gns'[s][u] # gns[s][u]
  BY DEF Live
<1>2. s = c /\ \E e \in m.data : e.user = u
  BY <1>1, TakesHere
<1>3. PICK e \in m.data : e.user = u
  BY <1>2
<1>4. Effect(m.cmd, e, gns[c][u], gns'[c][u]) /\ e.time \in 1..MaxTime /\ SpeaksOf(m, u, e.time)
      /\ Shortened(net[d][c], m, net'[d][c])
  BY <1>3, TakesIs DEF Takes
<1>5. Owns(c, u, t) /\ gns[c][u].time = t /\ gns[c][u] # None
  BY <1>2, LiveOwns DEF Here
<1>6. Spoken(net[d][c], u, e.time)
  BY <1>4 DEF Shortened
<1>7. Owns(d, u, e.time)
  BY <1>6 DEF Owns
<1>8. e.time # t
  BY <1>4, <1>5, <1>7 DEF Told, OneOwner
<1>9. t <= e.time
  BY <1>1, <1>2, <1>4, <1>5 DEF Effect
<1>10. e.time > t
  BY <1>4, <1>8, <1>9
<1>11. Reached(d, b, u, e.time)
  BY <1>4, <1>6 DEF Told, AllReached
<1>12. Grows /\ Heeded /\ Recorded
  BY TakesHeeds DEF Told
<1>13. Reached(d, b, u, e.time)'
  BY <1>4, <1>11, <1>12, ReachedStays
<1> QED BY <1>4, <1>10, <1>13, ReachedNewer

\* The invariant after a message is taken.
LEMMA TakesTold ==
    ASSUME IInv, IInv', Told, NEW c \in Servers, NEW d \in Servers, c # d, NEW m, Takes(c, d, m)
    PROVE  Told'
<1>1. /\ Grows /\ Heeded /\ Recorded /\ EndsHeard
      /\ \A e \in m.data : AtLeast(gns'[c][e.user], e.time) \/ Deaf(c, e.user)'
  BY TakesHeeds, TakesEnds DEF Told
<1>2. /\ Shortened(net[d][c], m, net'[d][c])
      /\ \A e \in m.data : /\ e.user \in Users /\ e.time \in 1..MaxTime
                           /\ e.pos \in Positions /\ e.srv = d
                           /\ SpeaksOf(m, e.user, e.time)
  BY TakesIs
<1>3. \A x, y \in Servers : x # d \/ y # c => net'[x][y] = net[x][y]
  BY DEF Takes
<1>4. ASSUME NEW s \in Servers, NEW b \in Servers, NEW u \in Users, NEW p \in Positions, NEW t \in 1..MaxTime,
             Live(s, u, p, t) \/ Newer(b, u, t)
      PROVE  Live(s, u, p, t)' \/ Newer(b, u, t)'
  BY <1>1, <1>4, NewerStays DEF EndsHeard
<1>5. EntryReal'
  <2> SUFFICES ASSUME NEW b \in Servers, NEW s \in Servers, NEW u \in Users, NEW p \in Positions,
                      NEW t \in 1..MaxTime,
                      Names(gns'[b][u], s, p), gns'[b][u].time = t
               PROVE  Live(s, u, p, t)' \/ Newer(b, u, t)' \/ Left(net'[s][b], u, t)
    BY DEF EntryReal, Names, Left
  <2>1. CASE gns'[b][u] = gns[b][u]
    <3>1. Live(s, u, p, t) \/ Newer(b, u, t) \/ Left(net[s][b], u, t)
      BY <2>1 DEF Told, EntryReal
    <3>2. ASSUME Left(net[s][b], u, t), ~Left(net'[s][b], u, t) PROVE FALSE
      <4>1. s = d /\ b = c
        BY <3>2, <1>3
      <4>2. LeaveAt(m, u, t)
        BY <3>2, <4>1, <1>2 DEF Shortened
      <4>3. PICK e \in m.data : e.user = u /\ e.time = t /\ m.cmd = "Disconnect"
        BY <4>2 DEF LeaveAt
      <4>4. Effect(m.cmd, e, gns[c][u], gns'[c][u])
        BY <4>3 DEF Takes
      <4>5. gns'[c][u].active /\ gns'[c][u] # None /\ gns'[c][u].time = t /\ gns'[c][u] = gns[c][u]
        BY <2>1, <4>1 DEF Names
      <4> QED BY <4>3, <4>4, <4>5 DEF Effect
    <3> QED BY <3>1, <3>2, <1>4
  <2>2. CASE gns'[b][u] # gns[b][u]
    <3>1. b = c /\ \E e \in m.data : e.user = u
      BY <2>2, TakesHere
    <3>2. PICK e \in m.data : e.user = u
      BY <3>1
    <3>3. Effect(m.cmd, e, gns[c][u], gns'[c][u])
      BY <3>2 DEF Takes
    <3>4. m.cmd = "LoginNotice" /\ s = d /\ e.pos = p /\ e.time = t
      BY <2>2, <3>1, <3>2, <3>3, <1>2 DEF Effect, Names
    <3>5. LoginAt(m, u, p, t)
      BY <3>2, <3>4 DEF LoginAt
    <3>6. LoginStands(net[d][c], u, p, t) \/ Left(net'[d][c], u, t)
      BY <3>5, <1>2 DEF Shortened
    <3>7. LoginStands(net[d][c], u, p, t) => Live(d, u, p, t) \/ Newer(c, u, t)
      BY DEF Told, NoticeReal
    <3> QED BY <3>1, <3>4, <3>6, <3>7, <1>4
  <2> QED BY <2>1, <2>2
<1>6. NoticeReal'
  <2> SUFFICES ASSUME NEW b \in Servers, NEW s \in Servers, NEW u \in Users, NEW p \in Positions,
                      NEW t \in 1..MaxTime, LoginStands(net'[s][b], u, p, t)
               PROVE  Live(s, u, p, t)' \/ Newer(b, u, t)'
    BY DEF NoticeReal, LoginStands
  <2>1. LoginStands(net[s][b], u, p, t)
    BY <1>2, <1>3 DEF Shortened
  <2> QED BY <2>1, <1>4 DEF Told, NoticeReal
<1>g. ASSUME NEW b \in Servers, NEW u \in Users, gns[b][u] # None PROVE gns'[b][u] # None
  <2>1. gns[b][u].time \in 1..MaxTime
    BY <1>g, EntryTime
  <2>2. AtLeast(gns[b][u], gns[b][u].time)
    BY <1>g, <2>1 DEF AtLeast
  <2>3. AtLeast(gns'[b][u], gns[b][u].time)
    BY <2>1, <2>2, <1>1 DEF Grows
  <2> QED BY <2>3 DEF AtLeast
<1>h. ASSUME NEW u \in Users, LoginOf(m, u) PROVE gns'[c][u] # None \/ Deaf(c, u)'
  BY <1>h, <1>1 DEF LoginOf, AtLeast
<1>v. \A b \in Servers : \A u \in Users : Deaf(b, u) => Deaf(b, u)'
  BY <1>1, DeafStays
<1>7. LeaveHeard'
  <2> SUFFICES ASSUME NEW b \in Servers, NEW x \in Servers, NEW u \in Users, LeaveAlone(net'[x][b], u)
               PROVE  gns'[b][u] # None \/ Deaf(b, u)'
    BY DEF LeaveHeard, LeaveAlone
  <2>1. LeaveAlone(net[x][b], u) \/ (b = c /\ LoginOf(m, u))
    BY <1>2, <1>3 DEF Shortened
  <2> QED BY <2>1, <1>g, <1>h, <1>v DEF Told, LeaveHeard
<1>8. LoginHeard'
  <2> SUFFICES ASSUME NEW b \in Servers, NEW s \in Servers, NEW u \in Users, NEW t \in 1..MaxTime,
                      Here(s, u, t)', b # s
               PROVE  gns'[b][u] # None \/ Announced(net'[s][b], u) \/ Deaf(b, u)'
    BY DEF LoginHeard, Here, Announced
  <2>1. Here(s, u, t)
    BY TakesHere
  <2>2. gns[b][u] # None \/ Announced(net[s][b], u) \/ Deaf(b, u)
    BY <2>1 DEF Told, LoginHeard
  <2>3. ASSUME Announced(net[s][b], u), ~Announced(net'[s][b], u)
        PROVE  gns'[b][u] # None \/ Deaf(b, u)'
    <3>1. s = d /\ b = c
      BY <2>3, <1>3
    <3>2. LoginOf(m, u)
      BY <2>3, <3>1, <1>2 DEF Shortened
    <3> QED BY <3>1, <3>2, <1>h
  <2> QED BY <2>2, <2>3, <1>g, <1>v
<1>s. ASSUME NEW x \in Servers, NEW y \in Servers, NEW u, NEW t, Spoken(net'[x][y], u, t)
      PROVE  Spoken(net[x][y], u, t)
  BY <1>s, <1>2, <1>3 DEF Shortened
<1>9. AllReached'
  <2> SUFFICES ASSUME NEW a \in Servers, NEW b \in Servers, NEW x \in Servers, NEW u \in Users,
                      NEW t \in 1..MaxTime, Spoken(net'[x][a], u, t)
               PROVE  Reached(x, b, u, t)'
    BY DEF AllReached, Spoken
  <2>1. Reached(x, b, u, t)
    BY <1>s DEF Told, AllReached
  <2> QED BY <2>1, <1>1, ReachedStays
<1>o. ASSUME NEW s \in Servers, NEW u \in Users, NEW t, Owns(s, u, t)' PROVE Owns(s, u, t)
  <2>1. Here(s, u, t)' \/ \E b \in Servers : Spoken(net'[s][b], u, t)
    BY <1>o DEF Owns, Here, Spoken
  <2> QED BY <2>1, <1>s, TakesHere DEF Owns
<1>10. Stamped'
  <2> SUFFICES ASSUME NEW s \in Servers, NEW u \in Users, NEW t \in 1..MaxTime, Owns(s, u, t)'
               PROVE  <<u, t>> \in stamps'
    BY DEF Stamped, Owns, Here, Spoken
  <2>1. Owns(s, u, t)
    BY <1>o
  <2> QED BY <2>1 DEF Told, Stamped, Takes
<1>11. OneOwner'
  <2> SUFFICES ASSUME NEW s \in Servers, NEW x \in Servers, NEW u \in Users, NEW t \in 1..MaxTime,
                      Owns(s, u, t)', Owns(x, u, t)'
               PROVE  s = x
    BY DEF OneOwner, Owns, Here, Spoken
  <2>1. Owns(s, u, t) /\ Owns(x, u, t)
    BY <1>o
  <2> QED BY <2>1 DEF Told, OneOwner
<1>12. NoSync'
  <2> SUFFICES ASSUME NEW x \in Servers, NEW y \in Servers, NEW i \in 1..Len(net'[x][y])
               PROVE  net'[x][y][i].cmd \in {"LoginNotice", "Disconnect"}
    BY DEF NoSync
  <2>1. \E j \in 1..Len(net[x][y]) : net'[x][y][i] = net[x][y][j]
    BY <1>2, <1>3 DEF Shortened
  <2> QED BY <2>1 DEF Told, NoSync
<1> QED BY <1>5, <1>6, <1>7, <1>8, <1>9, <1>10, <1>11, <1>12 DEF Told

-----------------------------------------------------------------------------
(* User u logs in or leaves at c, which tells the others so *)

\* All others have missed something about u.
Missed(c, u) == \A b \in Servers : b # c => Deaf(b, u)'

\* The entry of u at c gets the present second, and every other server is sent
\* o, which is what it should hear unless something was lost.
Speaks(c, u, o) ==
    /\ o \in Seq(Msg)
    /\ \A b \in Servers : b # c => net'[c][b] = net[c][b] \o o
    /\ \A x, y \in Servers : x # c \/ y = c => net'[x][y] = net[x][y]
    /\ \A b \in Servers : b # c => gns'[b] = gns[b]
    /\ \A v \in Users : v # u => gns'[c][v] = gns[c][v]
    /\ gns'[c][u] # None /\ gns'[c][u].srv = c /\ gns'[c][u].time = now
    /\ \A v, t : Spoken(o, v, t) => v = u /\ t = now
    /\ Spoken(o, u, now) \/ Missed(c, u)
    /\ \A i \in 1..Len(o) : o[i].cmd \in {"LoginNotice", "Disconnect"}
    /\ \A p : LoginStands(o, u, p, now) =>
                 (gns'[c][u].active /\ gns'[c][u].pos = p) \/ Missed(c, u)
    /\ LeaveAlone(o, u) => (\E t \in 1..MaxTime : Here(c, u, t)) \/ Missed(c, u)
    /\ gns'[c][u].active => Announced(o, u) \/ Missed(c, u)
    /\ Recorded
    /\ <<u, now>> \notin stamps /\ stamps' = stamps \cup {<<u, now>>}

\* What the queues say, they say of some second.
LEMMA StandsSpoken ==
    ASSUME NEW q
    PROVE  /\ \A u, p, t : LoginStands(q, u, p, t) => Spoken(q, u, t)
           /\ \A u : LeaveAlone(q, u) => \E t : Spoken(q, u, t)
BY DEF LoginStands, LeaveAlone, Spoken, SpeaksOf, LoginAt, LeaveOf

\* What the queues say afterwards: what they said before, and of u at this second.
SpokenAfter(c, u, o) ==
    /\ \A b \in Servers : b # c => Appended(net[c][b], o, net'[c][b])
    /\ \A b, x \in Servers : \A v, t :
         Spoken(net'[x][b], v, t) => \/ Spoken(net[x][b], v, t)
                                     \/ x = c /\ b # c /\ v = u /\ t = now
    /\ \A b, x \in Servers : \A v, t :
         Spoken(net[x][b], v, t) => Spoken(net'[x][b], v, t)
    /\ \A b \in Servers : b # c => Spoken(net'[c][b], u, now) \/ Deaf(b, u)'

\* The queues after such a step.
LEMMA SpeaksIs ==
    ASSUME IInv, NEW c \in Servers, NEW u \in Users, NEW o, Speaks(c, u, o)
    PROVE  SpokenAfter(c, u, o)
<1>1. \A b \in Servers : b # c => Appended(net[c][b], o, net'[c][b])
  <2> SUFFICES ASSUME NEW b \in Servers, b # c PROVE Appended(net[c][b], o, net'[c][b])
    OBVIOUS
  <2>1. net[c][b] \in Seq(Msg) /\ o \in Seq(Msg) /\ net'[c][b] = net[c][b] \o o
    BY DEF Speaks, IInv, TypeInv
  <2> QED BY <2>1, AppendedIs
<1>2. /\ \A v, t : Spoken(o, v, t) => v = u /\ t = now
      /\ Spoken(o, u, now) \/ Missed(c, u)
      /\ \A x, y \in Servers : x # c \/ y = c => net'[x][y] = net[x][y]
  BY DEF Speaks
<1>3. ASSUME NEW b \in Servers, NEW x \in Servers, NEW v, NEW t
      PROVE  /\ Spoken(net'[x][b], v, t) => \/ Spoken(net[x][b], v, t)
                                            \/ x = c /\ b # c /\ v = u /\ t = now
             /\ Spoken(net[x][b], v, t) => Spoken(net'[x][b], v, t)
  <2>1. CASE x # c \/ b = c
    BY <2>1, <1>2
  <2>2. CASE x = c /\ b # c
    BY <2>2, <1>1, <1>2 DEF Appended
  <2> QED BY <2>1, <2>2
<1>4. \A b \in Servers : b # c => Spoken(net'[c][b], u, now) \/ Deaf(b, u)'
  BY <1>1, <1>2 DEF Appended, Missed
<1> QED BY <1>1, <1>3, <1>4 DEF SpokenAfter

\* The invariant after such a step.
LEMMA SpeaksTold ==
    ASSUME IInv, IInv', Told, NEW c \in Servers, NEW u \in Users, NEW o, Speaks(c, u, o), now' = now
    PROVE  Told'
<1>t. now \in 1..MaxTime
  BY DEF IInv, TypeInv, TypeOK
<1>z. SpokenAfter(c, u, o)
  BY SpeaksIs
<1>a. \A b \in Servers : b # c => Appended(net[c][b], o, net'[c][b])
  BY <1>z DEF SpokenAfter
<1>b. /\ \A b, x \in Servers : \A v, t :
           Spoken(net'[x][b], v, t) => \/ Spoken(net[x][b], v, t)
                                       \/ x = c /\ b # c /\ v = u /\ t = now
      /\ \A b, x \in Servers : \A v, t :
           Spoken(net[x][b], v, t) => Spoken(net'[x][b], v, t)
      /\ \A b \in Servers : b # c => Spoken(net'[c][b], u, now) \/ Deaf(b, u)'
  BY <1>z DEF SpokenAfter
<1>c. \A x, y \in Servers : x # c \/ y = c => net'[x][y] = net[x][y]
  BY DEF Speaks
<1>d. /\ gns'[c][u] # None /\ gns'[c][u].srv = c /\ gns'[c][u].time = now
      /\ \A b \in Servers : \A v \in Users : b # c \/ v # u => gns'[b][v] = gns[b][v]
  BY DEF Speaks
<1>1. Grows
  <2> SUFFICES ASSUME NEW b \in Servers, NEW v \in Users, NEW t \in 1..MaxTime, AtLeast(gns[b][v], t)
               PROVE  AtLeast(gns'[b][v], t)
    BY DEF Grows
  <2>1. CASE b # c \/ v # u
    BY <2>1, <1>d
  <2>2. CASE b = c /\ v = u
    <3>1. gns[b][v] # None /\ gns[b][v].time >= t
      BY DEF AtLeast
    <3>2. gns[b][v].time \in 1..MaxTime /\ gns[b][v].time <= now
      BY <3>1, EntryTime
    <3> QED BY <2>2, <3>1, <3>2, <1>d, <1>t DEF AtLeast
  <2> QED BY <2>1, <2>2
<1>2. Heeded /\ Recorded
  BY <1>b DEF Heeded, Speaks
<1>v. \A b \in Servers : \A v \in Users : Deaf(b, v) => Deaf(b, v)'
  BY <1>2, DeafStays
<1>w. \A b \in Servers : \A v \in Users : \A t \in 1..MaxTime : Deaf(b, v)' => Newer(b, v, t)'
  BY DEF Newer
<1>n. \A b \in Servers : Reached(c, b, u, now)'
  <2> SUFFICES ASSUME NEW b \in Servers 
               PROVE  AtLeast(gns'[b][u], now) \/ (b # c /\ Spoken(net'[c][b], u, now)) \/ Deaf(b, u)'
    BY DEF Reached, AtLeast, Spoken
  <2>1. CASE b = c
    BY <2>1, <1>d, <1>t DEF AtLeast
  <2>2. CASE b # c
    BY <2>2, <1>b
  <2> QED BY <2>1, <2>2
<1>3. EndsHeard
  <2> SUFFICES ASSUME NEW s \in Servers, NEW v \in Users, NEW p \in Positions, NEW t \in 1..MaxTime,
                      Live(s, v, p, t), ~Live(s, v, p, t)', NEW b \in Servers
               PROVE  Newer(b, v, t)'
    BY DEF EndsHeard
  <2>1. gns'[s][v] # gns[s][v]
    BY DEF Live
  <2>2. s = c /\ v = u
    BY <2>1, <1>d
  <2>3. Owns(c, u, t) /\ gns[c][u].time = t /\ gns[c][u] # None
    BY <2>2, LiveOwns DEF Here
  <2>4. <<u, t>> \in stamps
    BY <2>3 DEF Told, Stamped
  <2>5. t # now
    BY <2>4 DEF Speaks
  <2>6. t <= now
    BY <2>3, EntryTime
  <2>7. now > t
    BY <2>5, <2>6, <1>t
  <2> QED BY <2>2, <2>7, <1>n, <1>t, ReachedNewer
<1>4. ASSUME NEW s \in Servers, NEW b \in Servers, NEW v \in Users, NEW p \in Positions, NEW t \in 1..MaxTime,
             Live(s, v, p, t) \/ Newer(b, v, t)
      PROVE  Live(s, v, p, t)' \/ Newer(b, v, t)'
  BY <1>1, <1>2, <1>3, <1>4, NewerStays DEF EndsHeard
<1>5. EntryReal'
  <2> SUFFICES ASSUME NEW b \in Servers, NEW s \in Servers, NEW v \in Users, NEW p \in Positions,
                      NEW t \in 1..MaxTime,
                      Names(gns'[b][v], s, p), gns'[b][v].time = t
               PROVE  Live(s, v, p, t)' \/ Newer(b, v, t)' \/ Left(net'[s][b], v, t)
    BY DEF EntryReal, Names, Left
  <2>1. CASE b = c /\ v = u
    <3>1. s = c
      BY <2>1, <1>d DEF Names
    <3> QED BY <2>1, <3>1 DEF Live, Names
  <2>2. CASE b # c \/ v # u
    <3>1. Live(s, v, p, t) \/ Newer(b, v, t) \/ Left(net[s][b], v, t)
      BY <2>2, <1>d DEF Told, EntryReal
    <3>2. Left(net[s][b], v, t) => Left(net'[s][b], v, t)
      BY <1>a, <1>c DEF Appended
    <3> QED BY <3>1, <3>2, <1>4
  <2> QED BY <2>1, <2>2
<1>6. NoticeReal'
  <2> SUFFICES ASSUME NEW b \in Servers, NEW s \in Servers, NEW v \in Users, NEW p \in Positions,
                      NEW t \in 1..MaxTime, LoginStands(net'[s][b], v, p, t)
               PROVE  Live(s, v, p, t)' \/ Newer(b, v, t)'
    BY DEF NoticeReal, LoginStands
  <2>1. CASE LoginStands(net[s][b], v, p, t)
    BY <2>1, <1>4 DEF Told, NoticeReal
  <2>2. CASE s = c /\ b # c /\ LoginStands(o, v, p, t)
    <3>1. v = u /\ t = now
      BY <2>2, StandsSpoken DEF Speaks
    <3>2. (gns'[c][u].active /\ gns'[c][u].pos = p) \/ Deaf(b, u)'
      BY <2>2, <3>1 DEF Speaks, Missed
    <3>3. gns'[c][u].active /\ gns'[c][u].pos = p => Live(s, v, p, t)'
      BY <2>2, <3>1, <1>d DEF Live, Names
    <3> QED BY <3>1, <3>2, <3>3, <1>w
  <2> QED BY <2>1, <2>2, <1>a, <1>c DEF Appended
<1>g. ASSUME NEW b \in Servers, NEW v \in Users, gns[b][v] # None PROVE gns'[b][v] # None
  BY <1>g, <1>d
<1>7. LeaveHeard'
  <2> SUFFICES ASSUME NEW b \in Servers, NEW x \in Servers, NEW v \in Users, LeaveAlone(net'[x][b], v)
               PROVE  gns'[b][v] # None \/ Deaf(b, v)'
    BY DEF LeaveHeard, LeaveAlone
  <2>1. CASE LeaveAlone(net[x][b], v)
    BY <2>1, <1>g, <1>v DEF Told, LeaveHeard
  <2>2. CASE x = c /\ b # c /\ LeaveAlone(o, v) /\ ~Announced(net[c][b], v)
    <3>1. v = u
      BY <2>2, StandsSpoken DEF Speaks
    <3>2. (\E t \in 1..MaxTime : Here(c, u, t)) \/ Deaf(b, u)'
      BY <2>2, <3>1 DEF Speaks, Missed
    <3>3. ASSUME NEW t \in 1..MaxTime, Here(c, u, t) PROVE gns[b][u] # None \/ Deaf(b, u)
      BY <2>2, <3>1, <3>3 DEF Told, LoginHeard
    <3> QED BY <3>1, <3>2, <3>3, <1>g, <1>v
  <2> QED BY <2>1, <2>2, <1>a, <1>c DEF Appended
<1>o. ASSUME NEW s \in Servers, NEW v \in Users, NEW t, Here(s, v, t)'
      PROVE  Here(s, v, t) \/ (s = c /\ v = u /\ t = now /\ gns'[c][u].active)
  BY <1>d, <1>o DEF Here
<1>8. LoginHeard'
  <2> SUFFICES ASSUME NEW b \in Servers, NEW s \in Servers, NEW v \in Users, NEW t \in 1..MaxTime,
                      Here(s, v, t)', b # s
               PROVE  gns'[b][v] # None \/ Announced(net'[s][b], v) \/ Deaf(b, v)'
    BY DEF LoginHeard, Here, Announced
  <2>1. CASE Here(s, v, t)
    <3>1. gns[b][v] # None \/ Announced(net[s][b], v) \/ Deaf(b, v)
      BY <2>1 DEF Told, LoginHeard
    <3>2. Announced(net[s][b], v) => Announced(net'[s][b], v)
      BY <1>a, <1>c DEF Appended
    <3> QED BY <3>1, <3>2, <1>g, <1>v
  <2>2. CASE s = c /\ v = u /\ t = now /\ gns'[c][u].active
    <3>1. Announced(o, u) \/ Deaf(b, u)'
      BY <2>2 DEF Speaks, Missed
    <3> QED BY <2>2, <3>1, <1>a DEF Appended
  <2> QED BY <2>1, <2>2, <1>o
<1>9. AllReached'
  <2> SUFFICES ASSUME NEW a \in Servers, NEW b \in Servers, NEW x \in Servers, NEW v \in Users,
                      NEW t \in 1..MaxTime, Spoken(net'[x][a], v, t)
               PROVE  Reached(x, b, v, t)'
    BY DEF AllReached, Spoken
  <2>1. CASE Spoken(net[x][a], v, t)
    <3>1. Reached(x, b, v, t)
      BY <2>1 DEF Told, AllReached
    <3> QED BY <3>1, <1>1, <1>2, ReachedStays
  <2>2. CASE x = c /\ v = u /\ t = now
    BY <2>2, <1>n
  <2> QED BY <2>1, <2>2, <1>b
<1>p. ASSUME NEW s \in Servers, NEW v \in Users, NEW t, Owns(s, v, t)'
      PROVE  Owns(s, v, t) \/ (s = c /\ v = u /\ t = now)
  <2>1. Here(s, v, t)' \/ \E b \in Servers : Spoken(net'[s][b], v, t)
    BY <1>p DEF Owns, Here, Spoken
  <2> QED BY <2>1, <1>b, <1>o DEF Owns
<1>10. Stamped'
  <2> SUFFICES ASSUME NEW s \in Servers, NEW v \in Users, NEW t \in 1..MaxTime, Owns(s, v, t)'
               PROVE  <<v, t>> \in stamps'
    BY DEF Stamped, Owns, Here, Spoken
  <2> QED BY <1>p DEF Told, Stamped, Speaks
<1>11. OneOwner'
  <2> SUFFICES ASSUME NEW s \in Servers, NEW x \in Servers, NEW v \in Users, NEW t \in 1..MaxTime,
                      Owns(s, v, t)', Owns(x, v, t)'
               PROVE  s = x
    BY DEF OneOwner, Owns, Here, Spoken
  <2>1. ~Owns(s, u, now) /\ ~Owns(x, u, now)
    BY <1>t DEF Told, Stamped, Speaks
  <2>2. \/ Owns(s, v, t) /\ Owns(x, v, t)
        \/ s = c /\ x = c
    BY <2>1, <1>p
  <2> QED BY <2>2 DEF Told, OneOwner
<1>12. NoSync'
  <2> SUFFICES ASSUME NEW x \in Servers, NEW y \in Servers, NEW i \in 1..Len(net'[x][y])
               PROVE  net'[x][y][i].cmd \in {"LoginNotice", "Disconnect"}
    BY DEF NoSync
  <2>1. \/ \E j \in 1..Len(net[x][y]) : net'[x][y][i] = net[x][y][j]
        \/ \E j \in 1..Len(o) : net'[x][y][i] = o[j]
    BY <1>a, <1>c DEF Appended
  <2> QED BY <2>1 DEF Told, NoSync, Speaks
<1> QED BY <1>5, <1>6, <1>7, <1>8, <1>9, <1>10, <1>11, <1>12 DEF Told

\* A step that leaves the entries and the queues alone.
LEMMA StillTold ==
    ASSUME Told, UNCHANGED <<gns, net, stamps, lost, early>>
    PROVE  Told'
BY DEF Told, EntryReal, NoticeReal, LeaveHeard, LoginHeard, AllReached, Stamped, OneOwner, NoSync,
       Owns, Here, Live, Newer, Reached, Deaf

-----------------------------------------------------------------------------
(* The handlers *)

\* The notices of one user's login and leaving.
LoginMsg(u, c, p, t) == [cmd |-> "LoginNotice", data |-> {LoginData(u, c, p, t)}]
LeaveMsg(u, c, p, t) == [cmd |-> "Disconnect", data |-> {LoginData(u, c, p, t)}]

\* What ReleaseConn does to the entry of its user.
LEMMA ReleaseUser ==
    ASSUME NEW c \in Servers, NEW st, Sane(c, st), NEW p \in Positions, NEW b,
           NEW u \in Users, st.conn[p] = u, now \in 1..MaxTime,
           NEW r, r = ReleaseConn(c, st, p, b)
    PROVE  /\ r.gns[u] # None /\ ~r.gns[u].active /\ r.gns[u].srv = c /\ r.gns[u].time = now
           /\ \A v \in Users : v # u => r.gns[v] = st.gns[v]
<1>1. st.gns \in GnsType /\ st.gns[u] # None
  BY DEF Sane, StType, Match, Names
<1>2. r.gns = [st.gns EXCEPT ![u] = Entry(c, p, FALSE, now)]
  BY <1>1 DEF ReleaseConn
<1>4. PICK n : n = Entry(c, p, FALSE, now)
  OBVIOUS
<1>5. n # None /\ ~n.active /\ n.srv = c /\ n.time = now
  <2>1. /\ Entry(c, p, FALSE, now) \in EntryType /\ ~Entry(c, p, FALSE, now).active
        /\ Entry(c, p, FALSE, now).srv = c /\ Entry(c, p, FALSE, now).time = now
    BY DEF Entry, EntryType
  <2>2. n \in EntryType /\ ~n.active /\ n.srv = c /\ n.time = now
    BY <1>4, <2>1, Zenon
  <2> QED BY <2>2, ConstFacts
<1>6. r.gns[u] = n /\ \A v \in Users : v # u => r.gns[v] = st.gns[v]
  BY <1>1, <1>2, <1>4 DEF GnsType
<1> QED BY <1>5, <1>6

\* A connection nobody has logged in on ends without a word.
LEMMA ReleaseNobody ==
    ASSUME NEW c, NEW st, NEW p, NEW b, st.conn[p] \notin Users,
           NEW r, r = ReleaseConn(c, st, p, b)
    PROVE  r.gns = st.gns /\ r.out = st.out
BY DEF ReleaseConn

\* KickOwn leaves an inactive entry of this second.
LEMMA KickUser ==
    ASSUME NEW c \in Servers, NEW st, Sane(c, st), NEW u \in Users, now \in 1..MaxTime,
           st.gns[u] # None, st.gns[u].srv = c, st.gns[u].active,
           NEW r, r = KickOwn(c, st, u)
    PROVE  r.gns[u] # None /\ ~r.gns[u].active /\ r.gns[u].time = now
<1>1. st.gns[u].pos \in Positions
  BY DEF Sane, StType, GnsType, EntryType
<1>2. st.gns[u].pos \in OwnConn(c, st, u)
  BY <1>1 DEF OwnConn, Sane, Match, Names
<1>3. PICK p : p = CHOOSE q \in OwnConn(c, st, u) : TRUE
  OBVIOUS
<1>4. p \in OwnConn(c, st, u)
  BY <1>2, <1>3
<1>5. p \in Positions /\ st.conn[p] = u
  BY <1>4 DEF OwnConn
<1>6. r = ReleaseConn(c, st, p, FALSE)
  BY <1>2, <1>3 DEF KickOwn
<1>7. PICK b : b = FALSE
  OBVIOUS
<1>8. r = ReleaseConn(c, st, p, b)
  BY <1>6, <1>7, Zenon
<1> QED BY <1>5, <1>8, ReleaseUser

\* The effect of an element of LoginNotice on its user's entry.
LEMMA NoticeEffect ==
    ASSUME NEW c \in Servers, NEW st, Sane(c, st), now \in 1..MaxTime,
           NEW e \in Data, e.srv # c, e.time <= now,
           NEW r, r = NoticeOne(c, st, e)
    PROVE  Effect("LoginNotice", e, st.gns[e.user], r.gns[e.user])
<1>u. PICK u \in Users : u = e.user
  BY DEF Data
<1>t. st.gns[u] # None => st.gns[u].time \in 1..MaxTime
  BY DEF Sane, StType, GnsType, EntryType
<1>1. CASE st.gns[u] # None /\ st.gns[u].time > e.time
  <2>1. r = st
    BY <1>u, <1>1 DEF NoticeOne
  <2> QED BY <1>u, <1>1, <2>1 DEF Effect
<1>2. CASE ~(st.gns[u] # None /\ st.gns[u].time > e.time)
  <2>1. PICK k : k = KickOwn(c, st, u)
    OBVIOUS
  <2>2. PICK n : n = Entry(e.srv, e.pos, TRUE, e.time)
    OBVIOUS
  <2>3. r = SetEntry(k, u, n)
    BY <1>u, <1>2, <2>1, <2>2 DEF NoticeOne
  <2>4. Sane(c, k)
    BY <2>1, KickIs
  <2>5. r.gns[u] = n
    BY <2>3, <2>4 DEF SetEntry, Sane, StType, GnsType
  <2>6. e.srv \in Servers /\ e.pos \in Positions /\ e.time \in 1..MaxTime
    BY DEF Data
  <2>7. n # None /\ n.active /\ n.time = e.time /\ n.srv = e.srv /\ n.pos = e.pos
    <3> DEFINE E == Entry(e.srv, e.pos, TRUE, e.time)
    <3>1. E \in EntryType /\ E.active /\ E.srv = e.srv /\ E.pos = e.pos /\ E.time = e.time
      BY <2>6 DEF Entry, EntryType
    <3> HIDE DEF E
    <3>2. n = E
      BY <2>2, Zenon DEF E
    <3> QED BY <3>1, <3>2, ConstFacts
  <2>8. st.gns[u] # None => st.gns[u].time <= e.time
    BY <1>2, <1>t, <2>6
  <2> QED BY <1>u, <2>5, <2>7, <2>8 DEF Effect
<1> QED BY <1>1, <1>2

\* The effect of an element of Disconnect.
LEMMA DisconnectEffect ==
    ASSUME NEW c \in Servers, NEW st, Sane(c, st), now \in 1..MaxTime,
           NEW e \in Data, e.srv # c, e.time <= now,
           NEW r, r = DisconnectOne(c, st, e)
    PROVE  Effect("Disconnect", e, st.gns[e.user], r.gns[e.user])
<1>u. PICK u \in Users : u = e.user
  BY DEF Data
<1>t. /\ st.gns[u] # None => st.gns[u].time \in 1..MaxTime
      /\ e.srv \in Servers /\ e.pos \in Positions /\ e.time \in 1..MaxTime
  BY DEF Sane, StType, GnsType, EntryType, Data
<1>1. CASE st.gns[u] = None \/ st.gns[u].time > e.time
  <2>1. r = st
    BY <1>u, <1>1 DEF DisconnectOne
  <2> QED BY <1>u, <1>1, <2>1 DEF Effect
<1>2. CASE st.gns[u] # None /\ ~(st.gns[u].time > e.time) /\ st.gns[u].srv = c /\ st.gns[u].active
  <2>1. r = KickOwn(c, st, u)
    BY <1>u, <1>2 DEF DisconnectOne
  <2>2. r.gns[u] # None /\ ~r.gns[u].active /\ r.gns[u].time = now
    BY <1>2, <2>1, KickUser
  <2>3. st.gns[u].time <= e.time /\ now >= e.time
    BY <1>2, <1>t
  <2> QED BY <1>u, <1>2, <2>2, <2>3 DEF Effect
<1>3. CASE st.gns[u] # None /\ ~(st.gns[u].time > e.time) /\ ~(st.gns[u].srv = c /\ st.gns[u].active)
  <2>1. PICK n : n = Entry(e.srv, e.pos, FALSE, e.time)
    OBVIOUS
  <2>2. r = SetEntry(st, u, n)
    BY <1>u, <1>3, <2>1 DEF DisconnectOne
  <2>3. r.gns[u] = n
    BY <2>2 DEF SetEntry, Sane, StType, GnsType
  <2>4. n # None /\ ~n.active /\ n.time = e.time
    <3> DEFINE E == Entry(e.srv, e.pos, FALSE, e.time)
    <3>1. E \in EntryType /\ ~E.active /\ E.time = e.time
      BY <1>t DEF Entry, EntryType
    <3> HIDE DEF E
    <3>2. n = E
      BY <2>1, Zenon DEF E
    <3> QED BY <3>1, <3>2, ConstFacts
  <2>5. st.gns[u].time <= e.time /\ e.time >= e.time
    BY <1>3, <1>t
  <2> QED BY <1>u, <1>3, <2>3, <2>4, <2>5 DEF Effect
<1> QED BY <1>1, <1>2, <1>3

\* What the send queue takes of out goes to all others, the rest is lost.
PutOut(c, out, sent) ==
    /\ \A b \in Servers : b # c => net'[c][b] = net[c][b] \o sent
    /\ \A b \in Servers : b # c => \A w \in Items(out) \ Items(sent) : w \in lost'[c][b]

\* Become leaves the queues of others alone, and puts out at the end of its own.
LEMMA BecomeIs ==
    ASSUME IInv, NEW c \in Servers, NEW from \in Servers, NEW st, Become(c, from, st)
    PROVE  /\ gns'[c] = st.gns /\ \A b \in Servers : b # c => gns'[b] = gns[b]
           /\ \E sent \in Taken(st.out) : PutOut(c, st.out, sent)
           /\ from # c => net'[from][c] = Tail(net[from][c])
           /\ \A x, y \in Servers : ~(x = c /\ y # c) /\ ~(x = from /\ y = c /\ x # c)
                => net'[x][y] = net[x][y]
           /\ Recorded
<1>1. gns \in [Servers -> [Users -> EntryType \cup {None}]]
  BY DEF IInv, TypeInv, TypeOK
<1>2. gns'[c] = st.gns /\ \A b \in Servers : b # c => gns'[b] = gns[b]
  BY <1>1 DEF Become
<1>3. PICK out : out = st.out
  OBVIOUS
<1>4. PICK to : to = Servers \ {c}
  OBVIOUS
<1>5. Send2Server(c, to, from, out)
  BY <1>3, <1>4 DEF Become
<1>6. PICK sent \in Taken(out) :
        /\ net' = [s \in Servers |-> [d \in Servers |->
                     IF s = c /\ d \in to THEN net[s][d] \o sent
                     ELSE IF s = from /\ d = c /\ s # c THEN Tail(net[s][d])
                     ELSE net[s][d]]]
        /\ lost' = [s \in Servers |-> [d \in Servers |->
                      IF s = c /\ d \in to THEN lost[s][d] \cup (Items(out) \ Items(sent))
                      ELSE lost[s][d]]]
        /\ early' = early
  BY <1>5 DEF Send2Server
<1>7. /\ \A b \in to : net'[c][b] = net[c][b] \o sent
      /\ from # c => net'[from][c] = Tail(net[from][c])
      /\ \A x, y \in Servers : ~(x = c /\ y \in to) /\ ~(x = from /\ y = c /\ x # c)
            => net'[x][y] = net[x][y]
  BY <1>4, <1>6
<1>8. /\ \A b \in to : lost'[c][b] = lost[c][b] \cup (Items(out) \ Items(sent))
      /\ \A x, y \in Servers : ~(x = c /\ y \in to) => lost'[x][y] = lost[x][y]
  BY <1>4, <1>6
<1>9. Recorded
  BY <1>6, <1>8 DEF Recorded
<1>10. PutOut(c, out, sent)
  BY <1>4, <1>7, <1>8 DEF PutOut
<1> QED BY <1>2, <1>3, <1>4, <1>7, <1>9, <1>10

\* The same for a handler that took no message.
Alone(c, st) ==
    /\ gns'[c] = st.gns /\ \A b \in Servers : b # c => gns'[b] = gns[b]
    /\ \A x, y \in Servers : x # c \/ y = c => net'[x][y] = net[x][y]
    /\ Recorded

\* Become does that.
LEMMA BecomeAlone ==
    ASSUME IInv, NEW c \in Servers, NEW st, Become(c, c, st)
    PROVE  Alone(c, st) /\ \E sent \in Taken(st.out) : PutOut(c, st.out, sent)
<1>1. PICK from \in Servers : from = c
  OBVIOUS
<1>2. Become(c, from, st)
  BY <1>1
<1>3. /\ gns'[c] = st.gns /\ \A b \in Servers : b # c => gns'[b] = gns[b]
      /\ \A x, y \in Servers : ~(x = c /\ y # c) /\ ~(x = from /\ y = c /\ x # c)
            => net'[x][y] = net[x][y]
      /\ Recorded /\ \E sent \in Taken(st.out) : PutOut(c, st.out, sent)
  BY <1>2, BecomeIs, ZenonT(60)
<1> QED BY <1>1, <1>3 DEF Alone

\* Nothing is said, nothing lost.
LEMMA BecomeSilent ==
    ASSUME IInv, NEW c \in Servers, NEW from \in Servers, NEW st, Become(c, from, st), st.out = << >>
    PROVE  (\A b \in Servers : b # c => net'[c][b] = net[c][b]) /\ lost' = lost /\ early' = early
<1>1. /\ net \in [Servers -> [Servers -> Seq(Msg)]]
      /\ lost \in [Servers -> [Servers -> SUBSET Msg]]
  BY DEF IInv, TypeInv
<1>2. PICK out : out = << >> /\ out = st.out
  OBVIOUS
<1>3. PICK to : to = Servers \ {c}
  OBVIOUS
<1>4. Send2Server(c, to, from, out)
  BY <1>2, <1>3 DEF Become
<1>5. Items(out) = {} /\ \A sent \in Taken(out) : sent = out
  <2>1. DOMAIN out = {}
    BY <1>2
  <2> QED BY <2>1, <1>2 DEF Items, Taken
<1>6. PICK sent \in Taken(out) :
        /\ net' = [s \in Servers |-> [d \in Servers |->
                     IF s = c /\ d \in to THEN net[s][d] \o sent
                     ELSE IF s = from /\ d = c /\ s # c THEN Tail(net[s][d])
                     ELSE net[s][d]]]
        /\ lost' = [s \in Servers |-> [d \in Servers |->
                      IF s = c /\ d \in to THEN lost[s][d] \cup (Items(out) \ Items(sent))
                      ELSE lost[s][d]]]
        /\ early' = early
  BY <1>4 DEF Send2Server
<1>7. ASSUME NEW b \in Servers, b # c PROVE net'[c][b] = net[c][b]
  <2>1. net[c][b] \in Seq(Msg)
    BY <1>1
  <2>2. net'[c][b] = net[c][b] \o out
    BY <1>3, <1>5, <1>6, <1>7
  <2> QED BY <1>2, <2>1, <2>2, ConcatEmptySeq
<1>8. \A x, y \in Servers : lost'[x][y] = lost[x][y]
  BY <1>5, <1>6
<1>9. lost' = [x \in Servers |-> [y \in Servers |-> lost'[x][y]]]
  BY <1>6
<1>10. lost' = lost
  BY <1>1, <1>8, <1>9
<1> QED BY <1>6, <1>7, <1>10

\* The handler of LoginNotice takes the message.
LEMMA NoticeTakes ==
    ASSUME IInv, NEW c \in Servers, NEW d \in Servers \ {c}, LoginNotice(c, d)
    PROVE  Takes(c, d, Head(net[d][c]))
<1>1. PICK m : m = Head(net[d][c])
  OBVIOUS
<1>2. PICK st : st = ForAll(NoticeOne, c, State(c), m.data)
  OBVIOUS
<1>3. /\ Become(c, d, st) /\ net[d][c] # << >> /\ m.cmd = "LoginNotice" /\ stamps' = stamps
  BY <1>1, <1>2 DEF LoginNotice, Received
<1>4. m \in Msg /\ SaidBy(d, m, now) /\ d # c
  BY <1>1, <1>3, ReceivedIs
<1>5. Sane(c, State(c)) /\ now \in 1..MaxTime /\ State(c).gns = gns[c] /\ State(c).out = << >>
  BY StateIs
<1> DEFINE data == m.data
           About(u) == CHOOSE e \in data : e.user = u
           named == {e.user : e \in data}
<1>6. \A u \in named : About(u) \in data /\ About(u).user = u
  OBVIOUS
<1>7. \A e \in data : e.user \in named /\ About(e.user) = e
  BY <1>4, <1>6 DEF SaidBy
<1>8. /\ st.gns = [u \in Users |-> IF u \in named THEN NoticeOne(c, State(c), About(u)).gns[u]
                                   ELSE State(c).gns[u]]
      /\ st.out = State(c).out
  BY <1>2, Zenon DEF ForAll
<1>9. \A u \in Users : (\A e \in data : e.user # u) => u \notin named
  OBVIOUS
<1>10. data \subseteq Data
  BY <1>4 DEF Msg
<1> HIDE DEF About, named, data
<1>11. ASSUME NEW e \in data PROVE Effect("LoginNotice", e, gns[c][e.user], st.gns[e.user])
  <2>1. e \in Data /\ e.srv # c /\ e.time <= now /\ e.user \in Users
    BY <1>4, <1>10, <1>11 DEF SaidBy, data, Data
  <2>2. PICK r : r = NoticeOne(c, State(c), e)
    OBVIOUS
  <2>3. Effect("LoginNotice", e, State(c).gns[e.user], r.gns[e.user])
    BY <1>5, <2>1, <2>2, NoticeEffect
  <2>4. st.gns[e.user] = r.gns[e.user]
    BY <1>7, <1>8, <1>11, <2>1, <2>2
  <2> QED BY <1>5, <2>3, <2>4
<1>12. ASSUME NEW u \in Users, \A e \in data : e.user # u PROVE st.gns[u] = gns[c][u]
  BY <1>5, <1>8, <1>9, <1>12
<1>13. /\ gns'[c] = st.gns /\ \A b \in Servers : b # c => gns'[b] = gns[b]
       /\ net'[d][c] = Tail(net[d][c])
       /\ \A x, y \in Servers : ~(x = c /\ y # c) /\ ~(x = d /\ y = c /\ x # c)
            => net'[x][y] = net[x][y]
  BY <1>3, <1>4, BecomeIs, ZenonT(60)
<1>14. (\A b \in Servers : b # c => net'[c][b] = net[c][b]) /\ lost' = lost /\ early' = early
  BY <1>3, <1>5, <1>8, BecomeSilent
<1>15. \A x, y \in Servers : x # d \/ y # c => net'[x][y] = net[x][y]
  BY <1>13, <1>14
<1>16. Takes(c, d, m)
  BY <1>1, <1>3, <1>11, <1>12, <1>13, <1>14, <1>15 DEF Takes, data
<1> QED BY <1>1, <1>16

\* The handler of Disconnect too.
LEMMA DisconnectTakes ==
    ASSUME IInv, NEW c \in Servers, NEW d \in Servers \ {c}, Disconnect(c, d)
    PROVE  Takes(c, d, Head(net[d][c]))
<1>1. PICK m : m = Head(net[d][c])
  OBVIOUS
<1>2. PICK st : st = ForAll(DisconnectOne, c, State(c), m.data)
  OBVIOUS
<1>3. /\ Become(c, d, st) /\ net[d][c] # << >> /\ m.cmd = "Disconnect" /\ stamps' = stamps
  BY <1>1, <1>2 DEF Disconnect, Received
<1>4. m \in Msg /\ SaidBy(d, m, now) /\ d # c
  BY <1>1, <1>3, ReceivedIs
<1>5. Sane(c, State(c)) /\ now \in 1..MaxTime /\ State(c).gns = gns[c] /\ State(c).out = << >>
  BY StateIs
<1> DEFINE data == m.data
           About(u) == CHOOSE e \in data : e.user = u
           named == {e.user : e \in data}
<1>6. \A u \in named : About(u) \in data /\ About(u).user = u
  OBVIOUS
<1>7. \A e \in data : e.user \in named /\ About(e.user) = e
  BY <1>4, <1>6 DEF SaidBy
<1>8. /\ st.gns = [u \in Users |-> IF u \in named THEN DisconnectOne(c, State(c), About(u)).gns[u]
                                   ELSE State(c).gns[u]]
      /\ st.out = State(c).out
  BY <1>2, Zenon DEF ForAll
<1>9. \A u \in Users : (\A e \in data : e.user # u) => u \notin named
  OBVIOUS
<1>10. data \subseteq Data
  BY <1>4 DEF Msg
<1> HIDE DEF About, named, data
<1>11. ASSUME NEW e \in data PROVE Effect("Disconnect", e, gns[c][e.user], st.gns[e.user])
  <2>1. e \in Data /\ e.srv # c /\ e.time <= now /\ e.user \in Users
    BY <1>4, <1>10, <1>11 DEF SaidBy, data, Data
  <2>2. PICK r : r = DisconnectOne(c, State(c), e)
    OBVIOUS
  <2>3. Effect("Disconnect", e, State(c).gns[e.user], r.gns[e.user])
    BY <1>5, <2>1, <2>2, DisconnectEffect
  <2>4. st.gns[e.user] = r.gns[e.user]
    BY <1>7, <1>8, <1>11, <2>1, <2>2
  <2> QED BY <1>5, <2>3, <2>4
<1>12. ASSUME NEW u \in Users, \A e \in data : e.user # u PROVE st.gns[u] = gns[c][u]
  BY <1>5, <1>8, <1>9, <1>12
<1>13. /\ gns'[c] = st.gns /\ \A b \in Servers : b # c => gns'[b] = gns[b]
       /\ net'[d][c] = Tail(net[d][c])
       /\ \A x, y \in Servers : ~(x = c /\ y # c) /\ ~(x = d /\ y = c /\ x # c)
            => net'[x][y] = net[x][y]
  BY <1>3, <1>4, BecomeIs, ZenonT(60)
<1>14. (\A b \in Servers : b # c => net'[c][b] = net[c][b]) /\ lost' = lost /\ early' = early
  BY <1>3, <1>5, <1>8, BecomeSilent
<1>15. \A x, y \in Servers : x # d \/ y # c => net'[x][y] = net[x][y]
  BY <1>13, <1>14
<1>16. Takes(c, d, m)
  BY <1>1, <1>3, <1>11, <1>12, <1>13, <1>14, <1>15 DEF Takes, data
<1> QED BY <1>1, <1>16

\* What they tell.
LEMMA MsgsTell ==
    ASSUME NEW u \in Users, NEW c \in Servers, NEW p \in Positions, NEW t \in 1..MaxTime,
           NEW m, NEW k, m = LoginMsg(u, c, p, t), k = LeaveMsg(u, c, p, t)
    PROVE  /\ m \in Msg /\ k \in Msg
           /\ m.cmd = "LoginNotice" /\ k.cmd = "Disconnect"
           /\ \A v, x : SpeaksOf(m, v, x) <=> v = u /\ x = t
           /\ \A v, x : SpeaksOf(k, v, x) <=> v = u /\ x = t
           /\ \A v, q, x : LoginAt(m, v, q, x) => q = p
           /\ \A v, q, x : ~LoginAt(k, v, q, x)
           /\ LeaveAt(k, u, t) /\ LoginOf(m, u)
           /\ \A v : ~LeaveOf(m, v)
<1>1. PICK e \in Data : e = LoginData(u, c, p, t)
  BY DEF LoginData, Data
<1>2. e.user = u /\ e.pos = p /\ e.time = t
  BY <1>1 DEF LoginData
<1>3. m = [cmd |-> "LoginNotice", data |-> {e}] /\ k = [cmd |-> "Disconnect", data |-> {e}]
  BY <1>1 DEF LoginMsg, LeaveMsg
<1>4. m.cmd = "LoginNotice" /\ k.cmd = "Disconnect" /\ m.data = {e} /\ k.data = {e}
  BY <1>3
<1>5. m \in Msg /\ k \in Msg
  BY <1>3 DEF Msg
<1> QED BY <1>2, <1>4, <1>5 DEF SpeaksOf, LoginAt, LeaveAt, LoginOf, LeaveOf

\* Messages o, of login m and leave k, speak of one user and one second.
TellsOne(o, m, k, u, p, t) ==
    /\ o \in Seq(Msg)
    /\ \A v, x : Spoken(o, v, x) => v = u /\ x = t
    /\ Spoken(o, u, t)
    /\ \A i \in 1..Len(o) : SpeaksOf(o[i], u, t) /\ o[i].cmd \in {"LoginNotice", "Disconnect"}
    /\ \A v, q, x : LoginStands(o, v, q, x) => o = <<m>> /\ q = p
    /\ \A v : LeaveAlone(o, v) => o = <<k>>
    /\ o # <<k>> => Announced(o, u)

\* A login without a leave, a leave alone, and both.
LEMMA QueuesTell ==
    ASSUME NEW u \in Users, NEW c \in Servers, NEW p \in Positions, NEW t \in 1..MaxTime,
           NEW m, NEW k, m = LoginMsg(u, c, p, t), k = LeaveMsg(u, c, p, t),
           NEW o, o \in {<<m>>, <<k>>, <<m, k>>}
    PROVE  TellsOne(o, m, k, u, p, t)
<1>1. /\ m \in Msg /\ k \in Msg
      /\ m.cmd = "LoginNotice" /\ k.cmd = "Disconnect"
      /\ \A v, x : SpeaksOf(m, v, x) <=> v = u /\ x = t
      /\ \A v, x : SpeaksOf(k, v, x) <=> v = u /\ x = t
      /\ \A v, q, x : LoginAt(m, v, q, x) => q = p
      /\ \A v, q, x : ~LoginAt(k, v, q, x)
      /\ LeaveAt(k, u, t) /\ LoginOf(m, u)
      /\ \A v : ~LeaveOf(m, v)
  BY MsgsTell
<1>2. CASE o = <<m>>
  <2>1. Len(o) = 1 /\ o[1] = m /\ o \in Seq(Msg)
    BY <1>1, <1>2
  <2>2. 1..Len(o) = {1}
    BY <2>1
  <2>3. \A i \in 1..Len(o) : o[i] = m
    BY <2>1, <2>2
  <2>4. 1 \in 1..Len(o)
    BY <2>2
  <2> QED BY <1>1, <1>2, <2>1, <2>3, <2>4 DEF TellsOne, Spoken, LoginStands, LeaveAlone, Announced
<1>3. CASE o = <<k>>
  <2>1. Len(o) = 1 /\ o[1] = k /\ o \in Seq(Msg)
    BY <1>1, <1>3
  <2>2. 1..Len(o) = {1}
    BY <2>1
  <2>3. \A i \in 1..Len(o) : o[i] = k
    BY <2>1, <2>2
  <2>4. 1 \in 1..Len(o)
    BY <2>2
  <2> QED BY <1>1, <1>3, <2>1, <2>3, <2>4 DEF TellsOne, Spoken, LoginStands, LeaveAlone
<1>4. CASE o = <<m, k>>
  <2>1. Len(o) = 2 /\ o[1] = m /\ o[2] = k /\ o \in Seq(Msg)
    BY <1>1, <1>4
  <2>2. \A i \in 1..Len(o) : i = 1 \/ i = 2
    BY <2>1
  <2>3. 1 \in 1..Len(o) /\ 2 \in 1..Len(o) /\ 2 > 1 /\ 1 < 2
    BY <2>1
  <2>4. /\ \A v, x : Spoken(o, v, x) => v = u /\ x = t
        /\ Spoken(o, u, t) /\ Announced(o, u)
        /\ \A i \in 1..Len(o) : SpeaksOf(o[i], u, t) /\ o[i].cmd \in {"LoginNotice", "Disconnect"}
    BY <1>1, <2>1, <2>2, <2>3 DEF Spoken, Announced
  <2>5. ASSUME NEW v, NEW q, NEW x, LoginStands(o, v, q, x) PROVE FALSE
    <3>1. PICK i \in 1..Len(o) : /\ LoginAt(o[i], v, q, x)
                                 /\ \A j \in 1..Len(o) : j > i => ~LeaveAt(o[j], v, x)
      BY <2>5 DEF LoginStands
    <3>2. i = 1
      BY <3>1, <2>1, <2>2, <1>1
    <3>3. ~LeaveAt(k, v, x)
      BY <3>1, <3>2, <2>1, <2>3
    <3>4. v = u /\ x = t
      BY <2>4, <2>5, StandsSpoken
    <3> QED BY <3>3, <3>4, <1>1
  <2>6. ASSUME NEW v, LeaveAlone(o, v) PROVE FALSE
    <3>1. PICK i \in 1..Len(o) : /\ LeaveOf(o[i], v)
                                 /\ \A j \in 1..Len(o) : j < i => ~LoginOf(o[j], v)
      BY <2>6 DEF LeaveAlone
    <3>2. i = 2
      BY <3>1, <2>1, <2>2, <1>1
    <3>3. ~LoginOf(m, v)
      BY <3>1, <3>2, <2>1, <2>3
    <3>4. v = u
      BY <2>4, <2>6, StandsSpoken
    <3> QED BY <3>3, <3>4, <1>1
  <2> QED BY <2>1, <2>4, <2>5, <2>6 DEF TellsOne
<1> QED BY <1>2, <1>3, <1>4

\* A handler with nothing to say that leaves the entries alone.
LEMMA BecomeStill ==
    ASSUME IInv, NEW c \in Servers, NEW st, Become(c, c, st), st.gns = gns[c], st.out = << >>
    PROVE  UNCHANGED <<gns, net, lost, early>>
<1>1. gns' = [gns EXCEPT ![c] = gns[c]]
  BY DEF Become
<1>2. gns \in [Servers -> [Users -> EntryType \cup {None}]] /\ net \in [Servers -> [Servers -> Seq(Msg)]]
  BY DEF IInv, TypeInv, TypeOK
<1>3. gns' = gns
  BY <1>1, <1>2
<1>4. (\A b \in Servers : b # c => net'[c][b] = net[c][b]) /\ lost' = lost /\ early' = early
  BY BecomeSilent
<1>5. \A x, y \in Servers : x # c \/ y = c => net'[x][y] = net[x][y]
  BY BecomeAlone DEF Alone
<1>6. net' = [x \in Servers |-> [y \in Servers |-> net'[x][y]]]
  BY DEF Become, Send2Server
<1>7. net = [x \in Servers |-> [y \in Servers |-> net[x][y]]]
  BY <1>2
<1>8. \A x, y \in Servers : net'[x][y] = net[x][y]
  BY <1>4, <1>5
<1>9. net' = net
  BY <1>6, <1>7, <1>8
<1> QED BY <1>3, <1>4, <1>9

\* The entries and the history after u logged in or left at c.
Marks(c, u) ==
    /\ \A b \in Servers : b # c => gns'[b] = gns[b]
    /\ \A v \in Users : v # u => gns'[c][v] = gns[c][v]
    /\ gns'[c][u] # None /\ gns'[c][u].srv = c /\ gns'[c][u].time = now
    /\ <<u, now>> \notin stamps /\ stamps' = stamps \cup {<<u, now>>}
    /\ \A x, y \in Servers : x # c \/ y = c => net'[x][y] = net[x][y]
    /\ Recorded

\* The messages out fit the entry.
Fits(c, u, p, out, m, k) ==
    /\ out = <<m>> => gns'[c][u].active /\ gns'[c][u].pos = p
    /\ out = <<k>> => ~gns'[c][u].active /\ \E t \in 1..MaxTime : Here(c, u, t)

\* A message that the queue has not taken is missed by all.
LEMMA RestMissed ==
    ASSUME NEW c \in Servers, NEW u, NEW out \in Seq(Msg), NEW sent \in Taken(out),
           PutOut(c, out, sent), NEW i \in 1..Len(out), out[i] \notin Items(sent),
           NEW t, SpeaksOf(out[i], u, t)
    PROVE  Missed(c, u)
<1>1. i \in DOMAIN out
  OBVIOUS
<1>2. out[i] \in Items(out) \ Items(sent)
  BY <1>1 DEF Items
<1>3. \E e \in out[i].data : e.user = u
  BY DEF SpeaksOf
<1> QED BY <1>2, <1>3 DEF PutOut, Missed, Deaf

\* Something is not taken, unless all is.
LEMMA TakenRest ==
    ASSUME NEW m \in Msg, NEW k \in Msg, m # k, NEW out, out \in {<<m>>, <<k>>, <<m, k>>},
           NEW sent \in Taken(out)
    PROVE  sent = out \/ \E i \in 1..Len(out) : out[i] \notin Items(sent)
<1>1. ASSUME NEW x \in Msg, NEW y, y = <<x>> PROVE Len(y) = 1 /\ y[1] = x /\ DOMAIN y = {1} /\ Items(y) = {x}
  <2>1. Len(y) = 1 /\ y[1] = x /\ DOMAIN y = {1}
    BY <1>1
  <2> QED BY <2>1 DEF Items
<1>2. ASSUME NEW y, y = << >> PROVE Items(y) = {}
  BY <1>2 DEF Items
<1>3. ASSUME NEW x \in Msg, out = <<x>> PROVE sent = out \/ \E i \in 1..Len(out) : out[i] \notin Items(sent)
  <2>1. Len(out) = 1 /\ out[1] = x /\ DOMAIN out = {1}
    BY <1>1, <1>3
  <2>2. sent = out \/ sent = << >>
    BY <1>3, <2>1 DEF Taken
  <2>3. sent = << >> => Items(sent) = {}
    BY <1>2
  <2>4. 1 \in 1..Len(out)
    BY <2>1
  <2> QED BY <2>2, <2>3, <2>4
<1>4. ASSUME out = <<m, k>> PROVE sent = out \/ \E i \in 1..Len(out) : out[i] \notin Items(sent)
  <2>1. Len(out) = 2 /\ out[1] = m /\ out[2] = k /\ DOMAIN out = {1, 2}
    BY <1>4
  <2>2. sent = out \/ sent = << >> \/ sent = <<m>> \/ sent = <<k>>
    BY <2>1 DEF Taken
  <2>3. /\ sent = << >> => Items(sent) = {}
        /\ sent = <<m>> => Items(sent) = {m}
        /\ sent = <<k>> => Items(sent) = {k}
    BY <1>1, <1>2
  <2>4. 1 \in 1..Len(out) /\ 2 \in 1..Len(out)
    BY <2>1
  <2> QED BY <2>1, <2>2, <2>3, <2>4
<1> QED BY <1>3, <1>4

\* A login or a leave that is told, as far as the send queue takes it.
LEMMA SpeaksOut ==
    ASSUME IInv, NEW c \in Servers, NEW u \in Users, NEW p \in Positions, Marks(c, u),
           NEW m, NEW k, m = LoginMsg(u, c, p, now), k = LeaveMsg(u, c, p, now),
           NEW out, out \in {<<m>>, <<k>>, <<m, k>>}, gns'[c][u].active => out # <<k>>,
           Fits(c, u, p, out, m, k),
           NEW sent \in Taken(out), PutOut(c, out, sent)
    PROVE  Speaks(c, u, sent)
<1>t. now \in 1..MaxTime
  BY DEF IInv, TypeInv, TypeOK
<1>1. TellsOne(out, m, k, u, p, now)
  BY <1>t, QueuesTell
<1>2. m \in Msg /\ k \in Msg /\ m # k
  <2>1. m \in Msg /\ k \in Msg /\ m.cmd = "LoginNotice" /\ k.cmd = "Disconnect"
    BY <1>t, MsgsTell
  <2> QED BY <2>1
<1>3. CASE sent = out
  <2>1. /\ out \in Seq(Msg)
        /\ \A v, x : Spoken(out, v, x) => v = u /\ x = now
        /\ Spoken(out, u, now)
        /\ \A i \in 1..Len(out) : out[i].cmd \in {"LoginNotice", "Disconnect"}
        /\ gns'[c][u].active => Announced(out, u)
    BY <1>1 DEF TellsOne
  <2>2. \A q : LoginStands(out, u, q, now) => gns'[c][u].active /\ gns'[c][u].pos = q
    BY <1>1 DEF TellsOne, Fits
  <2>3. LeaveAlone(out, u) => \E t \in 1..MaxTime : Here(c, u, t)
    BY <1>1 DEF TellsOne, Fits
  <2> QED BY <1>3, <2>1, <2>2, <2>3 DEF Speaks, Marks, PutOut
<1>4. CASE sent # out
  <2>1. PICK i \in 1..Len(out) : out[i] \notin Items(sent)
    BY <1>2, <1>4, TakenRest
  <2>2. SpeaksOf(out[i], u, now) /\ out \in Seq(Msg)
    BY <1>1 DEF TellsOne
  <2>3. Missed(c, u)
    BY <2>1, <2>2, RestMissed
  <2>4. sent \in Seq(Msg) /\ \A j \in 1..Len(sent) : \E n \in 1..Len(out) : sent[j] = out[n]
    BY <2>2, TakenIs
  <2>5. /\ \A v, x : Spoken(sent, v, x) => v = u /\ x = now
        /\ \A j \in 1..Len(sent) : sent[j].cmd \in {"LoginNotice", "Disconnect"}
    BY <1>1, <2>4 DEF TellsOne, Spoken
  <2> QED BY <2>3, <2>4, <2>5 DEF Speaks, Marks, PutOut
<1> QED BY <1>3, <1>4

\* A connection ends.
LEMMA CloseTold ==
    ASSUME IInv, IInv', Told, ~tied', NEW c \in Servers, NEW p \in Positions, CloseConn(c, p)
    PROVE  Told'
<1>1. PICK st : st = ReleaseConn(c, State(c), p, TRUE)
  OBVIOUS
<1>2. Become(c, c, st) /\ now' = now
  BY <1>1 DEF CloseConn
<1>3. PICK b : b = TRUE
  OBVIOUS
<1>4. st = ReleaseConn(c, State(c), p, b)
  BY <1>1, <1>3, Zenon
<1>5. /\ Sane(c, State(c)) /\ State(c).conn = conn[c] /\ State(c).gns = gns[c] /\ State(c).out = << >>
      /\ now \in 1..MaxTime
  BY StateIs
<1>6. CASE conn[c][p] \notin Users
  <2>1. st.gns = gns[c] /\ st.out = << >>
    BY <1>4, <1>5, <1>6, ReleaseNobody
  <2>2. stamps' = stamps
    BY <1>6 DEF CloseConn
  <2> QED BY <1>2, <2>1, <2>2, BecomeStill, StillTold
<1>7. CASE conn[c][p] \in Users
  <2>1. PICK u \in Users : u = conn[c][p]
    BY <1>7
  <2>2. /\ st.gns[u] # None /\ ~st.gns[u].active /\ st.gns[u].srv = c /\ st.gns[u].time = now
        /\ \A v \in Users : v # u => st.gns[v] = State(c).gns[v]
    BY <1>4, <1>5, <2>1, ReleaseUser
  <2>3. PICK m : m = LoginMsg(u, c, p, now)
    OBVIOUS
  <2>4. PICK k : k = LeaveMsg(u, c, p, now)
    OBVIOUS
  <2>5. PICK o : o = <<k>>
    OBVIOUS
  <2>6. st.out = o
    <3>1. PICK s : s = State(c)
      OBVIOUS
    <3>2. s.conn[p] = u /\ s.out = << >>
      BY <3>1, <1>5, <2>1
    <3>3. st = ReleaseConn(c, s, p, TRUE)
      BY <1>1, <3>1, Zenon
    <3>4. st.out = Append(s.out, k)
      BY <3>2, <3>3, <2>4 DEF ReleaseConn, LeaveMsg
    <3> QED BY <3>2, <3>4, <2>5
  <2>8. o # <<m>>
    <3>1. m # k
      BY <2>3, <2>4 DEF LoginMsg, LeaveMsg
    <3> QED BY <2>5, <3>1
  <2>9. Here(c, u, gns[c][u].time) /\ gns[c][u].time \in 1..MaxTime
    <3>1. gns[c][u] # None /\ gns[c][u].active /\ gns[c][u].srv = c
      BY <2>1 DEF IInv, RegistryMatchesConns, Session, ActiveHere
    <3> QED BY <3>1, EntryTime DEF Here
  <2>10. <<u, now>> \notin stamps /\ stamps' = stamps \cup {<<u, now>>}
    BY <1>7, <2>1 DEF CloseConn, Stamp
  <2>11. /\ gns'[c] = st.gns /\ \A a \in Servers : a # c => gns'[a] = gns[a]
         /\ \A x, y \in Servers : x # c \/ y = c => net'[x][y] = net[x][y]
         /\ Recorded
    BY <1>2, BecomeAlone DEF Alone
  <2>12. PICK sent \in Taken(o) : PutOut(c, o, sent)
    <3>1. \E sent \in Taken(st.out) : PutOut(c, st.out, sent)
      BY <1>2, BecomeAlone
    <3> QED BY <2>6, <3>1
  <2>13. Marks(c, u)
    BY <1>5, <2>2, <2>10, <2>11 DEF Marks
  <2>14. Fits(c, u, p, o, m, k) /\ ~gns'[c][u].active
    BY <2>2, <2>8, <2>9, <2>11 DEF Fits
  <2>15. Speaks(c, u, sent)
    BY <2>3, <2>4, <2>5, <2>12, <2>13, <2>14, SpeaksOut
  <2> QED BY <1>2, <2>15, SpeaksTold
<1> QED BY <1>6, <1>7

\* Auth lets a user in.
LEMMA LoginOkTold ==
    ASSUME IInv, IInv', Told, ~tied', NEW c \in Servers, NEW r \in rsp[c], NEW sent \in BOOLEAN,
           conn[c][r[1]] # Closed, LoginRsp(c, r, TRUE, sent)
    PROVE  Told'
<1>t. rsp \in [Servers -> SUBSET (Positions \X Users \X Nat)]
  BY DEF IInv, TypeInv
<1>p. PICK p \in Positions : p = r[1]
  BY <1>t
<1>u. PICK u \in Users : u = r[2]
  BY <1>t
<1>0. /\ Sane(c, State(c)) /\ State(c).conn = conn[c] /\ State(c).gns = gns[c]
      /\ State(c).out = << >> /\ now \in 1..MaxTime /\ AskedOk(conn[c], posCnt[c], rsp[c])
  BY StateIs
<1>1. PICK s1 : s1 = LoginHere(c, State(c), p, u)
  OBVIOUS
<1>2. State(c).conn[p] \notin Users
  BY <1>0, <1>p, ConstFacts DEF AskedOk
<1>l. LoggedIn(c, State(c), p, u, s1)
  BY <1>0, <1>1, <1>2, LoginIs
<1>3. PICK m : m = LoginMsg(u, c, p, now)
  OBVIOUS
<1>4. PICK k : k = LeaveMsg(u, c, p, now)
  OBVIOUS
<1>5. PICK n : n = Entry(c, p, TRUE, now)
  OBVIOUS
<1>6. Sane(c, s1) /\ s1.conn[p] = u /\ s1.gns[u] = n /\ s1.out = <<m>>
  BY <1>l, <1>3, <1>5, Zenon DEF LoggedIn, LoginMsg
<1>7. \A v \in Users : v # u => s1.gns[v] = gns[c][v]
  BY <1>l, <1>0 DEF LoggedIn
<1>8. n # None /\ n.active /\ n.srv = c /\ n.pos = p /\ n.time = now
  <2>1. n = [srv |-> c, pos |-> p, active |-> TRUE, time |-> now]
    BY <1>5 DEF Entry
  <2>2. n \in EntryType
    BY <2>1, <1>0 DEF EntryType
  <2> QED BY <2>1, <2>2, ConstFacts
<1>9. PICK st : st = IF ~sent /\ s1.conn[p] # Closed THEN ReleaseConn(c, s1, p, TRUE) ELSE s1
  OBVIOUS
<1>10. Become(c, c, st) /\ now' = now /\ Stamp(u)
  BY <1>p, <1>u, <1>1, <1>9, Zenon DEF LoginRsp
<1>11. <<u, now>> \notin stamps /\ stamps' = stamps \cup {<<u, now>>}
  BY <1>10 DEF Stamp
\* the answer may not reach the client: he has left again
<1>12. PICK o : o = IF sent THEN <<m>> ELSE <<m, k>>
  OBVIOUS
<1>13. /\ st.out = o /\ st.gns[u] # None /\ st.gns[u].srv = c /\ st.gns[u].time = now
       /\ \A v \in Users : v # u => st.gns[v] = gns[c][v]
       /\ sent => st.gns[u].active /\ st.gns[u].pos = p
       /\ ~sent => ~st.gns[u].active
  <2>1. CASE sent
    <3>1. st = s1 /\ o = <<m>>
      BY <2>1, <1>9, <1>12
    <3> QED BY <2>1, <3>1, <1>6, <1>7, <1>8
  <2>2. CASE ~sent
    <3>1. PICK b : b = TRUE
      OBVIOUS
    <3>2. s1.conn[p] # Closed
      BY <1>6, ConstFacts
    <3>3. st = ReleaseConn(c, s1, p, TRUE) /\ o = <<m, k>>
      BY <2>2, <3>2, <1>9, <1>12
    <3>4. st = ReleaseConn(c, s1, p, b)
      BY <3>1, <3>3, Zenon
    <3>5. /\ st.gns[u] # None /\ ~st.gns[u].active /\ st.gns[u].srv = c /\ st.gns[u].time = now
          /\ \A v \in Users : v # u => st.gns[v] = s1.gns[v]
      BY <3>4, <1>0, <1>6, ReleaseUser
    <3>6. st.out = Append(s1.out, k)
      BY <3>3, <1>4, <1>6 DEF ReleaseConn, LeaveMsg
    <3>7. st.out = <<m, k>>
      <4>1. m \in Msg /\ k \in Msg
        BY <1>0, <1>3, <1>4, MsgsTell
      <4>2. PICK q : q = Append(<<m>>, k)
        OBVIOUS
      <4>3. q \in Seq(Msg) /\ Len(q) = 2 /\ q[1] = m /\ q[2] = k
        BY <4>1, <4>2
      <4>4. PICK w : w = <<m, k>>
        OBVIOUS
      <4>5. w \in Seq(Msg) /\ Len(w) = 2 /\ w[1] = m /\ w[2] = k
        BY <4>1, <4>4
      <4>6. \A i \in 1..Len(q) : q[i] = w[i]
        BY <4>3, <4>5
      <4>7. q = w
        BY <4>3, <4>5, <4>6, SeqEqual
      <4> QED BY <3>6, <1>6, <4>2, <4>4, <4>7
    <3> QED BY <2>2, <3>3, <3>5, <3>7, <1>7
  <2> QED BY <2>1, <2>2
<1>14. o \in {<<m>>, <<m, k>>} /\ (sent <=> o = <<m>>) /\ o # <<k>>
  <2>1. m # k
    BY <1>3, <1>4 DEF LoginMsg, LeaveMsg
  <2>2. <<m, k>> # <<m>> /\ <<m, k>> # <<k>> /\ <<m>> # <<k>>
    <3>1. Len(<<m, k>>) = 2 /\ Len(<<m>>) = 1 /\ Len(<<k>>) = 1 /\ <<m>>[1] = m /\ <<k>>[1] = k
      OBVIOUS
    <3> QED BY <2>1, <3>1
  <2> QED BY <1>12, <2>2
<1>16. /\ gns'[c] = st.gns /\ \A a \in Servers : a # c => gns'[a] = gns[a]
       /\ \A x, y \in Servers : x # c \/ y = c => net'[x][y] = net[x][y]
       /\ Recorded
  <2>1. Alone(c, st)
    BY <1>10, BecomeAlone, Zenon
  <2> QED BY <2>1 DEF Alone
<1>17. PICK took \in Taken(o) : PutOut(c, o, took)
  <2>1. \E took \in Taken(st.out) : PutOut(c, st.out, took)
    BY <1>10, BecomeAlone, Zenon
  <2> QED BY <1>13, <2>1
<1>18. Marks(c, u)
  BY <1>11, <1>13, <1>16 DEF Marks
<1>19. Fits(c, u, p, o, m, k)
  BY <1>13, <1>14, <1>16 DEF Fits
<1>20. Speaks(c, u, took)
  BY <1>3, <1>4, <1>14, <1>17, <1>18, <1>19, SpeaksOut
<1> QED BY <1>10, <1>20, SpeaksTold

\* The answer of auth.
LEMMA LoginRspTold ==
    ASSUME IInv, IInv', Told, ~tied', NEW c \in Servers, NEW r \in rsp[c],
           NEW ok \in BOOLEAN, NEW sent \in BOOLEAN, LoginRsp(c, r, ok, sent)
    PROVE  Told'
<1>t. rsp \in [Servers -> SUBSET (Positions \X Users \X Nat)]
  BY DEF IInv, TypeInv
<1>p. PICK p \in Positions : p = r[1]
  BY <1>t
<1>0. /\ State(c).conn = conn[c] /\ State(c).gns = gns[c] /\ State(c).out = << >>
      /\ AskedOk(conn[c], posCnt[c], rsp[c])
  BY StateIs
<1>1. CASE conn[c][p] = Closed
  <2>1. UNCHANGED <<gns, net, stamps, lost, early>>
    BY <1>1, <1>p DEF LoginRsp
  <2> QED BY <2>1, StillTold
<1>2. CASE conn[c][p] # Closed /\ ok
  <2>1. LoginRsp(c, r, TRUE, sent)
    BY <1>2
  <2> QED BY <2>1, <1>2, <1>p, LoginOkTold
<1>3. CASE conn[c][p] # Closed /\ ~ok
  <2>1. PICK st : st = IF ~sent /\ State(c).conn[p] # Closed
                       THEN ReleaseConn(c, State(c), p, TRUE) ELSE State(c)
    OBVIOUS
  <2>2. Become(c, c, st) /\ stamps' = stamps
    BY <2>1, <1>3, <1>p, Zenon DEF LoginRsp
  <2>3. State(c).conn[p] \notin Users
    BY <1>0, <1>p, ConstFacts DEF AskedOk
  <2>4. st.gns = gns[c] /\ st.out = << >>
    <3>1. PICK b : b = TRUE
      OBVIOUS
    <3>2. st = State(c) \/ st = ReleaseConn(c, State(c), p, b)
      BY <3>1, <2>1, Zenon
    <3> QED BY <3>2, <2>3, <1>0, ReleaseNobody
  <2> QED BY <2>2, <2>4, BecomeStill, StillTold
<1> QED BY <1>1, <1>2, <1>3

-----------------------------------------------------------------------------
(* A message is lost, or comes early *)

\* Queues q and r say the same about u.
SameOf(q, r, u) ==
    /\ \A t : Spoken(q, u, t) <=> Spoken(r, u, t)
    /\ \A t : Left(q, u, t) <=> Left(r, u, t)
    /\ Announced(q, u) <=> Announced(r, u)
    /\ \A p, t : LoginStands(q, u, p, t) <=> LoginStands(r, u, p, t)
    /\ LeaveAlone(q, u) <=> LeaveAlone(r, u)

\* Message m is about u.
About(m, u) == \E e \in m.data : e.user = u

\* Sequence w has the messages of q but for number k, in the same order.
Embedded(q, k, w, f) ==
    /\ \A i \in 1..Len(w) : f[i] \in 1..Len(q) /\ w[i] = q[f[i]]
    /\ \A i, j \in 1..Len(w) : i < j <=> f[i] < f[j]
    /\ \A n \in 1..Len(q) : n = k \/ \E i \in 1..Len(w) : n = f[i]

\* Where the messages of the rest are in the queue.
LEMMA WithoutEmbeds ==
    ASSUME NEW q \in Seq(Msg), NEW k \in DOMAIN q, NEW w, w = Without(q, k)
    PROVE  \E f : Embedded(q, k, w, f)
<1>1. /\ w \in Seq(Msg) /\ Len(q) \in Nat /\ Len(w) = Len(q) - 1 /\ k \in 1..Len(q)
      /\ \A i \in 1..Len(w) : w[i] = IF i < k THEN q[i] ELSE q[i + 1]
  BY WithoutIs
<1>2. PICK n \in Nat : n = Len(w) /\ Len(q) = n + 1
  BY <1>1
<1>3. PICK f : f = [i \in 1..n |-> IF i < k THEN i ELSE i + 1]
  OBVIOUS
<1>4. \A i \in 1..n : f[i] = IF i < k THEN i ELSE i + 1
  BY <1>3
<1>5. \A i \in 1..n : f[i] \in 1..(n + 1) /\ w[i] = q[f[i]]
  BY <1>1, <1>2, <1>4
<1>6. \A i, j \in 1..n : i < j <=> f[i] < f[j]
  BY <1>1, <1>4
<1>7. ASSUME NEW x \in 1..(n + 1), x # k PROVE \E i \in 1..n : x = f[i]
  <2>1. CASE x < k
    <3>1. x \in 1..n
      BY <2>1, <1>1, <1>2
    <3> QED BY <2>1, <3>1, <1>4
  <2>2. CASE x > k
    <3>1. x - 1 \in 1..n /\ ~(x - 1 < k) /\ (x - 1) + 1 = x
      BY <2>2, <1>1, <1>2
    <3> QED BY <3>1, <1>4
  <2> QED BY <2>1, <2>2, <1>1, <1>2, <1>7
<1> QED BY <1>2, <1>5, <1>6, <1>7 DEF Embedded

\* The rest of the queue says the same of the users its message was not about.
LEMMA RestSame ==
    ASSUME NEW q \in Seq(Msg), NEW k \in DOMAIN q, NEW w, w = Without(q, k),
           NEW u, ~About(q[k], u)
    PROVE  SameOf(q, w, u)
<1>1. PICK f : Embedded(q, k, w, f)
  BY WithoutEmbeds
<1>2. /\ \A i \in 1..Len(w) : f[i] \in 1..Len(q) /\ w[i] = q[f[i]]
      /\ \A i, j \in 1..Len(w) : i < j <=> f[i] < f[j]
      /\ \A n \in 1..Len(q) : n = k \/ \E i \in 1..Len(w) : n = f[i]
  BY <1>1 DEF Embedded
<1>3. /\ \A t : ~SpeaksOf(q[k], u, t) /\ ~LeaveAt(q[k], u, t)
      /\ \A p, t : ~LoginAt(q[k], u, p, t)
      /\ ~LoginOf(q[k], u) /\ ~LeaveOf(q[k], u)
  BY DEF About, SpeaksOf, LeaveAt, LoginAt, LoginOf, LeaveOf
<1>4. \A t : Spoken(q, u, t) <=> Spoken(w, u, t)
  BY <1>2, <1>3 DEF Spoken
<1>5. \A t : Left(q, u, t) <=> Left(w, u, t)
  BY <1>2, <1>3 DEF Left
<1>6. Announced(q, u) <=> Announced(w, u)
  BY <1>2, <1>3 DEF Announced
<1>g. \A i, j : i < j <=> j > i
  OBVIOUS
<1>7. ASSUME NEW p, NEW t PROVE LoginStands(q, u, p, t) <=> LoginStands(w, u, p, t)
  <2>1. ASSUME LoginStands(q, u, p, t) PROVE LoginStands(w, u, p, t)
    <3>1. PICK n \in 1..Len(q) : /\ LoginAt(q[n], u, p, t)
                                 /\ \A j \in 1..Len(q) : j > n => ~LeaveAt(q[j], u, t)
      BY <2>1 DEF LoginStands
    <3>2. PICK i \in 1..Len(w) : n = f[i]
      BY <3>1, <1>2, <1>3
    <3>3. ASSUME NEW j \in 1..Len(w), j > i PROVE ~LeaveAt(w[j], u, t)
      <4>1. f[j] \in 1..Len(q) /\ f[j] > n /\ w[j] = q[f[j]]
        BY <3>2, <3>3, <1>2, <1>g
      <4> QED BY <3>1, <4>1
    <3> QED BY <3>1, <3>2, <3>3, <1>2 DEF LoginStands
  <2>2. ASSUME LoginStands(w, u, p, t) PROVE LoginStands(q, u, p, t)
    <3>1. PICK i \in 1..Len(w) : /\ LoginAt(w[i], u, p, t)
                                 /\ \A j \in 1..Len(w) : j > i => ~LeaveAt(w[j], u, t)
      BY <2>2 DEF LoginStands
    <3>2. ASSUME NEW n \in 1..Len(q), n > f[i] PROVE ~LeaveAt(q[n], u, t)
      <4>1. CASE n = k
        BY <4>1, <1>3
      <4>2. ASSUME NEW j \in 1..Len(w), n = f[j] PROVE ~LeaveAt(q[n], u, t)
        BY <3>1, <3>2, <4>2, <1>2, <1>g
      <4> QED BY <4>1, <4>2, <1>2
    <3> QED BY <3>1, <3>2, <1>2 DEF LoginStands
  <2> QED BY <2>1, <2>2
<1>8. LeaveAlone(q, u) <=> LeaveAlone(w, u)
  <2>1. ASSUME LeaveAlone(q, u) PROVE LeaveAlone(w, u)
    <3>1. PICK n \in 1..Len(q) : /\ LeaveOf(q[n], u)
                                 /\ \A j \in 1..Len(q) : j < n => ~LoginOf(q[j], u)
      BY <2>1 DEF LeaveAlone
    <3>2. PICK i \in 1..Len(w) : n = f[i]
      BY <3>1, <1>2, <1>3
    <3>3. ASSUME NEW j \in 1..Len(w), j < i PROVE ~LoginOf(w[j], u)
      <4>1. f[j] \in 1..Len(q) /\ f[j] < n /\ w[j] = q[f[j]]
        BY <3>2, <3>3, <1>2
      <4> QED BY <3>1, <4>1
    <3> QED BY <3>1, <3>2, <3>3, <1>2 DEF LeaveAlone
  <2>2. ASSUME LeaveAlone(w, u) PROVE LeaveAlone(q, u)
    <3>1. PICK i \in 1..Len(w) : /\ LeaveOf(w[i], u)
                                 /\ \A j \in 1..Len(w) : j < i => ~LoginOf(w[j], u)
      BY <2>2 DEF LeaveAlone
    <3>2. ASSUME NEW n \in 1..Len(q), n < f[i] PROVE ~LoginOf(q[n], u)
      <4>1. CASE n = k
        BY <4>1, <1>3
      <4>2. ASSUME NEW j \in 1..Len(w), n = f[j] PROVE ~LoginOf(q[n], u)
        BY <3>1, <3>2, <4>2, <1>2
      <4> QED BY <4>1, <4>2, <1>2
    <3> QED BY <3>1, <3>2, <1>2 DEF LeaveAlone
  <2> QED BY <2>1, <2>2
<1> QED BY <1>4, <1>5, <1>6, <1>7, <1>8 DEF SameOf

\* So does the queue with the message in front.
LEMMA FrontSame ==
    ASSUME NEW q \in Seq(Msg), NEW k \in DOMAIN q, NEW r, r = <<q[k]>> \o Without(q, k),
           NEW u, ~About(q[k], u)
    PROVE  SameOf(q, r, u)
<1>1. PICK w : w = Without(q, k)
  OBVIOUS
<1>2. Fronted(q, k, r)
  BY InFront, Zenon
<1>3. PICK h \in DOMAIN r : h = 1
  BY <1>2 DEF Fronted
<1>4. r \in Seq(Msg) /\ w = Without(r, h) /\ r[h] = q[k]
  BY <1>1, <1>2, <1>3 DEF Fronted
<1>5. SameOf(q, w, u)
  BY <1>1, RestSame
<1>6. ~About(r[h], u)
  BY <1>4
<1>7. SameOf(r, w, u)
  BY <1>4, <1>6, RestSame, Zenon
<1> QED BY <1>5, <1>7 DEF SameOf

\* The queue from x to y is another one; y missed something about the users
\* of whom it does not say the same.
Rearranged(x, y) ==
    /\ \A a, b \in Servers : a # x \/ b # y => net'[a][b] = net[a][b]
    /\ \A i \in 1..Len(net'[x][y]) : \E j \in 1..Len(net[x][y]) : net'[x][y][i] = net[x][y][j]
    /\ \A u \in Users : Deaf(y, u)' \/ SameOf(net[x][y], net'[x][y], u)
    /\ Recorded /\ gns' = gns /\ stamps' = stamps

\* The invariant after that.
LEMMA RearrangedTold ==
    ASSUME IInv, IInv', Told, NEW x \in Servers, NEW y \in Servers, Rearranged(x, y)
    PROVE  Told'
<1>1. ASSUME NEW a \in Servers, NEW b \in Servers, NEW u \in Users
      PROVE  Deaf(b, u)' \/ SameOf(net[a][b], net'[a][b], u)
  <2>1. CASE a = x /\ b = y
    BY <2>1 DEF Rearranged
  <2>2. CASE a # x \/ b # y
    BY <2>2 DEF Rearranged, SameOf
  <2> QED BY <2>1, <2>2
<1>2. ASSUME NEW a \in Servers, NEW b \in Servers, NEW u, NEW t, Spoken(net'[a][b], u, t)
      PROVE  Spoken(net[a][b], u, t)
  <2>1. CASE a = x /\ b = y
    BY <1>2, <2>1 DEF Rearranged, Spoken
  <2>2. CASE a # x \/ b # y
    BY <1>2, <2>2 DEF Rearranged
  <2> QED BY <2>1, <2>2
<1>3. gns' = gns /\ stamps' = stamps /\ Recorded
  BY DEF Rearranged
<1>4. Grows
  BY <1>3 DEF Grows
<1>5. Heeded
  BY <1>1 DEF Heeded, SameOf
<1>v. \A b \in Servers : \A u \in Users : Deaf(b, u) => Deaf(b, u)'
  BY <1>3, DeafStays
<1>w. \A b \in Servers : \A u \in Users : \A t \in 1..MaxTime : Deaf(b, u)' => Newer(b, u, t)'
  BY DEF Newer
<1>l. ASSUME NEW s \in Servers, NEW b \in Servers, NEW u \in Users, NEW p \in Positions, NEW t \in 1..MaxTime,
             Live(s, u, p, t) \/ Newer(b, u, t)
      PROVE  Live(s, u, p, t)' \/ Newer(b, u, t)'
  <2>1. Live(s, u, p, t) => Live(s, u, p, t)'
    BY <1>3 DEF Live, Names
  <2> QED BY <2>1, <1>l, <1>3, <1>4, <1>5, NewerStays
<1>6. EntryReal'
  <2> SUFFICES ASSUME NEW b \in Servers, NEW s \in Servers, NEW u \in Users, NEW p \in Positions,
                      NEW t \in 1..MaxTime,
                      Names(gns'[b][u], s, p), gns'[b][u].time = t
               PROVE  Live(s, u, p, t)' \/ Newer(b, u, t)' \/ Left(net'[s][b], u, t)
    BY DEF EntryReal, Names, Left
  <2>1. Live(s, u, p, t) \/ Newer(b, u, t) \/ Left(net[s][b], u, t)
    BY <1>3 DEF Told, EntryReal
  <2>2. Left(net[s][b], u, t) => Left(net'[s][b], u, t) \/ Deaf(b, u)'
    BY <1>1 DEF SameOf
  <2> QED BY <2>1, <2>2, <1>l, <1>w
<1>7. NoticeReal'
  <2> SUFFICES ASSUME NEW b \in Servers, NEW s \in Servers, NEW u \in Users, NEW p \in Positions,
                      NEW t \in 1..MaxTime, LoginStands(net'[s][b], u, p, t)
               PROVE  Live(s, u, p, t)' \/ Newer(b, u, t)'
    BY DEF NoticeReal, LoginStands
  <2>1. LoginStands(net[s][b], u, p, t) \/ Deaf(b, u)'
    BY <1>1 DEF SameOf
  <2> QED BY <2>1, <1>l, <1>w DEF Told, NoticeReal
<1>8. LeaveHeard'
  <2> SUFFICES ASSUME NEW b \in Servers, NEW a \in Servers, NEW u \in Users, LeaveAlone(net'[a][b], u)
               PROVE  gns'[b][u] # None \/ Deaf(b, u)'
    BY DEF LeaveHeard, LeaveAlone
  <2>1. LeaveAlone(net[a][b], u) \/ Deaf(b, u)'
    BY <1>1 DEF SameOf
  <2> QED BY <2>1, <1>3, <1>v DEF Told, LeaveHeard
<1>9. LoginHeard'
  <2> SUFFICES ASSUME NEW b \in Servers, NEW s \in Servers, NEW u \in Users, NEW t \in 1..MaxTime,
                      Here(s, u, t)', b # s
               PROVE  gns'[b][u] # None \/ Announced(net'[s][b], u) \/ Deaf(b, u)'
    BY DEF LoginHeard, Here, Announced
  <2>1. Here(s, u, t)
    BY <1>3 DEF Here
  <2>2. gns[b][u] # None \/ Announced(net[s][b], u) \/ Deaf(b, u)
    BY <2>1 DEF Told, LoginHeard
  <2>3. Announced(net[s][b], u) => Announced(net'[s][b], u) \/ Deaf(b, u)'
    BY <1>1 DEF SameOf
  <2> QED BY <2>2, <2>3, <1>3, <1>v
<1>10. AllReached'
  <2> SUFFICES ASSUME NEW a \in Servers, NEW b \in Servers, NEW d \in Servers, NEW u \in Users,
                      NEW t \in 1..MaxTime, Spoken(net'[d][a], u, t)
               PROVE  Reached(d, b, u, t)'
    BY DEF AllReached, Spoken
  <2>1. Reached(d, b, u, t)
    BY <1>2 DEF Told, AllReached
  <2> QED BY <2>1, <1>3, <1>4, <1>5, ReachedStays
<1>o. ASSUME NEW s \in Servers, NEW u \in Users, NEW t, Owns(s, u, t)' PROVE Owns(s, u, t)
  <2>1. Here(s, u, t)' \/ \E b \in Servers : Spoken(net'[s][b], u, t)
    BY <1>o DEF Owns, Here, Spoken
  <2>2. Here(s, u, t)' => Here(s, u, t)
    BY <1>3 DEF Here
  <2> QED BY <2>1, <2>2, <1>2 DEF Owns
<1>11. Stamped'
  <2> SUFFICES ASSUME NEW s \in Servers, NEW u \in Users, NEW t \in 1..MaxTime, Owns(s, u, t)'
               PROVE  <<u, t>> \in stamps'
    BY DEF Stamped, Owns, Here, Spoken
  <2>1. Owns(s, u, t)
    BY <1>o
  <2> QED BY <2>1, <1>3 DEF Told, Stamped
<1>12. OneOwner'
  <2> SUFFICES ASSUME NEW s \in Servers, NEW d \in Servers, NEW u \in Users, NEW t \in 1..MaxTime,
                      Owns(s, u, t)', Owns(d, u, t)'
               PROVE  s = d
    BY DEF OneOwner, Owns, Here, Spoken
  <2>1. Owns(s, u, t) /\ Owns(d, u, t)
    BY <1>o
  <2> QED BY <2>1 DEF Told, OneOwner
<1>13. NoSync'
  <2> SUFFICES ASSUME NEW a \in Servers, NEW b \in Servers, NEW i \in 1..Len(net'[a][b])
               PROVE  net'[a][b][i].cmd \in {"LoginNotice", "Disconnect"}
    BY DEF NoSync
  <2>1. \E j \in 1..Len(net[a][b]) : net'[a][b][i] = net[a][b][j]
    BY DEF Rearranged
  <2> QED BY <2>1 DEF Told, NoSync
<1> QED BY <1>6, <1>7, <1>8, <1>9, <1>10, <1>11, <1>12, <1>13 DEF Told

\* A message is lost.
LEMMA LoseTold ==
    ASSUME IInv, IInv', Told, NEW c \in Servers, NEW d \in Servers, NEW k \in DOMAIN net[c][d],
           Lose(c, d, k)
    PROVE  Told'
<1>t. /\ net \in [Servers -> [Servers -> Seq(Msg)]]
      /\ lost \in [Servers -> [Servers -> SUBSET Msg]]
  BY DEF IInv, TypeInv
<1>1. PICK q \in Seq(Msg) : q = net[c][d]
  BY <1>t
<1>2. PICK r : r = Without(q, k)
  OBVIOUS
<1>3. /\ net' = [net EXCEPT ![c][d] = r] /\ lost' = [lost EXCEPT ![c][d] = @ \cup {q[k]}]
      /\ gns' = gns /\ stamps' = stamps /\ early' = early
  BY <1>1, <1>2, <1>t DEF Lose
<1>4. /\ net'[c][d] = r /\ \A a, b \in Servers : a # c \/ b # d => net'[a][b] = net[a][b]
      /\ q[k] \in lost'[c][d]
  BY <1>3, <1>t
<1>5. Recorded
  BY <1>3, <1>t DEF Recorded
<1>6. \A i \in 1..Len(r) : \E j \in 1..Len(q) : r[i] = q[j]
  BY <1>1, <1>2, WithoutTells
<1>7. ASSUME NEW u \in Users PROVE Deaf(d, u)' \/ SameOf(q, r, u)
  <2>1. CASE About(q[k], u)
    BY <2>1, <1>4 DEF About, Deaf
  <2>2. CASE ~About(q[k], u)
    BY <2>2, <1>1, <1>2, RestSame
  <2> QED BY <2>1, <2>2
<1>8. Rearranged(c, d)
  BY <1>1, <1>3, <1>4, <1>5, <1>6, <1>7 DEF Rearranged
<1> QED BY <1>8, RearrangedTold

\* A message overtakes others.
LEMMA OvertakeTold ==
    ASSUME IInv, IInv', Told, NEW c \in Servers, NEW d \in Servers, NEW k \in DOMAIN net[c][d],
           Overtake(c, d, k)
    PROVE  Told'
<1>t. /\ net \in [Servers -> [Servers -> Seq(Msg)]]
      /\ early \in [Servers -> [Servers -> SUBSET Msg]]
  BY DEF IInv, TypeInv
<1>1. PICK q \in Seq(Msg) : q = net[c][d]
  BY <1>t
<1>k. k \in DOMAIN q
  BY <1>1
<1>2. PICK r : r = <<q[k]>> \o Without(q, k)
  OBVIOUS
<1>3. /\ net' = [net EXCEPT ![c][d] = r] /\ early' = [early EXCEPT ![c][d] = @ \cup {q[k]}]
      /\ gns' = gns /\ stamps' = stamps /\ lost' = lost
  BY <1>1, <1>2, <1>t DEF Overtake
<1>4. /\ net'[c][d] = r /\ \A a, b \in Servers : a # c \/ b # d => net'[a][b] = net[a][b]
      /\ q[k] \in early'[c][d]
  BY <1>3, <1>t
<1>5. Recorded
  BY <1>3, <1>t DEF Recorded
<1>6. \A i \in 1..Len(r) : \E j \in 1..Len(q) : r[i] = q[j]
  <2>1. Fronted(q, k, r)
    BY <1>k, <1>2, InFront, Zenon
  <2> QED BY <2>1 DEF Fronted
<1>7. ASSUME NEW u \in Users PROVE Deaf(d, u)' \/ SameOf(q, r, u)
  <2>1. CASE About(q[k], u)
    BY <2>1, <1>4 DEF About, Deaf
  <2>2. CASE ~About(q[k], u)
    BY <2>2, <1>k, <1>2, FrontSame, Zenon
  <2> QED BY <2>1, <2>2
<1>8. Rearranged(c, d)
  BY <1>1, <1>3, <1>4, <1>5, <1>6, <1>7 DEF Rearranged
<1> QED BY <1>8, RearrangedTold

-----------------------------------------------------------------------------
(* The invariant *)

\* Nobody has said anything at the start.
LEMMA InitGhost == Init => GhostInv
<1> SUFFICES ASSUME Init PROVE Told
  BY DEF GhostInv
<1>1. \A c, d \in Servers : 1..Len(net[c][d]) = {}
  BY DEF Init
<1>2. \A c \in Servers : \A u \in Users : gns[c][u] = None
  BY DEF Init
<1> QED BY <1>1, <1>2 DEF Told, EntryReal, NoticeReal, LeaveHeard, LoginHeard, AllReached, Stamped,
          OneOwner, NoSync, Owns, Here, Names, Spoken, LoginStands, LeaveAlone

\* What is over stays over.
LEMMA HistoryGrows ==
    ASSUME Next, ~tied', ~forgot'
    PROVE  ~tied /\ ~forgot
<1>1. \A u : Stamp(u) => (tied => tied')
  BY DEF Stamp
<1>2. Tick => ~tied /\ ~forgot
  BY DEF Tick
<1>3. ASSUME NEW c \in Servers
      PROVE  /\ AcceptConn(c) => ~tied /\ ~forgot
             /\ Restart(c) => ~tied /\ ~forgot
  BY DEF AcceptConn, Restart
<1>4. ASSUME NEW c \in Servers, NEW p \in Positions, CloseConn(c, p)
      PROVE  ~tied /\ ~forgot
  BY <1>1, <1>4 DEF CloseConn
<1>5. ASSUME NEW c \in Servers, NEW p \in Positions, NEW u \in Users, LoginReq(c, p, u)
      PROVE  ~tied /\ ~forgot
  BY <1>5 DEF LoginReq
<1>6. ASSUME NEW c \in Servers, NEW r \in rsp[c], NEW ok \in BOOLEAN, NEW sent \in BOOLEAN,
             LoginRsp(c, r, ok, sent)
      PROVE  ~tied /\ ~forgot
  <2>1. forgot' = forgot /\ (Stamp(r[2]) \/ tied' = tied)
    BY <1>6, Zenon DEF LoginRsp
  <2> QED BY <1>1, <2>1
<1>7. ASSUME NEW c \in Servers, NEW u \in Users, CheckValid(c, u)
      PROVE  ~tied /\ ~forgot
  BY <1>7 DEF CheckValid
<1>8. ASSUME NEW c \in Servers, NEW d \in Servers,
             LoginNotice(c, d) \/ Disconnect(c, d) \/ LoginSyncReq(c, d) \/ LoginSyncRsp(c, d)
      PROVE  ~tied /\ ~forgot
  BY <1>8 DEF LoginNotice, Disconnect, LoginSyncReq, LoginSyncRsp
<1>9. ASSUME NEW c \in Servers, NEW d \in Servers, NEW i \in DOMAIN net[c][d],
             Lose(c, d, i) \/ Overtake(c, d, i)
      PROVE  ~tied /\ ~forgot
  BY <1>9 DEF Lose, Overtake
<1> QED BY <1>2, <1>3, <1>4, <1>5, <1>6, <1>7, <1>8, <1>9 DEF Next

\* Nobody asks for logins before a server has restarted.
LEMMA NoSyncTaken ==
    ASSUME IInv, NoSync, NEW c \in Servers, NEW d \in Servers
    PROVE  ~LoginSyncReq(c, d) /\ ~LoginSyncRsp(c, d)
<1>1. net[d][c] \in Seq(Msg)
  BY DEF IInv, TypeInv
<1>2. ASSUME net[d][c] # << >> PROVE Head(net[d][c]).cmd \in {"LoginNotice", "Disconnect"}
  <2>1. 1 \in 1..Len(net[d][c]) /\ Head(net[d][c]) = net[d][c][1]
    BY <1>1, <1>2
  <2> QED BY <2>1 DEF NoSync
<1> QED BY <1>2 DEF LoginSyncReq, LoginSyncRsp, Received

\* Every step keeps it.
LEMMA NextGhost == IInv /\ IInv' /\ GhostInv /\ [Next]_vars => GhostInv'
<1> SUFFICES ASSUME IInv, IInv', GhostInv, [Next]_vars, ~tied', ~forgot' PROVE Told'
  BY DEF GhostInv
<1>1. CASE UNCHANGED vars
  <2>1. Told /\ UNCHANGED <<gns, net, stamps, lost, early>>
    BY <1>1 DEF vars, GhostInv
  <2> QED BY <2>1, StillTold
<1>2. CASE Next
  <2>1. Told
    BY <1>2, HistoryGrows DEF GhostInv
  <2>2. CASE Tick
    BY <2>1, <2>2, StillTold DEF Tick
  <2>3. ASSUME NEW c \in Servers, AcceptConn(c) PROVE Told'
    BY <2>1, <2>3, StillTold DEF AcceptConn
  <2>4. ASSUME NEW c \in Servers, Restart(c) PROVE Told'
    BY <2>4 DEF Restart
  <2>5. ASSUME NEW c \in Servers, NEW p \in Positions, CloseConn(c, p) PROVE Told'
    BY <2>1, <2>5, CloseTold
  <2>6. ASSUME NEW c \in Servers, NEW p \in Positions, NEW u \in Users, LoginReq(c, p, u) PROVE Told'
    BY <2>1, <2>6, StillTold DEF LoginReq
  <2>7. ASSUME NEW c \in Servers, NEW r \in rsp[c], NEW ok \in BOOLEAN, NEW sent \in BOOLEAN,
               LoginRsp(c, r, ok, sent)
        PROVE  Told'
    BY <2>1, <2>7, LoginRspTold
  <2>8. ASSUME NEW c \in Servers, NEW u \in Users, CheckValid(c, u) PROVE Told'
    BY <2>8 DEF CheckValid
  <2>9. ASSUME NEW c \in Servers, NEW d \in Servers \ {c}, LoginNotice(c, d) PROVE Told'
    <3>1. PICK m : m = Head(net[d][c])
      OBVIOUS
    <3>2. Takes(c, d, m) /\ d \in Servers /\ c # d
      BY <2>9, <3>1, NoticeTakes
    <3> QED BY <2>1, <3>2, TakesTold
  <2>10. ASSUME NEW c \in Servers, NEW d \in Servers \ {c}, Disconnect(c, d) PROVE Told'
    <3>1. PICK m : m = Head(net[d][c])
      OBVIOUS
    <3>2. Takes(c, d, m) /\ d \in Servers /\ c # d
      BY <2>10, <3>1, DisconnectTakes
    <3> QED BY <2>1, <3>2, TakesTold
  <2>11. \A c, d \in Servers : ~LoginSyncReq(c, d) /\ ~LoginSyncRsp(c, d)
    BY <2>1, NoSyncTaken DEF Told
  <2>12. ASSUME NEW c \in Servers, NEW d \in Servers, NEW i \in DOMAIN net[c][d],
                Lose(c, d, i) \/ Overtake(c, d, i)
         PROVE  Told'
    BY <2>1, <2>12, LoseTold, OvertakeTold
  <2> QED BY <1>2, <2>2, <2>3, <2>4, <2>5, <2>6, <2>7, <2>8, <2>9, <2>10, <2>11, <2>12 DEF Next
<1> QED BY <1>1, <1>2

\* When all is delivered, an entry that is believed and has nothing newer on
\* its way is that of a connection.
LEMMA GhostNone == IInv /\ GhostInv => NoGhost
<1> SUFFICES ASSUME IInv, GhostInv, Quiet, ~tied, ~forgot,
                    NEW c \in Servers, NEW u \in Users, gns[c][u] # None, gns[c][u].active
             PROVE  Session(gns[c][u].srv, u, gns[c][u].pos) \/ Deaf(c, u)
  BY DEF NoGhost
<1>1. EntryReal
  BY DEF GhostInv, Told
<1>2. gns[c][u] \in EntryType
  BY DEF IInv, TypeInv, TypeOK
<1>3. PICK s \in Servers : s = gns[c][u].srv
  BY <1>2 DEF EntryType
<1>4. PICK p \in Positions : p = gns[c][u].pos
  BY <1>2 DEF EntryType
<1>5. PICK t \in 1..MaxTime : t = gns[c][u].time
  BY <1>2 DEF EntryType
<1>6. Live(s, u, p, t) \/ Newer(c, u, t) \/ Left(net[s][c], u, t)
  BY <1>1, <1>3, <1>4, <1>5 DEF EntryReal, Names
<1>7. \A x, y \in Servers : 1..Len(net[x][y]) = {}
  BY DEF Quiet
<1>8. ~Left(net[s][c], u, t)
  BY <1>7 DEF Left
<1>9. Newer(c, u, t) => Deaf(c, u)
  <2>1. ~After(gns[c][u], t)
    BY <1>5 DEF After
  <2> QED BY <2>1, <1>7 DEF Newer, Spoken
<1>10. Live(s, u, p, t) \/ Deaf(c, u)
  BY <1>6, <1>8, <1>9
<1>11. Live(s, u, p, t) => Session(s, u, p)
  BY DEF Live, Names, IInv, RegistryMatchesConns, ActiveHere
<1> QED BY <1>3, <1>4, <1>10, <1>11

\* Once all messages are delivered, a login some server believes in is real,
\* unless that server itself missed a message about the user or got one out of
\* order: for any number of servers and users, of messages lost and overtaken,
\* whatever logins and closes crossed, while no user logged in or left twice
\* within a second and no server has dropped entries.
THEOREM NoGhostAlways == ASSUME Orderly PROVE Spec => []NoGhost
<1>1. IInv /\ IInv' /\ GhostInv /\ [Next]_vars => GhostInv'
  BY NextGhost
<1>2. Spec => []GhostInv
  BY InitGhost, <1>1, IInvAlways, PTL DEF Spec
<1> QED BY <1>2, IInvAlways, GhostNone, PTL
=============================================================================
