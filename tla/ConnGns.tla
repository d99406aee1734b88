------------------------------ MODULE ConnGns ------------------------------
(***************************************************************************)
(* conn/conn.cpp: client connections and the login registry (GNS).  Every  *)
(* conn server keeps in shared memory, for each user, the server and the   *)
(* connection of his last login.  A login is broadcast to the other conn   *)
(* servers (Cmd_LoginNotice), a closed connection too (Cmd_Disconnect); a  *)
(* server that starts clears its registry and asks for the logins of the   *)
(* others (Cmd_LoginSync_Req).  A user has one connection: a login closes  *)
(* the connection of an earlier one, wherever it is.  Entries are ordered  *)
(* by time(NULL), whole seconds; the servers' clocks are taken to agree,   *)
(* as the comment in Cmd_LoginNotice asks.                                 *)
(*                                                                         *)
(* Messages between two servers arrive in order and once, except that      *)
(* Send2Server drops what the send queue has no room for and its callers   *)
(* go on, the bus drops what it cannot deliver, and a message may arrive   *)
(* before earlier ones when the bus has connected anew.  The auth servers  *)
(* answer in any order, or never.  The registry is taken to be large       *)
(* enough.                                                                 *)
(***************************************************************************)
EXTENDS Integers, Sequences, FiniteSets

CONSTANTS
    Servers,     \* the conn servers
    Users,
    None,        \* no entry
    Closed,      \* a position without a connection
    Unauth,      \* a connection (CONN_UNAUTH) that has not asked to log in
    Asked,       \* the same, with a login request under way
    Orderly,     \* TRUE if clients log in once on a connection, and servers are
                 \* not restarted while auth is checking a login
    InvalidTime, \* CONN_INVALID_TIME
    MaxPos,      \* bound on connections of a server
    MaxLogins,   \* bound on login requests
    MaxTime,     \* bound on the clock
    MaxRestarts, \* bound on restarts of servers
    MaxFaults    \* bound on messages lost or out of order

ASSUME GnsAssumption ==
    /\ {None, Closed, Unauth, Asked} \cap Users = {}
    /\ Closed # Unauth /\ Closed # Asked /\ Unauth # Asked
    /\ Orderly \in BOOLEAN
    /\ InvalidTime \in Nat /\ MaxPos \in Nat /\ MaxLogins \in Nat
    /\ MaxTime \in Nat \ {0} /\ MaxRestarts \in Nat /\ MaxFaults \in Nat

VARIABLES
    conn,     \* conn[c][p]: m_PosConnMap, the user (or state) of the connection at p
    posCnt,   \* posCnt[c]: m_ConnPosCnt
    gns,      \* gns[c][u]: m_GnsInfoMap
    rsp,      \* rsp[c]: login requests auth has yet to answer,
              \* <<ConnPos, UserID, number of the request>>
    net,      \* net[c][d]: messages from c to d
    now,      \* the clock, in seconds
    logins,   \* login requests so far
    restarts, \* restarts so far
    stamps,   \* history: the seconds in which a user logged in or left
    tied,     \* history: one user's events shared a second
    forgot,   \* history: some server dropped entries
    lost,     \* history, lost[c][d]: the messages from c that d never gets
    early,    \* history, early[c][d]: those that overtook others
    faults    \* messages lost or out of order so far

vars == <<conn, posCnt, gns, rsp, net, now, logins, restarts, stamps, tied, forgot,
          lost, early, faults>>

Positions == 1..MaxPos

EntryType == [srv : Servers, pos : Positions, active : BOOLEAN, time : 1..MaxTime]

ASSUME NoneAssumption == None \notin EntryType

\* ShmGnsInfo without its key; active is Status = GNS_USER_STATUS_ACTIVE.
Entry(c, p, active, t) == [srv |-> c, pos |-> p, active |-> active, time |-> t]

\* mm::LoginData
LoginData(u, c, p, t) == [user |-> u, srv |-> c, pos |-> p, time |-> t]

Init ==
    /\ conn = [c \in Servers |-> [p \in Positions |-> Closed]]
    /\ posCnt = [c \in Servers |-> 0]
    /\ gns = [c \in Servers |-> [u \in Users |-> None]]
    /\ rsp = [c \in Servers |-> {}]
    /\ net = [c \in Servers |-> [d \in Servers |-> <<>>]]
    /\ now = 1
    /\ logins = 0 /\ restarts = 0
    /\ stamps = {} /\ tied = FALSE /\ forgot = FALSE
    /\ lost = [c \in Servers |-> [d \in Servers |-> {}]]
    /\ early = [c \in Servers |-> [d \in Servers |-> {}]]
    /\ faults = 0

-----------------------------------------------------------------------------
(* Handlers change the connections and the registry of one server and send *)
(* messages: their effect is a record of the three.                        *)

State(c) == [conn |-> conn[c], gns |-> gns[c], out |-> <<>>]

\* As ReleaseConn, the others never told.
ReleaseConnSilent(c, st, p, bSend) ==
    LET u == st.conn[p] IN
    [conn |-> [st.conn EXCEPT ![p] = Closed],
     gns  |-> IF u \in Users /\ st.gns[u] # None
              THEN [st.gns EXCEPT ![u] = Entry(c, p, FALSE, now)]
              ELSE st.gns,
     out  |-> st.out]

\* ReleaseConn: close the connection at p; the entry of its user is overwritten
\* whatever it says.
ReleaseConn(c, st, p, bSend) ==
    LET u == st.conn[p] IN
    [conn |-> [st.conn EXCEPT ![p] = Closed],
     gns  |-> IF u \in Users /\ st.gns[u] # None
              THEN [st.gns EXCEPT ![u] = Entry(c, p, FALSE, now)]
              ELSE st.gns,
     out  |-> IF u \in Users /\ bSend
              THEN Append(st.out, [cmd |-> "Disconnect",
                                   data |-> {LoginData(u, c, p, now)}])
              ELSE st.out]

\* The connection the registry names for u, if it is here and still u's.
OwnConn(c, st, u) ==
    {p \in Positions : /\ st.gns[u] # None
                       /\ st.gns[u].active /\ st.gns[u].srv = c
                       /\ st.gns[u].pos = p
                       /\ st.conn[p] = u}

\* As KickOwn, forgetting the connection of the same server.
KickOwnNever(c, st, u) == st

\* Release of that connection, without telling the others.
KickOwn(c, st, u) ==
    IF OwnConn(c, st, u) = {} THEN st
    ELSE ReleaseConn(c, st, CHOOSE p \in OwnConn(c, st, u) : TRUE, FALSE)

SetEntry(st, u, e) == [st EXCEPT !.gns[u] = e]

\* Cmd_Auth_Login_Rsp with result 0: the connection becomes u's, "a login at
\* our own door overwrites unconditionally", and the others are told.
LoginHere(c, st, p, u) ==
    LET st1 == [st EXCEPT !.conn[p] = u]
        st2 == SetEntry(KickOwn(c, st1, u), u, Entry(c, p, TRUE, now))
    IN  [st2 EXCEPT !.out = Append(@, [cmd |-> "LoginNotice",
                                       data |-> {LoginData(u, c, p, now)}])]

\* As NoticeOne, the tie going to the local login.
NoticeOneStrict(c, st, e) ==
    IF st.gns[e.user] # None /\ st.gns[e.user].time >= e.time THEN st
    ELSE SetEntry(KickOwn(c, st, e.user), e.user, Entry(e.srv, e.pos, TRUE, e.time))

\* Cmd_LoginNotice and Cmd_LoginSync_Rsp, for one of their elements.
NoticeOne(c, st, e) ==
    IF st.gns[e.user] # None /\ st.gns[e.user].time > e.time THEN st
    ELSE SetEntry(KickOwn(c, st, e.user), e.user, Entry(e.srv, e.pos, TRUE, e.time))

\* As DisconnectOne, a login of this server overwritten like any other.
DisconnectOneAny(c, st, e) ==
    IF st.gns[e.user] = None THEN st
    ELSE IF st.gns[e.user].time > e.time THEN st
    ELSE SetEntry(st, e.user, Entry(e.srv, e.pos, FALSE, e.time))

\* Cmd_Disconnect, for one of its elements.
DisconnectOne(c, st, e) ==
    IF st.gns[e.user] = None THEN st
    ELSE IF st.gns[e.user].time > e.time THEN st
    ELSE IF st.gns[e.user].srv = c /\ st.gns[e.user].active THEN KickOwn(c, st, e.user)
    ELSE SetEntry(st, e.user, Entry(e.srv, e.pos, FALSE, e.time))

\* A message about several users: its elements are about different users, so
\* the effect on each user's entry and connection is that of his element.
ForAll(Op(_, _, _), c, st, data) ==
    LET About(u) == CHOOSE e \in data : e.user = u
        After(u) == Op(c, st, About(u))
        named    == {e.user : e \in data}
    IN  [conn |-> [p \in Positions |-> IF st.conn[p] \in named
                                       THEN After(st.conn[p]).conn[p] ELSE st.conn[p]],
         gns  |-> [u \in Users |-> IF u \in named THEN After(u).gns[u] ELSE st.gns[u]],
         out  |-> st.out]

\* MemFullCallBackAll: the active entries of this server.
OwnLogins(c) ==
    {LoginData(u, c, gns[c][u].pos, gns[c][u].time) :
        u \in {v \in Users : gns[c][v] # None /\ gns[c][v].active /\ gns[c][v].srv = c}}

\* The messages of a sequence.
Items(q) == {q[i] : i \in DOMAIN q}

\* What the send queue may take of the messages of a handler: all; or, being
\* full, none or one (a handler has two at most).
Taken(out) == {out, <<>>} \cup {<<out[i]>> : i \in DOMAIN out}

\* Send2Server, for the messages of a handler of c to the servers in to, whose
\* callers ignore what it returns; from is the sender of the message the
\* handler took out of the queue, or c itself.
Send2Server(c, to, from, out) ==
    \E sent \in Taken(out) :
        /\ sent = out \/ faults < MaxFaults
        /\ net' = [s \in Servers |-> [d \in Servers |->
                     IF s = c /\ d \in to THEN net[s][d] \o sent
                     ELSE IF s = from /\ d = c /\ s # c THEN Tail(net[s][d])
                     ELSE net[s][d]]]
        /\ lost' = [s \in Servers |-> [d \in Servers |->
                      IF s = c /\ d \in to THEN lost[s][d] \cup (Items(out) \ Items(sent))
                      ELSE lost[s][d]]]
        /\ faults' = IF sent = out THEN faults ELSE faults + 1
        /\ UNCHANGED early

\* Take the effect of a handler.  Messages go to all others (TO_GRP_ALLNOME).
Become(c, from, st) ==
    /\ conn' = [conn EXCEPT ![c] = st.conn]
    /\ gns' = [gns EXCEPT ![c] = st.gns]
    /\ Send2Server(c, Servers \ {c}, from, st.out)

\* No message is on its way.
Quiet == \A c, d \in Servers : net[c][d] = <<>>

\* Record that u logged in or left at this second.
Stamp(u) ==
    /\ stamps' = stamps \cup {<<u, now>>}
    /\ tied' = (tied \/ <<u, now>> \in stamps)

-----------------------------------------------------------------------------
\* Bound: clients that have not asked to log in come one at a time.
AcceptConn(c) ==
    /\ posCnt[c] < MaxPos
    /\ \A d \in Servers : \A p \in Positions : conn[d][p] # Unauth
    /\ posCnt' = [posCnt EXCEPT ![c] = @ + 1]
    /\ conn' = [conn EXCEPT ![c][posCnt[c] + 1] = Unauth]
    /\ UNCHANGED <<gns, rsp, net, now, logins, restarts, stamps, tied, forgot, lost, early, faults>>

\* ProcessPkg with Cmd_Auth_Login_Req, allowed on any connection.
LoginReq(c, p, u) ==
    /\ logins < MaxLogins
    /\ conn[c][p] # Closed
    /\ Orderly => conn[c][p] = Unauth
    /\ logins' = logins + 1
    /\ rsp' = [rsp EXCEPT ![c] = @ \cup {<<p, u, logins'>>}]
    /\ conn' = [conn EXCEPT ![c][p] = IF @ = Unauth THEN Asked ELSE @]
    /\ UNCHANGED <<posCnt, gns, net, now, restarts, stamps, tied, forgot, lost, early, faults>>

\* Cmd_Auth_Login_Rsp.  ok: the password was right; sent: the answer to the
\* client could be written, else Send2Client releases the connection.
LoginRsp(c, r, ok, sent) ==
    LET p   == r[1]
        u   == r[2]
        st0 == State(c)
        st1 == IF ok THEN LoginHere(c, st0, p, u) ELSE st0
        st2 == IF ~sent /\ st1.conn[p] # Closed THEN ReleaseConn(c, st1, p, TRUE) ELSE st1
    IN
    /\ r \in rsp[c]
    /\ rsp' = [rsp EXCEPT ![c] = @ \ {r}]
    /\ IF conn[c][p] = Closed
       THEN UNCHANGED <<conn, gns, net, stamps, tied, lost, early, faults>>
       ELSE /\ Become(c, c, st2)
            /\ IF ok THEN Stamp(u) ELSE UNCHANGED <<stamps, tied>>
    /\ UNCHANGED <<posCnt, now, logins, restarts, forgot>>

\* EPOLLERR, EPOLLHUP, the end of the stream, a bad packet, or CheckConn finds
\* the connection silent for too long.
CloseConn(c, p) ==
    /\ conn[c][p] # Closed
    /\ Become(c, c, ReleaseConn(c, State(c), p, TRUE))
    /\ IF conn[c][p] \in Users THEN Stamp(conn[c][p]) ELSE UNCHANGED <<stamps, tied>>
    /\ UNCHANGED <<posCnt, rsp, now, logins, restarts, forgot>>

Received(c, d, cmd) == net[d][c] # <<>> /\ Head(net[d][c]).cmd = cmd

LoginNotice(c, d) ==
    /\ Received(c, d, "LoginNotice")
    /\ Become(c, d, ForAll(NoticeOne, c, State(c), Head(net[d][c]).data))
    /\ UNCHANGED <<posCnt, rsp, now, logins, restarts, stamps, tied, forgot>>

\* The same for the logins of a server that was asked for them.
LoginSyncRsp(c, d) ==
    /\ Received(c, d, "LoginSync_Rsp")
    /\ Become(c, d, ForAll(NoticeOne, c, State(c), Head(net[d][c]).data))
    /\ UNCHANGED <<posCnt, rsp, now, logins, restarts, stamps, tied, forgot>>

Disconnect(c, d) ==
    /\ Received(c, d, "Disconnect")
    /\ Become(c, d, ForAll(DisconnectOne, c, State(c), Head(net[d][c]).data))
    /\ UNCHANGED <<posCnt, rsp, now, logins, restarts, stamps, tied, forgot>>

\* The answer goes to the server that asked, and only if there is something
\* to say.
LoginSyncReq(c, d) ==
    /\ Received(c, d, "LoginSync_Req")
    /\ Send2Server(c, {d}, d, IF OwnLogins(c) = {} THEN <<>>
                              ELSE <<[cmd |-> "LoginSync_Rsp", data |-> OwnLogins(c)]>>)
    /\ UNCHANGED <<conn, posCnt, gns, rsp, now, logins, restarts, stamps, tied, forgot>>

\* CheckValid drops entries of users that left long ago.
CheckValid(c, u) ==
    /\ gns[c][u] # None
    /\ ~gns[c][u].active
    /\ now - InvalidTime > gns[c][u].time
    /\ gns' = [gns EXCEPT ![c][u] = None]
    /\ forgot' = TRUE
    /\ UNCHANGED <<conn, posCnt, rsp, net, now, logins, restarts, stamps, tied, lost, early, faults>>

\* The process dies and Init runs again: the connections are gone, the registry
\* in shared memory is read for the logins to take back, then cleared.  Login
\* answers for the old connections are still to come, and positions are given
\* out from the beginning again.
Restart(c) ==
    LET bye  == IF OwnLogins(c) = {} THEN <<>>
                ELSE <<[cmd |-> "Disconnect", data |-> OwnLogins(c)]>>
        sync == <<[cmd |-> "LoginSync_Req", data |-> {}]>>
    IN
    /\ restarts < MaxRestarts
    /\ Orderly => rsp[c] = {}
    /\ restarts' = restarts + 1
    /\ forgot' = TRUE
    /\ posCnt' = [posCnt EXCEPT ![c] = 0]
    /\ Become(c, c, [conn |-> [p \in Positions |-> Closed],
                     gns  |-> [u \in Users |-> None],
                     out  |-> bye \o sync])
    /\ UNCHANGED <<rsp, now, logins, stamps, tied>>

Tick ==
    /\ now < MaxTime
    /\ now' = now + 1
    /\ UNCHANGED <<conn, posCnt, gns, rsp, net, logins, restarts, stamps, tied, forgot,
                   lost, early, faults>>

\* The sequence without its i-th message.
Without(q, i) == [j \in 1..Len(q) - 1 |-> IF j < i THEN q[j] ELSE q[j + 1]]

\* The bus has no room for a copy in the queue of d, or no link to its cluster,
\* or the link breaks with the copy on it.
Lose(c, d, i) ==
    /\ faults < MaxFaults
    /\ net' = [net EXCEPT ![c][d] = Without(@, i)]
    /\ lost' = [lost EXCEPT ![c][d] = @ \cup {net[c][d][i]}]
    /\ faults' = faults + 1
    /\ UNCHANGED <<conn, posCnt, gns, rsp, now, logins, restarts, stamps, tied, forgot, early>>

\* The buses connect anew, and a copy on the new connection is read before
\* those still in the buffer of the old one.
Overtake(c, d, i) ==
    /\ faults < MaxFaults
    /\ i > 1
    /\ net' = [net EXCEPT ![c][d] = <<@[i]>> \o Without(@, i)]
    /\ early' = [early EXCEPT ![c][d] = @ \cup {net[c][d][i]}]
    /\ faults' = faults + 1
    /\ UNCHANGED <<conn, posCnt, gns, rsp, now, logins, restarts, stamps, tied, forgot, lost>>

Next ==
    \/ Tick
    \/ \E c \in Servers :
          \/ AcceptConn(c) \/ Restart(c)
          \/ \E p \in Positions : CloseConn(c, p) \/ \E u \in Users : LoginReq(c, p, u)
          \/ \E r \in rsp[c], ok \in BOOLEAN, sent \in BOOLEAN : LoginRsp(c, r, ok, sent)
          \/ \E u \in Users : CheckValid(c, u)
          \/ \E d \in Servers \ {c} :
                \/ LoginNotice(c, d) \/ Disconnect(c, d)
                \/ LoginSyncReq(c, d) \/ LoginSyncRsp(c, d)
                \/ \E i \in DOMAIN net[c][d] : Lose(c, d, i) \/ Overtake(c, d, i)

Spec == Init /\ [][Next]_vars

-----------------------------------------------------------------------------
(* Properties *)

\* Type correctness; an entry carries the second of a login or logout, which
\* is what every comparison of entries relies on.
TypeOK ==
    /\ conn \in [Servers -> [Positions -> Users \cup {Closed, Unauth, Asked}]]
    /\ posCnt \in [Servers -> 0..MaxPos]
    /\ gns \in [Servers -> [Users -> EntryType \cup {None}]]
    /\ now \in 1..MaxTime

\* c has a connection of user u at p.
Session(c, u, p) == conn[c][p] = u

ActiveHere(c, u, p) ==
    /\ gns[c][u] # None
    /\ gns[c][u].active /\ gns[c][u].srv = c /\ gns[c][u].pos = p

\* CheckConn and MemFullCallBack log "some error happen!!!" when the registry
\* and the connections of a server disagree: a user's connection without an
\* active entry, an active entry without its connection, an inactive entry
\* whose connection is open.
RegistryMatchesConns ==
    \A c \in Servers : \A u \in Users : \A p \in Positions :
        Session(c, u, p) <=> ActiveHere(c, u, p)

\* Messages that tell of a login of u at time t.
Tells(m, u, t) ==
    /\ m.cmd \in {"LoginNotice", "LoginSync_Rsp"}
    /\ \E e \in m.data : e.user = u /\ e.time = t

\* The connection of u at d came after that at c, and c never gets the notice.
NotTold(c, d, u) ==
    /\ gns[d][u].time >= gns[c][u].time
    /\ \E m \in lost[d][c] : Tells(m, u, gns[d][u].time)

\* Once all messages are delivered a user has at most one connection, in
\* whatever order logins, logouts and restarts on different servers crossed,
\* even if they fell into the same second and messages overtook others: two
\* connections remain only if the very notice of the later login was lost on
\* its way to the server of the other, and no other message stands in for it.
SingleSession ==
    Quiet => \A u \in Users : \A a, b \in Servers \X Positions :
                a # b /\ Session(a[1], u, a[2]) /\ Session(b[1], u, b[2]) =>
                    /\ a[1] # b[1]
                    /\ NotTold(a[1], b[1], u) \/ NotTold(b[1], a[1], u)

\* A message from d that closes u's connection at c is on its way.
Kick(d, c, u) ==
    \E i \in DOMAIN net[d][c] : \E t \in gns[c][u].time..MaxTime : Tells(net[d][c][i], u, t)

\* The same while messages are on their way: of two connections of a user on
\* different servers at least one is about to be closed, unless the notice of
\* the later login was lost.
KickUnderWay ==
    \A c, d \in Servers : \A u \in Users : \A p, q \in Positions :
        c # d /\ Session(c, u, p) /\ Session(d, u, q) =>
            \/ Kick(d, c, u) \/ Kick(c, d, u)
            \/ NotTold(c, d, u) \/ NotTold(d, c, u)

\* Server c missed a message about u, or got it before earlier ones.
Deaf(c, u) ==
    \E d \in Servers : \E m \in lost[d][c] \cup early[d][c] : \E e \in m.data : e.user = u

\* Once all messages are delivered a login some server believes in is real,
\* unless that server itself missed a message about the user or got one out of
\* order (what the other servers missed does not mislead it), provided that no
\* user logged in or left twice within one second (the order is lost then) and
\* no server dropped entries (a Disconnect without an entry leaves no trace,
\* and an older LoginNotice then brings back the login).
NoGhost ==
    Quiet /\ ~tied /\ ~forgot =>
        \A c \in Servers : \A u \in Users :
            gns[c][u] # None /\ gns[c][u].active =>
                Session(gns[c][u].srv, u, gns[c][u].pos) \/ Deaf(c, u)
=============================================================================
