---------------------------- MODULE UserService ----------------------------
(***************************************************************************)
(* Registration and friend requests: the conn server that forwards them,   *)
(* the auth servers and their password table, the user servers with their  *)
(* user table in shared memory, and the loader and writer processes that   *)
(* move users between that table and the database.                         *)
(*                                                                         *)
(* conn/conn.cpp (ProcessPkg, DealPkg), auth/auth_proc.cpp,                 *)
(* user/user_proc.cpp, user/loader_user.cpp, user/writer_user.cpp,          *)
(* mmlib/process_manager, mmlib/mysql.                                      *)
(*                                                                         *)
(* The user table is the map that module UserMap specifies (one atomic     *)
(* operation per call of CUserShmApi); packets on the bus are a set, since *)
(* nothing orders packets of different senders.  A packet is identified by *)
(* the request it belongs to, the SN of its header.                        *)
(***************************************************************************)
EXTENDS Integers, Sequences, FiniteSets

CONSTANTS
  Requests,       \* requests clients send (numbers: they tag the data sent)
  Known,          \* users registered before, with a row in the database
  Clock,          \* the values time(NULL) takes
  Friendships,    \* bound: <<user, other>> of the friend requests clients send
  Loaders,        \* [server -> its loader processes]
  Writers,        \* [server -> its writer processes]
  MaxUserNodeNum, \* nodes of a user table
  MaxRequestNum,  \* MAX_REQUEST_NUM
  UserInvalidTime,\* USER_INVALID_TIME
  QueueLen,       \* packets that fit in a loader or writer queue
  MaxFaults       \* bound: lost packets, database errors and deaths

Servers == {1, 2}                                \* MAX_USER_SERVER_NUM = 2
Users == Known \cup Clock                        \* a user id is a time
None == 0                                        \* no user, no tag
Tags == Requests \cup Known                      \* what a user typed in

ASSUME ServiceAssumption ==
  /\ Requests \subseteq Nat \ {0} /\ Known \subseteq Nat \ {0}
  /\ Clock \subseteq Nat \ {0} /\ Clock # {}
  /\ Requests \cap Known = {} /\ Known \cap Clock = {}
  /\ Friendships \subseteq Users \X Users
  /\ MaxUserNodeNum \in Nat /\ QueueLen \in Nat \ {0}
  /\ MaxRequestNum \in Nat \ {0} /\ UserInvalidTime \in Nat /\ MaxFaults \in Nat

VARIABLES
  now,        \* time(NULL)
  passwd,     \* [Users -> Tags \cup {None}]: rows of the auth database
  online,     \* users with an authenticated connection at conn
  net,        \* packets between conn, auth and user servers
  cache,      \* [Servers -> [Users -> Info \cup {NoInfo}]]: m_UserShm
  loadQ,      \* [Servers -> Seq]: m_LoaderSendQueue
  loadedQ,    \* [Servers -> Seq]: m_LoaderRecvQueue
  writeQ,     \* [Servers -> Seq]: m_WriterQueue
  db,         \* [Users -> Row \cup {NoInfo}]: rows of the user database
  loader,     \* [loader -> what it is doing]
  writer,     \* [writer -> what it is doing]
  up,         \* servers whose user process runs
  faults,     \* faults so far
  sent,       \* requests sent by clients
  answer,     \* [Requests -> the answer: ret and user, or NotYet]
  dropped,    \* requests given up (only logged by the code)
  effects,    \* [Requests -> times AddFriendReq was applied for it]
  unsaved     \* users whose write to the database was given up

svcVars == <<now, passwd, online, net, cache, loadQ, loadedQ, writeQ, db,
             loader, writer, up, faults,
             sent, answer, dropped, effects, unsaved>>

NotYet == [ret |-> -1, user |-> None]
NoInfo == [nick |-> None, birthday |-> None, active |-> 0,
           reqs |-> << >>]
EmptyList == [i \in 1..MaxRequestNum |-> [user |-> None, time |-> 0, valid |-> FALSE]]
NoLoad == [user |-> None, req |-> None]
Idle == [pc |-> "idle", load |-> NoLoad, row |-> NoInfo]     \* of a loader
NoWrite == [pc |-> "idle", user |-> None, row |-> NoInfo]    \* of a writer
AllLoaders == UNION {Loaders[s] : s \in Servers}
AllWriters == UNION {Writers[s] : s \in Servers}

(***************************************************************************)
(* Where a user lives.  conn sends a registration to RegisterServer, every *)
(* later request of the user goes to GetUserServer.                        *)
(***************************************************************************)
GetUserServer(u) == ((u \div 100) % 2) + 1
RegisterServer(u) == (u % 2) + 1

Packet(cmd, sn, user, other, tag, ret) ==
  [cmd |-> cmd, sn |-> sn, user |-> user, other |-> other, tag |-> tag,
   ret |-> ret]

Expired(info) == now - UserInvalidTime > info.active
Cached(s) == {u \in Users : cache[s][u] # NoInfo}

-----------------------------------------------------------------------------
(* The interface: what a client may send through conn.                     *)

\* ProcessPkg, Cmd_Auth_Register_Req: to a random auth server
ClientRegister(sn) ==
  /\ sn \notin sent
  /\ sent' = sent \cup {sn}
  /\ net' = net \cup {Packet("AuthRegisterReq", sn, None, None, sn, 0)}
  /\ UNCHANGED <<now, passwd, online, cache, loadQ, loadedQ, writeQ, db, loader,
                 writer, up, faults, answer, dropped, effects, unsaved>>

\* ProcessPkg, Cmd_Auth_Login_Req, with the password tag
ClientLogin(sn, u, tag) ==
  /\ sn \notin sent
  /\ sent' = sent \cup {sn}
  /\ net' = net \cup {Packet("AuthLoginReq", sn, u, None, tag, 0)}
  /\ UNCHANGED <<now, passwd, online, cache, loadQ, loadedQ, writeQ, db, loader,
                 writer, up, faults, answer, dropped, effects, unsaved>>

\* ProcessPkg, CMD_PREFIX_USER: only from an authenticated connection
ClientAddFriend(sn, u, v) ==
  /\ sn \notin sent
  /\ u \in online
  /\ sent' = sent \cup {sn}
  /\ net' = net \cup {Packet("AddFriendReq", sn, u, v, None, 0)}
  /\ UNCHANGED <<now, passwd, online, cache, loadQ, loadedQ, writeQ, db, loader,
                 writer, up, faults, answer, dropped, effects, unsaved>>

\* Send2Client: the answer leaves the system
Answered(m) == answer' = [answer EXCEPT ![m.sn] = [ret |-> m.ret, user |-> m.user]]

\* DealPkg, Cmd_Auth_Register_Rsp: a refusal goes to the client, a success is
\* passed on to a user server
ConnRegistered(m) ==
  /\ m.cmd = "AuthRegisterRsp"
  /\ IF m.ret # 0
     THEN Answered(m) /\ net' = net \ {m}
     ELSE /\ net' = (net \ {m}) \cup
                    {Packet("UserRegisterReq", m.sn, m.user, None, m.tag, 0)}
          /\ UNCHANGED answer
  /\ UNCHANGED <<now, passwd, online, cache, loadQ, loadedQ, writeQ, db, loader,
                 writer, up, faults, sent, dropped, effects, unsaved>>

\* DealPkg, Cmd_User_Register_Rsp, Cmd_Auth_Login_Rsp and the default branch:
\* the answer goes to the client; a successful login authenticates him
ConnAnswers(m) ==
  /\ m.cmd \in {"UserRegisterRsp", "AuthLoginRsp", "AddFriendRsp"}
  /\ Answered(m)
  /\ net' = net \ {m}
  /\ online' = IF m.cmd = "AuthLoginRsp" /\ m.ret = 0
               THEN online \cup {m.user} ELSE online
  /\ UNCHANGED <<now, passwd, cache, loadQ, loadedQ, writeQ, db, loader,
                 writer, up, faults, sent, dropped, effects, unsaved>>

-----------------------------------------------------------------------------
(* auth.  A query may fail (CMySQL::Query: no connection, or an error);    *)
(* each failure is one fault.                                              *)
Query(ok) == /\ ok \/ faults < MaxFaults
             /\ faults' = IF ok THEN faults ELSE faults + 1

\* As the next definition, but REPLACE instead of INSERT
RegisterReplace(ok) == IF ok THEN 0 ELSE 1

\* Register: the user id is the time; INSERT refuses a second row for a key
Register(ok) == IF ok /\ passwd[now] = None THEN 0 ELSE 1

AuthRegister(m, ok) ==
  /\ m.cmd = "AuthRegisterReq"
  /\ Query(ok)
  /\ passwd' = IF Register(ok) = 0 THEN [passwd EXCEPT ![now] = m.tag] ELSE passwd
  /\ net' = (net \ {m}) \cup {Packet("AuthRegisterRsp", m.sn, now, None, m.tag,
                                     Register(ok))}
  /\ UNCHANGED <<now, online, cache, loadQ, loadedQ, writeQ, db, loader, writer,
                 up, sent, answer, dropped, effects, unsaved>>

\* LoginCheck: 0 passed, 1 system error, 2 wrong password or no such user
LoginCheck(m, ok) == IF ~ok THEN 1
                     ELSE IF passwd[m.user] = None \/ passwd[m.user] # m.tag THEN 2
                     ELSE 0

AuthLogin(m, ok) ==
  /\ m.cmd = "AuthLoginReq"
  /\ Query(ok)
  /\ net' = (net \ {m}) \cup {Packet("AuthLoginRsp", m.sn, m.user, None, None,
                                     LoginCheck(m, ok))}
  /\ UNCHANGED <<now, passwd, online, cache, loadQ, loadedQ, writeQ, db, loader,
                 writer, up, sent, answer, dropped, effects, unsaved>>

-----------------------------------------------------------------------------
(* The user server s.  DealPkg is called with a packet from the bus or with *)
(* the request a loader gives back; rest is what is left on the bus.        *)

\* As the next definition, but the table grows without bound
CanInsertUncounted(s, u) == u # None /\ cache[s][u] = NoInfo

\* InsertUserInfo: refused when the user is there or the table is full
CanInsert(s, u) == u # None /\ cache[s][u] = NoInfo
                   /\ Cardinality(Cached(s)) < MaxUserNodeNum

\* WriteUserInfo: InQueue of the user id; a failure is only logged
WriteUserInfo(s, u) ==
  IF Len(writeQ[s]) < QueueLen
  THEN /\ writeQ' = [writeQ EXCEPT ![s] = Append(@, u)]
       /\ UNCHANGED unsaved
  ELSE /\ unsaved' = unsaved \cup {u}
       /\ UNCHANGED writeQ

\* LoadUserInfo: InQueue of the request to the loaders; the request waits
\* there.  When the queue is full DealPkg fails and the request is gone.
LoadUserInfo(s, u, m) ==
  IF Len(loadQ[s]) < QueueLen
  THEN /\ loadQ' = [loadQ EXCEPT ![s] = Append(@, [user |-> u, req |-> m])]
       /\ UNCHANGED dropped
  ELSE /\ dropped' = dropped \cup {m.sn}
       /\ UNCHANGED loadQ

\* The slot of the request list that AddFriendReq writes to: the first one
\* that is empty or not valid, else the one with the latest request
RequestSlot(reqs) ==
  LET open == {i \in 1..Len(reqs) : reqs[i].user = None \/ ~reqs[i].valid}
  IN IF open # {}
     THEN CHOOSE i \in open : \A j \in open : i <= j
     ELSE CHOOSE i \in 1..Len(reqs) :
            \A j \in 1..Len(reqs) : \/ reqs[i].time > reqs[j].time
                                    \/ reqs[i].time = reqs[j].time /\ i <= j

\* CUserShmApi::AddFriendReq: IsValid is left as it was
AddFriendReq(info, u) ==
  LET slot == RequestSlot(info.reqs)
  IN  [info EXCEPT !.active = now,
                   !.reqs = [@ EXCEPT ![slot] = [user |-> u, time |-> now,
                                                 valid |-> info.reqs[slot].valid]]]

\* InsertUserInfo of a new user
InsertNew(s, m) ==
  cache' = IF CanInsert(s, m.user)
           THEN [cache EXCEPT ![s][m.user] =
                   [nick |-> m.tag, birthday |-> m.tag, active |-> now,
                    reqs |-> EmptyList]]
           ELSE cache

\* As the next definition, but the new user is never written
UserRegisterUnwritten(s, m, rest) ==
  /\ m.cmd = "UserRegisterReq"
  /\ InsertNew(s, m)
  /\ net' = rest \cup {Packet("UserRegisterRsp", m.sn, m.user, None, None, 0)}
  /\ UNCHANGED <<loadQ, writeQ, unsaved, dropped, effects>>

\* DealPkg, Cmd_User_Register_Req: answered with 0 whatever Insert said
UserRegister(s, m, rest) ==
  /\ m.cmd = "UserRegisterReq"
  /\ InsertNew(s, m)
  /\ WriteUserInfo(s, m.user)
  /\ net' = rest \cup {Packet("UserRegisterRsp", m.sn, m.user, None, None, 0)}
  /\ UNCHANGED <<loadQ, dropped, effects>>

\* the request enters the list of the other user
AddToList(s, m) ==
  /\ cache' = [cache EXCEPT ![s][m.other] = AddFriendReq(@, m.user)]
  /\ effects' = [effects EXCEPT ![m.sn] = @ + 1]

\* the end of a friend request: the list of the other user, his row, the answer
Befriend(s, m, rest) ==
  /\ AddToList(s, m)
  /\ WriteUserInfo(s, m.other)
  /\ net' = rest \cup {Packet("AddFriendRsp", m.sn, m.user, m.other, None, 0)}
  /\ UNCHANGED <<loadQ, dropped>>

\* DealPkg, Cmd_User_AddFriend_Req: both users must be cached here, or the
\* request goes on to the server of the other one
UserAddFriend(s, m, rest) ==
  /\ m.cmd = "AddFriendReq"
  /\ IF cache[s][m.user] = NoInfo
     THEN /\ LoadUserInfo(s, m.user, m)
          /\ net' = rest
          /\ UNCHANGED <<cache, writeQ, effects, unsaved>>
     ELSE IF GetUserServer(m.other) # s
     THEN /\ net' = rest \cup {Packet("AddFriendReq2", m.sn, m.user, m.other,
                                      cache[s][m.user].nick, 0)}
          /\ UNCHANGED <<cache, loadQ, writeQ, dropped, effects, unsaved>>
     ELSE IF cache[s][m.other] = NoInfo
     THEN /\ LoadUserInfo(s, m.other, m)
          /\ net' = rest
          /\ UNCHANGED <<cache, writeQ, effects, unsaved>>
     ELSE Befriend(s, m, rest)

\* DealPkg, Cmd_User_AddFriend_Req2
UserAddFriend2(s, m, rest) ==
  /\ m.cmd = "AddFriendReq2"
  /\ IF cache[s][m.other] = NoInfo
     THEN /\ LoadUserInfo(s, m.other, m)
          /\ net' = rest
          /\ UNCHANGED <<cache, writeQ, effects, unsaved>>
     ELSE Befriend(s, m, rest)

DealPkg(s, m, rest) ==
  /\ \/ UserRegister(s, m, rest)
     \/ UserAddFriend(s, m, rest)
     \/ UserAddFriend2(s, m, rest)
  /\ UNCHANGED <<now, passwd, online, db, loader, writer, up, faults, sent,
                 answer>>

\* the server a packet on the bus is addressed to
ServerOf(m) == IF m.cmd = "UserRegisterReq" THEN RegisterServer(m.user)
               ELSE IF m.cmd = "AddFriendReq2" THEN GetUserServer(m.other)
               ELSE GetUserServer(m.user)

UserCmds == {"UserRegisterReq", "AddFriendReq", "AddFriendReq2"}

\* Run, m_RecvQueue
UserRecv(s, m) ==
  /\ s \in up
  /\ m.cmd \in UserCmds
  /\ ServerOf(m) = s
  /\ DealPkg(s, m, net \ {m})
  /\ UNCHANGED loadedQ

\* As the next definition, but the answer of the loader stays in the queue
UserLoadedPeeks(s) ==
  /\ s \in up
  /\ loadedQ[s] # << >>
  /\ Head(loadedQ[s]).ret = 0
  /\ DealPkg(s, Head(loadedQ[s]).req, net)
  /\ UNCHANGED loadedQ

\* Run, m_LoaderRecvQueue: a request whose load failed is given up
UserLoaded(s) ==
  /\ s \in up
  /\ loadedQ[s] # << >>
  /\ loadedQ' = [loadedQ EXCEPT ![s] = Tail(@)]
  /\ LET rsp == Head(loadedQ[s])
     IN IF rsp.ret # 0
        THEN /\ dropped' = dropped \cup {rsp.req.sn}
             /\ UNCHANGED <<now, passwd, online, net, cache, loadQ, writeQ, db,
                            loader, writer, up, faults, sent, answer, effects,
                            unsaved>>
        ELSE DealPkg(s, rsp.req, net)

\* CheckValid: CheckUserIsValid and RemoveUserInfoWhenInValid
CheckValid(s, u) ==
  /\ s \in up
  /\ cache[s][u] # NoInfo
  /\ Expired(cache[s][u])
  /\ cache' = [cache EXCEPT ![s][u] = NoInfo]
  /\ UNCHANGED <<now, passwd, online, net, loadQ, loadedQ, writeQ, db, loader,
                 writer, up, faults, sent, answer, dropped, effects, unsaved>>

-----------------------------------------------------------------------------
(* Loader processes.                                                       *)

\* As the next definition, but two loaders may take one request
LoaderTakePeeks(s, l) ==
  /\ loader[l].pc = "idle"
  /\ loadQ[s] # << >>
  /\ loader' = [loader EXCEPT ![l] = [pc |-> "query", load |-> Head(loadQ[s]),
                                      row |-> NoInfo]]
  /\ UNCHANGED <<now, passwd, online, net, cache, loadQ, loadedQ, writeQ, db,
                 writer, up, faults, sent, answer, dropped, effects, unsaved>>

\* Entity: OutQueue
LoaderTake(s, l) ==
  /\ loader[l].pc = "idle"
  /\ loadQ[s] # << >>
  /\ loader' = [loader EXCEPT ![l] = [pc |-> "query", load |-> Head(loadQ[s]),
                                      row |-> NoInfo]]
  /\ loadQ' = [loadQ EXCEPT ![s] = Tail(@)]
  /\ UNCHANGED <<now, passwd, online, net, cache, loadedQ, writeQ, db, writer,
                 up, faults, sent, answer, dropped, effects, unsaved>>

\* ProcessLoaderUserInfo: the select; no row and no answer are both failures
LoaderQuery(l, ok) ==
  /\ loader[l].pc = "query"
  /\ Query(ok)
  /\ loader' = [loader EXCEPT ![l] =
                   [pc |-> "insert", load |-> loader[l].load,
                    row |-> IF ok THEN db[loader[l].load.user] ELSE NoInfo]]
  /\ UNCHANGED <<now, passwd, online, net, cache, loadQ, loadedQ, writeQ, db,
                 writer, up, sent, answer, dropped, effects, unsaved>>

\* UserProtoString2Struct: birthday and request list are not restored
UserProtoString2Struct(row) ==
  [nick |-> row.nick, birthday |-> None, active |-> now, reqs |-> EmptyList]

\* ProcessLoaderUserInfo: insert into the table; from here on the row only
\* says whether that succeeded
LoaderInsert(s, l) ==
  /\ loader[l].pc = "insert"
  /\ LET load == loader[l].load
         good == loader[l].row # NoInfo /\ CanInsert(s, load.user)
     IN /\ cache' = IF good THEN [cache EXCEPT ![s][load.user] =
                                    UserProtoString2Struct(loader[l].row)]
                    ELSE cache
        /\ loader' = [loader EXCEPT ![l] =
                        [pc |-> "answer", load |-> load,
                         row |-> IF good THEN loader[l].row ELSE NoInfo]]
  /\ UNCHANGED <<now, passwd, online, net, loadQ, loadedQ, writeQ, db, writer, up,
                 faults, sent, answer, dropped, effects, unsaved>>

\* As the next definition, but a load that failed is not answered
LoaderAnswerSilent(s, l) ==
  /\ loader[l].pc = "answer"
  /\ IF loader[l].row # NoInfo /\ Len(loadedQ[s]) < QueueLen
     THEN loadedQ' = [loadedQ EXCEPT ![s] =
                         Append(@, [ret |-> 0, req |-> loader[l].load.req])]
     ELSE UNCHANGED loadedQ
  /\ loader' = [loader EXCEPT ![l] = Idle]
  /\ UNCHANGED <<now, passwd, online, net, cache, loadQ, writeQ, db, writer, up,
                 faults, sent, answer, dropped, effects, unsaved>>

\* ProcessLoaderUserInfo: the answer; one that does not fit into the queue is
\* only logged
LoaderAnswer(s, l) ==
  /\ loader[l].pc = "answer"
  /\ LET req == loader[l].load.req
         ret == IF loader[l].row # NoInfo THEN 0 ELSE -1
     IN IF Len(loadedQ[s]) < QueueLen
        THEN /\ loadedQ' = [loadedQ EXCEPT ![s] = Append(@, [ret |-> ret, req |-> req])]
             /\ UNCHANGED dropped
        ELSE /\ dropped' = dropped \cup {req.sn}
             /\ UNCHANGED loadedQ
  /\ loader' = [loader EXCEPT ![l] = Idle]
  /\ UNCHANGED <<now, passwd, online, net, cache, loadQ, writeQ, db, writer, up,
                 faults, sent, answer, effects, unsaved>>

-----------------------------------------------------------------------------
(* Writer processes.                                                       *)

\* Entity: OutQueue
WriterTake(s, w) ==
  /\ writer[w].pc = "idle"
  /\ writeQ[s] # << >>
  /\ writer' = [writer EXCEPT ![w] = [pc |-> "get", user |-> Head(writeQ[s]),
                                      row |-> NoInfo]]
  /\ writeQ' = [writeQ EXCEPT ![s] = Tail(@)]
  /\ UNCHANGED <<now, passwd, online, net, cache, loadQ, loadedQ, db, loader, up,
                 faults, sent, answer, dropped, effects, unsaved>>

\* Struct2ProtoStringUser: the lists are not written
Struct2ProtoStringUser(info) ==
  [nick |-> info.nick, birthday |-> info.birthday, active |-> 0, reqs |-> << >>]

\* ProcessWriterUserInfo: GetUserInfo; a user who is no longer cached is not
\* written
WriterGet(s, w) ==
  /\ writer[w].pc = "get"
  /\ LET u == writer[w].user
     IN IF cache[s][u] = NoInfo
        THEN /\ writer' = [writer EXCEPT ![w] = NoWrite]
             /\ unsaved' = unsaved \cup {u}
        ELSE /\ writer' = [writer EXCEPT ![w] =
                             [pc |-> "replace", user |-> u,
                              row |-> Struct2ProtoStringUser(cache[s][u])]]
             /\ UNCHANGED unsaved
  /\ UNCHANGED <<now, passwd, online, net, cache, loadQ, loadedQ, writeQ, db,
                 loader, up, faults, sent, answer, dropped, effects>>

\* ProcessWriterUserInfo: REPLACE INTO
WriterReplace(w, ok) ==
  /\ writer[w].pc = "replace"
  /\ Query(ok)
  /\ IF ok
     THEN /\ db' = [db EXCEPT ![writer[w].user] = writer[w].row]
          /\ UNCHANGED unsaved
     ELSE /\ unsaved' = unsaved \cup {writer[w].user}
          /\ UNCHANGED db
  /\ writer' = [writer EXCEPT ![w] = NoWrite]
  /\ UNCHANGED <<now, passwd, online, net, cache, loadQ, loadedQ, writeQ, loader,
                 up, sent, answer, dropped, effects>>

-----------------------------------------------------------------------------
(* Time, faults and restarts.                                              *)
Tick ==
  /\ \E t \in Clock : t > now /\ now' = t
  /\ UNCHANGED <<passwd, online, net, cache, loadQ, loadedQ, writeQ, db, loader,
                 writer, up, faults, sent, answer, dropped, effects, unsaved>>

Fault == faults < MaxFaults /\ faults' = faults + 1

\* Send2Server finds the queue full, or the bus drops the packet
Lose(m) ==
  /\ Fault
  /\ net' = net \ {m}
  /\ dropped' = dropped \cup {m.sn}
  /\ UNCHANGED <<now, passwd, online, cache, loadQ, loadedQ, writeQ, db, loader,
                 writer, up, sent, answer, effects, unsaved>>

\* the stores of DealPkg to the table, if the request gets that far
UserStores(s, m) ==
  \/ m.cmd = "UserRegisterReq" /\ InsertNew(s, m) /\ UNCHANGED effects
  \/ /\ \/ m.cmd = "AddFriendReq" /\ cache[s][m.user] # NoInfo /\ GetUserServer(m.other) = s
        \/ m.cmd = "AddFriendReq2"
     /\ cache[s][m.other] # NoInfo
     /\ AddToList(s, m)

\* the user whose write DealPkg asks for
Written(m) == IF m.cmd = "UserRegisterReq" THEN m.user ELSE m.other

\* the user process dies in DealPkg, before its stores to the table, before it
\* asks for the write, or before it answers; shared memory and queues stay
DieInDealPkg(s, m) ==
  /\ Fault
  /\ s \in up
  /\ up' = up \ {s}
  /\ dropped' = dropped \cup {m.sn}
  /\ \/ UNCHANGED <<cache, effects, writeQ, unsaved>>
     \/ /\ UserStores(s, m)
        /\ \/ unsaved' = unsaved \cup {Written(m)} /\ UNCHANGED writeQ
           \/ WriteUserInfo(s, Written(m))
  /\ UNCHANGED <<now, passwd, online, loadQ, db, loader, writer, sent, answer>>

\* ... with a packet from the bus, ...
UserDies(s, m) ==
  /\ m.cmd \in UserCmds /\ ServerOf(m) = s
  /\ DieInDealPkg(s, m)
  /\ net' = net \ {m}
  /\ UNCHANGED loadedQ

\* ... with an answer of the loaders, ...
UserDiesLoaded(s) ==
  /\ loadedQ[s] # << >>
  /\ Head(loadedQ[s]).ret = 0
  /\ DieInDealPkg(s, Head(loadedQ[s]).req)
  /\ loadedQ' = [loadedQ EXCEPT ![s] = Tail(@)]
  /\ UNCHANGED net

\* ... or in CheckValid, before or after the user is out of the chain.  A death
\* between two packets would only delay the next one.
UserDiesChecking(s, u) ==
  /\ Fault
  /\ s \in up
  /\ cache[s][u] # NoInfo
  /\ Expired(cache[s][u])
  /\ up' = up \ {s}
  /\ cache' \in {cache, [cache EXCEPT ![s][u] = NoInfo]}
  /\ UNCHANGED <<now, passwd, online, net, loadQ, loadedQ, writeQ, db, loader,
                 writer, sent, answer, dropped, effects, unsaved>>

\* CUser::Init: attach to the queues and the table as they are.  It fails on a
\* table that Verify refuses, after a death within Insert or Remove (module
\* HashList), until the operator removes it and Init sets up an empty one.
UserInit(s) ==
  /\ s \notin up
  /\ up' = up \cup {s}
  /\ \/ UNCHANGED cache
     \/ cache' = [cache EXCEPT ![s] = [u \in Users |-> NoInfo]]
  /\ UNCHANGED <<now, passwd, online, net, loadQ, loadedQ, writeQ, db,
                 loader, writer, faults, sent, answer, dropped, effects, unsaved>>

\* a loader dies with the request it took from the queue
LoaderDies(l) ==
  /\ Fault
  /\ loader[l].pc # "down"
  /\ dropped' = IF loader[l].pc = "idle" THEN dropped
                ELSE dropped \cup {loader[l].load.req.sn}
  /\ loader' = [loader EXCEPT ![l] = [Idle EXCEPT !.pc = "down"]]
  /\ UNCHANGED <<now, passwd, online, net, cache, loadQ, loadedQ, writeQ, db,
                 writer, up, sent, answer, effects, unsaved>>

\* a writer dies with the user id it took from the queue
WriterDies(w) ==
  /\ Fault
  /\ writer[w].pc # "down"
  /\ unsaved' = IF writer[w].pc = "idle" THEN unsaved
                ELSE unsaved \cup {writer[w].user}
  /\ writer' = [writer EXCEPT ![w] = [NoWrite EXCEPT !.pc = "down"]]
  /\ UNCHANGED <<now, passwd, online, net, cache, loadQ, loadedQ, writeQ, db,
                 loader, up, sent, answer, dropped, effects>>

\* CProcessManager::Run: waitpid returns, AddEntity forks another process,
\* and its Entity connects to the databases
LoaderEntity(l) ==
  /\ loader[l].pc = "down"
  /\ loader' = [loader EXCEPT ![l] = Idle]
  /\ UNCHANGED <<now, passwd, online, net, cache, loadQ, loadedQ, writeQ, db,
                 writer, up, faults, sent, answer, dropped, effects, unsaved>>

WriterEntity(w) ==
  /\ writer[w].pc = "down"
  /\ writer' = [writer EXCEPT ![w] = NoWrite]
  /\ UNCHANGED <<now, passwd, online, net, cache, loadQ, loadedQ, writeQ, db,
                 loader, up, faults, sent, answer, dropped, effects, unsaved>>

-----------------------------------------------------------------------------
SvcInit ==
  /\ now = CHOOSE t \in Clock : \A x \in Clock : t <= x
  /\ passwd = [u \in Users |-> IF u \in Known THEN u ELSE None]
  /\ online = Known
  /\ net = {}
  /\ cache = [s \in Servers |-> [u \in Users |-> NoInfo]]
  /\ loadQ = [s \in Servers |-> << >>]
  /\ loadedQ = [s \in Servers |-> << >>]
  /\ writeQ = [s \in Servers |-> << >>]
  /\ db = [u \in Users |-> IF u \in Known
                           THEN [nick |-> u, birthday |-> u, active |-> 0,
                                 reqs |-> << >>]
                           ELSE NoInfo]
  /\ loader = [l \in AllLoaders |-> Idle]
  /\ writer = [w \in AllWriters |-> NoWrite]
  /\ up = Servers
  /\ faults = 0
  /\ sent = {}
  /\ answer = [r \in Requests |-> NotYet]
  /\ dropped = {}
  /\ effects = [r \in Requests |-> 0]
  /\ unsaved = {}

ConnStep == \E m \in net : ConnRegistered(m) \/ ConnAnswers(m)
AuthStep == \E m \in net, ok \in BOOLEAN : AuthRegister(m, ok) \/ AuthLogin(m, ok)
UserStep(s) == UserInit(s) \/ UserLoaded(s) \/ (\E m \in net : UserRecv(s, m))
LoaderStep(s, l) ==
  \/ LoaderTake(s, l) \/ LoaderInsert(s, l) \/ LoaderAnswer(s, l) \/ LoaderEntity(l)
  \/ \E ok \in BOOLEAN : LoaderQuery(l, ok)
WriterStep(s, w) ==
  \/ WriterTake(s, w) \/ WriterGet(s, w) \/ WriterEntity(w)
  \/ \E ok \in BOOLEAN : WriterReplace(w, ok)

\* requests are numbered in the order they are sent; who is known is online,
\* so that logins matter for the users registered during the run
ClientStep ==
  \E sn \in Requests :
    /\ \A r \in Requests : r < sn => r \in sent
    /\ \/ ClientRegister(sn)
       \/ \E u \in Clock : \E tag \in {passwd[u], None} : ClientLogin(sn, u, tag)
       \/ \E f \in Friendships : ClientAddFriend(sn, f[1], f[2])

FaultStep ==
  \/ \E m \in net : Lose(m) \/ (\E s \in Servers : UserDies(s, m))
  \/ \E s \in Servers : UserDiesLoaded(s) \/ (\E u \in Users : UserDiesChecking(s, u))
  \/ \E l \in AllLoaders : LoaderDies(l)
  \/ \E w \in AllWriters : WriterDies(w)

SvcNext ==
  \/ ClientStep \/ ConnStep \/ AuthStep \/ Tick \/ FaultStep
  \/ \E s \in Servers :
       \/ UserStep(s)
       \/ \E u \in Users : CheckValid(s, u)
       \/ \E l \in Loaders[s] : LoaderStep(s, l)
       \/ \E w \in Writers[s] : WriterStep(s, w)

SvcSpec == SvcInit /\ [][SvcNext]_svcVars

\* Every server and process polls its queues in a loop without end; a dead
\* child is replaced by CProcessManager, a dead server by its operator.
SvcFairSpec ==
  /\ SvcSpec
  /\ WF_svcVars(ConnStep) /\ WF_svcVars(AuthStep)
  /\ \A s \in Servers : WF_svcVars(UserStep(s))
  /\ \A s \in Servers, l \in AllLoaders : l \in Loaders[s] => WF_svcVars(LoaderStep(s, l))

-----------------------------------------------------------------------------
(* Properties.                                                             *)
Infos == [nick : Tags \cup {None}, birthday : Tags \cup {None},
          active : Clock \cup {0},
          reqs : {<< >>} \cup
                 [1..MaxRequestNum -> [user : Users \cup {None},
                                       time : Clock \cup {0}, valid : BOOLEAN]]]
Packets == [cmd : UserCmds \cup {"AuthRegisterReq", "AuthRegisterRsp",
                   "AuthLoginReq", "AuthLoginRsp", "UserRegisterRsp",
                   "AddFriendRsp"},
            sn : Requests, user : Users \cup {None}, other : Users \cup {None},
            tag : Tags \cup {None}, ret : 0..2]

\* Type invariant: the state of the servers, the queues of at most QueueLen
\* entries, the tables of at most MaxUserNodeNum users.
SvcTypeOK ==
  /\ now \in Clock /\ online \subseteq Users /\ up \subseteq Servers
  /\ passwd \in [Users -> Tags \cup {None}]
  /\ net \subseteq Packets
  /\ cache \in [Servers -> [Users -> Infos]]
  /\ db \in [Users -> Infos]
  /\ \A s \in Servers :
       /\ Cardinality(Cached(s)) <= MaxUserNodeNum
       /\ Len(loadQ[s]) <= QueueLen /\ Len(loadedQ[s]) <= QueueLen
       /\ writeQ[s] \in Seq(Users) /\ Len(writeQ[s]) <= QueueLen
       /\ \A i \in 1..Len(loadQ[s]) : loadQ[s][i] \in [user : Users, req : Packets]
       /\ \A i \in 1..Len(loadedQ[s]) : loadedQ[s][i] \in [ret : {0, -1}, req : Packets]
  /\ faults \in 0..MaxFaults /\ sent \subseteq Requests
  /\ dropped \subseteq Requests /\ unsaved \subseteq Users

\* Where a request is: on the bus, with the loaders, answered or given up.
Waiting(sn) ==
  {<<"bus", m>> : m \in {x \in net : x.sn = sn}} \cup
  (UNION {{<<"load", s, i>> : i \in {j \in 1..Len(loadQ[s]) : loadQ[s][j].req.sn = sn}} \cup
          {<<"loaded", s, i>> : i \in {j \in 1..Len(loadedQ[s]) : loadedQ[s][j].req.sn = sn}}
            : s \in Servers}) \cup
  {<<"loader", l>> : l \in {x \in AllLoaders : /\ loader[x].pc \in {"query", "insert", "answer"}
                                               /\ loader[x].load.req.sn = sn}}
Ended(sn) == IF answer[sn] # NotYet \/ sn \in dropped THEN 1 ELSE 0

\* A request that was sent is in exactly one place at any time, even while it
\* is parked with a loader, handed from one user server to the other, or hit by
\* a fault: DealPkg runs again for a request after each load, up to twice, and
\* must never leave a second copy behind or answer it twice.
OnePlace ==
  \A sn \in Requests :
    /\ Cardinality(Waiting(sn)) + Ended(sn) = (IF sn \in sent THEN 1 ELSE 0)
    /\ ~(answer[sn] # NotYet /\ sn \in dropped)

\* A friend request that is answered has been entered into the other user's
\* list exactly once, and none is ever entered twice, although the handler is
\* started again from the beginning after each load (user_proc.cpp 457-601).
FriendOnce ==
  \A sn \in Requests :
    /\ effects[sn] <= 1
    /\ \A m \in net : m.cmd = "AddFriendRsp" => effects[m.sn] = 1

\* Whatever the order of registrations in one second, loads, evictions, write
\* backs and restarts, a user's copies (tables of both servers, row, copies in
\* the hands of loaders and writers) carry the name given by the one client
\* whose registration the auth database accepted.
CopiesFaithful ==
  /\ \A u \in Users :
       LET own(info) == info # NoInfo => info.nick = passwd[u]
                                         /\ info.birthday \in {passwd[u], None}
       IN /\ own(db[u]) /\ \A s \in Servers : own(cache[s][u])
          /\ \A l \in AllLoaders : (loader[l].pc = "insert" /\ loader[l].load.user = u)
                                     => own(loader[l].row)
          /\ \A w \in AllWriters : (writer[w].pc = "replace" /\ writer[w].user = u)
                                     => own(writer[w].row)
  /\ \A m \in net : m.cmd = "AddFriendReq2" => m.tag = passwd[m.user]

\* A user whose client was told that the registration succeeded has a row in
\* the database, or is in the table of his server with the write still to
\* come, unless that write was given up (unsaved): evicted too early, queue or
\* table full, database error, death of the writer.
RegisteredKept ==
  \A sn \in Requests :
    LET u == answer[sn].user
    IN (answer[sn].ret = 0 /\ u \in Clock /\ passwd[u] = sn)
         => \/ db[u] # NoInfo
            \/ u \in unsaved
            \/ \E i \in 1..Len(writeQ[RegisterServer(u)]) :
                 writeQ[RegisterServer(u)][i] = u
            \/ \E w \in AllWriters : writer[w].pc \in {"get", "replace"} /\ writer[w].user = u

\* Every request comes to an end, answered or given up, although its handler
\* starts again after each load and two of them may wait for the same user.
\* Clients send finitely many requests and an end is for good (OnePlace), so
\* this is that in the end none is left waiting.
RequestEnds == <>[](\A sn \in sent : Ended(sn) = 1)

=============================================================================
