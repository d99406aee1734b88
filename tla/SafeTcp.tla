------------------------------ MODULE SafeTcp ------------------------------
(***************************************************************************)
(* CSafeTcpClient: requests over one of several servers' connections, with *)
(* the servers' states in shared memory, retries and time-outs.            *)
(* mmlib/safe_tcp_client/safe_tcp_client.cpp                               *)
(*                                                                         *)
(* Server i is m_astSTcpConnData[i].  A request is its number, the answer  *)
(* to it AnswerLen bytes <<request, i>>.  Clock readings (retry interval,  *)
(* peer time-out, ten-hour clean-up) are choices.  The caller receives an  *)
(* answer, or closes the connection, before it sends the next request, and *)
(* passes the answer's length as uiExpectLen.                              *)
(***************************************************************************)
EXTENDS Integers, Sequences, FiniteSets

CONSTANTS
  SvrNum,      \* m_iSTcpConnDataNum
  MaxStatus,   \* STCP_MAX_CONN_STATUS
  AnswerLen,   \* bytes of an answer
  MaxReqs      \* bound: requests

ASSUME SafeAssumption ==
  /\ SvrNum \in Nat \ {0} /\ MaxStatus \in Nat \ {0}
  /\ AnswerLen \in Nat \ {0} /\ MaxReqs \in Nat

Svrs == 0..(SvrNum - 1)
NoSvr == SvrNum
Failed == {"E_CONN", "E_SEND"}
MaxRetryTimes == (SvrNum \div 2) + 1

VARIABLES
  scConn,    \* [Svrs -> the socket: open; peer: the server's end is open;
             \*  reqs: requests the server has; wire: bytes it has sent]
  scUp,      \* servers that accept connections
  scNodes,   \* astSTcpConnStatus, and the place one past its end
  scNum,     \* uiConnStatusNum
  scCur,     \* m_pstCurConnData, NoSvr for NULL
  scNode,    \* m_pstCurConnStatus: index of a node, 0 for m_stFullConnStatus
  scPc,      \* where the call is; "sent": Send has returned, Recv is to come
  scRecv,    \* the call is SendAndRecv
  scIdx,     \* iRandomConnIDX
  scTries,   \* iRetryTimes
  scReq,     \* requests so far
  scGot,     \* bytes received for the current request
  scEintr,   \* errno is EINTR
  scAnswer   \* what Recv or SendAndRecv has returned last, and the request

safeVars == <<scConn, scUp, scNodes, scNum, scCur, scNode, scPc, scRecv, scIdx,
              scTries, scReq, scGot, scEintr, scAnswer>>

NoConn == [open |-> FALSE, peer |-> FALSE, reqs |-> << >>, wire |-> << >>]
Fresh == [open |-> TRUE, peer |-> TRUE, reqs |-> << >>, wire |-> << >>]
NoNode == [svr |-> NoSvr, status |-> "OK", used |-> FALSE]
AnswerTo(r) == [i \in 1..AnswerLen |-> <<r, i>>]

\* Init, InitStatusShm: no connection, a segment just created.
SafeInit ==
  /\ scConn = [s \in Svrs |-> NoConn] /\ scUp = Svrs
  /\ scNodes = [i \in 1..(MaxStatus + 1) |-> NoNode] /\ scNum = 0
  /\ scCur = NoSvr /\ scNode = 0 /\ scPc = "idle" /\ scRecv = FALSE
  /\ scIdx = 0 /\ scTries = 0 /\ scReq = 0 /\ scGot = << >>
  /\ scEintr = FALSE /\ scAnswer = [req |-> 0, bytes |-> << >>]

-----------------------------------------------------------------------------
(* The status nodes.                                                       *)
Index(s) == {i \in 1..scNum : scNodes[i].svr = s}
FirstIndex(s) == CHOOSE i \in Index(s) : \A j \in Index(s) : i <= j

\* AddSTcpConnStatus: the node of s, an added one, or none when all are taken.
Added(s) ==
  IF Index(s) # {} THEN [nodes |-> scNodes, num |-> scNum, node |-> FirstIndex(s)]
  ELSE IF scNum >= MaxStatus THEN [nodes |-> scNodes, num |-> scNum, node |-> 0]
  ELSE [nodes |-> [scNodes EXCEPT ![scNum + 1] = [NoNode EXCEPT !.svr = s, !.used = TRUE]],
        num |-> scNum + 1, node |-> scNum + 1]

\* SetSTcpConnStatusInternal, the node ...
NodeSet(nodes, n, status) ==
  IF n = 0 THEN nodes
  ELSE [nodes EXCEPT ![n] = [@ EXCEPT !.status = status,
                                      !.used = @ \/ status \in {"OK", "E_CONN"}]]

\* As the next definition, but a failed receive leaves the socket open.
ConnSetKeeps(conn, s, status) ==
  IF status \in Failed THEN [conn EXCEPT ![s] = NoConn] ELSE conn

\* ... and the socket: an error closes it.
ConnSet(conn, s, status) ==
  IF status \in {"E_CONN", "E_SEND", "E_RECV"} THEN [conn EXCEPT ![s] = NoConn] ELSE conn

\* SetSTcpConnStatusInternal with the current connection and node.
SetStatus(status) ==
  /\ scNodes' = NodeSet(scNodes, scNode, status)
  /\ scConn' = ConnSet(scConn, scCur, status)

\* DelConnStatusInternal: the place behind the last node is copied over node i.
Deleted(nodes, num, i) == [nodes EXCEPT ![i] = nodes[num + 1]]

\* The clean-up of GetConnection, from node i on: a node without a request
\* since the last one is deleted, and what is copied to its place not looked at.
Swept ==
  LET step[i \in 1..(MaxStatus + 1)] ==
        IF i = 1 THEN [nodes |-> scNodes, num |-> scNum]
        ELSE LET r == step[i - 1] IN
             IF i - 1 > r.num THEN r
             ELSE IF r.nodes[i - 1].used
             THEN [r EXCEPT !.nodes = [@ EXCEPT ![i - 1] = [@ EXCEPT !.used = FALSE]]]
             ELSE [nodes |-> Deleted(r.nodes, r.num, i - 1), num |-> r.num - 1]
  IN step[MaxStatus + 1]

-----------------------------------------------------------------------------
(* GetConnection.                                                          *)

\* Send or SendAndRecv begins: a random first connection, and the clean-up
\* when ten hours have passed.
Call(recv) ==
  /\ scPc = "idle" /\ scReq < MaxReqs
  /\ scReq' = scReq + 1 /\ scRecv' = recv /\ scGot' = << >>
  /\ scIdx' \in Svrs /\ scTries' = 0 /\ scPc' = "get"
  /\ \/ scNodes' = Swept.nodes /\ scNum' = Swept.num
     \/ UNCHANGED <<scNodes, scNum>>
  /\ UNCHANGED <<scConn, scUp, scCur, scNode, scEintr, scAnswer>>

\* ConnectInternal: the socket is closed first; even a server that is up may
\* answer too late.
Connects(s) == {FALSE} \cup {ok \in {TRUE} : s \in scUp}

\* The connection is taken.
Use == scPc' = "send" /\ UNCHANGED <<scIdx, scTries>>

\* It is of no use: the next one, or a forced reconnection.
NextTry ==
  /\ scTries' = scTries + 1
  /\ IF scTries + 1 < MaxRetryTimes
     THEN scIdx' = (scIdx + 1) % SvrNum /\ UNCHANGED scPc
     ELSE scPc' = "force" /\ UNCHANGED scIdx

\* ConnectInternal to s, whose node is n; onFail is what follows a failure.
Connect(nodes, n, s, onFail) ==
  \E ok \in Connects(s) :
    /\ IF ok THEN /\ scConn' = [scConn EXCEPT ![s] = Fresh] /\ scNodes' = nodes /\ Use
             ELSE /\ scConn' = ConnSet(scConn, s, "E_CONN")
                  /\ scNodes' = NodeSet(nodes, n, "E_CONN") /\ onFail
    /\ scEintr' = FALSE

GiveUp == scPc' = "idle" /\ UNCHANGED <<scIdx, scTries>>

\* One turn of the loop.
TryConnection ==
  /\ scPc = "get"
  /\ LET a == Added(scIdx)
         open == scConn[scIdx].open
         failed == a.node # 0 /\ a.nodes[a.node].status \in Failed
     IN /\ scCur' = scIdx /\ scNode' = a.node /\ scNum' = a.num
        /\ \/ /\ open                                 \* used not long ago
              /\ Use /\ scNodes' = a.nodes /\ UNCHANGED <<scConn, scEintr>>
           \/ /\ open \/ failed                       \* m_iPeerTimeOut, m_iRetryInterval
              /\ Connect(a.nodes, a.node, scIdx, NextTry)
           \/ /\ ~open /\ failed                      \* too early for a retry
              /\ NextTry /\ scNodes' = a.nodes /\ UNCHANGED <<scConn, scEintr>>
           \/ /\ ~open /\ ~failed                     \* the first connect
              /\ Connect(a.nodes, a.node, scIdx, GiveUp)
  /\ UNCHANGED <<scUp, scRecv, scReq, scGot, scAnswer>>

\* One of the connections just tried is connected whatever its state says.
ForceConnection ==
  /\ scPc = "force"
  /\ \E r \in 0..(MaxRetryTimes - 1) :
       LET s == (scCur + SvrNum - r) % SvrNum
           a == Added(s)
       IN /\ scCur' = s /\ scNode' = a.node /\ scNum' = a.num
          /\ Connect(a.nodes, a.node, s, GiveUp)
  /\ UNCHANGED <<scUp, scRecv, scReq, scGot, scAnswer>>

-----------------------------------------------------------------------------
(* SendInternal and RecvInternal.                                          *)
SendInternal ==
  /\ scPc = "send"
  /\ \/ /\ scConn[scCur].open
        /\ LET c == [scConn EXCEPT ![scCur].reqs = IF scConn[scCur].peer
                                                   THEN Append(@, scReq) ELSE @]
           IN IF scRecv THEN scConn' = c /\ scPc' = "recv" /\ UNCHANGED scNodes
              ELSE /\ scConn' = ConnSet(c, scCur, "OK") /\ scPc' = "sent"
                   /\ scNodes' = NodeSet(scNodes, scNode, "OK")
     \/ SetStatus("E_SEND") /\ scPc' = "idle"
  /\ UNCHANGED <<scUp, scNum, scCur, scNode, scRecv, scIdx, scTries, scReq,
                 scGot, scEintr, scAnswer>>

\* Recv uses the connection of the last Send.
Recv ==
  /\ scPc = "sent" /\ scPc' = "recv"
  /\ UNCHANGED <<scConn, scUp, scNodes, scNum, scCur, scNode, scRecv, scIdx,
                 scTries, scReq, scGot, scEintr, scAnswer>>

\* read() until uiExpectLen bytes are there, then the status.
ReadSome ==
  /\ scPc = "recv" /\ scConn[scCur].open
  /\ \E n \in 1..(AnswerLen - Len(scGot)) :
       LET wire == scConn[scCur].wire
           got == scGot \o SubSeq(wire, 1, n)
       IN /\ n <= Len(wire)
          /\ scConn' = [scConn EXCEPT ![scCur].wire = SubSeq(wire, n + 1, Len(wire))]
          /\ scGot' = got
          /\ IF Len(got) < AnswerLen THEN UNCHANGED <<scPc, scNodes, scAnswer>>
             ELSE /\ scNodes' = NodeSet(scNodes, scNode, "OK")
                  /\ scAnswer' = [req |-> scReq, bytes |-> got]
                  /\ scPc' = "idle"
  /\ UNCHANGED <<scUp, scNum, scCur, scNode, scRecv, scIdx, scTries, scReq, scEintr>>

\* poll() times out or reports an error; or the server has closed and read()
\* returns 0, which ends the call unless errno is still EINTR.
RecvFails ==
  /\ scPc = "recv"
  /\ LET c == scConn[scCur] IN ~c.open \/ c.wire # << >> \/ c.peer \/ ~scEintr
  /\ SetStatus("E_RECV")
  /\ scPc' = "idle"
  /\ UNCHANGED <<scUp, scNum, scCur, scNode, scRecv, scIdx, scTries, scReq,
                 scGot, scEintr, scAnswer>>

\* A signal interrupts poll().
PollInterrupted ==
  /\ scPc \in {"send", "recv"} /\ ~scEintr
  /\ scEintr' = TRUE
  /\ UNCHANGED <<scConn, scUp, scNodes, scNum, scCur, scNode, scPc, scRecv,
                 scIdx, scTries, scReq, scGot, scAnswer>>

\* CloseCurConn, and CloseAllConn of an idle client (Destory before an Init).
CloseConns(S) ==
  /\ scPc \in {"idle", "sent"} /\ (scPc = "sent" => scCur \in S)
  /\ \E s \in S : scConn[s].open
  /\ scConn' = [s \in Svrs |-> IF s \in S THEN NoConn ELSE scConn[s]]
  /\ scPc' = "idle"
  /\ UNCHANGED <<scUp, scNodes, scNum, scCur, scNode, scRecv, scIdx, scTries,
                 scReq, scGot, scEintr, scAnswer>>

\* SetConnStatus: the node of s, but the socket of the current connection.
SetConnStatus(s, status) ==
  /\ scPc = "idle" /\ scCur # NoSvr
  /\ LET a == Added(s)
     IN /\ scNode' = a.node /\ scNum' = a.num
        /\ scNodes' = NodeSet(a.nodes, a.node, status)
        /\ scConn' = ConnSet(scConn, scCur, status)
  /\ UNCHANGED <<scUp, scCur, scPc, scRecv, scIdx, scTries, scReq, scGot,
                 scEintr, scAnswer>>

\* DelConnStatus, of this or of another process that has the shared memory.
DelConnStatus(s) ==
  /\ Index(s) # {}
  /\ scNodes' = Deleted(scNodes, scNum, FirstIndex(s))
  /\ scNum' = scNum - 1
  /\ UNCHANGED <<scConn, scUp, scCur, scNode, scPc, scRecv, scIdx, scTries,
                 scReq, scGot, scEintr, scAnswer>>

-----------------------------------------------------------------------------
(* The servers.                                                            *)
Answer(s) ==
  /\ scConn[s].peer /\ scConn[s].reqs # << >>
  /\ scConn' = [scConn EXCEPT ![s] = [open |-> @.open, peer |-> TRUE, reqs |-> Tail(@.reqs),
                                      wire |-> @.wire \o AnswerTo(Head(@.reqs))]]
  /\ UNCHANGED <<scUp, scNodes, scNum, scCur, scNode, scPc, scRecv, scIdx,
                 scTries, scReq, scGot, scEintr, scAnswer>>

\* A server goes down, and its end of the connection closes; or comes back.
UpDown(s) ==
  /\ scUp' = IF s \in scUp THEN scUp \ {s} ELSE scUp \cup {s}
  /\ scConn' = [scConn EXCEPT ![s] = [open |-> @.open, peer |-> FALSE,
                                      reqs |-> << >>, wire |-> @.wire]]
  /\ UNCHANGED <<scNodes, scNum, scCur, scNode, scPc, scRecv, scIdx, scTries,
                 scReq, scGot, scEintr, scAnswer>>

SafeNext ==
  \/ \E recv \in BOOLEAN : Call(recv)
  \/ TryConnection \/ ForceConnection \/ SendInternal \/ Recv \/ ReadSome
  \/ RecvFails \/ PollInterrupted
  \/ CloseConns(Svrs) \/ (scCur # NoSvr /\ CloseConns({scCur}))
  \/ \E s \in Svrs : DelConnStatus(s) \/ Answer(s) \/ UpDown(s)
  \/ \E s \in Svrs, st \in {"OK", "E_CONN", "E_SEND", "E_RECV"} : SetConnStatus(s, st)

SafeSpec == SafeInit /\ [][SafeNext]_safeVars

-----------------------------------------------------------------------------
\* What Recv or SendAndRecv returns is the answer to the request just sent:
\* the answer to a request that timed out, was cut off or was left in the
\* socket is never taken for that of a later one, whichever connections the
\* retries chose and however the answers were split.
AnswersMatch == scAnswer.bytes # << >> => scAnswer.bytes = AnswerTo(scAnswer.req)
=============================================================================
