----------------------------- MODULE UnitProofs -----------------------------
(***************************************************************************)
(* Proofs about five of the small machines that MCUnits checks: the TCP    *)
(* client that picks one of several servers (SafeTcp), the bytes of a      *)
(* connection (ByteStream), the rotation of the log files (LogFiles), the  *)
(* maps in a pool of blocks (MemPool) and the timer wheel (TimerPool).     *)
(* They are proved for all values of their constants: any number of        *)
(* servers, requests, packets, files, blocks, levels and timers, and       *)
(* packets, buffers, answers and intervals of any length.                  *)
(***************************************************************************)
EXTENDS SafeTcp, ByteStream, LogFiles, MemPool, TimerPool, NumberLemmas,
        SequenceTheorems, FiniteSetTheorems, TLAPS

\* A byte is tagged with the packet or request it belongs to and its place.
Byte == Nat \X Nat

-----------------------------------------------------------------------------
(***************************************************************************)
(* The TCP client.                                                         *)
(*                                                                         *)
(* AnswersMatch needs that nothing of an earlier request is left on any    *)
(* connection when a call begins (Clean), and that while one is under way  *)
(* the bytes it has received, those on the wire and the request the server *)
(* still has make up one answer to it (Underway).                          *)
(***************************************************************************)

Conn == [open : BOOLEAN, peer : BOOLEAN, reqs : Seq(Nat), wire : Seq(Byte)]

TypeInv ==
    /\ scConn \in [Svrs -> Conn]
    /\ scCur \in Svrs \cup {NoSvr} /\ scIdx \in Svrs
    /\ scPc \in {"idle", "get", "force", "send", "sent", "recv"}
    /\ scPc \in {"force", "send", "sent", "recv"} => scCur \in Svrs
    /\ scReq \in Nat /\ scGot \in Seq(Byte)
    /\ scAnswer \in [req : Nat, bytes : Seq(Byte)]

\* Nothing is on its way on connection c.
Clean(c) == c.reqs = << >> /\ c.wire = << >>

\* Connection c, on which request r was sent and got has been received: the
\* server still has the request, or has answered, or was gone before it could.
Underway(c, r, got) ==
    \/ c.reqs = <<r>> /\ c.wire = << >> /\ got = << >>
    \/ c.reqs = << >> /\ got \o c.wire = AnswerTo(r)
    \/ c.reqs = << >> /\ c.wire = << >> /\ got = << >>

\* Only the connection of a request that was sent may hold anything.
ConnInv ==
    /\ \A s \in Svrs : Clean(scConn[s]) \/ (s = scCur /\ scPc \in {"sent", "recv"})
    /\ scPc \in {"sent", "recv"} => Underway(scConn[scCur], scReq, scGot)
    /\ scPc \in {"get", "force", "send", "sent"} => scGot = << >>

IInv == TypeInv /\ ConnInv /\ AnswersMatch

\* An answer has its length, and its bytes are bytes.
LEMMA AnswerType ==
    ASSUME NEW r \in Nat
    PROVE  AnswerTo(r) \in Seq(Byte) /\ Len(AnswerTo(r)) = AnswerLen
BY SafeAssumption DEF AnswerTo, Byte

\* Reading n bytes moves them from the connection to what was received.
LEMMA ReadMoves ==
    ASSUME NEW got \in Seq(Byte), NEW wire \in Seq(Byte), NEW n \in 1..Len(wire)
    PROVE  LET more == got \o SubSeq(wire, 1, n)
               rest == SubSeq(wire, n + 1, Len(wire))
           IN /\ more \in Seq(Byte) /\ rest \in Seq(Byte)
              /\ Len(more) = Len(got) + n /\ Len(rest) = Len(wire) - n
              /\ more \o rest = got \o wire
<1> DEFINE more == got \o SubSeq(wire, 1, n)
           rest == SubSeq(wire, n + 1, Len(wire))
<1>1. SubSeq(wire, 1, n) \in Seq(Byte) /\ Len(SubSeq(wire, 1, n)) = n
  OBVIOUS
<1>2. rest \in Seq(Byte) /\ Len(rest) = Len(wire) - n
  OBVIOUS
<1>3. more \in Seq(Byte) /\ Len(more) = Len(got) + n
  BY <1>1
<1>4. \A i \in 1..(Len(got) + n) : more[i] = IF i <= Len(got) THEN got[i] ELSE wire[i - Len(got)]
  BY <1>1
<1>5. \A i \in 1..(Len(wire) - n) : rest[i] = wire[i + n]
  OBVIOUS
<1> HIDE DEF more, rest
<1>6. more \o rest \in Seq(Byte) /\ got \o wire \in Seq(Byte)
  BY <1>2, <1>3
<1>7. Len(more \o rest) = Len(got) + Len(wire) /\ Len(got \o wire) = Len(got) + Len(wire)
  <2>1. Len(got) \in Nat /\ Len(wire) \in Nat
    OBVIOUS
  <2>2. Len(more \o rest) = (Len(got) + n) + (Len(wire) - n)
    BY <1>2, <1>3, SMTT(30)
  <2>3. (Len(got) + n) + (Len(wire) - n) = Len(got) + Len(wire)
    BY <2>1
  <2> QED
    BY <2>2, <2>3
<1>8. ASSUME NEW i \in 1..(Len(got) + Len(wire)) PROVE (more \o rest)[i] = (got \o wire)[i]
  <2>1. (got \o wire)[i] = IF i <= Len(got) THEN got[i] ELSE wire[i - Len(got)]
    OBVIOUS
  <2>2. CASE i <= Len(got) + n
    <3>1. (more \o rest)[i] = more[i]
      BY <1>2, <1>3, <2>2
    <3> QED
      BY <1>4, <2>1, <2>2, <3>1
  <2>3. CASE i > Len(got) + n
    <3>1. (more \o rest)[i] = rest[i - (Len(got) + n)]
      BY <1>2, <1>3, <2>3
    <3>2. rest[i - (Len(got) + n)] = wire[(i - (Len(got) + n)) + n]
      BY <1>5, <2>3
    <3> QED
      BY <2>1, <2>3, <3>1, <3>2
  <2>4. i <= Len(got) + n \/ i > Len(got) + n
    BY LenProperties
  <2> QED
    BY <2>2, <2>3, <2>4
<1>9. more \o rest = got \o wire
  BY SeqEqual, <1>6, <1>7, <1>8
<1> QED
  BY <1>2, <1>3, <1>9 DEF more, rest

\* An answer that is received to its length is whole, and nothing is left.
LEMMA ReadWhole ==
    ASSUME NEW more \in Seq(Byte), NEW rest \in Seq(Byte), NEW r \in Nat,
           more \o rest = AnswerTo(r), Len(more) >= AnswerLen
    PROVE  more = AnswerTo(r) /\ rest = << >>
<1>1. Len(more) + Len(rest) = AnswerLen
  BY AnswerType
<1>2. Len(rest) = 0
  BY <1>1, SafeAssumption
<1> QED
  BY <1>2

\* Between calls and before the request is sent all connections are clean.
LEMMA AllClean ==
    ASSUME ConnInv, scPc \notin {"sent", "recv"}
    PROVE  \A s \in Svrs : Clean(scConn[s])
BY DEF ConnInv

\* Closing a connection, or opening it anew, leaves it clean.
LEMMA ConnSetType ==
    ASSUME NEW cn \in [Svrs -> Conn], NEW s \in Svrs, NEW st
    PROVE  /\ ConnSet(cn, s, st) \in [Svrs -> Conn]
           /\ \A q \in Svrs : Clean(cn[q]) => Clean(ConnSet(cn, s, st)[q])
           /\ \A q \in Svrs : q # s => ConnSet(cn, s, st)[q] = cn[q]
           /\ st \in {"E_CONN", "E_SEND", "E_RECV"} => Clean(ConnSet(cn, s, st)[s])
           /\ st = "OK" => ConnSet(cn, s, st) = cn
<1>1. NoConn \in Conn /\ Clean(NoConn)
  BY DEF NoConn, Conn, Clean
<1> QED
  BY <1>1 DEF ConnSet

\* A connection that was just opened is clean.
LEMMA FreshType == Fresh \in Conn /\ Clean(Fresh)
BY DEF Fresh, Conn, Clean

\* The initial state has the invariant.
LEMMA InitInv == SafeInit => IInv
<1> SUFFICES ASSUME SafeInit PROVE IInv
  OBVIOUS
<1>1. NoConn \in Conn /\ Clean(NoConn)
  BY DEF NoConn, Conn, Clean
<1>2. TypeInv
  BY <1>1, SafeAssumption DEF SafeInit, TypeInv, Svrs
<1>3. ConnInv
  BY <1>1 DEF SafeInit, ConnInv
<1>4. AnswersMatch
  BY DEF SafeInit, AnswersMatch
<1> QED
  BY <1>2, <1>3, <1>4 DEF IInv

\* ConnectInternal leaves every connection clean.
LEMMA ConnectInv ==
    ASSUME TypeInv, \A q \in Svrs : Clean(scConn[q]),
           NEW s \in Svrs, NEW nodes, NEW n,
           Connect(nodes, n, s, NextTry) \/ Connect(nodes, n, s, GiveUp)
    PROVE  /\ scConn' \in [Svrs -> Conn]
           /\ \A q \in Svrs : Clean(scConn'[q])
           /\ Use \/ NextTry \/ GiveUp
<1>1. \/ scConn' = [scConn EXCEPT ![s] = Fresh] /\ Use
      \/ scConn' = ConnSet(scConn, s, "E_CONN") /\ (NextTry \/ GiveUp)
  BY DEF Connect
<1>2. CASE scConn' = [scConn EXCEPT ![s] = Fresh] /\ Use
  BY <1>2, FreshType DEF TypeInv
<1>3. CASE scConn' = ConnSet(scConn, s, "E_CONN") /\ (NextTry \/ GiveUp)
  BY <1>3, ConnSetType DEF TypeInv
<1> QED
  BY <1>1, <1>2, <1>3

\* A state that has all connections clean and no answer taken keeps the rest.
LEMMA CleanInv ==
    ASSUME TypeInv', \A s \in Svrs : Clean(scConn'[s]),
           scPc' \in {"get", "force", "send"} => scGot' = << >>, scPc' \notin {"sent", "recv"}
    PROVE  ConnInv'
BY DEF ConnInv

\* The caller asks for a connection.
LEMMA CallInv ==
    ASSUME IInv, NEW recv \in BOOLEAN, Call(recv)
    PROVE  IInv'
<1> USE DEF IInv
<1>1. TypeInv'
  BY DEF Call, TypeInv
<1>2. \A s \in Svrs : Clean(scConn'[s])
  BY AllClean DEF Call
<1>3. ConnInv'
  BY <1>1, <1>2, CleanInv DEF Call
<1>4. AnswersMatch'
  BY DEF Call, AnswersMatch
<1> QED
  BY <1>1, <1>3, <1>4

\* Use, NextTry and GiveUp leave the index in range and no request sent.
LEMMA Turns ==
    ASSUME TypeInv, scPc \in {"get", "force"}, Use \/ NextTry \/ GiveUp
    PROVE  scIdx' \in Svrs /\ scPc' \in {"get", "force", "send", "idle"}
<1>1. CASE Use \/ GiveUp
  BY <1>1 DEF Use, GiveUp, TypeInv
<1>2. CASE NextTry
  <2>1. (scIdx + 1) % SvrNum \in 0..(SvrNum - 1)
    BY SafeAssumption DEF TypeInv, Svrs
  <2> QED
    BY <1>2, <2>1 DEF NextTry, TypeInv, Svrs
<1> QED
  BY <1>1, <1>2

\* A turn of the loop of GetConnection.
LEMMA TryInv ==
    ASSUME IInv, TryConnection
    PROVE  IInv'
<1> USE DEF IInv
<1>0. scPc = "get" /\ scGot = << >> /\ \A s \in Svrs : Clean(scConn[s])
  BY AllClean DEF TryConnection, ConnInv
<1>1. /\ scCur' = scIdx /\ scIdx \in Svrs
      /\ UNCHANGED <<scReq, scGot, scAnswer>>
  BY DEF TryConnection, TypeInv
<1>2. \/ UNCHANGED scConn /\ (Use \/ NextTry)
      \/ \E nodes, n : Connect(nodes, n, scIdx, NextTry) \/ Connect(nodes, n, scIdx, GiveUp)
  BY DEF TryConnection
<1>3. /\ scConn' \in [Svrs -> Conn]
      /\ \A q \in Svrs : Clean(scConn'[q])
      /\ Use \/ NextTry \/ GiveUp
  BY <1>0, <1>1, <1>2, ConnectInv DEF TypeInv
<1>4. TypeInv'
  BY <1>0, <1>1, <1>3, Turns DEF TypeInv
<1>5. ConnInv'
  BY <1>0, <1>1, <1>3, <1>4, Turns, CleanInv
<1>6. AnswersMatch'
  BY <1>1 DEF AnswersMatch
<1> QED
  BY <1>4, <1>5, <1>6

\* The forced connection.
LEMMA ForceInv ==
    ASSUME IInv, ForceConnection
    PROVE  IInv'
<1> USE DEF IInv
<1>0. scPc = "force" /\ scGot = << >> /\ \A s \in Svrs : Clean(scConn[s])
  BY AllClean DEF ForceConnection, ConnInv
<1>1. PICK r, s :
         /\ r \in 0..(MaxRetryTimes - 1)
         /\ s = (scCur + SvrNum - r) % SvrNum /\ scCur' = s
         /\ \E nodes, n : Connect(nodes, n, s, GiveUp)
  BY DEF ForceConnection
<1>2. s \in Svrs
  <2>1. scCur \in Int /\ SvrNum \in Nat \ {0} /\ r \in Int
    BY <1>0, <1>1, SafeAssumption DEF TypeInv, Svrs, NoSvr, MaxRetryTimes
  <2>2. PICK x \in Int : x = scCur + SvrNum - r
    BY <2>1
  <2>3. x % SvrNum \in 0..(SvrNum - 1)
    BY <2>1, <2>2
  <2> QED
    BY <1>1, <2>2, <2>3 DEF Svrs
<1>3. UNCHANGED <<scReq, scGot, scAnswer>>
  BY DEF ForceConnection
<1>4. /\ scConn' \in [Svrs -> Conn]
      /\ \A q \in Svrs : Clean(scConn'[q])
      /\ Use \/ NextTry \/ GiveUp
  BY <1>0, <1>1, <1>2, ConnectInv
<1>5. TypeInv'
  BY <1>0, <1>1, <1>2, <1>3, <1>4, Turns DEF TypeInv
<1>6. ConnInv'
  BY <1>0, <1>3, <1>4, <1>5, Turns, CleanInv
<1>7. AnswersMatch'
  BY <1>3 DEF AnswersMatch
<1> QED
  BY <1>5, <1>6, <1>7

\* The request is written, to a server that may be gone, or the write fails.
LEMMA SendInv ==
    ASSUME IInv, SendInternal
    PROVE  IInv'
<1> USE DEF IInv
<1>0. /\ scPc = "send" /\ scGot = << >> /\ scCur \in Svrs /\ \A s \in Svrs : Clean(scConn[s])
      /\ UNCHANGED <<scCur, scIdx, scReq, scGot, scAnswer>>
  BY AllClean DEF SendInternal, ConnInv, TypeInv
<1>1. AnswersMatch'
  BY <1>0 DEF AnswersMatch
<1> DEFINE c == [scConn EXCEPT ![scCur].reqs = IF scConn[scCur].peer
                                              THEN Append(@, scReq) ELSE @]
<1>2. \/ scConn' = ConnSet(scConn, scCur, "E_SEND") /\ scPc' = "idle"
      \/ scConn' = c /\ scPc' = "recv"
      \/ scConn' = ConnSet(c, scCur, "OK") /\ scPc' = "sent"
  BY DEF SendInternal, SetStatus
<1>3. CASE scConn' = ConnSet(scConn, scCur, "E_SEND") /\ scPc' = "idle"
  <2>1. TypeInv'
    BY <1>0, <1>3, ConnSetType DEF TypeInv
  <2> QED
    BY <1>0, <1>1, <1>3, <2>1, ConnSetType, CleanInv DEF TypeInv
<1>4. /\ c \in [Svrs -> Conn]
      /\ \A q \in Svrs \ {scCur} : Clean(c[q])
      /\ Underway(c[scCur], scReq, scGot)
  <2>1. PICK k \in Conn : k = scConn[scCur]
    BY <1>0 DEF TypeInv
  <2>2. k.reqs = << >> /\ k.wire = << >> /\ k.reqs \in Seq(Nat)
    BY <1>0, <2>1 DEF Clean, Conn
  <2>9. Append(k.reqs, scReq) \in Seq(Nat)
    BY <2>2 DEF TypeInv
  <2>3. PICK rq \in Seq(Nat) : rq = IF k.peer THEN Append(k.reqs, scReq) ELSE k.reqs
    <3>1. CASE k.peer
      BY <2>9, <3>1
    <3>2. CASE ~k.peer
      BY <2>2, <3>2
    <3> QED
      BY <3>1, <3>2
  <2>4. c = [scConn EXCEPT ![scCur] = [k EXCEPT !.reqs = rq]]
    BY <1>0, <2>1, <2>3 DEF TypeInv
  <2>5. rq = << >> \/ rq = <<scReq>>
    BY <2>2, <2>3 DEF TypeInv
  <2>6. PICK k2 \in Conn : k2 = [k EXCEPT !.reqs = rq]
    BY <2>1 DEF Conn
  <2>7. k2.reqs = rq /\ k2.wire = << >>
    BY <2>2, <2>6 DEF Conn
  <2>8. c = [scConn EXCEPT ![scCur] = k2]
    BY <2>4, <2>6
  <2> HIDE DEF c
  <2> QED
    BY <1>0, <2>5, <2>6, <2>7, <2>8 DEF TypeInv, Underway
<1>5. CASE scConn' = c /\ scPc' \in {"recv", "sent"}
  <2> HIDE DEF c
  <2>1. TypeInv'
    BY <1>0, <1>4, <1>5 DEF TypeInv
  <2>2. ConnInv'
    BY <1>0, <1>4, <1>5 DEF ConnInv
  <2> QED
    BY <1>1, <2>1, <2>2
<1>6. ConnSet(c, scCur, "OK") = c
  BY DEF ConnSet
<1> QED
  BY <1>2, <1>3, <1>5, <1>6
\* Recv is called.
LEMMA RecvInv ==
    ASSUME IInv, Recv
    PROVE  IInv'
<1> USE DEF IInv, Recv
<1>1. TypeInv'
  BY DEF TypeInv
<1>2. ConnInv'
  BY DEF ConnInv
<1>3. AnswersMatch'
  BY DEF AnswersMatch
<1> QED
  BY <1>1, <1>2, <1>3

\* Some bytes are read, and the call returns when the answer is complete.
LEMMA ReadInv ==
    ASSUME IInv, ReadSome
    PROVE  IInv'
<1> USE DEF IInv
<1>0. /\ scPc = "recv" /\ scCur \in Svrs /\ scReq \in Nat /\ scGot \in Seq(Byte)
      /\ UNCHANGED <<scCur, scIdx, scReq>>
  BY DEF ReadSome, TypeInv
<1>1. PICK k \in Conn : k = scConn[scCur]
  BY <1>0 DEF TypeInv
<1>2. PICK n, more, rest :
        /\ n \in 1..(AnswerLen - Len(scGot)) /\ n <= Len(k.wire)
        /\ more = scGot \o SubSeq(k.wire, 1, n)
        /\ rest = SubSeq(k.wire, n + 1, Len(k.wire))
        /\ scConn' = [scConn EXCEPT ![scCur].wire = rest] /\ scGot' = more
        /\ \/ Len(more) < AnswerLen /\ UNCHANGED <<scPc, scAnswer>>
           \/ /\ ~(Len(more) < AnswerLen) /\ scPc' = "idle"
              /\ scAnswer' = [req |-> scReq, bytes |-> more]
  BY <1>1 DEF ReadSome
<1>3. k.wire \in Seq(Byte)
  BY <1>1 DEF Conn
<1>4. n \in 1..Len(k.wire)
  BY <1>2, <1>3, LenProperties
<1>5. /\ more \in Seq(Byte) /\ rest \in Seq(Byte)
      /\ more \o rest = scGot \o k.wire
  BY <1>0, <1>2, <1>3, <1>4, ReadMoves
<1>6. k.wire # << >>
  BY <1>4
<1>7. k.reqs = << >> /\ scGot \o k.wire = AnswerTo(scReq)
  BY <1>0, <1>1, <1>6 DEF ConnInv, Underway
<1>8. PICK k2 \in Conn : k2 = [k EXCEPT !.wire = rest]
  BY <1>1, <1>5 DEF Conn
<1>9. k2.reqs = << >> /\ k2.wire = rest
  BY <1>7, <1>8 DEF Conn
<1>10. scConn' = [scConn EXCEPT ![scCur] = k2]
  BY <1>0, <1>1, <1>2, <1>8 DEF TypeInv
<1>11. scConn' \in [Svrs -> Conn] /\ scConn'[scCur] = k2
  BY <1>0, <1>8, <1>10 DEF TypeInv
<1>12. \A q \in Svrs \ {scCur} : Clean(scConn'[q])
  BY <1>0, <1>10 DEF TypeInv, ConnInv
<1>13. CASE Len(more) < AnswerLen /\ UNCHANGED <<scPc, scAnswer>>
  <2>1. TypeInv'
    BY <1>0, <1>2, <1>5, <1>11, <1>13 DEF TypeInv
  <2>2. Underway(k2, scReq, more)
    BY <1>5, <1>7, <1>9 DEF Underway
  <2>3. ConnInv'
    BY <1>0, <1>2, <1>11, <1>12, <1>13, <2>2 DEF ConnInv
  <2>4. AnswersMatch'
    BY <1>13 DEF AnswersMatch
  <2> QED
    BY <2>1, <2>3, <2>4
<1>14. CASE /\ ~(Len(more) < AnswerLen) /\ scPc' = "idle"
            /\ scAnswer' = [req |-> scReq, bytes |-> more]
  <2>1. Len(more) >= AnswerLen
    BY <1>5, <1>14, SafeAssumption, LenProperties
  <2>2. more = AnswerTo(scReq) /\ rest = << >>
    BY <1>0, <1>5, <1>7, <2>1, ReadWhole
  <2>3. TypeInv'
    BY <1>0, <1>2, <1>5, <1>11, <1>14 DEF TypeInv
  <2>4. ConnInv'
    BY <1>0, <1>9, <1>11, <1>12, <1>14, <2>2 DEF ConnInv, Clean
  <2>5. AnswersMatch'
    BY <1>14, <2>2 DEF AnswersMatch
  <2> QED
    BY <2>3, <2>4, <2>5
<1> QED
  BY <1>2, <1>13, <1>14

\* The read fails: the socket is closed, and what it held is gone with it.
LEMMA FailsInv ==
    ASSUME IInv, RecvFails
    PROVE  IInv'
<1> USE DEF IInv
<1>0. /\ scPc = "recv" /\ scCur \in Svrs /\ scPc' = "idle"
      /\ scConn' = ConnSet(scConn, scCur, "E_RECV")
      /\ UNCHANGED <<scCur, scIdx, scReq, scGot, scAnswer>>
  BY DEF RecvFails, SetStatus, TypeInv
<1>1. TypeInv'
  BY <1>0, ConnSetType DEF TypeInv
<1>2. \A q \in Svrs : Clean(scConn'[q])
  BY <1>0, ConnSetType DEF TypeInv, ConnInv
<1>3. ConnInv'
  BY <1>0, <1>1, <1>2, CleanInv
<1>4. AnswersMatch'
  BY <1>0 DEF AnswersMatch
<1> QED
  BY <1>1, <1>3, <1>4

\* A step that leaves the connections, the call and the answer alone.
LEMMA AsideInv ==
    ASSUME IInv, UNCHANGED <<scConn, scCur, scPc, scIdx, scReq, scGot, scAnswer>>
    PROVE  IInv'
<1> USE DEF IInv
<1>1. TypeInv'
  BY DEF TypeInv
<1>2. ConnInv'
  BY DEF ConnInv
<1>3. AnswersMatch'
  BY DEF AnswersMatch
<1> QED
  BY <1>1, <1>2, <1>3

\* Connections are closed between calls, or before Recv.
LEMMA CloseInv ==
    ASSUME IInv, NEW S \in SUBSET Svrs, CloseConns(S)
    PROVE  IInv'
<1> USE DEF IInv
<1>0. /\ scPc \in {"idle", "sent"} /\ (scPc = "sent" => scCur \in S) /\ scPc' = "idle"
      /\ scConn' = [s \in Svrs |-> IF s \in S THEN NoConn ELSE scConn[s]]
      /\ UNCHANGED <<scCur, scIdx, scReq, scGot, scAnswer>>
  BY DEF CloseConns
<1>1. NoConn \in Conn /\ Clean(NoConn)
  BY DEF NoConn, Conn, Clean
<1>2. TypeInv'
  BY <1>0, <1>1 DEF TypeInv
<1>3. \A q \in Svrs : Clean(scConn'[q])
  BY <1>0, <1>1 DEF ConnInv
<1>4. ConnInv'
  BY <1>0, <1>2, <1>3, CleanInv
<1>5. AnswersMatch'
  BY <1>0 DEF AnswersMatch
<1> QED
  BY <1>2, <1>4, <1>5

\* The state of a server is set, and the current socket closed on an error.
LEMMA SetInv ==
    ASSUME IInv, NEW s \in Svrs, NEW st, SetConnStatus(s, st)
    PROVE  IInv'
<1> USE DEF IInv
<1>0. /\ scPc = "idle" /\ scCur \in Svrs
      /\ scConn' = ConnSet(scConn, scCur, st)
      /\ UNCHANGED <<scCur, scPc, scIdx, scReq, scGot, scAnswer>>
  BY DEF SetConnStatus, TypeInv
<1>1. TypeInv'
  BY <1>0, ConnSetType DEF TypeInv
<1>2. \A q \in Svrs : Clean(scConn'[q])
  BY <1>0, AllClean, ConnSetType DEF TypeInv
<1>3. ConnInv'
  BY <1>0, <1>1, <1>2, CleanInv
<1>4. AnswersMatch'
  BY <1>0 DEF AnswersMatch
<1> QED
  BY <1>1, <1>3, <1>4

\* One connection changes to k2, and nothing else.
LEMMA OneConn ==
    ASSUME IInv, NEW s \in Svrs, NEW k2 \in Conn,
           scConn' = [scConn EXCEPT ![s] = k2],
           UNCHANGED <<scCur, scPc, scIdx, scReq, scGot, scAnswer>>,
           Clean(scConn[s]) => Clean(k2),
           Underway(scConn[s], scReq, scGot) => Underway(k2, scReq, scGot)
    PROVE  IInv'
<1> USE DEF IInv
<1>1. TypeInv'
  BY DEF TypeInv
<1>2. \A q \in Svrs : scConn'[q] = IF q = s THEN k2 ELSE scConn[q]
  BY DEF TypeInv
<1>3. \A q \in Svrs : Clean(scConn[q]) => Clean(scConn'[q])
  BY <1>2
<1>4. scPc \in {"sent", "recv"} => Underway(scConn'[scCur], scReq, scGot)
  BY <1>2 DEF ConnInv, TypeInv
<1>5. ConnInv'
  BY <1>3, <1>4 DEF ConnInv
<1>6. AnswersMatch'
  BY DEF AnswersMatch
<1> QED
  BY <1>1, <1>5, <1>6

\* A server answers the first request it has.
LEMMA AnswerInv ==
    ASSUME IInv, NEW s \in Svrs, Answer(s)
    PROVE  IInv'
<1> USE DEF IInv
<1>1. PICK k \in Conn : k = scConn[s]
  BY DEF TypeInv
<1>2. k.reqs \in Seq(Nat) /\ k.reqs # << >> /\ k.wire \in Seq(Byte) /\ k.open \in BOOLEAN
  BY <1>1 DEF Answer, Conn
<1>3. ~Clean(scConn[s])
  BY <1>1, <1>2 DEF Clean
<1>4. s = scCur /\ scPc \in {"sent", "recv"}
  BY <1>3 DEF ConnInv
<1>5. k.reqs = <<scReq>> /\ k.wire = << >> /\ scGot = << >> /\ scReq \in Nat
  BY <1>1, <1>2, <1>4 DEF ConnInv, Underway, TypeInv
<1>6. Head(k.reqs) = scReq /\ Tail(k.reqs) = << >>
  BY <1>5
<1>7. AnswerTo(scReq) \in Seq(Byte) /\ k.wire \o AnswerTo(scReq) = AnswerTo(scReq)
  BY <1>5, AnswerType, ConcatEmptySeq
<1>8. PICK k2 : k2 = [open |-> k.open, peer |-> TRUE, reqs |-> << >>, wire |-> AnswerTo(scReq)]
  OBVIOUS
<1>9. /\ k2 \in Conn
      /\ k2.reqs = << >> /\ k2.wire = AnswerTo(scReq)
  BY <1>2, <1>7, <1>8 DEF Conn
<1>10. scConn' = [scConn EXCEPT ![s] = k2]
  BY <1>1, <1>6, <1>7, <1>8 DEF Answer
<1>11. Underway(k2, scReq, scGot)
  BY <1>5, <1>7, <1>9, ConcatEmptySeq DEF Underway
<1>12. UNCHANGED <<scCur, scPc, scIdx, scReq, scGot, scAnswer>>
  BY DEF Answer
<1> QED
  BY <1>3, <1>9, <1>10, <1>11, <1>12, OneConn

\* A server goes down or comes up: a request it has not answered is gone.
LEMMA UpDownInv ==
    ASSUME IInv, NEW s \in Svrs, UpDown(s)
    PROVE  IInv'
<1> USE DEF IInv
<1>1. PICK k \in Conn : k = scConn[s]
  BY DEF TypeInv
<1>2. PICK k2 : k2 = [open |-> k.open, peer |-> FALSE, reqs |-> << >>, wire |-> k.wire]
  OBVIOUS
<1>3. /\ k2 \in Conn
      /\ k2.reqs = << >> /\ k2.wire = k.wire
  BY <1>1, <1>2 DEF Conn
<1>4. scConn' = [scConn EXCEPT ![s] = k2]
  BY <1>1, <1>2 DEF UpDown
<1>5. Clean(scConn[s]) => Clean(k2)
  BY <1>1, <1>3 DEF Clean
<1>6. Underway(scConn[s], scReq, scGot) => Underway(k2, scReq, scGot)
  BY <1>1, <1>3 DEF Underway
<1>7. UNCHANGED <<scCur, scPc, scIdx, scReq, scGot, scAnswer>>
  BY DEF UpDown
<1> QED
  BY <1>3, <1>4, <1>5, <1>6, <1>7, OneConn

\* Every step keeps the invariant.
LEMMA NextInv == IInv /\ [SafeNext]_safeVars => IInv'
<1> SUFFICES ASSUME IInv, [SafeNext]_safeVars PROVE IInv'
  OBVIOUS
<1>1. CASE UNCHANGED safeVars
  BY <1>1, AsideInv DEF safeVars
<1>2. CASE PollInterrupted
  BY <1>2, AsideInv DEF PollInterrupted
<1>3. ASSUME NEW s \in Svrs, DelConnStatus(s) PROVE IInv'
  BY <1>3, AsideInv DEF DelConnStatus
<1>4. CASE scCur # NoSvr /\ CloseConns({scCur})
  <2>1. {scCur} \in SUBSET Svrs
    BY <1>4 DEF IInv, TypeInv
  <2> QED
    BY <1>4, <2>1, CloseInv
<1>5. CASE CloseConns(Svrs)
  <2>1. Svrs \in SUBSET Svrs
    OBVIOUS
  <2> QED
    BY <1>5, <2>1, CloseInv
<1> QED
  BY <1>1, <1>2, <1>3, <1>4, <1>5, CallInv, TryInv, ForceInv, SendInv, RecvInv, ReadInv,
     FailsInv, SetInv, AnswerInv, UpDownInv DEF SafeNext

\* The client's connections, indices and answers keep their types; a current
\* connection is there whenever the code uses m_pstCurConnData.
THEOREM TypeCorrect == SafeSpec => []TypeInv
<1>1. IInv => TypeInv
  BY DEF IInv
<1> QED
  BY InitInv, NextInv, <1>1, PTL DEF SafeSpec

\* What Recv or SendAndRecv returns is the answer to the request just sent, for
\* any number of servers and requests, and answers of any length, whatever was
\* retried, timed out or cut off.
THEOREM AnswersMatchAlways == SafeSpec => []AnswersMatch
<1>1. IInv => AnswersMatch
  BY DEF IInv
<1> QED
  BY InitInv, NextInv, <1>1, PTL DEF SafeSpec

-----------------------------------------------------------------------------
(***************************************************************************)
(* The bytes of a connection.                                              *)
(*                                                                         *)
(* StreamWhole says of the packets handed on that they are those sent, and *)
(* of all the bytes that none is lost, doubled or out of place.  StreamInv *)
(* adds what a broken connection leaves behind: the bytes still unread are *)
(* the next ones of the stream, with nothing missing before them (RestInv),*)
(* and the remainder the receiver keeps is shorter than the packet it      *)
(* begins, so that its buffer is never full when it reads.                 *)
(***************************************************************************)

Stream == Seq(Byte)

-----------------------------------------------------------------------------
(* Byte sequences. *)

\* A sequence cut in two.
LEMMA Cut ==
    ASSUME NEW s \in Stream, NEW n \in 0..Len(s)
    PROVE  /\ Take(s, n) \in Stream /\ Drop(s, n) \in Stream
           /\ Take(s, n) \o Drop(s, n) = s
           /\ Len(Take(s, n)) = n /\ Len(Drop(s, n)) = Len(s) - n
           /\ \A i \in 1..n : Take(s, n)[i] = s[i]
  <1>0. Len(s) \in Nat /\ n \in Nat /\ n <= Len(s) /\ \A i \in 1..Len(s) : s[i] \in Byte
    BY LenProperties DEF Stream
  <1>1. Take(s, n) \in Stream /\ Len(Take(s, n)) = n /\ \A i \in 1..n : Take(s, n)[i] = s[i]
    <2>1. \A i \in 1..n : s[i] \in Byte
      BY <1>0
    <2>2. /\ SubSeq(s, 1, n) \in Seq(Byte)
          /\ Len(SubSeq(s, 1, n)) = IF 1 <= n THEN n - 1 + 1 ELSE 0
          /\ \A i \in 1..n - 1 + 1 : SubSeq(s, 1, n)[i] = s[1 + i - 1]
      BY <1>0, <2>1, SubSeqProperties
    <2>3. \A i \in 1..n : i \in 1..n - 1 + 1 /\ 1 + i - 1 = i
      BY <1>0
    <2>4. Len(SubSeq(s, 1, n)) = n
      BY <1>0, <2>2
    <2> QED BY <2>2, <2>3, <2>4 DEF Take, Stream
  <1>2. Drop(s, n) \in Stream /\ Len(Drop(s, n)) = Len(s) - n
    <2>1. PICK m \in Int : m = n + 1
      BY <1>0
    <2>2. \A i \in m..Len(s) : s[i] \in Byte
      BY <1>0, <2>1
    <2>3. /\ SubSeq(s, m, Len(s)) \in Seq(Byte)
          /\ Len(SubSeq(s, m, Len(s))) = IF m <= Len(s) THEN Len(s) - m + 1 ELSE 0
      BY <1>0, <2>2, SubSeqProperties
    <2>4. Len(SubSeq(s, m, Len(s))) = Len(s) - n
      BY <1>0, <2>1, <2>3
    <2> QED BY <2>1, <2>3, <2>4 DEF Drop, Stream
  <1>3. Take(s, n) \o Drop(s, n) = s
    <2>1. 1 \in 1..Len(s) + 1 /\ n \in 1 - 1 .. Len(s) /\ Len(s) \in n..Len(s)
      BY <1>0
    <2>2. SubSeq(s, 1, n) \o SubSeq(s, n + 1, Len(s)) = SubSeq(s, 1, Len(s))
      BY <2>1, ConcatAdjacentSubSeq DEF Stream
    <2> QED BY <2>2, SubSeqFull DEF Take, Drop, Stream
  <1> QED BY <1>1, <1>2, <1>3

\* Concatenation of byte sequences.
LEMMA Joined ==
    ASSUME NEW s \in Stream, NEW t \in Stream
    PROVE  /\ s \o t \in Stream /\ Len(s \o t) = Len(s) + Len(t)
           /\ \A i \in 1..Len(s) : (s \o t)[i] = s[i]
           /\ s \o << >> = s /\ << >> \o s = s /\ << >> \in Stream
           /\ Len(s) \in Nat /\ (Len(s) = 0 <=> s = << >>)
           /\ (s \o t = s => t = << >>)
           /\ (s \o t = << >> => s = << >> /\ t = << >>)
  <1>0. Len(s) \in Nat /\ Len(t) \in Nat
    BY LenProperties DEF Stream
  <1>1. \A i \in 1..Len(s) : (s \o t)[i] = s[i]
    <2>1. \A i \in 1..Len(s) : i \in 1..Len(s) + Len(t) /\ i <= Len(s)
      BY <1>0
    <2> QED BY <2>1, ConcatProperties DEF Stream
  <1>2. Len(s) = 0 <=> s = << >>
    BY EmptySeq DEF Stream
  <1> QED BY <1>0, <1>1, <1>2, ConcatProperties, ConcatEmptySeq, EmptySeq, ConcatEqualIffEmpty DEF Stream

\* Bytes after bytes are bytes.
LEMMA JoinType ==
    ASSUME NEW s \in Stream, NEW t \in Stream
    PROVE  s \o t \in Stream
  BY ConcatProperties DEF Stream

\* Brackets do not matter.
LEMMA Assoc ==
    ASSUME NEW s \in Stream, NEW t \in Stream, NEW u \in Stream
    PROVE  (s \o t) \o u = s \o (t \o u)
  BY ConcatAssociative DEF Stream

\* Five pieces in a row, put together from the right or from the left.
SameRow(a, b, c, d, e) ==
    a \o (b \o (c \o (d \o e))) = (((a \o b) \o c) \o d) \o e

\* How the pieces are put together makes no difference.
LEMMA InOneRow ==
    ASSUME NEW a \in Stream, NEW b \in Stream, NEW c \in Stream, NEW d \in Stream, NEW e \in Stream
    PROVE  SameRow(a, b, c, d, e)
  <1>1. ASSUME NEW x \in Stream PROVE (x \o d) \o e = x \o (d \o e)
    BY Assoc
  <1>2. ASSUME NEW x \in Stream, NEW z \in Stream PROVE (x \o c) \o z = x \o (c \o z)
    BY Assoc, SMTT(30)
  <1>3. ASSUME NEW x \in Stream, NEW z \in Stream PROVE (x \o b) \o z = x \o (b \o z)
    BY Assoc, SMTT(30)
  <1>4. a \o b \in Stream /\ d \o e \in Stream
    BY JoinType
  <1>5. (a \o b) \o c \in Stream /\ c \o (d \o e) \in Stream
    BY <1>4, JoinType
  <1>6. (((a \o b) \o c) \o d) \o e = ((a \o b) \o c) \o (d \o e)
    BY <1>1, <1>5
  <1>7. ((a \o b) \o c) \o (d \o e) = (a \o b) \o (c \o (d \o e))
    BY <1>2, <1>4
  <1>8. (a \o b) \o (c \o (d \o e)) = a \o (b \o (c \o (d \o e)))
    BY <1>3, <1>5
  <1> QED BY <1>6, <1>7, <1>8 DEF SameRow

\* Equal beginnings may be taken off.
LEMMA Cancel ==
    ASSUME NEW s \in Stream, NEW t \in Stream, NEW u \in Stream, s \o t = s \o u
    PROVE  t = u
  BY ConcatSimplifications DEF Stream

-----------------------------------------------------------------------------
(* Flatten. *)

\* F[n] is the concatenation of the first n packets.
IsFlat(F, ps) ==
    /\ F[0] = << >>
    /\ \A n \in 1..Len(ps) : F[n] = F[n - 1] \o ps[n]
    /\ \A n \in 0..Len(ps) : F[n] \in Stream
    /\ Flatten(ps) = F[Len(ps)]

\* The recursion that defines Flatten has a solution.
LEMMA FlatExists ==
    ASSUME NEW ps \in Seq(Stream)
    PROVE  \E F : IsFlat(F, ps)
  <1> DEFINE Rec(f, n) == [m \in 0..n |-> IF m = 0 THEN << >> ELSE f[m - 1] \o ps[m]]
  <1>0. Len(ps) \in Nat /\ \A n \in 1..Len(ps) : ps[n] \in Stream
    BY LenProperties
  <1>1. PICK T : T = {n \in 0..Len(ps) : \E f : f = Rec(f, n)}
    OBVIOUS
  <1>2. 0 \in T
    <2>1. PICK f : f = [m \in 0..0 |-> << >>]
      OBVIOUS
    <2>2. f = Rec(f, 0)
      BY <2>1
    <2>3. 0 \in 0..Len(ps)
      BY <1>0
    <2> HIDE DEF Rec
    <2> QED BY <2>2, <2>3, <1>1
  <1>3. ASSUME NEW j \in 1..Len(ps), j - 1 \in T PROVE j \in T
    <2>1. PICK f : f = Rec(f, j - 1)
      BY <1>1, <1>3
    <2>2. PICK g : g = [m \in 0..j |-> IF m = j THEN f[j - 1] \o ps[j] ELSE f[m]]
      OBVIOUS
    <2>3. \A m \in 0..j : g[m] = IF m = 0 THEN << >> ELSE g[m - 1] \o ps[m]
      <3> TAKE m \in 0..j
      <3>1. j \in Nat /\ j >= 1
        BY <1>0
      <3>2. CASE m = 0
        BY <2>1, <2>2, <3>1, <3>2
      <3>3. CASE m # 0 /\ m # j
        <4>1. m \in 0..j - 1 /\ m - 1 \in 0..j /\ m - 1 # j
          BY <3>1, <3>3
        <4>2. g[m] = f[m] /\ g[m - 1] = f[m - 1]
          BY <2>2, <3>3, <4>1
        <4>3. f[m] = f[m - 1] \o ps[m]
          BY <2>1, <3>3, <4>1
        <4> QED BY <3>3, <4>2, <4>3
      <3>4. CASE m = j
        <4>1. j - 1 \in 0..j /\ j - 1 # j
          BY <3>1
        <4> QED BY <2>2, <3>1, <3>4, <4>1
      <3> QED BY <3>2, <3>3, <3>4
    <2>4. g = [m \in 0..j |-> g[m]]
      BY <2>2
    <2>5. g = Rec(g, j)
      BY <2>3, <2>4
    <2>6. j \in 0..Len(ps)
      BY <1>0
    <2> QED BY <1>1, <2>5, <2>6
  <1>4. Len(ps) \in T
    <2>1. Len(ps) \in 0..Len(ps)
      BY <1>0
    <2> HIDE DEF Rec
    <2> QED BY <1>0, <1>2, <1>3, <2>1, UpTo
  <1>5. \E f : f = Rec(f, Len(ps))
    BY <1>1, <1>4
  <1> DEFINE F == CHOOSE f : f = Rec(f, Len(ps))
  <1>6. F = Rec(F, Len(ps))
    BY <1>5
  <1>7. Flatten(ps) = F[Len(ps)]
    BY DEF Flatten
  <1> HIDE DEF F
  <1>8. F[0] = << >> /\ \A n \in 1..Len(ps) : F[n] = F[n - 1] \o ps[n]
    BY <1>0, <1>6
  <1>9. \A n \in 0..Len(ps) : F[n] \in Stream
    <2>1. PICK U : U = {n \in 0..Len(ps) : F[n] \in Stream}
      OBVIOUS
    <2>2. 0 \in U
      <3>1. << >> \in Stream /\ 0 \in 0..Len(ps)
        BY <1>0, EmptySeq DEF Stream
      <3> QED BY <1>8, <2>1, <3>1
    <2>3. \A j \in 1..Len(ps) : j - 1 \in U => j \in U
      <3> SUFFICES ASSUME NEW j \in 1..Len(ps), j - 1 \in U PROVE j \in U
        OBVIOUS
      <3>1. F[j - 1] \in Stream /\ ps[j] \in Stream
        BY <1>0, <2>1
      <3>2. F[j] \in Stream
        BY <1>8, <3>1, Joined, ZenonT(60)
      <3> QED BY <3>2, <2>1, <1>0
    <2> QED BY <1>0, <2>1, <2>2, <2>3, UpTo
  <1> QED BY <1>7, <1>8, <1>9 DEF IsFlat

\* What is flattened is bytes.
LEMMA FlatType ==
    ASSUME NEW ps \in Seq(Stream)
    PROVE  Flatten(ps) \in Stream
  <1>1. PICK F : IsFlat(F, ps)
    BY FlatExists
  <1>2. Len(ps) \in 0..Len(ps)
    BY LenProperties
  <1> QED BY <1>1, <1>2 DEF IsFlat

\* Packets that begin alike are flattened alike so far.
LEMMA FlatAgree ==
    ASSUME NEW ps \in Seq(Stream), NEW qs \in Seq(Stream), Len(qs) <= Len(ps),
           \A i \in 1..Len(qs) : qs[i] = ps[i],
           NEW F, IsFlat(F, ps)
    PROVE  Flatten(qs) = F[Len(qs)]
  <1>0. Len(qs) \in Nat /\ Len(ps) \in Nat
    BY LenProperties
  <1>1. PICK G : IsFlat(G, qs)
    BY FlatExists
  <1>2. PICK T : T = {n \in 0..Len(qs) : F[n] = G[n]}
    OBVIOUS
  <1>3. 0 \in T
    BY <1>0, <1>1, <1>2 DEF IsFlat
  <1>4. \A j \in 1..Len(qs) : j - 1 \in T => j \in T
    <2> SUFFICES ASSUME NEW j \in 1..Len(qs), j - 1 \in T PROVE j \in T
      OBVIOUS
    <2>1. j \in 1..Len(ps) /\ j \in 0..Len(qs)
      BY <1>0
    <2>2. F[j] = F[j - 1] \o ps[j] /\ G[j] = G[j - 1] \o qs[j]
      BY <1>1, <2>1 DEF IsFlat
    <2> QED BY <1>2, <2>1, <2>2
  <1>5. Len(qs) \in T
    <2>1. Len(qs) \in 0..Len(qs)
      BY <1>0
    <2> QED BY <1>0, <1>3, <1>4, <2>1, UpTo
  <1> QED BY <1>1, <1>2, <1>5 DEF IsFlat

\* A packet appended to the packets is appended to the bytes.
LEMMA FlatAppend ==
    ASSUME NEW ps \in Seq(Stream), NEW p \in Stream
    PROVE  /\ Flatten(ps) \in Stream /\ Append(ps, p) \in Seq(Stream)
           /\ Flatten(Append(ps, p)) = Flatten(ps) \o p
  <1> DEFINE qs == Append(ps, p)
  <1>0. Len(ps) \in Nat
    BY LenProperties
  <1>1. qs \in Seq(Stream) /\ Len(qs) = Len(ps) + 1 /\ qs[Len(ps) + 1] = p
        /\ \A i \in 1..Len(ps) : qs[i] = ps[i]
    BY <1>0
  <1> HIDE DEF qs
  <1>2. PICK F : IsFlat(F, qs)
    BY <1>1, FlatExists
  <1>3. Len(ps) <= Len(qs) /\ \A i \in 1..Len(ps) : ps[i] = qs[i]
    BY <1>0, <1>1
  <1>4. Flatten(ps) = F[Len(ps)]
    BY <1>1, <1>2, <1>3, FlatAgree
  <1>5. PICK n \in Nat : n = Len(ps) + 1 /\ n - 1 = Len(ps) /\ n \in 1..Len(qs) /\ Len(ps) \in 0..Len(qs)
    BY <1>0, <1>1
  <1>6. F[n] = F[n - 1] \o qs[n] /\ F[Len(ps)] \in Stream
    BY <1>2, <1>5 DEF IsFlat
  <1>7. Flatten(qs) = F[n]
    BY <1>1, <1>2, <1>5 DEF IsFlat
  <1>8. Flatten(qs) = Flatten(ps) \o p
    BY <1>1, <1>4, <1>5, <1>6, <1>7
  <1> QED BY <1>1, <1>4, <1>6, <1>8 DEF qs

\* After the first packets comes the next one.
LEMMA FlatNext ==
    ASSUME NEW ps \in Seq(Stream), NEW qs \in Seq(Stream), Len(qs) < Len(ps),
           \A i \in 1..Len(qs) : qs[i] = ps[i]
    PROVE  \E u \in Stream : Flatten(ps) = Flatten(qs) \o (ps[Len(qs) + 1] \o u)
  <1>0. Len(qs) \in Nat /\ Len(ps) \in Nat /\ Len(qs) <= Len(ps)
        /\ \A n \in 1..Len(ps) : ps[n] \in Stream
    BY LenProperties
  <1>1. PICK F : IsFlat(F, ps)
    BY FlatExists
  <1>2. Flatten(qs) = F[Len(qs)]
    BY <1>0, <1>1, FlatAgree
  <1>3. PICK g \in Nat : g = Len(qs) + 1 /\ g - 1 = Len(qs) /\ g \in 1..Len(ps) /\ g \in 0..Len(ps)
                         /\ Len(qs) \in 0..Len(ps)
    BY <1>0
  <1>4. F[g] = F[Len(qs)] \o ps[g] /\ F[Len(qs)] \in Stream /\ F[g] \in Stream
    BY <1>1, <1>3 DEF IsFlat
  <1>5. PICK T : T = {n \in 0..Len(ps) : n >= g => \E u \in Stream : F[n] = F[g] \o u}
    OBVIOUS
  <1>6. 0 \in T
    BY <1>0, <1>3, <1>5
  <1>7. \A j \in 1..Len(ps) : j - 1 \in T => j \in T
    <2> SUFFICES ASSUME NEW j \in 1..Len(ps), j - 1 \in T PROVE j \in T
      OBVIOUS
    <2>0. j \in 0..Len(ps) /\ j \in Nat
      BY <1>0
    <2> SUFFICES ASSUME j >= g PROVE \E u \in Stream : F[j] = F[g] \o u
      BY <1>5, <2>0
    <2>1. CASE j = g
      BY <2>1, <1>4, Joined
    <2>2. CASE j # g
      <3>1. j - 1 >= g
        BY <2>2, <1>3
      <3>2. PICK u \in Stream : F[j - 1] = F[g] \o u
        BY <1>5, <3>1
      <3>3. F[j] = F[j - 1] \o ps[j] /\ ps[j] \in Stream
        BY <1>0, <1>1 DEF IsFlat
      <3>4. F[j] = F[g] \o (u \o ps[j]) /\ u \o ps[j] \in Stream
        <4>1. PICK a \in Stream, b \in Stream : a = F[g] /\ b = ps[j]
          BY <1>4, <3>3
        <4>2. (a \o u) \o b = a \o (u \o b)
          BY Assoc
        <4>3. u \o b \in Stream
          BY JoinType
        <4> QED BY <3>2, <3>3, <4>1, <4>2, <4>3
      <3> QED BY <3>4
    <2> QED BY <2>1, <2>2
  <1>8. Len(ps) \in T
    <2>1. Len(ps) \in 0..Len(ps)
      BY <1>0
    <2> QED BY <1>0, <1>6, <1>7, <2>1, UpTo
  <1>9. PICK u \in Stream : F[Len(ps)] = F[g] \o u
    <2>1. Len(ps) >= g
      BY <1>0, <1>3
    <2>2. Len(ps) >= g => \E u \in Stream : F[Len(ps)] = F[g] \o u
      BY <1>5, <1>8, Zenon
    <2> QED BY <2>1, <2>2
  <1>10. F[Len(ps)] = F[Len(qs)] \o (ps[g] \o u)
    <2>1. PICK a \in Stream, b \in Stream : a = F[Len(qs)] /\ b = ps[g]
      BY <1>0, <1>3, <1>4
    <2>2. (a \o b) \o u = a \o (b \o u)
      BY Assoc
    <2> QED BY <1>4, <1>9, <2>1, <2>2
  <1> QED BY <1>1, <1>2, <1>3, <1>9, <1>10 DEF IsFlat

-----------------------------------------------------------------------------
(* The inductive invariant of the stream. *)

Packets == [k \in 1..Len(stSent) |-> Bytes(k, stSent[k])]

\* What was sent and not handled yet, in the order in which it will arrive.
Unread == stProc \o (stIn \o (stWire \o stOut))

StreamTypes ==
    /\ stSent \in Seq(PkgLens) /\ stGot \in Seq(Stream)
    /\ stOut \in Stream /\ stWire \in Stream /\ stIn \in Stream /\ stProc \in Stream
    /\ stPc \in {"epoll", "process"} /\ stEpollOut \in BOOLEAN
    /\ stOpen \in SUBSET {"send", "recv"} /\ stLost \in BOOLEAN

\* The buffers are used in turn, and the sending end stays until all is lost.
EndsInv ==
    /\ stPc = "epoll" => stProc = << >>
    /\ stPc = "process" => stIn = << >>
    /\ stIn # << >> => Len(stIn) < MaxBuffLen
    /\ stLost <=> "send" \notin stOpen
    /\ stLost => stOut = << >>

\* Packets are handled whole and in order.
HandledInv ==
    /\ Len(stGot) <= Len(stSent)
    /\ \A k \in 1..Len(stGot) : stGot[k] = Bytes(k, stSent[k])

\* The bytes under way are the next ones, up to where the stream was lost.
RestInv ==
    \E s \in Stream : /\ AllBytes = Flatten(stGot) \o (Unread \o s)
                      /\ ~stLost => s = << >>

StreamInv == StreamTypes /\ EndsInv /\ HandledInv /\ RestInv

\* The packets sent are byte sequences, as long as they were said to be.
LEMMA PacketTypes ==
    ASSUME StreamTypes
    PROVE  /\ Packets \in Seq(Stream) /\ Len(Packets) = Len(stSent) /\ Len(stSent) \in Nat
           /\ \A k \in 1..Len(stSent) :
                 /\ Packets[k] = Bytes(k, stSent[k]) /\ Packets[k] \in Stream
                 /\ stSent[k] \in Nat /\ stSent[k] \in HeaderLen..MaxBuffLen
                 /\ Len(Packets[k]) = stSent[k]
                 /\ \A i \in 1..stSent[k] : Packets[k][i] = <<k, i>>
           /\ AllBytes = Flatten(Packets)
  <1>0. Len(stSent) \in Nat /\ \A k \in 1..Len(stSent) : stSent[k] \in PkgLens
    BY LenProperties DEF StreamTypes
  <1>1. ASSUME NEW k \in 1..Len(stSent)
        PROVE  /\ Bytes(k, stSent[k]) \in Stream
               /\ stSent[k] \in Nat /\ stSent[k] \in HeaderLen..MaxBuffLen
               /\ Len(Bytes(k, stSent[k])) = stSent[k]
               /\ \A i \in 1..stSent[k] : Bytes(k, stSent[k])[i] = <<k, i>>
    <2>1. PICK n \in Nat : n = stSent[k] /\ n \in HeaderLen..MaxBuffLen
      <3>1. stSent[k] \in HeaderLen..MaxBuffLen /\ HeaderLen \in Nat
        BY <1>0, StreamAssumption
      <3>2. stSent[k] \in Nat
        BY <3>1
      <3> QED BY <3>1, <3>2
    <2>2. \A i \in 1..n : <<k, i>> \in Byte
      BY <1>0, <2>1 DEF Byte
    <2>3. Bytes(k, n) \in Stream /\ Len(Bytes(k, n)) = n /\ \A i \in 1..n : Bytes(k, n)[i] = <<k, i>>
      BY <2>1, <2>2 DEF Bytes, Stream
    <2> QED BY <2>1, <2>3
  <1>2. Packets \in Seq(Stream) /\ Len(Packets) = Len(stSent)
        /\ \A k \in 1..Len(stSent) : Packets[k] = Bytes(k, stSent[k])
    BY <1>0, <1>1 DEF Packets
  <1>3. AllBytes = Flatten(Packets)
    BY DEF AllBytes, Packets
  <1> QED BY <1>0, <1>1, <1>2, <1>3

\* The next bytes are those of the next packet.
LEMMA NextPacket ==
    ASSUME StreamTypes, HandledInv, NEW r \in Stream, r # << >>,
           AllBytes = Flatten(stGot) \o r
    PROVE  /\ Len(stGot) + 1 \in 1..Len(stSent)
           /\ \E u \in Stream : r = Packets[Len(stGot) + 1] \o u
  <1>0. /\ Packets \in Seq(Stream) /\ Len(Packets) = Len(stSent) /\ Len(stSent) \in Nat
        /\ \A k \in 1..Len(stSent) : Packets[k] = Bytes(k, stSent[k]) /\ Packets[k] \in Stream
        /\ AllBytes = Flatten(Packets)
    BY PacketTypes
  <1>1. stGot \in Seq(Stream) /\ Len(stGot) \in Nat /\ Len(stGot) <= Len(Packets)
        /\ \A k \in 1..Len(stGot) : stGot[k] = Packets[k]
    BY <1>0 DEF StreamTypes, HandledInv
  <1>2. Flatten(stGot) \in Stream
    BY <1>1, FlatType
  <1>3. CASE Len(stGot) = Len(Packets)
    <2>1. stGot = Packets
      BY <1>0, <1>1, <1>3, SeqEqual
    <2> QED BY <1>0, <1>2, <2>1, Joined
  <1>4. CASE Len(stGot) < Len(Packets)
    <2>1. PICK u \in Stream : Flatten(Packets) = Flatten(stGot) \o (Packets[Len(stGot) + 1] \o u)
      BY <1>0, <1>1, <1>4, FlatNext
    <2>2. Len(stGot) + 1 \in 1..Len(stSent)
      BY <1>0, <1>1, <1>4
    <2>3. PICK a \in Stream, b \in Stream : a = Flatten(stGot) /\ b = Packets[Len(stGot) + 1]
      BY <1>0, <1>2, <2>2
    <2>4. b \o u \in Stream
      BY JoinType
    <2>5. r = b \o u
      BY <1>0, <2>1, <2>3, <2>4, Cancel
    <2> QED BY <2>2, <2>3, <2>5
  <1> QED BY <1>0, <1>1, <1>3, <1>4

-----------------------------------------------------------------------------
(* One lemma per action. *)

\* Bytes that move between the buffers are not lost.
LEMMA RestSame ==
    ASSUME RestInv, UNCHANGED <<stSent, stGot, stLost>>, Unread' = Unread
    PROVE  RestInv'
  BY DEF RestInv, AllBytes

\* What write() takes is part of what it is offered.
LEMMA WritesIn ==
    ASSUME NEW w \in Stream, NEW n \in Nat, NEW v \in Writes(w, n)
    PROVE  v \in 0..n
  <1>1. Len(w) \in Nat /\ SockLen \in Nat
    BY LenProperties, StreamAssumption DEF Stream
  <1>2. PICK free \in Int : free = SockLen - Len(w)
    BY <1>1
  <1>3. v \in IF free = 0 THEN {0} ELSE 1..Least(free, n)
    BY <1>2 DEF Writes
  <1> QED BY <1>2, <1>3 DEF Least

\* CConnInfo::Send moves bytes on; it begins with the packet when the remainder
\* is gone.
SentOn(r, p) ==
    /\ r.wire \in Stream /\ r.out \in Stream /\ r.rest \in Stream
    /\ \/ r.rest = p /\ r.wire \o r.out = stWire \o stOut
       \/ r.out = << >> /\ r.wire \o r.rest = (stWire \o stOut) \o p /\ Len(r.rest) <= Len(p)

\* Every result of send is of that kind.
LEMMA SendIs ==
    ASSUME StreamTypes, NEW p \in Stream, NEW r \in SendResults(p)
    PROVE  SentOn(r, p)
  <1> DEFINE wire(w) == stWire \o Take(stOut, w)
             first == IF stOut = << >> THEN {0} ELSE Writes(stWire, Len(stOut))
  <1>0. stOut \in Stream /\ stWire \in Stream /\ Len(stOut) \in Nat /\ Len(p) \in Nat
    BY LenProperties DEF StreamTypes, Stream
  <1>1. PICK w \in first :
           r \in IF w < Len(stOut)
                 THEN {[wire |-> wire(w), out |-> Drop(stOut, w), rest |-> p]}
                 ELSE {[wire |-> wire(w) \o Take(p, v), out |-> << >>,
                        rest |-> Drop(p, v)] : v \in Writes(wire(w), Len(p))}
    BY DEF SendResults
  <1>2. w \in 0..Len(stOut)
    <2>1. CASE stOut = << >>
      BY <1>0, <1>1, <2>1
    <2>2. CASE stOut # << >>
      BY <1>0, <1>1, <2>2, WritesIn
    <2> QED BY <2>1, <2>2
  <1>3. PICK a \in Stream, b \in Stream : a = Take(stOut, w) /\ b = Drop(stOut, w)
                                           /\ a \o b = stOut /\ Len(a) = w /\ Len(b) = Len(stOut) - w
    BY <1>0, <1>2, Cut
  <1>4. PICK W \in Stream : W = stWire \o a
    BY <1>0, JoinType
  <1>5. W \o b = stWire \o stOut
    <2>1. (stWire \o a) \o b = stWire \o (a \o b)
      BY <1>0, Assoc, SMTT(30)
    <2> QED BY <1>3, <1>4, <2>1
  <1>6. CASE w < Len(stOut)
    <2>1. r = [wire |-> W, out |-> b, rest |-> p]
      BY <1>1, <1>3, <1>4, <1>6
    <2>2. r.wire = W /\ r.out = b /\ r.rest = p
      BY <2>1
    <2> QED BY <1>5, <2>2 DEF SentOn
  <1>7. CASE ~(w < Len(stOut))
    <2>1. PICK v \in Writes(W, Len(p)) :
             r = [wire |-> W \o Take(p, v), out |-> << >>, rest |-> Drop(p, v)]
      BY <1>1, <1>3, <1>4, <1>7
    <2>2. v \in 0..Len(p)
      BY <1>0, WritesIn
    <2>3. PICK c \in Stream, d \in Stream : c = Take(p, v) /\ d = Drop(p, v)
                                             /\ c \o d = p /\ Len(c) = v /\ Len(d) = Len(p) - v
      BY <1>0, <2>2, Cut
    <2>4. b = << >>
      <3>1. Len(b) = 0
        BY <1>0, <1>2, <1>3, <1>7
      <3> QED BY <3>1, Joined
    <2>5. W = stWire \o stOut
      <3>1. W \o << >> = W
        BY Joined
      <3> QED BY <1>5, <2>4, <3>1
    <2>6. (W \o c) \o d = W \o (c \o d) /\ W \o c \in Stream /\ << >> \in Stream
      BY Assoc, JoinType, EmptySeq, SMTT(30) DEF Stream
    <2>7. r.wire = W \o c /\ r.out = << >> /\ r.rest = d
      BY <2>1, <2>3
    <2>8. Len(d) <= Len(p)
      BY <1>0, <2>2, <2>3
    <2> QED BY <2>3, <2>5, <2>6, <2>7, <2>8 DEF SentOn
  <1> QED BY <1>6, <1>7

\* A packet that is sent joins the stream, or is not begun when the connection
\* is given up.
LEMMA SendKeeps ==
    ASSUME StreamInv, NEW len \in PkgLens, Send2Client(len)
    PROVE  StreamInv'
  <1> DEFINE n == Len(stSent) + 1
             p == Bytes(n, len)
             q == stProc \o stIn
             x == stWire \o stOut
             A == Flatten(stGot)
  <1>0. /\ StreamTypes /\ EndsInv /\ HandledInv /\ RestInv
        /\ stOut \in Stream /\ stWire \in Stream /\ stIn \in Stream /\ stProc \in Stream
        /\ stGot \in Seq(Stream) /\ stSent \in Seq(PkgLens) /\ Len(stSent) \in Nat /\ n \in Nat
        /\ UNCHANGED <<stIn, stProc, stPc, stGot>> /\ "send" \in stOpen /\ ~stLost
    BY LenProperties DEF StreamInv, StreamTypes, EndsInv, Send2Client
  <1>1. len \in Nat /\ len <= MaxBuffLen /\ MaxBuffLen \in Nat
    BY StreamAssumption
  <1>2. p \in Stream /\ Len(p) = len
    <2>1. \A i \in 1..len : <<n, i>> \in Byte
      BY <1>0, <1>1 DEF Byte
    <2> HIDE DEF n
    <2> QED BY <1>1, <2>1 DEF Bytes, Stream
  <1>3. A \in Stream /\ q \in Stream /\ x \in Stream /\ q \o x \in Stream
    <2>1. q \in Stream /\ x \in Stream
      BY <1>0, JoinType
    <2> QED BY <1>0, <2>1, FlatType, JoinType
  <1>4. \A z \in Stream : q \o z = stProc \o (stIn \o z)
    BY <1>0, Assoc
  <1>5. Packets \in Seq(Stream) /\ Len(Packets) = Len(stSent) /\ AllBytes = Flatten(Packets)
        /\ \A k \in 1..Len(stSent) : Packets[k] = Bytes(k, stSent[k]) /\ Packets[k] \in Stream
    BY <1>0, PacketTypes
  <1>6. AllBytes = A \o (q \o x)
    <2>1. Unread = q \o x
      BY <1>3, <1>4 DEF Unread
    <2>2. (q \o x) \o << >> = q \o x
      BY <1>3, Joined
    <2> QED BY <1>0, <2>1, <2>2 DEF RestInv
  <1>7. SUFFICES ASSUME NEW r \in SendResults(p),
           stWire' = r.wire,
           IF Len(r.out) + Len(r.rest) > MaxBuffLen
              THEN /\ stOpen' = stOpen \ {"send"} /\ stLost' = TRUE
                   /\ stOut' = << >> /\ stEpollOut' = FALSE
                   /\ UNCHANGED stSent
              ELSE /\ stOut' = AddSendData(r.out, r.rest)
                   /\ stEpollOut' = (stEpollOut \/ r.rest # << >>)
                   /\ stSent' = Append(stSent, len)
                   /\ UNCHANGED <<stOpen, stLost>>
        PROVE StreamInv'
    BY DEF Send2Client
  <1>8. \A k \in 1..n : k = n \/ k \in 1..Len(stSent)
    BY <1>0
  <1>9. (A \o (q \o x)) \o p = A \o (q \o (x \o p)) /\ x \o p \in Stream /\ q \o (x \o p) \in Stream
    <2> HIDE DEF A, q, x, p
    <2>1. x \o p \in Stream
      BY <1>2, <1>3, JoinType
    <2>2. q \o (x \o p) \in Stream
      BY <1>3, <2>1, JoinType
    <2>3. A \in Stream /\ q \in Stream /\ x \in Stream /\ p \in Stream
      BY <1>2, <1>3
    <2>4. (A \o (q \o x)) \o p = A \o (q \o (x \o p))
      <3>1. PICK a \in Stream, b \in Stream, c \in Stream, d \in Stream : a = A /\ b = q /\ c = x /\ d = p
        BY <2>3
      <3>2. (a \o (b \o c)) \o d = a \o (b \o (c \o d))
        <4>1. PICK e \in Stream : e = b \o c
          BY JoinType
        <4>2. (a \o e) \o d = a \o (e \o d)
          BY Assoc, SMTT(30)
        <4>3. (b \o c) \o d = b \o (c \o d)
          BY Assoc
        <4> QED BY <4>1, <4>2, <4>3
      <3> QED BY <3>1, <3>2
    <2> QED BY <2>1, <2>2, <2>4
  <1>p. Bytes(n, len) = p
    OBVIOUS
  <1>q. A' = A
    BY <1>0
  <1>x. x = stWire \o stOut
    OBVIOUS
  <1> HIDE DEF A, q, x, p
  <1>10. SentOn(r, p)
    BY <1>0, <1>2, SendIs
  <1>11. PICK rw \in Stream, ro \in Stream, rr \in Stream : rw = r.wire /\ ro = r.out /\ rr = r.rest
    BY <1>10 DEF SentOn
  <1>12. \/ rr = p /\ rw \o ro = x
         \/ ro = << >> /\ rw \o rr = x \o p /\ Len(rr) <= Len(p)
    BY <1>10, <1>11, <1>x DEF SentOn
  <1>13. CASE Len(ro) + Len(rr) > MaxBuffLen
    <2>1. rr = p /\ rw \o ro = x
      <3>1. Len(rr) \in Nat /\ Len(ro) \in Nat
        BY LenProperties DEF Stream
      <3>2. Len(<< >>) = 0
        OBVIOUS
      <3>3. ~(ro = << >> /\ Len(rr) <= Len(p))
        BY <1>1, <1>2, <1>13, <3>1, <3>2
      <3> QED BY <1>12, <3>3
    <2>2. stWire' = rw /\ stOut' = << >> /\ stSent' = stSent /\ stOpen' = stOpen \ {"send"}
          /\ stLost' = TRUE /\ stEpollOut' = FALSE
      BY <1>7, <1>11, <1>13
    <2>3. StreamTypes'
      <3>1. << >> \in Stream
        BY EmptySeq DEF Stream
      <3> QED BY <1>0, <2>2, <3>1 DEF StreamTypes
    <2>4. EndsInv'
      BY <1>0, <2>2 DEF EndsInv
    <2>5. HandledInv'
      BY <1>0, <2>2 DEF HandledInv
    <2>6. Unread' = q \o rw
      <3>1. rw \o << >> = rw
        BY Joined
      <3>2. Unread' = stProc \o (stIn \o rw)
        BY <1>0, <2>2, <3>1 DEF Unread
      <3> QED BY <1>4, <3>2
    <2>7. q \o x = (q \o rw) \o ro
      <3>1. (q \o rw) \o ro = q \o (rw \o ro)
        <4>1. PICK z \in Stream : z = q
          BY <1>3
        <4>2. (z \o rw) \o ro = z \o (rw \o ro)
          BY Assoc
        <4> QED BY <4>1, <4>2
      <3> QED BY <2>1, <3>1
    <2>8. AllBytes' = AllBytes /\ Flatten(stGot)' = A
      BY <1>0, <2>2 DEF AllBytes, A
    <2>9. RestInv'
      BY <1>6, <2>2, <2>6, <2>7, <2>8 DEF RestInv
    <2> QED BY <2>3, <2>4, <2>5, <2>9 DEF StreamInv
  <1>14. CASE ~(Len(ro) + Len(rr) > MaxBuffLen)
    <2>1. PICK o2 \in Stream : o2 = ro \o rr
      BY JoinType
    <2>2. stWire' = rw /\ stOut' = o2 /\ stSent' = Append(stSent, len) /\ stOpen' = stOpen
          /\ stLost' = stLost /\ stEpollOut' = (stEpollOut \/ rr # << >>)
      BY <1>7, <1>11, <1>14, <2>1 DEF AddSendData
    <2>3. rw \o o2 = x \o p
      <3>1. CASE rr = p /\ rw \o ro = x
        <4>1. (rw \o ro) \o rr = rw \o (ro \o rr)
          BY Assoc
        <4> QED BY <2>1, <3>1, <4>1
      <3>2. CASE ro = << >> /\ rw \o rr = x \o p
        <4>1. << >> \o rr = rr
          BY Joined
        <4> QED BY <2>1, <3>2, <4>1
      <3> QED BY <1>12, <3>1, <3>2
    <2>4. StreamTypes'
      <3>1. Append(stSent, len) \in Seq(PkgLens)
        BY <1>0
      <3> QED BY <1>0, <2>2, <3>1 DEF StreamTypes
    <2>5. EndsInv'
      BY <1>0, <2>2 DEF EndsInv
    <2>6. /\ Len(stSent') = n /\ stSent'[n] = len
          /\ \A k \in 1..Len(stSent) : stSent'[k] = stSent[k]
      BY <1>0, <2>2
    <2>7. HandledInv'
      <3>1. Len(stGot) \in Nat /\ Len(stGot) <= Len(stSent) /\ stGot' = stGot
        BY <1>0 DEF HandledInv
      <3>2. \A k \in 1..Len(stGot) : stSent'[k] = stSent[k]
        BY <1>0, <2>6, <3>1
      <3>3. Len(stGot') <= Len(stSent')
        BY <1>0, <2>6, <3>1
      <3>4. \A k \in 1..Len(stGot') : stGot'[k] = Bytes(k, stSent'[k])
        BY <1>0, <3>1, <3>2 DEF HandledInv
      <3> QED BY <3>3, <3>4 DEF HandledInv
    <2>8. Packets' = Append(Packets, p)
      <3>1. Packets' = [k \in 1..n |-> Bytes(k, stSent'[k])]
        BY <2>6 DEF Packets
      <3>2. ASSUME NEW k \in 1..n
            PROVE  /\ Bytes(k, stSent'[k]) \in Stream
                   /\ Bytes(k, stSent'[k]) = IF k = n THEN p ELSE Packets[k]
        BY <1>2, <1>5, <1>8, <1>p, <2>6
      <3>3. Packets' \in Seq(Stream) /\ Len(Packets') = n
            /\ \A k \in 1..n : Packets'[k] = IF k = n THEN p ELSE Packets[k]
        BY <1>0, <3>1, <3>2
      <3>4. Append(Packets, p) \in Seq(Stream) /\ Len(Append(Packets, p)) = n
            /\ \A k \in 1..n : Append(Packets, p)[k] = IF k = n THEN p ELSE Packets[k]
        BY <1>0, <1>2, <1>5
      <3> QED BY <3>3, <3>4, SeqEqual
    <2>9. AllBytes' = AllBytes \o p
      <3>1. AllBytes' = Flatten(Packets')
        BY DEF AllBytes, Packets
      <3> QED BY <1>2, <1>5, <2>8, <3>1, FlatAppend
    <2>10. Unread' = q \o (x \o p)
      <3>1. Unread' = stProc \o (stIn \o (rw \o o2))
        BY <1>0, <2>2 DEF Unread
      <3> QED BY <1>4, <1>9, <2>3, <3>1
    <2>11. AllBytes' = A \o (Unread' \o << >>) /\ << >> \in Stream
      <3>1. (q \o (x \o p)) \o << >> = q \o (x \o p) /\ << >> \in Stream
        BY <1>9, Joined
      <3> QED BY <1>6, <1>9, <2>9, <2>10, <3>1
    <2>12. RestInv'
      BY <1>q, <2>11 DEF RestInv, A
    <2> QED BY <2>4, <2>5, <2>7, <2>12 DEF StreamInv
  <1> QED BY <1>13, <1>14

\* EPOLLOUT moves bytes of the remainder into the kernel.
LEMMA RemainKeeps ==
    ASSUME StreamInv, SendRemainData
    PROVE  StreamInv'
  <1>0. /\ StreamTypes /\ EndsInv /\ HandledInv /\ RestInv
        /\ stOut \in Stream /\ stWire \in Stream /\ Len(stOut) \in Nat
        /\ UNCHANGED <<stSent, stIn, stProc, stPc, stGot, stOpen, stLost>>
    BY LenProperties DEF StreamInv, StreamTypes, SendRemainData, Stream
  <1>1. PICK w \in IF stOut = << >> THEN {0} ELSE Writes(stWire, Len(stOut)) :
           /\ stWire' = stWire \o Take(stOut, w)
           /\ stOut' = Drop(stOut, w)
           /\ stEpollOut' = (w < Len(stOut))
    BY DEF SendRemainData
  <1>2. w \in 0..Len(stOut)
    <2>1. CASE stOut = << >>
      BY <1>0, <1>1, <2>1
    <2>2. CASE stOut # << >>
      BY <1>0, <1>1, <2>2, WritesIn
    <2> QED BY <2>1, <2>2
  <1>3. PICK a \in Stream, b \in Stream : a = Take(stOut, w) /\ b = Drop(stOut, w)
                    /\ a \o b = stOut /\ Len(b) = Len(stOut) - w
    BY <1>0, <1>2, Cut
  <1>4. stWire \o a \in Stream
    BY <1>0, JoinType
  <1>5. StreamTypes'
    BY <1>0, <1>1, <1>3, <1>4 DEF StreamTypes
  <1>6. EndsInv'
    <2>1. stOut = << >> => b = << >>
      <3>1. Len(<< >>) = 0
        OBVIOUS
      <3>2. stOut = << >> => Len(b) = 0
        BY <1>0, <1>2, <1>3, <3>1
      <3> QED BY <3>2, Joined
    <2> QED BY <1>0, <1>1, <1>3, <2>1 DEF EndsInv
  <1>7. HandledInv'
    BY <1>0 DEF HandledInv
  <1>8. Unread' = Unread
    <2>1. (stWire \o a) \o b = stWire \o (a \o b)
      BY <1>0, Assoc
    <2> QED BY <1>0, <1>1, <1>3, <2>1 DEF Unread
  <1> QED BY <1>0, <1>5, <1>6, <1>7, <1>8, RestSame DEF StreamInv

\* A read moves bytes from the kernel behind the remainder.
LEMMA RecvKeeps ==
    ASSUME StreamInv, StreamRecv
    PROVE  StreamInv'
  <1>0. /\ StreamTypes /\ EndsInv /\ HandledInv /\ RestInv
        /\ stIn \in Stream /\ stWire \in Stream /\ stOut \in Stream
        /\ Len(stWire) \in Nat /\ Len(stIn) \in Nat
        /\ stProc = << >> /\ stIn' = << >> /\ stPc' = "process"
        /\ UNCHANGED <<stSent, stOut, stEpollOut, stGot, stOpen, stLost>>
    BY LenProperties DEF StreamInv, StreamTypes, EndsInv, StreamRecv, Stream
  <1>1. PICK n \in 1..Least(Len(stWire), MaxBuffLen - Len(stIn)) :
           stProc' = stIn \o Take(stWire, n) /\ stWire' = Drop(stWire, n)
    BY DEF StreamRecv
  <1>2. n \in 0..Len(stWire)
    BY <1>0, <1>1, StreamAssumption DEF Least
  <1>3. PICK a \in Stream, b \in Stream : a = Take(stWire, n) /\ b = Drop(stWire, n) /\ a \o b = stWire
    BY <1>0, <1>2, Cut, SMTT(30)
  <1>4. stIn \o a \in Stream /\ << >> \in Stream
    BY <1>0, JoinType, EmptySeq DEF Stream
  <1>5. StreamTypes'
    BY <1>0, <1>1, <1>3, <1>4 DEF StreamTypes
  <1>6. EndsInv'
    BY <1>0 DEF EndsInv
  <1>7. HandledInv'
    BY <1>0 DEF HandledInv
  <1>8. Unread' = Unread
    <2>1. PICK e \in Stream, c \in Stream, o \in Stream : e = b \o stOut /\ c = stIn /\ o = stOut
      BY <1>0, JoinType
    <2>2. (c \o a) \o e = c \o (a \o e)
      BY Assoc
    <2>3. (a \o b) \o o = a \o (b \o o)
      BY Assoc, SMTT(30)
    <2>4. << >> \o e = e
      BY Joined
    <2>5. Unread' = (c \o a) \o e
      BY <1>0, <1>1, <1>3, <2>1, <2>4 DEF Unread
    <2>6. c \o (stWire \o o) \in Stream
      BY <1>0, JoinType
    <2>7. Unread = c \o (stWire \o o)
      <3>1. << >> \o (c \o (stWire \o o)) = c \o (stWire \o o)
        BY <2>6, Joined
      <3> QED BY <1>0, <2>1, <3>1 DEF Unread
    <2> QED BY <1>3, <2>1, <2>2, <2>3, <2>5, <2>7
  <1> QED BY <1>0, <1>5, <1>6, <1>7, <1>8, RestSame DEF StreamInv

\* Of two ways to begin the same bytes the longer one begins with the shorter.
LEMMA Overlap ==
    ASSUME NEW t \in Stream, NEW y \in Stream, NEW p \in Stream, NEW u \in Stream,
           t \o y = p \o u, Len(p) <= Len(t)
    PROVE  Take(t, Len(p)) = p /\ u = Drop(t, Len(p)) \o y
  <1>0. Len(t) \in Nat /\ Len(p) \in Nat /\ Len(p) \in 0..Len(t)
    BY LenProperties DEF Stream
  <1>1. PICK a \in Stream, b \in Stream : /\ a = Take(t, Len(p)) /\ b = Drop(t, Len(p)) /\ a \o b = t
                                          /\ Len(a) = Len(p) /\ \A i \in 1..Len(p) : a[i] = t[i]
    <2>1. PICK n \in 0..Len(t) : n = Len(p)
      BY <1>0
    <2>2. /\ Take(t, n) \in Stream /\ Drop(t, n) \in Stream
          /\ Take(t, n) \o Drop(t, n) = t
          /\ Len(Take(t, n)) = n
          /\ \A i \in 1..n : Take(t, n)[i] = t[i]
      BY Cut
    <2> HIDE DEF Take, Drop
    <2> QED BY <2>1, <2>2, Zenon
  <1>2. \A i \in 1..Len(p) : i \in 1..Len(t) /\ (t \o y)[i] = t[i] /\ (p \o u)[i] = p[i]
    BY <1>0, Joined
  <1>3. a = p
    <2>1. \A i \in 1..Len(a) : a[i] = p[i]
      BY <1>1, <1>2
    <2> QED BY <1>1, <2>1, SeqEqual DEF Stream
  <1>4. p \o (b \o y) = p \o u
    <2>1. (a \o b) \o y = a \o (b \o y)
      BY Assoc
    <2>2. a \o b = t /\ a = p
      BY <1>1, <1>3
    <2> QED BY <2>1, <2>2
  <1>5. b \o y \in Stream
    BY JoinType
  <1>6. b \o y = u
    BY <1>4, <1>5, Cancel
  <1> QED BY <1>1, <1>3, <1>6

\* What comes after the bytes in hand.
Behind == stIn \o (stWire \o stOut)

\* The bytes in hand begin with the next packet, whose length is the one that
\* ProcessPkg reads.
HandOf(g, P) ==
    /\ g = Len(stGot) + 1 /\ g \in 1..Len(stSent)
    /\ P = Packets[g] /\ Len(P) = stSent[g] /\ stSent[g] \in HeaderLen..MaxBuffLen
    /\ Len(stProc) >= HeaderLen => ProcLen(stProc) = stSent[g]
    /\ \E s \in Stream, u \in Stream :
          /\ AllBytes = Flatten(stGot) \o (P \o u)
          /\ stProc \o (Behind \o s) = P \o u
          /\ ~stLost => s = << >>

\* Whenever there are bytes in hand, they are those of the next packet.
LEMMA HandBegins ==
    ASSUME StreamInv, stProc # << >>
    PROVE  \E P \in Stream : HandOf(Len(stGot) + 1, P)
  <1>0. /\ StreamTypes /\ EndsInv /\ HandledInv /\ RestInv
        /\ stProc \in Stream /\ stIn \in Stream /\ stWire \in Stream /\ stOut \in Stream
        /\ Len(stProc) \in Nat /\ Len(stProc) # 0
    BY Joined, EmptySeq DEF StreamInv, StreamTypes, Stream
  <1>1. Behind \in Stream
    <2>1. stWire \o stOut \in Stream
      BY <1>0, JoinType
    <2> QED BY <1>0, <2>1, JoinType DEF Behind
  <1>2. PICK s \in Stream : AllBytes = Flatten(stGot) \o (Unread \o s) /\ (~stLost => s = << >>)
    BY <1>0 DEF RestInv
  <1>3. PICK y \in Stream : y = Behind \o s
    BY <1>1, JoinType
  <1>4. Unread \o s = stProc \o y
    <2>1. PICK a \in Stream, b \in Stream : a = stProc /\ b = Behind
      BY <1>0, <1>1
    <2>2. (a \o b) \o s = a \o (b \o s)
      BY Assoc
    <2> QED BY <1>3, <2>1, <2>2 DEF Unread, Behind
  <1>5. PICK r \in Stream : r = stProc \o y
    BY <1>0, JoinType
  <1>6. Len(r) # 0 /\ r[1] = stProc[1]
    <2>1. Len(r) = Len(stProc) + Len(y) /\ \A i \in 1..Len(stProc) : r[i] = stProc[i]
      BY <1>0, <1>5, Joined
    <2>2. Len(y) \in Nat /\ 1 \in 1..Len(stProc)
      BY <1>0, LenProperties DEF Stream
    <2> QED BY <1>0, <2>1, <2>2
  <1>7. r # << >>
    BY <1>6
  <1>8. PICK g \in Nat : g = Len(stGot) + 1
    BY <1>0, LenProperties DEF StreamTypes
  <1>9. g \in 1..Len(stSent) /\ \E u \in Stream : r = Packets[g] \o u
    BY <1>0, <1>2, <1>4, <1>5, <1>7, <1>8, NextPacket
  <1>10. PICK P \in Stream : /\ P = Packets[g] /\ Len(P) = stSent[g] /\ stSent[g] \in HeaderLen..MaxBuffLen
                             /\ stSent[g] \in Nat /\ \A i \in 1..stSent[g] : P[i] = <<g, i>>
    BY <1>0, <1>9, PacketTypes
  <1>11. PICK u \in Stream : r = P \o u
    BY <1>9, <1>10
  <1>12. stProc[1] = <<g, 1>>
    <2>1. 1 \in 1..Len(P) /\ 1 \in 1..stSent[g]
      BY <1>10, StreamAssumption
    <2>2. r[1] = P[1]
      BY <1>11, <2>1, Joined
    <2> QED BY <1>6, <1>10, <2>1, <2>2
  <1>13. Len(stProc) >= HeaderLen => ProcLen(stProc) = stSent[g]
    <2>1. <<g, 1>>[1] = g
      OBVIOUS
    <2>2. PkgLen(stProc) = stSent[g]
      BY <1>12, <2>1 DEF PkgLen
    <2>3. HeaderLen \in Nat
      BY StreamAssumption
    <2> QED BY <1>0, <2>2, <2>3 DEF ProcLen
  <1>14. AllBytes = Flatten(stGot) \o (P \o u) /\ stProc \o (Behind \o s) = P \o u
    BY <1>2, <1>3, <1>4, <1>5, <1>11
  <1>15. HandOf(g, P)
    BY <1>2, <1>8, <1>9, <1>10, <1>13, <1>14 DEF HandOf
  <1> QED BY <1>8, <1>15

\* A packet is handled: the next one, and whole.
LEMMA ProcessKeeps ==
    ASSUME StreamInv, StreamProcessPkg
    PROVE  StreamInv'
  <1>0. /\ StreamTypes /\ EndsInv /\ HandledInv
        /\ stProc \in Stream /\ stIn \in Stream /\ stWire \in Stream /\ stOut \in Stream
        /\ stGot \in Seq(Stream) /\ Len(stGot) \in Nat /\ Len(stProc) \in Nat
        /\ stPc = "process" /\ stProc # << >> /\ ProcLen(stProc) <= Len(stProc)
        /\ stGot' = Append(stGot, Take(stProc, ProcLen(stProc)))
        /\ stProc' = Drop(stProc, ProcLen(stProc))
        /\ UNCHANGED <<stSent, stOut, stEpollOut, stWire, stIn, stPc, stOpen, stLost>>
    BY LenProperties DEF StreamInv, StreamTypes, StreamProcessPkg, Stream
  <1>1. PICK P \in Stream : HandOf(Len(stGot) + 1, P)
    BY <1>0, HandBegins
  <1>2. PICK g \in Nat : g = Len(stGot) + 1 /\ g - 1 = Len(stGot)
    BY <1>0
  <1>3. /\ g \in 1..Len(stSent) /\ P = Packets[g] /\ Len(P) = stSent[g] /\ Len(stSent) \in Nat
        /\ Packets[g] = Bytes(g, stSent[g])
    BY <1>0, <1>1, <1>2, PacketTypes DEF HandOf
  <1>4. ProcLen(stProc) = Len(P)
    <2>1. HeaderLen \in Nat
      BY StreamAssumption
    <2>2. Len(stProc) >= HeaderLen
      BY <1>0, <2>1 DEF ProcLen
    <2> QED BY <1>1, <1>2, <1>3, <2>2 DEF HandOf
  <1>5. PICK s \in Stream, u \in Stream : /\ AllBytes = Flatten(stGot) \o (P \o u)
                                          /\ stProc \o (Behind \o s) = P \o u
                                          /\ ~stLost => s = << >>
    BY <1>1 DEF HandOf
  <1>6. Behind \in Stream
    <2>1. stWire \o stOut \in Stream
      BY <1>0, JoinType
    <2> QED BY <1>0, <2>1, JoinType DEF Behind
  <1>7. PICK y \in Stream : y = Behind \o s
    BY <1>6, JoinType
  <1>8. Take(stProc, Len(P)) = P /\ u = Drop(stProc, Len(P)) \o y
    <2>1. stProc \o y = P \o u /\ Len(P) <= Len(stProc)
      BY <1>0, <1>4, <1>5, <1>7
    <2> QED BY <1>0, <2>1, Overlap
  <1>9. stGot' = Append(stGot, P) /\ stProc' = Drop(stProc, Len(P)) /\ stProc' \in Stream
    <2>1. Len(P) \in 0..Len(stProc)
      BY <1>0, <1>4, LenProperties DEF Stream
    <2> QED BY <1>0, <1>4, <1>8, <2>1, Cut
  <1>10. StreamTypes'
    <2>1. Append(stGot, P) \in Seq(Stream)
      BY <1>0, AppendProperties
    <2> QED BY <1>0, <1>9, <2>1 DEF StreamTypes
  <1>11. EndsInv'
    BY <1>0 DEF EndsInv
  <1>12. HandledInv'
    <2>1. Len(stGot') = g /\ stGot'[g] = P /\ \A k \in 1..g : k = g \/ (k \in 1..Len(stGot) /\ stGot'[k] = stGot[k])
      BY <1>0, <1>2, <1>9
    <2>2. \A k \in 1..g : stGot'[k] = Bytes(k, stSent[k])
      BY <1>0, <1>3, <2>1 DEF HandledInv
    <2>3. g <= Len(stSent)
      BY <1>3
    <2> QED BY <1>0, <2>1, <2>2, <2>3 DEF HandledInv
  <1>13. Unread' \o s = u
    <2>1. PICK a \in Stream, b \in Stream : a = stProc' /\ b = Behind
      BY <1>6, <1>9
    <2>2. (a \o b) \o s = a \o (b \o s)
      BY Assoc
    <2>3. Unread' = a \o b
      BY <1>0, <2>1 DEF Unread, Behind
    <2> QED BY <1>7, <1>8, <1>9, <2>1, <2>2, <2>3
  <1>14. AllBytes' = Flatten(stGot') \o u
    <2>1. PICK a \in Stream : a = Flatten(stGot)
      BY <1>0, FlatType
    <2>2. (a \o P) \o u = a \o (P \o u)
      BY Assoc
    <2>3. Flatten(stGot') = a \o P
      BY <1>0, <1>9, <2>1, FlatAppend
    <2>4. AllBytes' = AllBytes
      BY <1>0 DEF AllBytes
    <2> QED BY <1>5, <2>1, <2>2, <2>3, <2>4
  <1>15. RestInv'
    <2>1. Flatten(stGot)' = Flatten(stGot')
      OBVIOUS
    <2> QED BY <1>0, <1>5, <1>13, <1>14, <2>1 DEF RestInv
  <1> QED BY <1>10, <1>11, <1>12, <1>15 DEF StreamInv

\* What the loop keeps for the next read is less than a packet.
LEMMA AddRecvKeeps ==
    ASSUME StreamInv, AddRecvData
    PROVE  StreamInv'
  <1>0. /\ StreamTypes /\ EndsInv /\ HandledInv /\ RestInv
        /\ stProc \in Stream /\ stWire \in Stream /\ stOut \in Stream /\ Len(stProc) \in Nat
        /\ stPc = "process" /\ (stProc # << >> => ProcLen(stProc) > Len(stProc))
        /\ stIn = << >> /\ stIn' = stProc /\ stProc' = << >> /\ stPc' = "epoll" /\ << >> \in Stream
        /\ UNCHANGED <<stSent, stOut, stEpollOut, stWire, stGot, stOpen, stLost>>
    BY LenProperties, EmptySeq DEF StreamInv, StreamTypes, EndsInv, AddRecvData, Stream
  <1>1. StreamTypes'
    BY <1>0 DEF StreamTypes
  <1>2. ASSUME stProc # << >> PROVE Len(stProc) < MaxBuffLen
    <2>1. PICK P \in Stream : HandOf(Len(stGot) + 1, P)
      BY <1>2, HandBegins
    <2>2. PICK l \in HeaderLen..MaxBuffLen : Len(stProc) >= HeaderLen => ProcLen(stProc) = l
      BY <2>1 DEF HandOf
    <2>3. HeaderLen \in Nat /\ MaxBuffLen \in Nat
      BY StreamAssumption
    <2>4. CASE Len(stProc) >= HeaderLen
      BY <1>0, <1>2, <2>2, <2>3, <2>4
    <2>5. CASE ~(Len(stProc) >= HeaderLen)
      BY <1>0, <2>2, <2>3, <2>5
    <2> QED BY <2>4, <2>5
  <1>3. EndsInv'
    BY <1>0, <1>2 DEF EndsInv
  <1>4. HandledInv'
    BY <1>0 DEF HandledInv
  <1>5. Unread' = Unread
    <2>1. PICK e \in Stream : e = stWire \o stOut
      BY <1>0, JoinType
    <2>2. stProc \o e \in Stream
      BY <1>0, JoinType
    <2>3. << >> \o e = e
      BY Joined
    <2>4. << >> \o (stProc \o e) = stProc \o e
      BY <2>2, Joined
    <2> QED BY <1>0, <2>1, <2>3, <2>4 DEF Unread
  <1> QED BY <1>0, <1>1, <1>3, <1>4, <1>5, RestSame DEF StreamInv

\* When the stream is lost, what is not read is the part that is missing.
LEMMA RestLost ==
    ASSUME StreamInv, stLost', UNCHANGED <<stSent, stGot>>, Unread' = << >>
    PROVE  RestInv'
  <1>0. RestInv /\ Unread \in Stream
    <2>1. stWire \o stOut \in Stream
      BY JoinType DEF StreamInv, StreamTypes
    <2>2. stIn \o (stWire \o stOut) \in Stream
      BY <2>1, JoinType DEF StreamInv, StreamTypes
    <2> QED BY <2>2, JoinType DEF StreamInv, StreamTypes, Unread
  <1>1. PICK s \in Stream : AllBytes = Flatten(stGot) \o (Unread \o s)
    BY <1>0 DEF RestInv
  <1>2. PICK t \in Stream : t = Unread \o s
    BY <1>0, JoinType
  <1>3. << >> \o t = t
    BY Joined
  <1>4. AllBytes' = AllBytes /\ Flatten(stGot)' = Flatten(stGot)
    BY DEF AllBytes
  <1> QED BY <1>1, <1>2, <1>3, <1>4 DEF RestInv

\* A read of 0 bytes comes only after the connection was given up: a remainder
\* never fills the buffer.
LEMMA ZeroKeeps ==
    ASSUME StreamInv, StreamRecvZero
    PROVE  StreamInv'
  <1>0. /\ StreamTypes /\ EndsInv /\ HandledInv /\ RestInv
        /\ stIn \in Stream /\ stWire \in Stream /\ stOut \in Stream
        /\ stProc = << >> /\ stIn' = << >> /\ stOpen' = stOpen \ {"recv"} /\ << >> \in Stream
        /\ UNCHANGED <<stSent, stOut, stEpollOut, stWire, stProc, stPc, stGot, stLost>>
    BY EmptySeq DEF StreamInv, StreamTypes, EndsInv, StreamRecvZero, Stream
  <1>1. stLost /\ stWire = << >> /\ stOut = << >>
    <2>1. CASE stWire = << >> /\ "send" \notin stOpen
      BY <1>0, <2>1 DEF EndsInv
    <2>2. CASE stWire # << >> /\ Len(stIn) = MaxBuffLen
      <3>1. stIn = << >>
        BY <1>0, <2>2, StreamAssumption DEF EndsInv
      <3>2. MaxBuffLen = 0
        BY <2>2, <3>1
      <3>3. PICK s \in Stream : AllBytes = Flatten(stGot) \o (Unread \o s)
        BY <1>0 DEF RestInv
      <3>4. PICK e \in Stream : e = stWire \o stOut /\ e # << >>
        BY <1>0, <2>2, Joined
      <3>5. Unread = e
        <4>1. << >> \o e = e
          BY Joined
        <4> QED BY <1>0, <3>1, <3>4, <4>1 DEF Unread
      <3>6. PICK r \in Stream : r = e \o s /\ r # << >>
        <4>1. e \o s \in Stream
          BY JoinType
        <4>2. e \o s = << >> => e = << >>
          BY Joined
        <4> QED BY <3>4, <4>1, <4>2
      <3>7. Len(stGot) + 1 \in 1..Len(stSent)
        BY <1>0, <3>3, <3>5, <3>6, NextPacket
      <3>8. stSent[Len(stGot) + 1] \in HeaderLen..MaxBuffLen
        BY <1>0, <3>7, PacketTypes
      <3> QED BY <3>2, <3>8, StreamAssumption
    <2> QED BY <2>1, <2>2 DEF StreamRecvZero
  <1>2. StreamTypes'
    BY <1>0 DEF StreamTypes
  <1>3. EndsInv'
    BY <1>0 DEF EndsInv
  <1>4. HandledInv'
    BY <1>0 DEF HandledInv
  <1>5. << >> \o << >> = << >>
    BY <1>0, Joined
  <1>6. Unread' = << >>
    BY <1>0, <1>1, <1>5 DEF Unread
  <1> QED BY <1>0, <1>1, <1>2, <1>3, <1>4, <1>6, RestLost DEF StreamInv

\* A broken connection loses what was not read.
LEMMA BreakKeeps ==
    ASSUME StreamInv, StreamBreak
    PROVE  StreamInv'
  <1>0. /\ StreamTypes /\ EndsInv /\ HandledInv
        /\ stProc = << >> /\ stOpen' = {} /\ stLost' = TRUE /\ << >> \in Stream
        /\ stOut' = << >> /\ stEpollOut' = FALSE /\ stWire' = << >> /\ stIn' = << >>
        /\ UNCHANGED <<stSent, stProc, stPc, stGot>>
    BY EmptySeq DEF StreamInv, StreamTypes, EndsInv, StreamBreak, Stream
  <1>1. StreamTypes'
    BY <1>0 DEF StreamTypes
  <1>2. EndsInv'
    BY <1>0 DEF EndsInv
  <1>3. HandledInv'
    BY <1>0 DEF HandledInv
  <1>4. << >> \o << >> = << >>
    BY <1>0, Joined
  <1>5. Unread' = << >>
    BY <1>0, <1>4 DEF Unread
  <1> QED BY <1>0, <1>1, <1>2, <1>3, <1>5, RestLost DEF StreamInv

\* A new connection satisfies the invariant.
LEMMA StreamStarts == StreamInit => StreamInv
  <1> SUFFICES ASSUME StreamInit PROVE StreamInv
    OBVIOUS
  <1>0. << >> \in Stream /\ << >> \in Seq(Stream) /\ << >> \in Seq(PkgLens)
    BY EmptySeq DEF Stream
  <1>1. StreamTypes
    BY <1>0 DEF StreamInit, StreamTypes
  <1>2. EndsInv
    BY DEF StreamInit, EndsInv
  <1>3. HandledInv
    BY DEF StreamInit, HandledInv
  <1>4. << >> \o << >> = << >>
    BY <1>0, Joined
  <1>5. Packets = << >>
    BY DEF StreamInit, Packets
  <1>6. AllBytes = Flatten(<< >>) /\ stGot = << >>
    BY <1>1, <1>5, PacketTypes DEF StreamInit
  <1>7. Unread = << >>
    BY <1>4 DEF StreamInit, Unread
  <1>8. PICK a \in Stream : a = Flatten(<< >>)
    BY <1>0, FlatType
  <1>9. a \o << >> = a
    BY Joined
  <1>10. RestInv
    BY <1>0, <1>4, <1>6, <1>7, <1>8, <1>9 DEF RestInv
  <1> QED BY <1>1, <1>2, <1>3, <1>10 DEF StreamInv

\* Every step keeps it.
LEMMA StreamStep == StreamInv /\ [StreamNext]_streamVars => StreamInv'
  <1> SUFFICES ASSUME StreamInv, [StreamNext]_streamVars PROVE StreamInv'
    OBVIOUS
  <1>1. CASE UNCHANGED streamVars
    BY <1>1 DEF streamVars, StreamInv, StreamTypes, EndsInv, HandledInv, RestInv, AllBytes, Unread
  <1>2. CASE StreamNext
    BY <1>2, SendKeeps, RemainKeeps, RecvKeeps, ZeroKeeps, ProcessKeeps, AddRecvKeeps, BreakKeeps
       DEF StreamNext, StreamRecvStep
  <1> QED BY <1>1, <1>2

\* What ProcessPkg has handled is what Send2Client was given, packet by packet,
\* and as long as the connection holds every byte sent is handled, in a buffer
\* of CConnInfo, in the kernel or in the receiver's hand, once and in order.
THEOREM StreamAlwaysWhole == StreamSpec => []StreamWhole
  <1>1. StreamInv => StreamWhole
    <2> SUFFICES ASSUME StreamInv PROVE StreamWhole
      OBVIOUS
    <2>0. /\ StreamTypes /\ HandledInv /\ RestInv
          /\ stProc \in Stream /\ stIn \in Stream /\ stWire \in Stream /\ stOut \in Stream
          /\ stGot \in Seq(Stream)
      BY DEF StreamInv, StreamTypes
    <2>1. \A k \in 1..Len(stGot) : k <= Len(stSent) /\ stGot[k] = Bytes(k, stSent[k])
      <3>1. Len(stGot) \in Nat /\ Len(stSent) \in Nat
        BY <2>0, LenProperties DEF StreamTypes
      <3> QED BY <2>0, <3>1 DEF HandledInv
    <2>2. ASSUME ~stLost
          PROVE  AllBytes = Flatten(stGot) \o stProc \o stIn \o stWire \o stOut
      <3>1. PICK a \in Stream, b \in Stream, c \in Stream, d \in Stream, e \in Stream :
               a = Flatten(stGot) /\ b = stProc /\ c = stIn /\ d = stWire /\ e = stOut
        BY <2>0, FlatType
      <3>0. a \o (b \o (c \o (d \o e))) = (((a \o b) \o c) \o d) \o e
        <4>1. SameRow(a, b, c, d, e)
          BY InOneRow, Zenon
        <4> QED BY <4>1 DEF SameRow
      <3>2. PICK de \in Stream : de = d \o e
        BY JoinType
      <3>3. PICK cde \in Stream : cde = c \o de
        BY JoinType
      <3>4. PICK bcde \in Stream : bcde = b \o cde
        BY JoinType
      <3>5. bcde \o << >> = bcde
        BY Joined
      <3>6. AllBytes = a \o bcde
        BY <2>0, <2>2, <3>1, <3>2, <3>3, <3>4, <3>5 DEF RestInv, Unread
      <3> QED BY <3>0, <3>1, <3>2, <3>3, <3>4, <3>6
    <2> QED BY <2>1, <2>2 DEF StreamWhole
  <1> QED BY <1>1, StreamStarts, StreamStep, PTL DEF StreamSpec

-----------------------------------------------------------------------------
(***************************************************************************)
(* The log files.                                                          *)
(*                                                                         *)
(* With one process rotating, the names are in the order of the files'     *)
(* ages (DirInv), and a rotation moves a file only to a name that is free  *)
(* (RotateInv): the step before has freed it, or the count has stopped     *)
(* below it.                                                               *)
(***************************************************************************)

\* No process but the log server ever writes a line: the queue has always had
\* room for those of the others.
QueueSuffices == \A p \in Apps : At(p, "idle")

\* Names and inodes.  The name MaxFileNum stays free, and a file is older than
\* those with a lower name.
DirInv ==
    /\ lgInode \in Nat /\ lgFile \in [Names -> 0..lgInode] /\ lgOldest \subseteq 1..lgInode
    /\ lgFile[MaxFileNum] = 0
    /\ \A n, m \in Names : n < m /\ lgFile[n] # 0 /\ lgFile[m] # 0 => lgFile[m] < lgFile[n]

\* What RenameFile of the log server knows of the names it has yet to move.
RotateInv ==
    /\ lgPc[LogSvr] = "unlink" =>
         /\ lgNum[LogSvr] \in 0..(MaxFileNum - 1)
         /\ \A i \in 1..lgNum[LogSvr] : lgFile[i] # 0
         /\ lgNum[LogSvr] < MaxFileNum - 1 => lgFile[lgNum[LogSvr] + 1] = 0
    /\ lgPc[LogSvr] = "rename" =>
         /\ lgNum[LogSvr] \in 0..(MaxFileNum - 2)
         /\ lgFile[lgNum[LogSvr] + 1] = 0

LogPcs == {"idle", "log", "write", "reopen", "lockfile", "lock", "count", "unlink", "rename",
           "unlock", "open"}
LogTypes == lgPc \in [LogProcs -> LogPcs] /\ lgNum \in [LogProcs -> Nat]

LogInv == LogTypes /\ DirInv /\ RotateInv /\ OnlyOldestLost

\* Names are numbers.
LEMMA NamesAre ==
    /\ MaxFileNum \in Nat /\ MaxFileNum >= 2 /\ 0 \in Names /\ MaxFileNum \in Names
    /\ \A n : n \in Names <=> n \in Nat /\ n <= MaxFileNum
    /\ LogSvr \in LogProcs /\ \A p \in LogProcs : p # LogSvr => p \in Apps
  BY LogAssumption DEF Names, LogProcs

\* The files an earlier run has left are in order.
LEMMA LogStarts == LogInit => LogInv
  <1> SUFFICES ASSUME LogInit PROVE LogInv
    OBVIOUS
  <1>0. /\ lgInode \in Nat /\ lgInode <= MaxFileNum - 1 /\ lgOldest = {}
        /\ \A n \in Names : lgFile[n] = IF n \in 1..lgInode THEN lgInode + 1 - n ELSE 0
        /\ DOMAIN lgFile = Names
    BY NamesAre DEF LogInit, LogSvrInit
  <1>1. LogTypes /\ RotateInv
    BY NamesAre DEF LogInit, LogOpen, LogTypes, LogPcs, RotateInv
  <1>2. lgFile \in [Names -> 0..lgInode]
    <2>1. \A n \in Names : lgFile[n] \in 0..lgInode
      BY <1>0, NamesAre
    <2>2. lgFile = [n \in Names |-> lgFile[n]]
      BY DEF LogInit, LogSvrInit
    <2> QED BY <2>1, <2>2
  <1>3. DirInv
    BY <1>0, <1>2, NamesAre DEF DirInv
  <1>4. OnlyOldestLost
    <2>1. ASSUME NEW f \in 1..lgInode PROVE \E n \in Names : lgFile[n] = f
      <3>1. lgInode + 1 - f \in Names /\ lgInode + 1 - f \in 1..lgInode
        BY <1>0, NamesAre
      <3>2. lgFile[lgInode + 1 - f] = f
        BY <1>0, <3>1
      <3> QED BY <3>1, <3>2
    <2> QED BY <1>0, <2>1 DEF OnlyOldestLost
  <1> QED BY <1>1, <1>3, <1>4 DEF LogInv

\* Opening name 0 keeps the directory in order: a new file is the newest one.
LEMMA OpenKeeps ==
    ASSUME DirInv, OnlyOldestLost, OpenFile, lgOldest' = lgOldest
    PROVE  /\ DirInv' /\ OnlyOldestLost'
           /\ \A n \in Names : n # 0 => lgFile'[n] = lgFile[n]
  <1>0. \A n \in Names : n # 0 => lgFile'[n] = lgFile[n]
    BY NamesAre DEF OpenFile, DirInv
  <1>1. CASE lgFile[0] # 0
    <2>1. lgFile' = lgFile /\ lgInode' = lgInode
      BY <1>1, NamesAre DEF OpenFile, Opened, DirInv
    <2> QED BY <2>1, <1>0 DEF DirInv, OnlyOldestLost
  <1>2. CASE lgFile[0] = 0
    <2>1. lgInode' = lgInode + 1 /\ lgFile' = [lgFile EXCEPT ![0] = lgInode + 1] /\ lgFile'[0] = lgInode + 1
      BY <1>2, NamesAre DEF OpenFile, Opened, DirInv
    <2>2. lgFile' \in [Names -> 0..lgInode'] /\ lgInode' \in Nat /\ lgOldest' \subseteq 1..lgInode'
      BY <2>1, NamesAre DEF DirInv
    <2>3. DirInv'
      BY <1>0, <2>1, <2>2, NamesAre DEF DirInv
    <2>4. ASSUME NEW f \in 1..lgInode' PROVE (\E n \in Names : lgFile'[n] = f) \/ f \in lgOldest'
      <3>1. CASE f = lgInode + 1
        BY <2>1, <3>1, NamesAre
      <3>2. CASE f \in 1..lgInode
        <4>1. CASE f \in lgOldest
          BY <4>1
        <4>2. CASE f \notin lgOldest
          <5>1. PICK n \in Names : lgFile[n] = f
            BY <3>2, <4>2 DEF OnlyOldestLost
          <5>2. n # 0
            BY <1>2, <3>2, <5>1
          <5> QED BY <1>0, <5>1, <5>2
        <4> QED BY <4>1, <4>2
      <3> QED BY <2>1, <3>1, <3>2 DEF DirInv
    <2>5. ASSUME NEW f \in lgOldest', NEW n \in Names, lgFile'[n] # 0 PROVE f < lgFile'[n]
      <3>1. CASE n = 0
        BY <2>1, <3>1 DEF DirInv
      <3>2. CASE n # 0
        BY <1>0, <2>5, <3>2 DEF OnlyOldestLost
      <3> QED BY <3>1, <3>2
    <2> QED BY <1>0, <2>3, <2>4, <2>5 DEF OnlyOldestLost
  <1> QED BY <1>1, <1>2

\* RenameFile finds how many rotated files there are without a gap.
LEMMA CountIs ==
    ASSUME DirInv
    PROVE  \E n \in 0..(MaxFileNum - 1) : /\ \A i \in 1..n : lgFile[i] # 0
                                          /\ n < MaxFileNum - 1 => lgFile[n + 1] = 0
  <1>0. PICK B : B = {i \in 1..(MaxFileNum - 1) : lgFile[i] = 0}
    OBVIOUS
  <1>1. CASE B = {}
    <2>1. MaxFileNum - 1 \in 0..(MaxFileNum - 1)
      BY NamesAre
    <2>2. \A i \in 1..(MaxFileNum - 1) : lgFile[i] # 0
      BY <1>0, <1>1
    <2> QED BY <2>1, <2>2
  <1>2. CASE B # {}
    <2>1. B \in SUBSET Nat
      BY <1>0, NamesAre
    <2>2. PICK m \in B : \A k \in B : m <= k
      BY <1>2, <2>1, LeastNat
    <2>3. m \in 1..(MaxFileNum - 1) /\ lgFile[m] = 0
      BY <1>0
    <2>4. ASSUME NEW i \in 1..(m - 1) PROVE lgFile[i] # 0
      <3>1. i \in 1..(MaxFileNum - 1) /\ ~(m <= i)
        BY <2>3, NamesAre
      <3> QED BY <1>0, <2>2, <3>1
    <2>5. m - 1 \in 0..(MaxFileNum - 1) /\ (m - 1) + 1 = m
      BY <2>3, NamesAre
    <2> QED BY <2>3, <2>4, <2>5
  <1> QED BY <1>1, <1>2

\* A file moves to a free name, the next one.
LEMMA MoveKeeps ==
    ASSUME DirInv, OnlyOldestLost, NEW i \in 0..(MaxFileNum - 2), lgFile[i + 1] = 0,
           lgFile' = Renamed(i, i + 1), lgInode' = lgInode, lgOldest' = lgOldest
    PROVE  DirInv' /\ OnlyOldestLost' /\ lgFile'[i] = 0
  <1>0. i \in Names /\ i + 1 \in Names /\ i # i + 1 /\ i + 1 # MaxFileNum /\ i # MaxFileNum /\ i \in Nat
    BY NamesAre
  <1>1. CASE lgFile[i] = 0
    BY <1>0, <1>1 DEF Renamed, DirInv, OnlyOldestLost
  <1>2. CASE lgFile[i] # 0
    <2>0. PICK j : j = i + 1
      OBVIOUS
    <2>1. PICK f \in [Names -> 0..lgInode] : f = [lgFile EXCEPT ![i] = 0]
      BY <1>0 DEF DirInv
    <2>2. lgFile' = [f EXCEPT ![j] = lgFile[i]]
      BY <1>2, <2>0, <2>1 DEF Renamed
    <2>3. /\ lgFile' \in [Names -> 0..lgInode] /\ lgFile'[j] = lgFile[i] /\ lgFile'[i] = 0
          /\ \A n \in Names : n # i /\ n # j => lgFile'[n] = lgFile[n]
      BY <1>0, <2>0, <2>1, <2>2 DEF DirInv
    <2>4. ASSUME NEW n \in Names, NEW m \in Names, n < m, lgFile'[n] # 0, lgFile'[m] # 0
          PROVE  lgFile'[m] < lgFile'[n]
      <3>0. n \in Nat /\ m \in Nat
        BY NamesAre
      <3>1. CASE n = j
        <4>1. i < m /\ m # i /\ m # j
          BY <1>0, <2>0, <2>4, <3>0, <3>1
        <4> QED BY <1>0, <1>2, <2>3, <2>4, <3>1, <4>1 DEF DirInv
      <3>2. CASE m = j
        <4>1. n < i /\ n # i /\ n # j
          BY <1>0, <2>0, <2>3, <2>4, <3>0, <3>2
        <4> QED BY <1>0, <1>2, <2>3, <2>4, <3>2, <4>1 DEF DirInv
      <3>3. CASE n # j /\ m # j
        BY <2>3, <2>4, <3>3 DEF DirInv
      <3> QED BY <3>1, <3>2, <3>3
    <2>5. DirInv'
      BY <1>0, <2>0, <2>3, <2>4, NamesAre DEF DirInv
    <2>6. ASSUME NEW g \in 1..lgInode, g \notin lgOldest PROVE \E n \in Names : lgFile'[n] = g
      <3>1. PICK n \in Names : lgFile[n] = g
        BY <2>6 DEF OnlyOldestLost
      <3>2. n # j
        BY <2>0, <3>1
      <3>3. CASE n = i
        BY <1>0, <2>0, <2>3, <3>1, <3>3
      <3>4. CASE n # i
        BY <2>3, <3>1, <3>2, <3>4
      <3> QED BY <3>3, <3>4
    <2>7. ASSUME NEW g \in lgOldest, NEW n \in Names, lgFile'[n] # 0 PROVE g < lgFile'[n]
      <3>1. CASE n = j
        BY <1>0, <1>2, <2>3, <3>1 DEF OnlyOldestLost
      <3>2. CASE n # j
        BY <2>3, <2>7, <3>2 DEF OnlyOldestLost
      <3> QED BY <3>1, <3>2
    <2> QED BY <2>3, <2>5, <2>6, <2>7 DEF OnlyOldestLost
  <1> QED BY <1>1, <1>2

\* The last file goes: it is the oldest one.
LEMMA UnlinkKeeps ==
    ASSUME DirInv, OnlyOldestLost, NEW n \in Nat, n = MaxFileNum - 1, lgFile[n] # 0,
           lgFile' = [lgFile EXCEPT ![n] = 0], lgInode' = lgInode,
           lgOldest' = lgOldest \cup {lgFile[n]}
    PROVE  DirInv' /\ OnlyOldestLost' /\ lgFile'[n] = 0
  <1>0. n \in Names /\ n # MaxFileNum /\ \A m \in Names : m # n => m < n \/ m = MaxFileNum
    BY NamesAre
  <1>1. /\ lgFile' \in [Names -> 0..lgInode] /\ lgFile'[n] = 0
        /\ \A m \in Names : m # n => lgFile'[m] = lgFile[m]
    BY <1>0 DEF DirInv
  <1>2. DirInv'
    <2>1. lgFile[n] \in 1..lgInode
      BY <1>0 DEF DirInv
    <2>2. lgOldest' \subseteq 1..lgInode' /\ lgInode' \in Nat
      BY <2>1 DEF DirInv
    <2>3. lgFile'[MaxFileNum] = 0
      BY <1>0, <1>1, NamesAre DEF DirInv
    <2>4. ASSUME NEW k \in Names, NEW m \in Names, k < m, lgFile'[k] # 0, lgFile'[m] # 0
          PROVE  lgFile'[m] < lgFile'[k]
      BY <1>1, <2>4 DEF DirInv
    <2> QED BY <1>1, <2>2, <2>3, <2>4 DEF DirInv
  <1>3. ASSUME NEW g \in 1..lgInode, g \notin lgOldest' PROVE \E m \in Names : lgFile'[m] = g
    <2>1. PICK m \in Names : lgFile[m] = g
      BY <1>3 DEF OnlyOldestLost
    <2>2. m # n
      BY <1>3, <2>1
    <2> QED BY <1>1, <2>1, <2>2
  <1>4. ASSUME NEW g \in lgOldest', NEW m \in Names, lgFile'[m] # 0 PROVE g < lgFile'[m]
    <2>1. m # n /\ lgFile'[m] = lgFile[m] /\ lgFile[m] # 0
      BY <1>1, <1>4
    <2>2. m < n
      BY <1>0, <2>1 DEF DirInv
    <2>3. CASE g \in lgOldest
      BY <2>1, <2>3 DEF OnlyOldestLost
    <2>4. CASE g = lgFile[n]
      BY <1>0, <2>1, <2>2, <2>4 DEF DirInv
    <2> QED BY <2>3, <2>4
  <1> QED BY <1>1, <1>2, <1>3, <1>4 DEF OnlyOldestLost

\* A step that leaves the directory and the rotation alone.
LEMMA LogFrame ==
    ASSUME LogInv, LogTypes', UNCHANGED <<lgFile, lgInode, lgOldest>>,
           lgPc'[LogSvr] \notin {"unlink", "rename"} \/ UNCHANGED <<lgPc, lgNum>>
    PROVE  LogInv'
  BY DEF LogInv, DirInv, RotateInv, OnlyOldestLost

\* Every step keeps the invariant while only the log server writes.
LEMMA LogKeeps == LogInv /\ QueueSuffices /\ QueueSuffices' /\ [LogNext]_logVars => LogInv'
  <1> SUFFICES ASSUME LogInv, QueueSuffices, QueueSuffices', [LogNext]_logVars PROVE LogInv'
    OBVIOUS
  <1>0. LogTypes /\ DirInv /\ RotateInv /\ OnlyOldestLost
    BY DEF LogInv
  <1>1. CASE UNCHANGED logVars
    BY <1>1 DEF logVars, LogInv, LogTypes, LogPcs, DirInv, RotateInv, OnlyOldestLost
  <1>2. ASSUME NEW p \in Apps, LogInternal(p) PROVE LogInv'
    <2>1. UNCHANGED lgPc
      <3>1. p \in LogProcs
        BY DEF LogProcs
      <3> QED BY <1>0, <1>2, <3>1 DEF LogInternal, Goto, LogTypes, LogPcs, QueueSuffices, At
    <2> QED BY <1>0, <1>2, <2>1, LogFrame DEF LogInternal, LogTypes, LogPcs
  <1>3. CASE LogSvrTake
    BY <1>0, <1>3, NamesAre, LogFrame DEF LogSvrTake, Goto, LogTypes, LogPcs
  <1>4. ASSUME NEW p \in LogProcs, LogStep(p) \/ LogDies(p) PROVE p = LogSvr
    BY <1>4, NamesAre DEF QueueSuffices, LogStep, LogDies, FileStep, ChooseFile, Reopen, OpenAgain, WriteLine,
       LockOpen, LockWrite, CountFiles, UnlinkLast, RenameOne, UnLock, At
  <1>5. CASE LogDies(LogSvr)
    BY <1>0, <1>5, NamesAre, LogFrame DEF LogDies, LogTypes, LogPcs
  <1>6. CASE LogStep(LogSvr)
    <2>1. CASE ChooseFile(LogSvr) \/ Reopen(LogSvr) \/ OpenAgain(LogSvr) \/ LockOpen(LogSvr)
      <3>1. /\ OpenFile \/ UNCHANGED <<lgFile, lgInode>>
            /\ UNCHANGED <<lgOldest, lgNum>>
            /\ Goto(LogSvr, "write") \/ Goto(LogSvr, "reopen") \/ Goto(LogSvr, "lockfile") \/ Goto(LogSvr, "lock")
        BY <2>1 DEF ChooseFile, Reopen, OpenAgain, LockOpen
      <3>2. LogTypes' /\ lgPc'[LogSvr] \notin {"unlink", "rename"}
        BY <1>0, <3>1, NamesAre DEF LogTypes, LogPcs, Goto
      <3>3. DirInv' /\ OnlyOldestLost'
        BY <1>0, <3>1, OpenKeeps DEF DirInv, OnlyOldestLost
      <3> QED BY <3>2, <3>3 DEF LogInv, RotateInv
    <2>2. CASE WriteLine(LogSvr)
      BY <1>0, <2>2, NamesAre, LogFrame DEF WriteLine, Goto, LogTypes, LogPcs
    <2>3. CASE LockWrite(LogSvr)
      BY <1>0, <2>3, NamesAre, LogFrame DEF LockWrite, Goto, LogTypes, LogPcs
    <2>4. CASE UnLock(LogSvr)
      BY <1>0, <2>4, NamesAre, LogFrame DEF UnLock, Goto, LogTypes, LogPcs
    <2>5. CASE CountFiles(LogSvr)
      <3>1. PICK n \in 0..(MaxFileNum - 1) : /\ \A i \in 1..n : lgFile[i] # 0
                                             /\ n < MaxFileNum - 1 => lgFile[n + 1] = 0
                                             /\ lgNum' = [lgNum EXCEPT ![LogSvr] = n]
        BY <1>0, <2>5, CountIs DEF CountFiles
      <3>2. UNCHANGED <<lgFile, lgInode, lgOldest>> /\ Goto(LogSvr, "unlink")
        BY <2>5 DEF CountFiles
      <3>3. LogTypes' /\ lgPc'[LogSvr] = "unlink" /\ lgNum'[LogSvr] = n
        BY <1>0, <3>1, <3>2, NamesAre DEF LogTypes, LogPcs, Goto
      <3>4. RotateInv'
        BY <3>1, <3>2, <3>3 DEF RotateInv
      <3>5. DirInv' /\ OnlyOldestLost'
        BY <1>0, <3>2 DEF DirInv, OnlyOldestLost
      <3> QED BY <3>3, <3>4, <3>5 DEF LogInv
    <2>6. CASE UnlinkLast(LogSvr)
      <3>0. PICK n \in 0..(MaxFileNum - 1) : /\ n = lgNum[LogSvr] /\ \A i \in 1..n : lgFile[i] # 0
                                             /\ n < MaxFileNum - 1 => lgFile[n + 1] = 0
        BY <1>0, <2>6 DEF UnlinkLast, At, RotateInv
      <3>1. lgInode' = lgInode /\ Goto(LogSvr, "rename")
        BY <2>6 DEF UnlinkLast
      <3>2. CASE n = MaxFileNum - 1
        <4>1. /\ lgOldest' = lgOldest \cup {lgFile[n]} /\ lgFile' = [lgFile EXCEPT ![n] = 0]
              /\ lgNum' = [lgNum EXCEPT ![LogSvr] = n - 1]
          BY <2>6, <3>0, <3>2 DEF UnlinkLast
        <4>2. n \in Nat /\ n \in 1..n /\ n - 1 \in 0..(MaxFileNum - 2) /\ (n - 1) + 1 = n
          BY <3>2, NamesAre
        <4>3. DirInv' /\ OnlyOldestLost' /\ lgFile'[n] = 0
          BY <1>0, <3>0, <3>1, <3>2, <4>1, <4>2, UnlinkKeeps
        <4>4. LogTypes' /\ lgPc'[LogSvr] = "rename" /\ lgNum'[LogSvr] = n - 1
          BY <1>0, <3>1, <4>1, <4>2, NamesAre DEF LogTypes, LogPcs, Goto
        <4> QED BY <4>2, <4>3, <4>4 DEF LogInv, RotateInv
      <3>3. CASE n # MaxFileNum - 1
        <4>1. UNCHANGED <<lgOldest, lgFile, lgNum>>
          BY <2>6, <3>0, <3>3 DEF UnlinkLast
        <4>2. n \in 0..(MaxFileNum - 2) /\ lgFile[n + 1] = 0
          BY <3>0, <3>3, NamesAre
        <4>3. LogTypes' /\ lgPc'[LogSvr] = "rename" /\ lgNum'[LogSvr] = n
          BY <1>0, <3>0, <3>1, <4>1, NamesAre DEF LogTypes, LogPcs, Goto
        <4>4. DirInv' /\ OnlyOldestLost'
          BY <1>0, <3>1, <4>1 DEF DirInv, OnlyOldestLost
        <4> QED BY <4>1, <4>2, <4>3, <4>4 DEF LogInv, RotateInv
      <3> QED BY <3>2, <3>3
    <2>7. CASE RenameOne(LogSvr)
      <3>0. PICK n \in 0..(MaxFileNum - 2) : n = lgNum[LogSvr] /\ lgFile[n + 1] = 0
        BY <1>0, <2>7 DEF RenameOne, At, RotateInv
      <3>1. lgFile' = Renamed(n, n + 1) /\ UNCHANGED <<lgInode, lgOldest>>
        BY <2>7, <3>0 DEF RenameOne
      <3>2. DirInv' /\ OnlyOldestLost' /\ lgFile'[n] = 0
        BY <1>0, <3>0, <3>1, MoveKeeps
      <3>3. CASE n > 0
        <4>1. Goto(LogSvr, "rename") /\ lgNum' = [lgNum EXCEPT ![LogSvr] = n - 1]
          BY <2>7, <3>0, <3>3 DEF RenameOne
        <4>2. n - 1 \in 0..(MaxFileNum - 2) /\ (n - 1) + 1 = n /\ n - 1 \in Nat
          BY <3>3, NamesAre
        <4>3. LogTypes' /\ lgPc'[LogSvr] = "rename" /\ lgNum'[LogSvr] = n - 1
          BY <1>0, <4>1, <4>2, NamesAre DEF LogTypes, LogPcs, Goto
        <4> QED BY <3>2, <4>2, <4>3 DEF LogInv, RotateInv
      <3>4. CASE ~(n > 0)
        <4>1. Goto(LogSvr, "unlock") /\ UNCHANGED lgNum
          BY <2>7, <3>0, <3>4 DEF RenameOne
        <4>2. LogTypes' /\ lgPc'[LogSvr] = "unlock"
          BY <1>0, <4>1, NamesAre DEF LogTypes, LogPcs, Goto
        <4> QED BY <3>2, <4>2 DEF LogInv, RotateInv
      <3> QED BY <3>3, <3>4
    <2> QED BY <1>6, <2>1, <2>2, <2>3, <2>4, <2>5, <2>6, <2>7 DEF LogStep, FileStep
  <1> QED BY <1>1, <1>2, <1>3, <1>4, <1>5, <1>6 DEF LogNext

\* While the queue takes every line of the other processes, so that only the log
\* server writes files and rotates them, a rotation takes away no file but the
\* oldest one, whenever the log server dies in it.
THEOREM OneWriterLosesOldestOnly == LogSpec /\ []QueueSuffices => []OnlyOldestLost
  <1>1. LogInv => OnlyOldestLost
    BY DEF LogInv
  <1> QED BY <1>1, LogStarts, LogKeeps, PTL DEF LogSpec

\* The queue holds no more lines than were logged.
QueueInv ==
    /\ lgNext \in Nat /\ lgNext <= MaxLines
    /\ lgQueue \in Seq(Nat) /\ Len(lgQueue) <= lgNext
    /\ DOMAIN lgPc = LogProcs /\ QueueSuffices

\* A queue with room for every line keeps the other processes away from the files.
LEMMA QueueKeeps ==
    ASSUME MaxLines <= LogQueueLen, QueueInv, [LogNext]_logVars
    PROVE  QueueInv'
  <1>1. CASE UNCHANGED logVars
    BY <1>1 DEF logVars, QueueInv, QueueSuffices, At
  <1>2. ASSUME NEW p \in Apps, LogInternal(p) PROVE QueueInv'
    <2>1. lgNext' = lgNext + 1 /\ lgNext < MaxLines /\ Len(lgQueue) < LogQueueLen
      BY <1>2, LogAssumption DEF LogInternal, QueueInv
    <2>2. lgQueue' = Append(lgQueue, lgNext + 1) /\ lgPc' = lgPc
      BY <1>2, <2>1 DEF LogInternal
    <2>3. lgQueue' \in Seq(Nat) /\ Len(lgQueue') = Len(lgQueue) + 1
      BY <2>2 DEF QueueInv
    <2> QED BY <2>1, <2>2, <2>3, LogAssumption DEF QueueInv, QueueSuffices, At
  <1>3. CASE LogSvrTake
    <2>1. lgQueue' = Tail(lgQueue) /\ lgQueue # << >> /\ lgNext' = lgNext /\ Goto(LogSvr, "log")
      BY <1>3 DEF LogSvrTake
    <2>2. lgQueue' \in Seq(Nat) /\ Len(lgQueue') <= Len(lgQueue)
      BY <2>1 DEF QueueInv
    <2>3. DOMAIN lgPc' = LogProcs /\ QueueSuffices'
      BY <2>1, LogAssumption DEF QueueInv, QueueSuffices, At, Goto, LogProcs
    <2> QED BY <2>1, <2>2, <2>3 DEF QueueInv
  <1>4. ASSUME NEW p \in LogProcs, LogStep(p) \/ LogDies(p) PROVE QueueInv'
    <2>1. p = LogSvr
      BY <1>4, NamesAre DEF QueueInv, QueueSuffices, LogStep, LogDies, FileStep, ChooseFile, Reopen,
         OpenAgain, WriteLine, LockOpen, LockWrite, CountFiles, UnlinkLast, RenameOne, UnLock, At
    <2>2. UNCHANGED <<lgQueue, lgNext>> /\ \E pc \in LogPcs : lgPc' = [lgPc EXCEPT ![p] = pc]
      BY <1>4 DEF LogStep, LogDies, FileStep, ChooseFile, Reopen, OpenAgain, WriteLine, LockOpen,
         LockWrite, CountFiles, UnlinkLast, RenameOne, UnLock, Goto, LogPcs
    <2>3. DOMAIN lgPc' = LogProcs /\ QueueSuffices'
      BY <2>1, <2>2, LogAssumption DEF QueueInv, QueueSuffices, At, LogProcs
    <2> QED BY <2>2, <2>3 DEF QueueInv
  <1> QED BY <1>1, <1>2, <1>3, <1>4 DEF LogNext

\* With a queue that holds all the lines there is nothing to assume of the
\* processes: no file but the oldest is ever lost.
THEOREM RoomyQueueLosesOldestOnly ==
    ASSUME MaxLines <= LogQueueLen
    PROVE  LogSpec => []OnlyOldestLost
  <1>1. LogInit => QueueInv
    BY LogAssumption DEF LogInit, LogSvrInit, LogOpen, QueueInv, QueueSuffices, At, LogProcs
  <1>2. QueueInv /\ [LogNext]_logVars => QueueInv'
    BY QueueKeeps
  <1>3. QueueInv => QueueSuffices
    BY DEF QueueInv
  <1> QED BY <1>1, <1>2, <1>3, OneWriterLosesOldestOnly, PTL DEF LogSpec

-----------------------------------------------------------------------------
(***************************************************************************)
(* The pool of blocks and the maps in it.                                  *)
(*                                                                         *)
(* The entries of the free list between head and tail are different blocks *)
(* that are not in use (PoolOk).  Each map is a path of blocks along       *)
(* mpNext (Path); the paths share no block and make up the blocks in use   *)
(* (MapsBy).  The loops of the code find the path: they cannot run longer, *)
(* because a path has no more blocks than the pool.                        *)
(***************************************************************************)

\* The entries of the free list from iFreeHead to iFreeTail.
IsFree(h, t, j) == IF h <= t THEN h <= j /\ j < t ELSE h <= j \/ j < t

\* How many entries of a list of N those are.
FreeNum(h, t, N) == IF h <= t THEN t - h ELSE t + N - h

PoolTypes(p, N) ==
    /\ DOMAIN p = {"num", "used", "cnt", "head", "tail", "list"}
    /\ p.num = N /\ p.used \in SUBSET (0..(N - 1)) /\ p.cnt \in Nat
    /\ p.head \in 0..(N - 1) /\ p.tail \in 0..(N - 1)
    /\ p.list \in [0..(N - 1) -> 0..(N - 1)]

\* Each free number stands once in the list and is not in use, and of N blocks
\* one is neither; a list of more than one entry never runs empty.
PoolOk(p, N) ==
    /\ PoolTypes(p, N)
    /\ IsFiniteSet(p.used) /\ Cardinality(p.used) = p.cnt
    /\ p.cnt + FreeNum(p.head, p.tail, N) + 1 = N
    /\ N > 1 => FreeNum(p.head, p.tail, N) > 0
    /\ \A i, j \in 0..(N - 1) :
         IsFree(p.head, p.tail, i) /\ IsFree(p.head, p.tail, j) /\ p.list[i] = p.list[j] => i = j
    /\ \A i \in 0..(N - 1) : IsFree(p.head, p.tail, i) => p.list[i] \notin p.used

\* Below twice the modulus a remainder is one subtraction.
LEMMA RingMod ==
    ASSUME NEW N \in Nat \ {0}, NEW x \in Nat, x < 2 * N
    PROVE  x % N = IF x < N THEN x ELSE x - N
  <1>1. CASE x < N
    BY <1>1, SMT
  <1>2. CASE x >= N
    BY <1>2, SMT
  <1> QED BY <1>1, <1>2

\* The next entry of a ring.
LEMMA RingNext ==
    ASSUME NEW N \in Nat \ {0}, NEW h \in 0..(N - 1)
    PROVE  (h + 1) % N = (IF h + 1 < N THEN h + 1 ELSE 0) /\ (h + 1) % N \in 0..(N - 1)
  <1>1. PICK x \in Nat : x = h + 1 /\ x < 2 * N
    OBVIOUS
  <1>2. x % N = IF x < N THEN x ELSE x - N
    BY <1>1, RingMod
  <1> QED BY <1>1, <1>2

\* The first of several free entries is taken.
LEMMA RingTakes ==
    ASSUME NEW N \in Nat \ {0}, NEW h \in 0..(N - 1), NEW t \in 0..(N - 1),
           NEW g \in 0..(N - 1), g = (h + 1) % N, g # t, N > 1 => FreeNum(h, t, N) > 0
    PROVE  /\ IsFree(h, t, h) /\ N > 1
           /\ FreeNum(g, t, N) = FreeNum(h, t, N) - 1 /\ FreeNum(g, t, N) > 0
           /\ \A i \in 0..(N - 1) : IsFree(g, t, i) => IsFree(h, t, i) /\ i # h
  <1>1. g = IF h + 1 < N THEN h + 1 ELSE 0
    BY RingNext
  <1>2. N > 1 /\ h # t
    BY <1>1 DEF FreeNum
  <1>3. IsFree(h, t, h)
    BY <1>2 DEF IsFree
  <1>4. FreeNum(g, t, N) = FreeNum(h, t, N) - 1 /\ FreeNum(g, t, N) > 0
    BY <1>1, <1>2 DEF FreeNum
  <1>5. ASSUME NEW i \in 0..(N - 1), IsFree(g, t, i) PROVE IsFree(h, t, i) /\ i # h
    BY <1>1, <1>2, <1>5 DEF IsFree
  <1> QED BY <1>2, <1>3, <1>4, <1>5

\* An entry is added behind the free ones.
LEMMA RingGives ==
    ASSUME NEW N \in Nat \ {0}, NEW h \in 0..(N - 1), NEW t \in 0..(N - 1),
           NEW g \in 0..(N - 1), g = (t + 1) % N, N > 1 => FreeNum(h, t, N) > 0,
           FreeNum(h, t, N) < N - 1
    PROVE  /\ ~IsFree(h, t, t)
           /\ FreeNum(h, g, N) = FreeNum(h, t, N) + 1 /\ FreeNum(h, g, N) > 0
           /\ \A i \in 0..(N - 1) : IsFree(h, g, i) => IsFree(h, t, i) \/ i = t
  <1>1. g = IF t + 1 < N THEN t + 1 ELSE 0
    BY RingNext
  <1>2. N > 1 /\ h # t
    BY DEF FreeNum
  <1>3. ~IsFree(h, t, t)
    BY <1>2 DEF IsFree
  <1>4. FreeNum(h, g, N) = FreeNum(h, t, N) + 1 /\ FreeNum(h, g, N) > 0
    BY <1>1, <1>2 DEF FreeNum
  <1>5. ASSUME NEW i \in 0..(N - 1), IsFree(h, g, i) PROVE IsFree(h, t, i) \/ i = t
    BY <1>1, <1>2, <1>5 DEF IsFree
  <1> QED BY <1>3, <1>4, <1>5

\* The number of free entries is the difference that Verify computes.
LEMMA RingCount ==
    ASSUME NEW N \in Nat \ {0}, NEW h \in 0..(N - 1), NEW t \in 0..(N - 1)
    PROVE  (t + N - h) % N = FreeNum(h, t, N) /\ FreeNum(h, t, N) \in Nat
  <1>1. PICK x \in Nat : x = t + N - h /\ x < 2 * N
    OBVIOUS
  <1>2. x % N = IF x < N THEN x ELSE x - N
    BY <1>1, RingMod
  <1> QED BY <1>1, <1>2 DEF FreeNum

\* A pool of n blocks, as Init leaves it.
LEMMA PoolStarts ==
    ASSUME NEW N \in Nat \ {0}
    PROVE  PoolOk(PoolInit(N), N)
  <1>1. PICK p : p = PoolInit(N)
    OBVIOUS
  <1>2. /\ p.num = N /\ p.used = {} /\ p.cnt = 0 /\ p.head = 0 /\ p.tail = N - 1
        /\ p.list = [i \in 0..(N - 1) |-> i]
        /\ DOMAIN p = {"num", "used", "cnt", "head", "tail", "list"}
    BY <1>1 DEF PoolInit
  <1>3. PoolTypes(p, N)
    BY <1>2 DEF PoolTypes
  <1>4. IsFiniteSet(p.used) /\ Cardinality(p.used) = p.cnt
    BY <1>2, FS_EmptySet
  <1>5. 0 \in 0..(N - 1) /\ N - 1 \in 0..(N - 1) /\ FreeNum(0, N - 1, N) = N - 1
    BY DEF FreeNum
  <1>6. 0 + (N - 1) + 1 = N
    OBVIOUS
  <1> QED BY <1>1, <1>2, <1>3, <1>4, <1>5, <1>6 DEF PoolOk

\* What AllocateNode makes of a pool that is not full.
LEMMA PoolAllocates ==
    ASSUME NEW N \in Nat \ {0}, NEW p, PoolOk(p, N), ~PoolFull(p)
    PROVE  /\ PoolOk(AllocateNode(p), N)
           /\ FreeNode(p) \in 0..(N - 1) /\ FreeNode(p) \notin p.used
           /\ AllocateNode(p).used = p.used \cup {FreeNode(p)}
  <1>0. /\ p.num = N /\ p.used \in SUBSET (0..(N - 1))
        /\ p.list \in [0..(N - 1) -> 0..(N - 1)]
        /\ DOMAIN p = {"num", "used", "cnt", "head", "tail", "list"}
    BY DEF PoolOk, PoolTypes
  <1>1. PICK h \in 0..(N - 1), t \in 0..(N - 1), c \in Nat : h = p.head /\ t = p.tail /\ c = p.cnt
    BY DEF PoolOk, PoolTypes
  <1>2. PICK g \in 0..(N - 1) : g = (h + 1) % N
    BY RingNext
  <1>3. g # t
    BY <1>0, <1>1, <1>2 DEF PoolFull
  <1>4. /\ c + FreeNum(h, t, N) + 1 = N
        /\ N > 1 => FreeNum(h, t, N) > 0
        /\ \A i, j \in 0..(N - 1) : IsFree(h, t, i) /\ IsFree(h, t, j) /\ p.list[i] = p.list[j] => i = j
        /\ \A i \in 0..(N - 1) : IsFree(h, t, i) => p.list[i] \notin p.used
    BY <1>1 DEF PoolOk
  <1>5. /\ IsFree(h, t, h) /\ N > 1
        /\ FreeNum(g, t, N) = FreeNum(h, t, N) - 1 /\ FreeNum(g, t, N) > 0
        /\ \A i \in 0..(N - 1) : IsFree(g, t, i) => IsFree(h, t, i) /\ i # h
    BY <1>2, <1>3, <1>4, RingTakes
  <1>6. PICK f \in 0..(N - 1) : f = FreeNode(p) /\ f = p.list[h] /\ f \notin p.used
    BY <1>0, <1>1, <1>4, <1>5 DEF FreeNode
  <1>7. PICK q : q = AllocateNode(p)
    OBVIOUS
  <1>8. /\ q.num = N /\ q.used = p.used \cup {f} /\ q.cnt = p.cnt + 1 /\ q.head = (p.head + 1) % p.num
        /\ q.tail = p.tail /\ q.list = p.list
        /\ DOMAIN q = {"num", "used", "cnt", "head", "tail", "list"}
    BY <1>0, <1>6, <1>7 DEF AllocateNode
  <1>9. q.cnt = c + 1 /\ q.head = g /\ q.tail = t /\ c + 1 \in Nat
    <2>1. q.cnt = c + 1 /\ q.head = g /\ q.tail = t
      BY <1>0, <1>1, <1>2, <1>8, Zenon
    <2> QED BY <2>1
  <1>10. PoolTypes(q, N)
    BY <1>0, <1>8, <1>9 DEF PoolTypes
  <1>11. IsFiniteSet(q.used) /\ Cardinality(q.used) = q.cnt
    <2>1. IsFiniteSet(p.used) /\ Cardinality(p.used) = c
      BY <1>1 DEF PoolOk
    <2>2. IsFiniteSet(p.used \cup {f}) /\ Cardinality(p.used \cup {f}) = c + 1
      BY <1>6, <2>1, FS_AddElement
    <2> QED BY <1>8, <1>9, <2>2
  <1>12. (c + 1) + FreeNum(g, t, N) + 1 = N
    <2>1. FreeNum(h, t, N) \in Nat
      BY RingCount
    <2> QED BY <1>4, <1>5, <2>1
  <1>13. ASSUME NEW i \in 0..(N - 1), IsFree(g, t, i) PROVE q.list[i] \notin q.used
    BY <1>4, <1>5, <1>6, <1>8, <1>13
  <1>14. ASSUME NEW i \in 0..(N - 1), NEW j \in 0..(N - 1), IsFree(g, t, i), IsFree(g, t, j), q.list[i] = q.list[j]
         PROVE  i = j
    BY <1>4, <1>5, <1>8, <1>14
  <1>15. PoolOk(q, N)
    BY <1>5, <1>9, <1>10, <1>11, <1>12, <1>13, <1>14 DEF PoolOk
  <1> QED BY <1>6, <1>7, <1>8, <1>15

\* What ReleaseNode makes of a pool, for a block in use.
LEMMA PoolReleases ==
    ASSUME NEW N \in Nat \ {0}, NEW p, PoolOk(p, N), NEW b \in p.used
    PROVE  /\ PoolOk(ReleaseNode(p, b), N)
           /\ ReleaseNode(p, b).used = p.used \ {b}
  <1>0. /\ p.num = N /\ p.used \in SUBSET (0..(N - 1))
        /\ p.list \in [0..(N - 1) -> 0..(N - 1)]
        /\ DOMAIN p = {"num", "used", "cnt", "head", "tail", "list"}
    BY DEF PoolOk, PoolTypes
  <1>1. PICK h \in 0..(N - 1), t \in 0..(N - 1), c \in Nat : h = p.head /\ t = p.tail /\ c = p.cnt
    BY DEF PoolOk, PoolTypes
  <1>2. PICK g \in 0..(N - 1) : g = (t + 1) % N
    BY RingNext
  <1>3. c - 1 \in Nat /\ Cardinality(p.used \ {b}) = c - 1 /\ IsFiniteSet(p.used \ {b})
    <2>1. IsFiniteSet(p.used) /\ Cardinality(p.used) = c
      BY <1>1 DEF PoolOk
    <2>2. c # 0
      BY <2>1, FS_EmptySet
    <2>3. Cardinality(p.used \ {b}) = c - 1 /\ IsFiniteSet(p.used \ {b})
      BY <2>1, FS_RemoveElement
    <2> QED BY <2>2, <2>3
  <1>4. /\ c + FreeNum(h, t, N) + 1 = N
        /\ N > 1 => FreeNum(h, t, N) > 0
        /\ \A i, j \in 0..(N - 1) : IsFree(h, t, i) /\ IsFree(h, t, j) /\ p.list[i] = p.list[j] => i = j
        /\ \A i \in 0..(N - 1) : IsFree(h, t, i) => p.list[i] \notin p.used
    BY <1>1 DEF PoolOk
  <1>5. FreeNum(h, t, N) < N - 1 /\ FreeNum(h, t, N) \in Nat
    <2>1. FreeNum(h, t, N) \in Nat
      BY RingCount
    <2> QED BY <1>3, <1>4, <2>1
  <1>6. /\ ~IsFree(h, t, t)
        /\ FreeNum(h, g, N) = FreeNum(h, t, N) + 1 /\ FreeNum(h, g, N) > 0
        /\ \A i \in 0..(N - 1) : IsFree(h, g, i) => IsFree(h, t, i) \/ i = t
    BY <1>2, <1>4, <1>5, RingGives
  <1>7. PICK q : q = ReleaseNode(p, b)
    OBVIOUS
  <1>8. PICK l : l = [p.list EXCEPT ![p.tail] = b]
    OBVIOUS
  <1>9. /\ q.num = N /\ q.used = p.used \ {b} /\ q.cnt = p.cnt - 1 /\ q.head = p.head
        /\ q.tail = (p.tail + 1) % p.num /\ q.list = l
        /\ DOMAIN q = {"num", "used", "cnt", "head", "tail", "list"}
    BY <1>0, <1>7, <1>8 DEF ReleaseNode
  <1>10. /\ l \in [0..(N - 1) -> 0..(N - 1)] /\ l[t] = b
         /\ \A i \in 0..(N - 1) : i # t => l[i] = p.list[i]
    BY <1>0, <1>1, <1>8
  <1>11. q.cnt = c - 1 /\ q.head = h /\ q.tail = g
    BY <1>0, <1>1, <1>2, <1>9
  <1>12. PoolTypes(q, N)
    BY <1>0, <1>3, <1>9, <1>10, <1>11 DEF PoolTypes
  <1>13. (c - 1) + FreeNum(h, g, N) + 1 = N
    BY <1>4, <1>5, <1>6
  <1>14. ASSUME NEW i \in 0..(N - 1), IsFree(h, g, i) PROVE q.list[i] \notin q.used
    BY <1>4, <1>6, <1>9, <1>10, <1>14
  <1>15. ASSUME NEW i \in 0..(N - 1), NEW j \in 0..(N - 1), IsFree(h, g, i), IsFree(h, g, j), q.list[i] = q.list[j]
         PROVE  i = j
    BY <1>4, <1>6, <1>9, <1>10, <1>15
  <1>16. PoolOk(q, N)
    BY <1>3, <1>6, <1>9, <1>11, <1>12, <1>13, <1>14, <1>15 DEF PoolOk
  <1> QED BY <1>7, <1>9, <1>16

\* A pool in order passes Verify.
LEMMA PoolVerifies ==
    ASSUME NEW N \in Nat \ {0}, NEW p, PoolOk(p, N)
    PROVE  PoolVerify(p)
  <1>0. p.num = N /\ p.list \in [0..(N - 1) -> 0..(N - 1)]
    BY DEF PoolOk, PoolTypes
  <1>1. PICK h \in 0..(N - 1), t \in 0..(N - 1), c \in Nat : h = p.head /\ t = p.tail /\ c = p.cnt
    BY DEF PoolOk, PoolTypes
  <1>2. c + FreeNum(h, t, N) + 1 = N /\ Cardinality(p.used) = c
    BY <1>1 DEF PoolOk
  <1>3. (t + N - h) % N = FreeNum(h, t, N) /\ FreeNum(h, t, N) \in Nat
    BY RingCount
  <1>4. N - (((t + N - h) % N) + 1) = c
    BY <1>2, <1>3
  <1>5. \A i \in DOMAIN p.list : p.list[i] < p.num
    BY <1>0
  <1> QED BY <1>0, <1>1, <1>2, <1>4, <1>5 DEF PoolVerify

\* After the first n releases of ReleaseNodes.
IsFreed(F, p, s) ==
    /\ F[0] = p
    /\ \A n \in 1..Len(s) : F[n] = ReleaseNode(F[n - 1], s[n])
    /\ ReleaseNodes(p, s) = F[Len(s)]

\* The recursion that defines ReleaseNodes has a solution.
LEMMA FreedExists ==
    ASSUME NEW p, NEW S, NEW s \in Seq(S)
    PROVE  \E F : IsFreed(F, p, s)
  <1> DEFINE Rec(f, n) == [m \in 0..n |-> IF m = 0 THEN p ELSE ReleaseNode(f[m - 1], s[m])]
  <1>0. Len(s) \in Nat
    BY LenProperties
  <1>1. PICK T : T = {n \in 0..Len(s) : \E f : f = Rec(f, n)}
    OBVIOUS
  <1>2. 0 \in T
    <2>1. PICK f : f = [m \in 0..0 |-> p]
      OBVIOUS
    <2>2. f = Rec(f, 0)
      BY <2>1
    <2>3. 0 \in 0..Len(s)
      BY <1>0
    <2> HIDE DEF Rec
    <2> QED BY <2>2, <2>3, <1>1
  <1>3. ASSUME NEW j \in 1..Len(s), j - 1 \in T PROVE j \in T
    <2>1. PICK f : f = Rec(f, j - 1)
      BY <1>1, <1>3
    <2>2. PICK r : r = ReleaseNode(f[j - 1], s[j])
      OBVIOUS
    <2>3. PICK g : g = [m \in 0..j |-> IF m = j THEN r ELSE f[m]]
      OBVIOUS
    <2>4. \A m \in 0..j : g[m] = IF m = 0 THEN p ELSE ReleaseNode(g[m - 1], s[m])
      <3> TAKE m \in 0..j
      <3>1. j \in Nat /\ j >= 1
        BY <1>0
      <3>2. CASE m = 0
        BY <2>1, <2>3, <3>1, <3>2
      <3>3. CASE m # 0 /\ m # j
        <4>1. m \in 0..j - 1 /\ m - 1 \in 0..j /\ m - 1 # j
          BY <3>1, <3>3
        <4>2. g[m] = f[m] /\ g[m - 1] = f[m - 1]
          BY <2>3, <3>3, <4>1
        <4>3. f[m] = ReleaseNode(f[m - 1], s[m])
          BY <2>1, <3>3, <4>1
        <4> QED BY <3>3, <4>2, <4>3
      <3>4. CASE m = j
        <4>1. j - 1 \in 0..j /\ j - 1 # j
          BY <3>1
        <4> QED BY <2>2, <2>3, <3>1, <3>4, <4>1
      <3> QED BY <3>2, <3>3, <3>4
    <2>5. g = [m \in 0..j |-> g[m]]
      BY <2>3
    <2>6. g = Rec(g, j)
      BY <2>4, <2>5
    <2>7. j \in 0..Len(s)
      BY <1>0
    <2> QED BY <1>1, <2>6, <2>7
  <1>4. Len(s) \in T
    <2>1. Len(s) \in 0..Len(s)
      BY <1>0
    <2> HIDE DEF Rec
    <2> QED BY <1>0, <1>2, <1>3, <2>1, UpTo
  <1>5. \E f : f = Rec(f, Len(s))
    BY <1>1, <1>4
  <1> DEFINE F == CHOOSE f : f = Rec(f, Len(s))
  <1>6. F = Rec(F, Len(s))
    BY <1>5
  <1>7. ReleaseNodes(p, s) = F[Len(s)]
    BY DEF ReleaseNodes
  <1> HIDE DEF F
  <1>8. F[0] = p /\ \A n \in 1..Len(s) : F[n] = ReleaseNode(F[n - 1], s[n])
    BY <1>0, <1>6
  <1> QED BY <1>7, <1>8 DEF IsFreed

\* No block is twice in s.
Distinct(s) == \A i, j \in 1..Len(s) : s[i] = s[j] => i = j

\* The blocks of a chain, all in use, go back to the pool.
LEMMA PoolReleasesAll ==
    ASSUME NEW N \in Nat \ {0}, NEW p, PoolOk(p, N), NEW S, NEW s \in Seq(S), ToSet(s) \subseteq p.used,
           Distinct(s)
    PROVE  /\ PoolOk(ReleaseNodes(p, s), N)
           /\ ReleaseNodes(p, s).used = p.used \ ToSet(s)
  <1>0. Len(s) \in Nat /\ ToSet(s) = {s[i] : i \in 1..Len(s)}
    BY LenProperties DEF ToSet
  <1>1. PICK F : IsFreed(F, p, s)
    BY FreedExists
  <1>2. PICK T : T = {n \in 0..Len(s) : PoolOk(F[n], N) /\ F[n].used = p.used \ {s[i] : i \in 1..n}}
    OBVIOUS
  <1>3. 0 \in T
    BY <1>0, <1>1, <1>2 DEF IsFreed
  <1>4. ASSUME NEW j \in 1..Len(s), j - 1 \in T PROVE j \in T
    <2>1. /\ PoolOk(F[j - 1], N) /\ F[j - 1].used = p.used \ {s[i] : i \in 1..(j - 1)}
          /\ F[j] = ReleaseNode(F[j - 1], s[j])
      BY <1>1, <1>2, <1>4 DEF IsFreed
    <2>2. j \in Nat /\ j - 1 < j /\ 1..j = 1..(j - 1) \cup {j} /\ j \in 0..Len(s)
      BY <1>0
    <2>3. s[j] \in p.used
      BY <1>0
    <2>4. \A i \in 1..(j - 1) : s[i] # s[j]
      BY <1>0 DEF Distinct
    <2>5. s[j] \in F[j - 1].used
      BY <2>1, <2>3, <2>4
    <2>6. PoolOk(F[j], N) /\ F[j].used = F[j - 1].used \ {s[j]}
      BY <2>1, <2>5, PoolReleases
    <2>7. F[j].used = p.used \ {s[i] : i \in 1..j}
      BY <2>1, <2>2, <2>6
    <2> QED BY <1>2, <2>2, <2>6, <2>7
  <1>5. Len(s) \in T
    <2>1. Len(s) \in 0..Len(s)
      BY <1>0
    <2> QED BY <1>0, <1>3, <1>4, <2>1, UpTo
  <1> QED BY <1>0, <1>1, <1>2, <1>5 DEF IsFreed

-----------------------------------------------------------------------------
\* c is the chain of blocks from b on, along the handles nx.
Path(nx, b, c) ==
    /\ c \in Seq(MapBlocks) /\ Len(c) >= 1 /\ c[1] = b
    /\ \A i \in 1..(Len(c) - 1) : nx[c[i]] = c[i + 1]
    /\ nx[c[Len(c)]] = -1
    /\ \A i, j \in 1..Len(c) : c[i] = c[j] => i = j

\* A path visits no more blocks than there are.
LEMMA PathShort ==
    ASSUME NEW nx, NEW b, NEW c, Path(nx, b, c)
    PROVE  Len(c) \in Nat /\ Len(c) <= BlockNum
  <1>0. c \in Seq(MapBlocks) /\ Len(c) \in Nat /\ DOMAIN c = 1..Len(c) /\ c \in [1..Len(c) -> MapBlocks]
    BY LenProperties DEF Path
  <1>1. PICK n \in Nat : n = Len(c)
    BY <1>0
  <1>2. PICK m \in Int : m = BlockNum - 1 /\ m >= 0 /\ BlockNum \in Nat
    BY MemPoolAssumption
  <1>3. IsFiniteSet(1..n) /\ Cardinality(1..n) = n
    <2>1. PICK k \in Int : k = n /\ k >= 0
      OBVIOUS
    <2>2. IsFiniteSet(1..k) /\ Cardinality(1..k) = IF 1 > k THEN 0 ELSE k - 1 + 1
      BY FS_Interval
    <2> QED BY <2>1, <2>2
  <1>4. IsFiniteSet(MapBlocks) /\ Cardinality(MapBlocks) = BlockNum
    BY <1>2, FS_Interval DEF MapBlocks
  <1>5. \A i, j \in 1..n : c[i] = c[j] => i = j
    BY <1>1 DEF Path
  <1>6. ~(BlockNum < n)
    <2> SUFFICES ASSUME BlockNum < n PROVE FALSE
      OBVIOUS
    <2>1. Cardinality(MapBlocks) < Cardinality(1..n)
      BY <1>3, <1>4
    <2>2. \E x, y \in 1..n : x # y /\ c[x] = c[y]
      BY <1>0, <1>1, <1>3, <1>4, <2>1, FS_PigeonHole
    <2> QED BY <1>5, <2>2
  <1> QED BY <1>0, <1>1, <1>2, <1>6

\* The loops visit the path.
LEMMA ChainIsPath ==
    ASSUME NEW b, NEW c, Path(mpNext, b, c)
    PROVE  Chain(b) = c
  <1>0. /\ c \in Seq(MapBlocks) /\ Len(c) \in Nat /\ Len(c) >= 1 /\ c[1] = b
        /\ \A i \in 1..Len(c) : c[i] \in MapBlocks
        /\ \A i \in 1..(Len(c) - 1) : mpNext[c[i]] = c[i + 1]
        /\ mpNext[c[Len(c)]] = -1 /\ Len(c) <= BlockNum /\ BlockNum \in Nat \ {0}
    <2>1. Len(c) \in Nat /\ Len(c) <= BlockNum
      BY PathShort
    <2>2. c \in Seq(MapBlocks)
      BY DEF Path
    <2>3. \A i \in 1..Len(c) : c[i] \in MapBlocks
      BY <2>2, LenProperties
    <2> QED BY <2>1, <2>2, <2>3, MemPoolAssumption DEF Path
  <1>1. PICK L \in Nat : L = Len(c)
    BY <1>0
  <1> DEFINE Step(s) == IF mpNext[Last(s)] = -1 THEN s ELSE Append(s, mpNext[Last(s)])
  <1> DEFINE Rec(f) == [n \in 0..BlockNum |-> IF n = 0 THEN <<b>> ELSE Step(f[n - 1])]
  <1> DEFINE Upto(n) == SubSeq(c, 1, IF n < L THEN n + 1 ELSE L)
  <1>2. Upto(0) = <<b>>
    <2>1. Upto(0) = SubSeq(c, 1, 1)
      BY <1>0, <1>1
    <2>2. PICK s : s = SubSeq(c, 1, 1)
      OBVIOUS
    <2>3. s \in Seq(MapBlocks) /\ Len(s) = 1 /\ s[1] = b /\ b \in MapBlocks
      BY <1>0, <2>2
    <2>4. s = <<b>>
      BY <2>3
    <2> QED BY <2>1, <2>2, <2>4
  <1>3. ASSUME NEW n \in 1..BlockNum PROVE Upto(n) = Step(Upto(n - 1))
    <2>1. CASE n < L
      <3>1. PICK s : s = SubSeq(c, 1, n)
        OBVIOUS
      <3>2. s \in Seq(MapBlocks) /\ Len(s) = n /\ \A i \in 1..n : s[i] = c[i]
        BY <1>0, <1>1, <2>1, <3>1
      <3>3. Last(s) = c[n] /\ mpNext[c[n]] = c[n + 1] /\ c[n + 1] \in MapBlocks /\ c[n + 1] # -1
        BY <1>0, <1>1, <2>1, <3>2 DEF Last, MapBlocks
      <3>4. Upto(n - 1) = s
        BY <1>1, <2>1, <3>1
      <3>5. SubSeq(c, 1, n + 1) = Append(s, c[n + 1])
        BY <1>0, <1>1, <2>1, <3>1
      <3>6. Step(s) = Append(s, c[n + 1])
        BY <3>3
      <3>7. Upto(n) = SubSeq(c, 1, n + 1)
        BY <2>1
      <3> HIDE DEF Step, Upto
      <3> QED BY <3>4, <3>5, <3>6, <3>7
    <2>2. CASE ~(n < L)
      <3>1. Upto(n - 1) = SubSeq(c, 1, L) /\ Upto(n) = SubSeq(c, 1, L)
        BY <1>1, <2>2
      <3>2. SubSeq(c, 1, L) = c
        BY <1>0, <1>1
      <3>3. mpNext[Last(c)] = -1
        BY <1>0 DEF Last
      <3>4. Step(c) = c
        BY <3>3
      <3> HIDE DEF Step, Upto
      <3> QED BY <3>1, <3>2, <3>4
    <2> QED BY <2>1, <2>2
  <1>4. Upto(BlockNum) = c
    BY <1>0, <1>1
  <1> HIDE DEF Step, Upto
  <1>5. PICK g : g = [n \in 0..BlockNum |-> Upto(n)]
    OBVIOUS
  <1>6. g = Rec(g)
    <2>1. \A n \in 0..BlockNum : g[n] = IF n = 0 THEN <<b>> ELSE Step(g[n - 1])
      <3> TAKE n \in 0..BlockNum
      <3>1. CASE n = 0
        BY <1>2, <1>5, <3>1
      <3>2. CASE n # 0
        <4>1. n \in 1..BlockNum /\ n - 1 \in 0..BlockNum
          BY <1>0, <3>2
        <4> QED BY <1>3, <1>5, <3>2, <4>1
      <3> QED BY <3>1, <3>2
    <2>2. g = [n \in 0..BlockNum |-> g[n]]
      BY <1>5
    <2> QED BY <2>1, <2>2
  <1> DEFINE F == CHOOSE f : f = Rec(f)
  <1>7. F = Rec(F)
    BY <1>6
  <1>8. Chain(b) = F[BlockNum]
    BY DEF Chain, Step
  <1> HIDE DEF F
  <1>9. PICK T : T = {n \in 0..BlockNum : F[n] = Upto(n)}
    OBVIOUS
  <1>10. 0 \in T
    BY <1>0, <1>2, <1>7, <1>9
  <1>11. ASSUME NEW j \in 1..BlockNum, j - 1 \in T PROVE j \in T
    <2>1. F[j - 1] = Upto(j - 1) /\ j \in 0..BlockNum /\ j # 0
      BY <1>0, <1>9, <1>11
    <2>2. F[j] = Step(F[j - 1])
      BY <1>7, <2>1
    <2> QED BY <1>3, <1>9, <2>1, <2>2
  <1>12. BlockNum \in T
    <2>1. BlockNum \in 0..BlockNum /\ BlockNum \in Nat
      BY <1>0
    <2> QED BY <1>10, <1>11, <2>1, UpTo
  <1> QED BY <1>4, <1>8, <1>9, <1>12

-----------------------------------------------------------------------------
\* F[n] is the concatenation of the first n lists of keys.
IsJoin(F, S, ss) ==
    /\ F[1] = ss[1]
    /\ \A n \in 2..Len(ss) : F[n] = F[n - 1] \o ss[n]
    /\ \A n \in 1..Len(ss) : F[n] \in Seq(S)
    /\ FlattenSeq(ss) = F[Len(ss)]

\* The recursion that defines FlattenSeq has a solution.
LEMMA JoinExists ==
    ASSUME NEW S, NEW ss \in Seq(Seq(S)), Len(ss) >= 1
    PROVE  \E F : IsJoin(F, S, ss)
  <1> DEFINE Rec(f, n) == [m \in 1..n |-> IF m = 1 THEN ss[m] ELSE f[m - 1] \o ss[m]]
  <1>0. Len(ss) \in Nat /\ \A n \in 1..Len(ss) : ss[n] \in Seq(S)
    BY LenProperties
  <1>1. PICK T : T = {n \in 0..Len(ss) : \E f : f = Rec(f, n)}
    OBVIOUS
  <1>2. 0 \in T
    <2>1. PICK f : f = [m \in 1..0 |-> ss[m]]
      OBVIOUS
    <2>2. f = Rec(f, 0)
      BY <2>1
    <2>3. 0 \in 0..Len(ss)
      BY <1>0
    <2> HIDE DEF Rec
    <2> QED BY <2>2, <2>3, <1>1
  <1>3. ASSUME NEW j \in 1..Len(ss), j - 1 \in T PROVE j \in T
    <2>1. PICK f : f = Rec(f, j - 1)
      BY <1>1, <1>3
    <2>2. PICK r : r = IF j = 1 THEN ss[j] ELSE f[j - 1] \o ss[j]
      OBVIOUS
    <2>3. PICK g : g = [m \in 1..j |-> IF m = j THEN r ELSE f[m]]
      OBVIOUS
    <2>4. \A m \in 1..j : g[m] = IF m = 1 THEN ss[m] ELSE g[m - 1] \o ss[m]
      <3> TAKE m \in 1..j
      <3>1. j \in Nat /\ j >= 1
        BY <1>0
      <3>2. CASE m # j
        <4>1. m \in 1..j - 1 /\ (m # 1 => m - 1 \in 1..j /\ m - 1 # j)
          BY <3>1, <3>2
        <4>2. g[m] = f[m] /\ (m # 1 => g[m - 1] = f[m - 1])
          BY <2>3, <3>2, <4>1
        <4>3. f[m] = IF m = 1 THEN ss[m] ELSE f[m - 1] \o ss[m]
          BY <2>1, <4>1
        <4> QED BY <4>2, <4>3
      <3>3. CASE m = j
        <4>1. g[m] = r /\ (j # 1 => j - 1 \in 1..j /\ j - 1 # j)
          BY <2>3, <3>1, <3>3
        <4>2. j # 1 => g[j - 1] = f[j - 1]
          BY <2>3, <4>1
        <4> QED BY <2>2, <3>3, <4>1, <4>2
      <3> QED BY <3>2, <3>3
    <2>5. g = [m \in 1..j |-> g[m]]
      BY <2>3
    <2>6. g = Rec(g, j)
      BY <2>4, <2>5
    <2>7. j \in 0..Len(ss)
      BY <1>0
    <2> QED BY <1>1, <2>6, <2>7
  <1>4. Len(ss) \in T
    <2>1. Len(ss) \in 0..Len(ss)
      BY <1>0
    <2> HIDE DEF Rec
    <2> QED BY <1>0, <1>2, <1>3, <2>1, UpTo
  <1>5. \E f : f = Rec(f, Len(ss))
    BY <1>1, <1>4
  <1> DEFINE F == CHOOSE f : f = Rec(f, Len(ss))
  <1>6. F = Rec(F, Len(ss))
    BY <1>5
  <1>7. FlattenSeq(ss) = F[Len(ss)]
    <2>1. Len(ss) # 0
      BY <1>0
    <2> QED BY <2>1 DEF FlattenSeq
  <1> HIDE DEF F
  <1>8. F[1] = ss[1] /\ \A n \in 2..Len(ss) : F[n] = F[n - 1] \o ss[n]
    <2>1. \A m \in 1..Len(ss) : F[m] = IF m = 1 THEN ss[m] ELSE F[m - 1] \o ss[m]
      BY <1>6
    <2>2. 1 \in 1..Len(ss)
      BY <1>0
    <2>3. ASSUME NEW n \in 2..Len(ss) PROVE F[n] = F[n - 1] \o ss[n]
      <3>1. n \in 1..Len(ss) /\ n # 1
        BY <1>0
      <3> QED BY <2>1, <3>1
    <2> QED BY <2>1, <2>2, <2>3
  <1>9. ASSUME NEW k \in 1..Len(ss) PROVE F[k] \in Seq(S)
    <2>1. PICK U : U = {n \in 0..Len(ss) : n = 0 \/ F[n] \in Seq(S)}
      OBVIOUS
    <2>2. 0 \in U
      BY <1>0, <2>1
    <2>3. ASSUME NEW j \in 1..Len(ss), j - 1 \in U PROVE j \in U
      <3>1. CASE j = 1
        BY <1>0, <1>8, <2>1, <3>1
      <3>2. CASE j # 1
        <4>1. j \in 2..Len(ss) /\ j - 1 # 0 /\ j \in 0..Len(ss)
          BY <1>0, <3>2
        <4>2. F[j - 1] \in Seq(S) /\ ss[j] \in Seq(S) /\ F[j] = F[j - 1] \o ss[j]
          BY <1>0, <1>8, <2>1, <2>3, <4>1
        <4>3. F[j] \in Seq(S)
          BY <4>2, ConcatProperties
        <4> QED BY <2>1, <4>1, <4>3
      <3> QED BY <3>1, <3>2
    <2>4. k \in 0..Len(ss) /\ k # 0
      BY <1>0
    <2>5. k \in U
      BY <1>0, <2>2, <2>3, <2>4, UpTo
    <2> QED BY <2>1, <2>4, <2>5
  <1> QED BY <1>7, <1>8, <1>9 DEF IsJoin

\* One list of keys.
LEMMA JoinOne ==
    ASSUME NEW S, NEW s \in Seq(S)
    PROVE  FlattenSeq(<<s>>) = s
  <1>1. PICK R : R = Seq(S)
    OBVIOUS
  <1>2. PICK ss \in Seq(R) : ss = <<s>> /\ Len(ss) = 1 /\ ss[1] = s
    <2>1. s \in R
      BY <1>1
    <2>2. <<s>> \in Seq(R) /\ Len(<<s>>) = 1 /\ <<s>>[1] = s
      BY <2>1
    <2> QED BY <2>2
  <1>3. Len(ss) >= 1 /\ ss \in Seq(Seq(S))
    BY <1>1, <1>2
  <1>4. PICK F : IsJoin(F, S, ss)
    BY <1>3, JoinExists
  <1> QED BY <1>2, <1>4 DEF IsJoin

\* A list more.
LEMMA JoinAppend ==
    ASSUME NEW S, NEW ss \in Seq(Seq(S)), Len(ss) >= 1, NEW s \in Seq(S)
    PROVE  /\ FlattenSeq(ss) \in Seq(S)
           /\ FlattenSeq(Append(ss, s)) = FlattenSeq(ss) \o s
  <1>0. Len(ss) \in Nat
    BY LenProperties
  <1>1. PICK tt \in Seq(Seq(S)) : tt = Append(ss, s)
    BY AppendProperties
  <1>2. /\ Len(tt) = Len(ss) + 1 /\ tt[Len(ss) + 1] = s
        /\ \A i \in 1..Len(ss) : tt[i] = ss[i]
    BY <1>1, AppendProperties
  <1>3. PICK F : IsJoin(F, S, ss)
    BY JoinExists
  <1>4. PICK G : IsJoin(G, S, tt)
    BY <1>0, <1>2, JoinExists
  <1>5. PICK T : T = {n \in 0..Len(ss) : n = 0 \/ F[n] = G[n]}
    OBVIOUS
  <1>6. 0 \in T
    BY <1>0, <1>5
  <1>7. ASSUME NEW j \in 1..Len(ss), j - 1 \in T PROVE j \in T
    <2>1. CASE j = 1
      BY <1>0, <1>2, <1>3, <1>4, <1>5, <2>1 DEF IsJoin
    <2>2. CASE j # 1
      <3>1. j \in 2..Len(ss) /\ j \in 2..Len(tt) /\ j - 1 # 0 /\ j \in 0..Len(ss)
        BY <1>0, <1>2, <2>2
      <3>2. F[j] = F[j - 1] \o ss[j] /\ G[j] = G[j - 1] \o tt[j] /\ F[j - 1] = G[j - 1]
        BY <1>3, <1>4, <1>5, <1>7, <3>1 DEF IsJoin
      <3> QED BY <1>2, <1>5, <3>1, <3>2
    <2> QED BY <2>1, <2>2
  <1>8. F[Len(ss)] = G[Len(ss)]
    <2>1. Len(ss) \in 0..Len(ss) /\ Len(ss) # 0
      BY <1>0
    <2>2. Len(ss) \in T
      BY <1>0, <1>6, <1>7, <2>1, UpTo
    <2> QED BY <1>5, <2>1, <2>2
  <1>9. Len(tt) \in 2..Len(tt) /\ Len(tt) - 1 = Len(ss) /\ Len(ss) \in 1..Len(ss)
    BY <1>0, <1>2
  <1>10. FlattenSeq(tt) = G[Len(tt)] /\ G[Len(tt)] = G[Len(tt) - 1] \o tt[Len(tt)]
    BY <1>4, <1>9 DEF IsJoin
  <1>11. FlattenSeq(ss) = F[Len(ss)] /\ F[Len(ss)] \in Seq(S)
    BY <1>3, <1>9 DEF IsJoin
  <1> QED BY <1>1, <1>2, <1>8, <1>9, <1>10, <1>11

\* A key appended to the last list is appended to all.
LEMMA JoinLast ==
    ASSUME NEW S, NEW rr \in Seq(Seq(S)), NEW s \in Seq(S), NEW k \in S
    PROVE  FlattenSeq(Append(rr, Append(s, k))) = Append(FlattenSeq(Append(rr, s)), k)
  <1>1. PICK t \in Seq(S) : t = Append(s, k) /\ t = s \o <<k>>
    BY AppendProperties, AppendIsConcat
  <1>2. CASE Len(rr) >= 1
    <2>1. PICK f \in Seq(S) : f = FlattenSeq(rr)
      BY <1>2, JoinAppend
    <2>2. FlattenSeq(Append(rr, t)) = f \o t /\ FlattenSeq(Append(rr, s)) = f \o s
      BY <1>2, <2>1, JoinAppend
    <2>3. f \o t = Append(f \o s, k)
      <3>1. <<k>> \in Seq(S)
        OBVIOUS
      <3>2. f \o (s \o <<k>>) = (f \o s) \o <<k>>
        BY <3>1, ConcatAssociative
      <3>3. f \o s \in Seq(S)
        BY ConcatProperties
      <3>4. Append(f \o s, k) = (f \o s) \o <<k>>
        BY <3>3, AppendIsConcat
      <3> QED BY <1>1, <3>2, <3>4
    <2> QED BY <1>1, <2>2, <2>3
  <1>3. CASE ~(Len(rr) >= 1)
    <2>1. rr = << >>
      BY <1>3, LenProperties, EmptySeq
    <2>2. Append(rr, t) = <<t>> /\ Append(rr, s) = <<s>>
      BY <2>1
    <2>3. FlattenSeq(<<t>>) = t /\ FlattenSeq(<<s>>) = s
      BY JoinOne
    <2> QED BY <1>1, <2>2, <2>3
  <1> QED BY <1>2, <1>3

-----------------------------------------------------------------------------
\* The lists of keys of the blocks of c.
KeysOf(ks, c) == [i \in DOMAIN c |-> ks[c[i]]]

MapTypes(nx, ks, mm) ==
    /\ nx \in [MapBlocks -> MapBlocks \cup {-1}] /\ ks \in [MapBlocks -> Seq(Keys)]
    /\ DOMAIN mm \subseteq MapBlocks

\* Each map has a chain, ch[h], that holds what was inserted.
ChainsHold(nx, ks, mm, ch) ==
    \A h \in DOMAIN mm : Path(nx, h, ch[h]) /\ FlattenSeq(KeysOf(ks, ch[h])) = mm[h]

\* The chains share no block, and the blocks in use are theirs.
ChainsApart(p, mm, ch) ==
    /\ \A h, g \in DOMAIN mm : \A x : x \in ToSet(ch[h]) /\ x \in ToSet(ch[g]) => h = g
    /\ \A x : x \in p.used <=> \E h \in DOMAIN mm : x \in ToSet(ch[h])

MapsBy(p, nx, ks, mm, ch) ==
    /\ PoolOk(p, BlockNum) /\ MapTypes(nx, ks, mm)
    /\ ChainsHold(nx, ks, mm, ch) /\ ChainsApart(p, mm, ch)

HasChains(p, nx, ks, mm) == \E ch : MapsBy(p, nx, ks, mm, ch)

MapInv ==
    /\ HasChains(mpPool, mpNext, mpKeys, mpMaps)
    /\ mpHandle \in DOMAIN mpMaps \cup {-1}

\* The blocks of a path from h, and the keys in it, as sequences.
PathFact(ks, h, c) ==
    /\ Len(c) \in Nat \ {0} /\ DOMAIN c = 1..Len(c) /\ c \in Seq(MapBlocks)
    /\ \A i \in 1..Len(c) : c[i] \in MapBlocks
    /\ ToSet(c) = {c[i] : i \in 1..Len(c)} /\ h \in ToSet(c) /\ h \in MapBlocks
    /\ KeysOf(ks, c) \in Seq(Seq(Keys)) /\ Len(KeysOf(ks, c)) = Len(c)
    /\ \A i \in 1..Len(c) : KeysOf(ks, c)[i] = ks[c[i]]

\* What is true of a path and of the keys in it.
LEMMA PathFacts ==
    ASSUME NEW nx, NEW ks \in [MapBlocks -> Seq(Keys)], NEW h, NEW c, Path(nx, h, c)
    PROVE  PathFact(ks, h, c)
  <1>1. /\ Len(c) \in Nat \ {0} /\ DOMAIN c = 1..Len(c) /\ c \in Seq(MapBlocks)
        /\ \A i \in 1..Len(c) : c[i] \in MapBlocks
    BY LenProperties DEF Path
  <1>2. ToSet(c) = {c[i] : i \in 1..Len(c)} /\ h \in ToSet(c) /\ h \in MapBlocks
    BY <1>1 DEF ToSet, Path
  <1>3. PICK R : R = Seq(Keys)
    OBVIOUS
  <1>4. PICK n \in Nat : n = Len(c)
    BY <1>1
  <1>5. \A i \in 1..n : ks[c[i]] \in R
    BY <1>1, <1>3, <1>4
  <1>6. PICK f : f = [i \in 1..n |-> ks[c[i]]]
    OBVIOUS
  <1>7. f \in Seq(R) /\ Len(f) = n /\ \A i \in 1..n : f[i] = ks[c[i]]
    BY <1>5, <1>6
  <1>8. KeysOf(ks, c) = f
    BY <1>1, <1>4, <1>6 DEF KeysOf
  <1> QED BY <1>1, <1>2, <1>3, <1>4, <1>7, <1>8 DEF PathFact

\* The blocks of c have the same handles and keys.
SameIn(c, nx, ks, ny, kt) == \A x \in ToSet(c) : ny[x] = nx[x] /\ kt[x] = ks[x]

\* A chain whose blocks are left alone is what it was.
LEMMA PathStays ==
    ASSUME NEW nx, NEW ks, NEW h, NEW c, Path(nx, h, c), NEW ny, NEW kt, SameIn(c, nx, ks, ny, kt)
    PROVE  Path(ny, h, c) /\ KeysOf(kt, c) = KeysOf(ks, c)
  <1>1. /\ Len(c) \in Nat \ {0} /\ DOMAIN c = 1..Len(c)
        /\ ToSet(c) = {c[i] : i \in 1..Len(c)}
    BY LenProperties DEF Path, ToSet
  <1>2. \A i \in 1..Len(c) : ny[c[i]] = nx[c[i]] /\ kt[c[i]] = ks[c[i]]
    BY <1>1 DEF SameIn
  <1>3. Path(ny, h, c)
    <2>1. ASSUME NEW i \in 1..(Len(c) - 1) PROVE ny[c[i]] = c[i + 1]
      <3>1. i \in 1..Len(c)
        BY <1>1
      <3> QED BY <1>2, <3>1 DEF Path
    <2>2. Len(c) \in 1..Len(c)
      BY <1>1
    <2>3. ny[c[Len(c)]] = -1
      BY <1>2, <2>2 DEF Path
    <2> QED BY <2>1, <2>3 DEF Path
  <1> QED BY <1>1, <1>2, <1>3 DEF KeysOf

\* NewMap, with block b.
IsNew(p, nx, ks, mm, b, q, ny, kt, mn) ==
    /\ ~PoolFull(p) /\ b = FreeNode(p) /\ q = AllocateNode(p)
    /\ ny = [nx EXCEPT ![b] = -1] /\ kt = [ks EXCEPT ![b] = <<>>]
    /\ mn = [h \in DOMAIN mm \cup {b} |-> IF h = b THEN <<>> ELSE mm[h]]

\* A new map.
LEMMA NewKeeps ==
    ASSUME NEW p, NEW nx, NEW ks, NEW mm, NEW ch, MapsBy(p, nx, ks, mm, ch),
           NEW b, NEW q, NEW ny, NEW kt, NEW mn, IsNew(p, nx, ks, mm, b, q, ny, kt, mn)
    PROVE  HasChains(q, ny, kt, mn)
  <1> USE DEF IsNew
  <1>0. /\ PoolOk(p, BlockNum) /\ MapTypes(nx, ks, mm)
        /\ ChainsHold(nx, ks, mm, ch) /\ ChainsApart(p, mm, ch) /\ BlockNum \in Nat \ {0}
    BY MemPoolAssumption DEF MapsBy
  <1>1. PoolOk(q, BlockNum) /\ b \in MapBlocks /\ b \notin p.used /\ q.used = p.used \cup {b}
    BY <1>0, PoolAllocates DEF MapBlocks
  <1>2. /\ ny \in [MapBlocks -> MapBlocks \cup {-1}] /\ ny[b] = -1
        /\ \A x \in MapBlocks : x # b => ny[x] = nx[x]
    BY <1>0, <1>1 DEF MapTypes
  <1>3. <<>> \in Seq(Keys)
    OBVIOUS
  <1>4. /\ kt \in [MapBlocks -> Seq(Keys)] /\ kt[b] = <<>>
        /\ \A x \in MapBlocks : x # b => kt[x] = ks[x]
    BY <1>0, <1>1, <1>3 DEF MapTypes
  <1>5. DOMAIN mn = DOMAIN mm \cup {b} /\ MapTypes(ny, kt, mn)
    BY <1>0, <1>1, <1>2, <1>4 DEF MapTypes
  <1>6. ASSUME NEW h \in DOMAIN mm
        PROVE  /\ Path(nx, h, ch[h]) /\ b \notin ToSet(ch[h]) /\ h # b
               /\ Path(ny, h, ch[h]) /\ KeysOf(kt, ch[h]) = KeysOf(ks, ch[h])
    <2>1. Path(nx, h, ch[h]) /\ ks \in [MapBlocks -> Seq(Keys)]
      BY <1>0 DEF ChainsHold, MapTypes
    <2>2. h \in ToSet(ch[h]) /\ ToSet(ch[h]) \subseteq MapBlocks
      <3>1. PathFact(ks, h, ch[h])
        BY <2>1, PathFacts
      <3> QED BY <3>1 DEF PathFact
    <2>3. b \notin ToSet(ch[h])
      BY <1>0, <1>1 DEF ChainsApart
    <2>4. SameIn(ch[h], nx, ks, ny, kt)
      BY <1>2, <1>4, <2>2, <2>3 DEF SameIn
    <2>5. Path(ny, h, ch[h]) /\ KeysOf(kt, ch[h]) = KeysOf(ks, ch[h])
      BY <2>1, <2>4, PathStays
    <2> QED BY <2>1, <2>2, <2>3, <2>5
  <1>7. PICK cb : cb = <<b>> /\ cb \in Seq(MapBlocks) /\ Len(cb) = 1 /\ cb[1] = b
    <2>1. <<b>> \in Seq(MapBlocks) /\ Len(<<b>>) = 1 /\ <<b>>[1] = b
      BY <1>1
    <2> QED BY <2>1
  <1>8. Path(ny, b, cb) /\ ToSet(cb) = {b} /\ FlattenSeq(KeysOf(kt, cb)) = <<>>
    <2>1. Path(ny, b, cb)
      BY <1>2, <1>7 DEF Path
    <2>2. DOMAIN cb = 1..1 /\ ToSet(cb) = {b}
      BY <1>7 DEF ToSet
    <2>3. KeysOf(kt, cb) = << <<>> >>
      BY <1>4, <1>7, <2>2 DEF KeysOf
    <2>4. FlattenSeq(<< <<>> >>) = <<>>
      BY <1>3, JoinOne
    <2> QED BY <2>1, <2>2, <2>3, <2>4
  <1>9. PICK cn : cn = [h \in DOMAIN mm \cup {b} |-> IF h = b THEN cb ELSE ch[h]]
    OBVIOUS
  <1>10. cn[b] = cb /\ mn[b] = <<>> /\ \A h \in DOMAIN mm : cn[h] = ch[h] /\ mn[h] = mm[h]
    BY <1>6, <1>9
  <1>11. ChainsHold(ny, kt, mn, cn)
    <2> SUFFICES ASSUME NEW h \in DOMAIN mn
                 PROVE  Path(ny, h, cn[h]) /\ FlattenSeq(KeysOf(kt, cn[h])) = mn[h]
      BY DEF ChainsHold
    <2>1. CASE h = b
      BY <1>8, <1>10, <2>1
    <2>2. CASE h \in DOMAIN mm
      <3>1. FlattenSeq(KeysOf(ks, ch[h])) = mm[h]
        BY <1>0, <2>2 DEF ChainsHold
      <3> QED BY <1>6, <1>10, <2>2, <3>1
    <2> QED BY <1>5, <2>1, <2>2
  <1>12. ChainsApart(q, mn, cn)
    <2>1. ASSUME NEW h \in DOMAIN mn, NEW g \in DOMAIN mn, NEW x, x \in ToSet(cn[h]), x \in ToSet(cn[g])
          PROVE  h = g
      <3>1. CASE h = b \/ g = b
        BY <1>5, <1>6, <1>8, <1>10, <2>1, <3>1
      <3>2. CASE h \in DOMAIN mm /\ g \in DOMAIN mm
        BY <1>0, <1>10, <2>1, <3>2 DEF ChainsApart
      <3> QED BY <1>5, <3>1, <3>2
    <2>2. ASSUME NEW x PROVE x \in q.used <=> \E h \in DOMAIN mn : x \in ToSet(cn[h])
      BY <1>0, <1>1, <1>5, <1>8, <1>10 DEF ChainsApart
    <2> QED BY <2>1, <2>2 DEF ChainsApart
  <1> QED BY <1>1, <1>5, <1>11, <1>12 DEF MapsBy, HasChains

\* A key into the last block of a map.
LEMMA InsertKeeps ==
    ASSUME NEW p, NEW nx, NEW ks, NEW mm, NEW ch, MapsBy(p, nx, ks, mm, ch),
           NEW k \in Keys, NEW m \in DOMAIN mm, NEW l, l = Last(ch[m]),
           NEW kt, kt = [ks EXCEPT ![l] = Append(ks[l], k)],
           NEW mn, mn = [mm EXCEPT ![m] = Append(mm[m], k)]
    PROVE  MapsBy(p, nx, kt, mn, ch)
  <1>0. /\ PoolOk(p, BlockNum) /\ MapTypes(nx, ks, mm)
        /\ ChainsHold(nx, ks, mm, ch) /\ ChainsApart(p, mm, ch)
        /\ ks \in [MapBlocks -> Seq(Keys)]
    BY DEF MapsBy, MapTypes
  <1>1. PICK c : c = ch[m]
    OBVIOUS
  <1>2. Path(nx, m, c) /\ FlattenSeq(KeysOf(ks, c)) = mm[m]
    BY <1>0, <1>1 DEF ChainsHold
  <1>3. /\ Len(c) \in Nat \ {0} /\ DOMAIN c = 1..Len(c)
        /\ \A i \in 1..Len(c) : c[i] \in MapBlocks
        /\ ToSet(c) = {c[i] : i \in 1..Len(c)}
        /\ KeysOf(ks, c) \in Seq(Seq(Keys)) /\ Len(KeysOf(ks, c)) = Len(c)
        /\ \A i \in 1..Len(c) : KeysOf(ks, c)[i] = ks[c[i]]
    <2>1. PathFact(ks, m, c)
      BY <1>0, <1>2, PathFacts
    <2> QED BY <2>1 DEF PathFact
  <1>4. /\ l = c[Len(c)] /\ l \in MapBlocks /\ l \in ToSet(c) /\ ks[l] \in Seq(Keys)
        /\ Len(c) \in 1..Len(c)
    <2>1. l = c[Len(c)]
      BY <1>1 DEF Last
    <2>2. Len(c) \in 1..Len(c)
      BY <1>3
    <2> QED BY <1>0, <1>3, <2>1, <2>2
  <1>5. Append(ks[l], k) \in Seq(Keys)
    BY <1>4, AppendProperties
  <1>6. /\ kt \in [MapBlocks -> Seq(Keys)] /\ kt[l] = Append(ks[l], k)
        /\ \A x \in MapBlocks : x # l => kt[x] = ks[x]
    BY <1>0, <1>4, <1>5
  <1>7. /\ DOMAIN mn = DOMAIN mm /\ mn[m] = Append(mm[m], k)
        /\ \A h \in DOMAIN mm : h # m => mn[h] = mm[h]
    OBVIOUS
  <1>8. MapTypes(nx, kt, mn)
    BY <1>0, <1>6, <1>7 DEF MapTypes
  <1>9. Path(nx, m, c) /\ FlattenSeq(KeysOf(kt, c)) = mn[m]
    <2>1. PICK R : R = Seq(Keys)
      OBVIOUS
    <2>2. PICK rr \in Seq(R), s \in R : KeysOf(ks, c) = Append(rr, s)
      <3>1. PICK kk \in Seq(R) : kk = KeysOf(ks, c)
        BY <1>3, <2>1
      <3>2. kk # << >>
        BY <1>3, <3>1
      <3> QED BY <3>1, <3>2, SequenceEmptyOrAppend
    <2>3. Len(rr) \in Nat /\ Len(c) = Len(rr) + 1 /\ KeysOf(ks, c)[Len(c)] = s
          /\ \A i \in 1..Len(rr) : KeysOf(ks, c)[i] = rr[i]
      <3>1. /\ Len(Append(rr, s)) = Len(rr) + 1 /\ Append(rr, s)[Len(rr) + 1] = s
            /\ \A i \in 1..Len(rr) : Append(rr, s)[i] = rr[i]
        BY AppendProperties
      <3>2. Len(rr) \in Nat
        BY LenProperties
      <3> QED BY <1>3, <2>2, <3>1, <3>2
    <2>4. s = ks[l]
      BY <1>3, <1>4, <2>3
    <2>5. PICK t \in R : t = Append(s, k)
      BY <1>5, <2>1, <2>4
    <2>6. PICK tt \in Seq(R) : tt = KeysOf(kt, c) /\ Len(tt) = Len(c) /\ \A i \in 1..Len(c) : tt[i] = kt[c[i]]
      <3>1. PathFact(kt, m, c)
        BY <1>2, <1>6, PathFacts
      <3> QED BY <2>1, <3>1 DEF PathFact
    <2>7. PICK uu \in Seq(R) : /\ uu = Append(rr, t) /\ Len(uu) = Len(rr) + 1 /\ uu[Len(rr) + 1] = t
                               /\ \A i \in 1..Len(rr) : uu[i] = rr[i]
      <3>1. /\ Append(rr, t) \in Seq(R) /\ Len(Append(rr, t)) = Len(rr) + 1
            /\ Append(rr, t)[Len(rr) + 1] = t /\ \A i \in 1..Len(rr) : Append(rr, t)[i] = rr[i]
        BY AppendProperties
      <3> QED BY <3>1
    <2>8. ASSUME NEW i \in 1..Len(tt) PROVE tt[i] = uu[i]
      <3>1. i \in 1..Len(c)
        BY <2>6
      <3>2. CASE i = Len(c)
        BY <1>4, <1>6, <2>3, <2>4, <2>5, <2>6, <2>7, <3>1, <3>2
      <3>3. CASE i # Len(c)
        <4>1. i \in 1..Len(rr) /\ c[i] # l /\ c[i] \in MapBlocks
          <5>1. i \in 1..Len(rr)
            BY <2>3, <3>1, <3>3
          <5>2. Len(c) \in 1..Len(c)
            BY <1>3
          <5>3. c[i] # c[Len(c)]
            BY <1>2, <3>1, <3>3, <5>2 DEF Path
          <5> QED BY <1>3, <1>4, <3>1, <5>1, <5>3
        <4>2. tt[i] = ks[c[i]] /\ uu[i] = rr[i]
          BY <1>6, <2>6, <2>7, <3>1, <4>1
        <4> QED BY <1>3, <2>3, <3>1, <4>1, <4>2
      <3> QED BY <3>2, <3>3
    <2>9. tt = uu
      BY <2>3, <2>6, <2>7, <2>8, SeqEqual
    <2>10. FlattenSeq(Append(rr, Append(s, k))) = Append(FlattenSeq(Append(rr, s)), k)
      BY <2>1, JoinLast
    <2> QED BY <1>2, <1>7, <2>2, <2>5, <2>6, <2>7, <2>9, <2>10
  <1>10. ChainsHold(nx, kt, mn, ch)
    <2> SUFFICES ASSUME NEW h \in DOMAIN mm
                 PROVE  Path(nx, h, ch[h]) /\ FlattenSeq(KeysOf(kt, ch[h])) = mn[h]
      BY <1>7 DEF ChainsHold
    <2>1. CASE h = m
      BY <1>1, <1>9, <2>1
    <2>2. CASE h # m
      <3>1. Path(nx, h, ch[h]) /\ FlattenSeq(KeysOf(ks, ch[h])) = mm[h]
        BY <1>0 DEF ChainsHold
      <3>2. l \notin ToSet(ch[h])
        BY <1>0, <1>1, <1>4, <2>2 DEF ChainsApart
      <3>3. ToSet(ch[h]) \subseteq MapBlocks
        <4>1. PathFact(ks, h, ch[h])
          BY <1>0, <3>1, PathFacts
        <4> QED BY <4>1 DEF PathFact
      <3>4. SameIn(ch[h], nx, ks, nx, kt)
        BY <1>6, <3>2, <3>3 DEF SameIn
      <3>5. KeysOf(kt, ch[h]) = KeysOf(ks, ch[h])
        BY <3>1, <3>4, PathStays
      <3> QED BY <1>7, <2>2, <3>1, <3>5
    <2> QED BY <2>1, <2>2
  <1>11. ChainsApart(p, mn, ch)
    BY <1>0, <1>7 DEF ChainsApart
  <1> QED BY <1>0, <1>8, <1>10, <1>11 DEF MapsBy

\* InsertNode of key k with the new block b behind the last block l of map m.
IsGrown(p, nx, ks, mm, k, m, l, b, q, ny, kt, mn) ==
    /\ ~PoolFull(p) /\ b = FreeNode(p) /\ q = AllocateNode(p)
    /\ ny = [nx EXCEPT ![l] = b, ![b] = -1] /\ kt = [ks EXCEPT ![b] = <<k>>]
    /\ mn = [mm EXCEPT ![m] = Append(mm[m], k)]

\* A key into a new block at the end of a map.
LEMMA GrowKeeps ==
    ASSUME NEW p, NEW nx, NEW ks, NEW mm, NEW ch, MapsBy(p, nx, ks, mm, ch),
           NEW k \in Keys, NEW m \in DOMAIN mm, NEW l, l = Last(ch[m]),
           NEW b, NEW q, NEW ny, NEW kt, NEW mn, IsGrown(p, nx, ks, mm, k, m, l, b, q, ny, kt, mn)
    PROVE  HasChains(q, ny, kt, mn)
  <1> USE DEF IsGrown
  <1>0. /\ PoolOk(p, BlockNum) /\ MapTypes(nx, ks, mm) /\ nx \in [MapBlocks -> MapBlocks \cup {-1}]
        /\ ChainsHold(nx, ks, mm, ch) /\ ChainsApart(p, mm, ch) /\ BlockNum \in Nat \ {0}
        /\ ks \in [MapBlocks -> Seq(Keys)]
    BY MemPoolAssumption DEF MapsBy, MapTypes
  <1>1. PoolOk(q, BlockNum) /\ b \in MapBlocks /\ b \notin p.used /\ q.used = p.used \cup {b}
    BY <1>0, PoolAllocates DEF MapBlocks
  <1>2. PICK c : c = ch[m]
    OBVIOUS
  <1>3. Path(nx, m, c) /\ FlattenSeq(KeysOf(ks, c)) = mm[m] /\ b \notin ToSet(c)
    BY <1>0, <1>1, <1>2 DEF ChainsHold, ChainsApart
  <1>4. /\ Len(c) \in Nat \ {0} /\ DOMAIN c = 1..Len(c) /\ c \in Seq(MapBlocks)
        /\ \A i \in 1..Len(c) : c[i] \in MapBlocks
        /\ ToSet(c) = {c[i] : i \in 1..Len(c)}
        /\ KeysOf(ks, c) \in Seq(Seq(Keys)) /\ Len(KeysOf(ks, c)) = Len(c)
        /\ \A i \in 1..Len(c) : KeysOf(ks, c)[i] = ks[c[i]]
    <2>1. PathFact(ks, m, c)
      BY <1>0, <1>3, PathFacts
    <2> QED BY <2>1 DEF PathFact
  <1>5. /\ l = c[Len(c)] /\ l \in MapBlocks /\ l \in ToSet(c) /\ l # b /\ Len(c) \in 1..Len(c)
    <2>1. l = c[Len(c)]
      BY <1>2 DEF Last
    <2>2. Len(c) \in 1..Len(c)
      BY <1>4
    <2> QED BY <1>3, <1>4, <2>1, <2>2
  <1>6. /\ ny \in [MapBlocks -> MapBlocks \cup {-1}] /\ ny[b] = -1 /\ ny[l] = b
        /\ \A x \in MapBlocks : x # b /\ x # l => ny[x] = nx[x]
    <2>1. PICK nz \in [MapBlocks -> MapBlocks \cup {-1}] : nz = [nx EXCEPT ![l] = b]
      BY <1>0, <1>1, <1>5
    <2>2. ny = [nz EXCEPT ![b] = -1]
      BY <2>1
    <2>3. nz[l] = b /\ \A x \in MapBlocks : x # l => nz[x] = nx[x]
      BY <1>0, <1>5, <2>1
    <2> QED BY <1>1, <1>5, <2>1, <2>2, <2>3
  <1>7. PICK kb \in Seq(Keys) : kb = <<k>>
    <2>1. <<k>> \in Seq(Keys)
      OBVIOUS
    <2> QED BY <2>1
  <1>8. /\ kt \in [MapBlocks -> Seq(Keys)] /\ kt[b] = kb
        /\ \A x \in MapBlocks : x # b => kt[x] = ks[x]
    BY <1>0, <1>1, <1>7
  <1>9. /\ DOMAIN mn = DOMAIN mm /\ mn[m] = Append(mm[m], k)
        /\ \A h \in DOMAIN mm : h # m => mn[h] = mm[h]
    OBVIOUS
  <1>10. MapTypes(ny, kt, mn)
    BY <1>0, <1>6, <1>8, <1>9 DEF MapTypes
  <1>11. PICK d : /\ d = Append(c, b) /\ d \in Seq(MapBlocks) /\ Len(d) = Len(c) + 1 /\ d[Len(c) + 1] = b
                  /\ \A i \in 1..Len(c) : d[i] = c[i]
    <2>1. /\ Append(c, b) \in Seq(MapBlocks) /\ Len(Append(c, b)) = Len(c) + 1
          /\ Append(c, b)[Len(c) + 1] = b /\ \A i \in 1..Len(c) : Append(c, b)[i] = c[i]
      BY <1>1, <1>4, AppendProperties
    <2> QED BY <2>1
  <1>12. PICK n \in Nat \ {0} : n = Len(c)
    BY <1>4
  <1>13. Path(ny, m, d)
    <2>1. Len(d) = n + 1 /\ d[n + 1] = b /\ \A i \in 1..n : d[i] = c[i] /\ c[i] # b
      BY <1>3, <1>4, <1>11, <1>12
    <2>2. d[1] = m /\ n + 1 >= 1
      <3>1. 1 \in 1..n /\ n + 1 >= 1
        OBVIOUS
      <3>2. c[1] = m
        BY <1>3 DEF Path
      <3> QED BY <2>1, <3>1, <3>2
    <2>3. ASSUME NEW i \in 1..((n + 1) - 1) PROVE ny[d[i]] = d[i + 1]
      <3>1. CASE i = n
        BY <1>5, <1>6, <1>12, <2>1, <3>1
      <3>2. CASE i # n
        <4>1. i \in 1..n /\ i \in 1..(n - 1) /\ i + 1 \in 1..n /\ n \in 1..n
          BY <3>2
        <4>2. nx[c[i]] = c[i + 1] /\ c[i] # c[n]
          BY <1>3, <1>12, <3>2, <4>1 DEF Path
        <4>3. c[i] \in MapBlocks /\ c[i] # l /\ c[i] # b
          BY <1>4, <1>5, <1>12, <2>1, <4>1, <4>2
        <4>4. ny[c[i]] = nx[c[i]]
          BY <1>6, <4>3
        <4> QED BY <2>1, <4>1, <4>2, <4>4
      <3> QED BY <3>1, <3>2
    <2>4. ASSUME NEW i \in 1..(n + 1), NEW j \in 1..(n + 1), d[i] = d[j] PROVE i = j
      <3>1. CASE i \in 1..n /\ j \in 1..n
        BY <1>3, <1>12, <2>1, <2>4, <3>1 DEF Path
      <3>2. CASE i = n + 1 /\ j = n + 1
        BY <3>2
      <3>3. CASE i \in 1..n /\ j = n + 1
        BY <2>1, <2>4, <3>3
      <3>4. CASE i = n + 1 /\ j \in 1..n
        BY <2>1, <2>4, <3>4
      <3> QED BY <3>1, <3>2, <3>3, <3>4
    <2>5. \A i \in 1..(Len(d) - 1) : ny[d[i]] = d[i + 1]
      BY <2>1, <2>3
    <2>6. ny[d[Len(d)]] = -1
      BY <1>6, <2>1
    <2>7. \A i, j \in 1..Len(d) : d[i] = d[j] => i = j
      BY <2>1, <2>4
    <2>8. Len(d) >= 1
      BY <2>1, <2>2
    <2> QED BY <1>11, <2>2, <2>5, <2>6, <2>7, <2>8 DEF Path
  <1>14. ToSet(d) = ToSet(c) \cup {b}
    <2>1. DOMAIN d = 1..(n + 1) /\ 1..(n + 1) = 1..n \cup {n + 1}
      BY <1>11, <1>12, LenProperties
    <2>2. ToSet(d) = {d[i] : i \in 1..(n + 1)}
      BY <2>1 DEF ToSet
    <2>3. \A i \in 1..n : d[i] = c[i]
      BY <1>11, <1>12
    <2>4. d[n + 1] = b
      BY <1>11, <1>12
    <2>5. ToSet(c) = {c[i] : i \in 1..n}
      BY <1>4, <1>12
    <2>6. ASSUME NEW x PROVE x \in ToSet(d) <=> x \in ToSet(c) \cup {b}
      <3>1. x \in ToSet(d) <=> \E i \in 1..(n + 1) : x = d[i]
        BY <2>2
      <3>2. x \in ToSet(c) <=> \E i \in 1..n : x = c[i]
        BY <2>5
      <3>3. (\E i \in 1..(n + 1) : x = d[i]) <=> (\E i \in 1..n : x = d[i]) \/ x = d[n + 1]
        BY <2>1
      <3> QED BY <2>3, <2>4, <3>1, <3>2, <3>3
    <2> QED BY <2>6
  <1>15. FlattenSeq(KeysOf(kt, d)) = mn[m]
    <2>1. PICK R : R = Seq(Keys)
      OBVIOUS
    <2>2. PICK kk \in Seq(R) : kk = KeysOf(ks, c) /\ Len(kk) = n /\ \A i \in 1..n : kk[i] = ks[c[i]]
      BY <1>4, <1>12, <2>1
    <2>3. PICK tt \in Seq(R) : tt = KeysOf(kt, d) /\ Len(tt) = n + 1 /\ \A i \in 1..(n + 1) : tt[i] = kt[d[i]]
      <3>1. PathFact(kt, m, d)
        BY <1>8, <1>13, PathFacts
      <3>2. Len(d) = n + 1
        BY <1>11, <1>12
      <3>3. KeysOf(kt, d) \in Seq(R) /\ Len(KeysOf(kt, d)) = n + 1
            /\ \A i \in 1..(n + 1) : KeysOf(kt, d)[i] = kt[d[i]]
        BY <2>1, <3>1, <3>2 DEF PathFact
      <3> QED BY <3>3
    <2>4. PICK uu \in Seq(R) : /\ uu = Append(kk, kb) /\ Len(uu) = n + 1 /\ uu[n + 1] = kb
                               /\ \A i \in 1..n : uu[i] = kk[i]
      <3>1. kb \in R
        BY <2>1
      <3>2. /\ Append(kk, kb) \in Seq(R) /\ Len(Append(kk, kb)) = Len(kk) + 1
            /\ Append(kk, kb)[Len(kk) + 1] = kb /\ \A i \in 1..Len(kk) : Append(kk, kb)[i] = kk[i]
        BY <3>1, AppendProperties
      <3> QED BY <2>2, <3>2
    <2>5. ASSUME NEW i \in 1..(n + 1) PROVE tt[i] = uu[i]
      <3>1. CASE i = n + 1
        <4>1. d[n + 1] = b /\ n + 1 \in 1..(n + 1)
          BY <1>11, <1>12
        <4>2. tt[n + 1] = kt[b] /\ uu[n + 1] = kb
          BY <2>3, <2>4, <4>1
        <4> QED BY <1>8, <3>1, <4>2
      <3>2. CASE i \in 1..n
        <4>1. d[i] = c[i] /\ c[i] \in MapBlocks /\ c[i] # b
          BY <1>3, <1>4, <1>11, <1>12, <3>2
        <4>2. tt[i] = kt[c[i]] /\ uu[i] = ks[c[i]]
          BY <2>2, <2>3, <2>4, <3>2, <4>1
        <4>3. kt[c[i]] = ks[c[i]]
          BY <1>8, <4>1
        <4> QED BY <4>2, <4>3
      <3> QED BY <3>1, <3>2
    <2>6. tt = uu
      BY <2>3, <2>4, <2>5, SeqEqual
    <2>7. Len(kk) >= 1 /\ kk \in Seq(Seq(Keys))
      BY <2>1, <2>2
    <2>8. PICK f \in Seq(Keys) : f = FlattenSeq(kk) /\ FlattenSeq(Append(kk, kb)) = f \o kb
      BY <2>7, JoinAppend
    <2>9. Append(f, k) = f \o <<k>>
      BY AppendIsConcat
    <2> QED BY <1>3, <1>7, <1>9, <2>2, <2>3, <2>4, <2>6, <2>8, <2>9
  <1>16. PICK cn : cn = [h \in DOMAIN mm |-> IF h = m THEN d ELSE ch[h]]
    OBVIOUS
  <1>17. cn[m] = d /\ \A h \in DOMAIN mm : h # m => cn[h] = ch[h]
    BY <1>16
  <1>18. ChainsHold(ny, kt, mn, cn)
    <2> SUFFICES ASSUME NEW h \in DOMAIN mm
                 PROVE  Path(ny, h, cn[h]) /\ FlattenSeq(KeysOf(kt, cn[h])) = mn[h]
      BY <1>9 DEF ChainsHold
    <2>1. CASE h = m
      BY <1>13, <1>15, <1>17, <2>1
    <2>2. CASE h # m
      <3>1. Path(nx, h, ch[h]) /\ FlattenSeq(KeysOf(ks, ch[h])) = mm[h]
        BY <1>0 DEF ChainsHold
      <3>2. l \notin ToSet(ch[h]) /\ b \notin ToSet(ch[h])
        BY <1>0, <1>1, <1>2, <1>5, <2>2 DEF ChainsApart
      <3>3. ToSet(ch[h]) \subseteq MapBlocks
        <4>1. PathFact(ks, h, ch[h])
          BY <1>0, <3>1, PathFacts
        <4> QED BY <4>1 DEF PathFact
      <3>4. SameIn(ch[h], nx, ks, ny, kt)
        BY <1>6, <1>8, <3>2, <3>3 DEF SameIn
      <3>5. Path(ny, h, ch[h]) /\ KeysOf(kt, ch[h]) = KeysOf(ks, ch[h])
        BY <3>1, <3>4, PathStays
      <3> QED BY <1>9, <1>17, <2>2, <3>1, <3>5
    <2> QED BY <2>1, <2>2
  <1>19. ChainsApart(q, mn, cn)
    <2>0. \A h \in DOMAIN mm : b \notin ToSet(ch[h])
      BY <1>0, <1>1 DEF ChainsApart
    <2>1. ASSUME NEW h \in DOMAIN mn, NEW g \in DOMAIN mn, NEW x, x \in ToSet(cn[h]), x \in ToSet(cn[g])
          PROVE  h = g
      <3>1. CASE x = b
        BY <1>9, <1>17, <2>0, <2>1, <3>1
      <3>2. CASE x # b
        <4>1. x \in ToSet(ch[h]) /\ x \in ToSet(ch[g])
          BY <1>2, <1>9, <1>14, <1>17, <2>1, <3>2
        <4> QED BY <1>0, <1>9, <4>1 DEF ChainsApart
      <3> QED BY <3>1, <3>2
    <2>2. ASSUME NEW x PROVE x \in q.used <=> \E h \in DOMAIN mn : x \in ToSet(cn[h])
      <3>1. \A h \in DOMAIN mm : x \in ToSet(cn[h]) <=> x \in ToSet(ch[h]) \/ (h = m /\ x = b)
        BY <1>2, <1>14, <1>17
      <3>2. x \in p.used <=> \E h \in DOMAIN mm : x \in ToSet(ch[h])
        BY <1>0 DEF ChainsApart
      <3> QED BY <1>1, <1>9, <3>1, <3>2
    <2> QED BY <2>1, <2>2 DEF ChainsApart
  <1> QED BY <1>1, <1>10, <1>18, <1>19 DEF MapsBy, HasChains

\* A map is released.
LEMMA ReleaseKeeps ==
    ASSUME NEW p, NEW nx, NEW ks, NEW mm, NEW ch, MapsBy(p, nx, ks, mm, ch), NEW m \in DOMAIN mm,
           NEW q, q = ReleaseNodes(p, ch[m]), NEW mn, mn = [h \in DOMAIN mm \ {m} |-> mm[h]]
    PROVE  MapsBy(q, nx, ks, mn, ch)
  <1>0. /\ PoolOk(p, BlockNum) /\ MapTypes(nx, ks, mm)
        /\ ChainsHold(nx, ks, mm, ch) /\ ChainsApart(p, mm, ch) /\ BlockNum \in Nat \ {0}
        /\ ks \in [MapBlocks -> Seq(Keys)]
    BY MemPoolAssumption DEF MapsBy, MapTypes
  <1>1. PICK c : c = ch[m]
    OBVIOUS
  <1>2. Path(nx, m, c) /\ ToSet(c) \subseteq p.used
    BY <1>0, <1>1 DEF ChainsHold, ChainsApart
  <1>3. c \in Seq(MapBlocks) /\ Distinct(c)
    BY <1>2 DEF Path, Distinct
  <1>4. PoolOk(q, BlockNum) /\ q.used = p.used \ ToSet(c)
    <2>1. PoolOk(ReleaseNodes(p, c), BlockNum) /\ ReleaseNodes(p, c).used = p.used \ ToSet(c)
      BY <1>0, <1>2, <1>3, PoolReleasesAll, Zenon
    <2> QED BY <1>1, <2>1
  <1>5. DOMAIN mn = DOMAIN mm \ {m} /\ \A h \in DOMAIN mn : mn[h] = mm[h]
    OBVIOUS
  <1>6. MapTypes(nx, ks, mn) /\ ChainsHold(nx, ks, mn, ch)
    BY <1>0, <1>5 DEF MapTypes, ChainsHold
  <1>7. ChainsApart(q, mn, ch)
    <2>1. ASSUME NEW x PROVE x \in q.used <=> \E h \in DOMAIN mn : x \in ToSet(ch[h])
      <3>1. x \in p.used <=> \E h \in DOMAIN mm : x \in ToSet(ch[h])
        BY <1>0 DEF ChainsApart
      <3>2. x \in ToSet(c) => \A h \in DOMAIN mn : x \notin ToSet(ch[h])
        BY <1>0, <1>1, <1>5 DEF ChainsApart
      <3> QED BY <1>1, <1>4, <1>5, <3>1, <3>2
    <2> QED BY <1>0, <1>5, <2>1 DEF ChainsApart
  <1> QED BY <1>4, <1>6, <1>7 DEF MapsBy

\* The empty pool.
LEMMA MapStarts == MemPoolInit => MapInv
  <1> SUFFICES ASSUME MemPoolInit PROVE MapInv
    OBVIOUS
  <1>1. /\ mpPool = PoolInit(BlockNum) /\ mpNext = [b \in MapBlocks |-> 0]
        /\ mpKeys = [b \in MapBlocks |-> <<>>] /\ mpHandle = -1 /\ mpMaps = <<>>
    BY DEF MemPoolInit
  <1>2. BlockNum \in Nat \ {0} /\ 0 \in MapBlocks
    BY MemPoolAssumption DEF MapBlocks
  <1>3. PoolOk(mpPool, BlockNum) /\ mpPool.used = {}
    BY <1>1, <1>2, PoolStarts DEF PoolInit
  <1>4. DOMAIN mpMaps = {}
    BY <1>1
  <1>5. <<>> \in Seq(Keys)
    OBVIOUS
  <1>6. MapTypes(mpNext, mpKeys, mpMaps)
    BY <1>1, <1>2, <1>4, <1>5 DEF MapTypes
  <1>7. MapsBy(mpPool, mpNext, mpKeys, mpMaps, <<>>)
    BY <1>3, <1>4, <1>6 DEF MapsBy, ChainsHold, ChainsApart
  <1> QED BY <1>1, <1>7 DEF MapInv, HasChains

\* Every operation keeps the maps in order.
LEMMA MapKeeps == MapInv /\ [MemPoolNext]_poolVars => MapInv'
  <1> SUFFICES ASSUME MapInv, [MemPoolNext]_poolVars PROVE MapInv'
    OBVIOUS
  <1>1. PICK ch : MapsBy(mpPool, mpNext, mpKeys, mpMaps, ch)
    BY DEF MapInv, HasChains
  <1>2. CASE UNCHANGED poolVars
    BY <1>2 DEF poolVars, MapInv
  <1>3. CASE NewMap
    <2>1. HasChains(mpPool', mpNext', mpKeys', mpMaps')
      <3>1. PICK b : b = FreeNode(mpPool)
        OBVIOUS
      <3>2. IsNew(mpPool, mpNext, mpKeys, mpMaps, b, mpPool', mpNext', mpKeys', mpMaps')
        BY <1>3, <3>1 DEF NewMap, IsNew
      <3> QED BY <1>1, <3>2, NewKeeps
    <2>2. mpHandle' \in DOMAIN mpMaps'
      BY <1>3 DEF NewMap
    <2> QED BY <2>1, <2>2 DEF MapInv
  <1>4. ASSUME NEW h \in MapBlocks, InitWithHandle(h) PROVE MapInv'
    BY <1>1, <1>4 DEF InitWithHandle, MapInv
  <1>5. CASE ReleaseMap
    <2>1. mpHandle \in DOMAIN mpMaps /\ Path(mpNext, mpHandle, ch[mpHandle])
      BY <1>1, <1>5 DEF ReleaseMap, MapInv, MapsBy, ChainsHold
    <2>2. Chain(mpHandle) = ch[mpHandle]
      BY <2>1, ChainIsPath
    <2>3. MapsBy(mpPool', mpNext', mpKeys', mpMaps', ch)
      BY <1>1, <1>5, <2>1, <2>2, ReleaseKeeps DEF ReleaseMap
    <2>4. mpHandle' = -1
      BY <1>5 DEF ReleaseMap
    <2> QED BY <2>3, <2>4 DEF MapInv, HasChains
  <1>6. ASSUME NEW k \in Keys, InsertNode(k) PROVE MapInv'
    <2>1. mpHandle \in DOMAIN mpMaps /\ Path(mpNext, mpHandle, ch[mpHandle])
      BY <1>1, <1>6 DEF InsertNode, MapInv, MapsBy, ChainsHold
    <2>2. Chain(mpHandle) = ch[mpHandle]
      BY <2>1, ChainIsPath
    <2>3. PICK l, b : l = Last(Chain(mpHandle)) /\ b = FreeNode(mpPool)
      OBVIOUS
    <2>4. /\ mpMaps' = [mpMaps EXCEPT ![mpHandle] = Append(mpMaps[mpHandle], k)]
          /\ mpHandle' = mpHandle
      BY <1>6 DEF InsertNode
    <2>5. CASE /\ mpKeys' = [mpKeys EXCEPT ![l] = Append(mpKeys[l], k)]
               /\ UNCHANGED <<mpPool, mpNext>>
      <3>1. MapsBy(mpPool', mpNext', mpKeys', mpMaps', ch)
        BY <1>1, <2>1, <2>2, <2>3, <2>4, <2>5, InsertKeeps
      <3> QED BY <2>1, <2>4, <3>1 DEF MapInv, HasChains
    <2>6. CASE /\ ~PoolFull(mpPool) /\ mpPool' = AllocateNode(mpPool)
               /\ mpNext' = [mpNext EXCEPT ![l] = b, ![b] = -1]
               /\ mpKeys' = [mpKeys EXCEPT ![b] = <<k>>]
      <3>1. HasChains(mpPool', mpNext', mpKeys', mpMaps')
        <4>1. l = Last(ch[mpHandle])
          BY <2>2, <2>3
        <4>2. IsGrown(mpPool, mpNext, mpKeys, mpMaps, k, mpHandle, l, b,
                      mpPool', mpNext', mpKeys', mpMaps')
          BY <2>3, <2>4, <2>6 DEF IsGrown
        <4> QED BY <1>1, <2>1, <4>1, <4>2, GrowKeeps
      <3> QED BY <2>1, <2>4, <3>1 DEF MapInv
    <2> QED BY <1>6, <2>3, <2>5, <2>6 DEF InsertNode
  <1> QED BY <1>2, <1>3, <1>4, <1>5, <1>6 DEF MemPoolNext

\* The invariant says what MapsApart says.
LEMMA MapHolds == MapInv => MapsApart
  <1> SUFFICES ASSUME MapInv PROVE MapsApart
    OBVIOUS
  <1>1. PICK ch : MapsBy(mpPool, mpNext, mpKeys, mpMaps, ch)
    BY DEF MapInv, HasChains
  <1>2. /\ PoolOk(mpPool, BlockNum) /\ ChainsHold(mpNext, mpKeys, mpMaps, ch)
        /\ ChainsApart(mpPool, mpMaps, ch) /\ BlockNum \in Nat \ {0}
    BY <1>1, MemPoolAssumption DEF MapsBy
  <1>3. PoolVerify(mpPool)
    BY <1>2, PoolVerifies
  <1>4. ASSUME NEW h \in DOMAIN mpMaps
        PROVE  Chain(h) = ch[h] /\ FlattenSeq(KeysOf(mpKeys, ch[h])) = mpMaps[h]
    <2>1. Path(mpNext, h, ch[h]) /\ FlattenSeq(KeysOf(mpKeys, ch[h])) = mpMaps[h]
      BY <1>2 DEF ChainsHold
    <2> QED BY <2>1, ChainIsPath
  <1>5. ASSUME NEW h \in DOMAIN mpMaps PROVE GetAllNode(h) = mpMaps[h]
    BY <1>4 DEF GetAllNode, KeysOf
  <1>6. ASSUME NEW h \in DOMAIN mpMaps, NEW g \in DOMAIN mpMaps, h # g
        PROVE  ToSet(Chain(h)) \cap ToSet(Chain(g)) = {}
    BY <1>2, <1>4, <1>6 DEF ChainsApart
  <1>7. mpPool.used = UNION {ToSet(Chain(h)) : h \in DOMAIN mpMaps}
    <2>1. \A x : x \in mpPool.used <=> \E h \in DOMAIN mpMaps : x \in ToSet(Chain(h))
      BY <1>2, <1>4 DEF ChainsApart
    <2> QED BY <2>1
  <1> QED BY <1>3, <1>5, <1>6, <1>7 DEF MapsApart

\* Maps in one pool stay apart: each holds what was inserted into it, no block
\* belongs to two of them, every block in use belongs to one, and the ring of
\* free blocks and the bits agree, for pools and blocks of every size and every
\* order of operations.
THEOREM MapsApartAlways == MemPoolSpec => []MapsApart
  BY MapStarts, MapKeeps, MapHolds, PTL DEF MemPoolSpec

-----------------------------------------------------------------------------
(***************************************************************************)
(* The timer wheel.                                                        *)
(*                                                                         *)
(* The pointers of the levels are the digits of a counter of ticks, and a  *)
(* turn of the wheel adds one to it with the carries that TurnLevel makes. *)
(* ToGo counts the ticks until a bucket is emptied: a turn takes one from  *)
(* it, for every bucket but the one it empties.  So the tick in which a    *)
(* timer leaves its bucket is known when it enters the bucket, and a timer *)
(* is where it belongs (Fits) when its time less this tick lies between    *)
(* the bounds of its level, Lo and Hi.  AddTimer and Migrate put it there  *)
(* (AddFits, MigrateFits), a turn keeps it there level by level (Stage),   *)
(* and GetTimer tick by tick (InLoop).                                     *)
(***************************************************************************)

\* F describes the first n turns of a loop, and stays within D.
Follows(F, n, p, st, D) ==
    /\ F = [i \in 0..n |-> IF i = 0 THEN p ELSE st[i][F[i - 1]]]
    /\ \A i \in 0..n : F[i] \in D[i]

\* A loop that begins in D[0] and whose i-th turn leads from D[i - 1] to D[i]: the
\* recursion that describes it has a solution.
LEMMA Recursion ==
    ASSUME NEW n \in Nat, NEW D, NEW p \in D[0], NEW st,
           \A j \in 1..n : \A x \in D[j - 1] : st[j][x] \in D[j]
    PROVE  \E F : Follows(F, n, p, st, D)
  <1> DEFINE Sol(f, m) == Follows(f, m, p, st, D)
  <1>1. PICK T : T = {m \in 0..n : \E f : Sol(f, m)}
    OBVIOUS
  <1>2. 0 \in T
    <2>1. PICK f : f = [i \in 0..0 |-> p]
      OBVIOUS
    <2>2. Sol(f, 0)
      BY <2>1 DEF Follows
    <2> HIDE DEF Sol
    <2> QED BY <1>1, <2>2
  <1>3. ASSUME NEW j \in 1..n, j - 1 \in T PROVE j \in T
    <2>0. j \in Nat /\ j >= 1 /\ j \in 0..n /\ j - 1 \in 0..(j - 1)
      OBVIOUS
    <2>1. PICK f : Sol(f, j - 1)
      BY <1>1, <1>3
    <2>2. PICK r : r = st[j][f[j - 1]] /\ r \in D[j]
      BY <2>0, <2>1 DEF Follows
    <2>3. PICK g : g = [i \in 0..j |-> IF i = j THEN r ELSE f[i]]
      OBVIOUS
    <2>4. \A i \in 0..(j - 1) : g[i] = f[i]
      BY <2>0, <2>3
    <2>5. \A i \in 0..j : g[i] = IF i = 0 THEN p ELSE st[i][g[i - 1]]
      <3> TAKE i \in 0..j
      <3>1. CASE i = j
        BY <2>0, <2>2, <2>3, <2>4, <3>1
      <3>2. CASE i # j
        <4>1. i \in 0..(j - 1) /\ (i # 0 => i - 1 \in 0..(j - 1))
          BY <2>0, <3>2
        <4> QED BY <2>1, <2>4, <4>1 DEF Follows
      <3> QED BY <3>1, <3>2
    <2>6. g = [i \in 0..j |-> g[i]]
      BY <2>3
    <2>7. \A i \in 0..j : g[i] \in D[i]
      <3> TAKE i \in 0..j
      <3>1. i = j \/ i \in 0..(j - 1)
        BY <2>0
      <3> QED BY <2>0, <2>1, <2>2, <2>3, <2>4, <3>1 DEF Follows
    <2>8. Sol(g, j)
      BY <2>5, <2>6, <2>7 DEF Follows
    <2> HIDE DEF Sol
    <2> QED BY <1>1, <2>0, <2>8
  <1>4. n \in T
    <2> HIDE DEF Sol
    <2> QED BY <1>2, <1>3, UpTo
  <1> QED BY <1>1, <1>4

-----------------------------------------------------------------------------
\* Products keep the order of their factors.
LEMMA MulMono ==
    ASSUME NEW a \in Int, NEW b \in Int, NEW c \in Nat, a <= b
    PROVE  a * c <= b * c
  <1>1. PICK d \in Nat : b = a + d
    <2>1. b - a \in Nat /\ b = a + (b - a)
      OBVIOUS
    <2> QED BY <2>1
  <1>2. (a + d) * c = a * c + d * c
    BY SMT
  <1>3. d * c >= 0
    BY SMT
  <1>4. a * c \in Int /\ d * c \in Int
    OBVIOUS
  <1> QED BY <1>1, <1>2, <1>3, <1>4

\* What division leaves.
LEMMA DivIs ==
    ASSUME NEW x \in Nat, NEW m \in Nat \ {0}
    PROVE  /\ x \div m \in Nat /\ (x \div m) * m <= x /\ x < (x \div m) * m + m
           /\ x % m = x - (x \div m) * m
  BY SMT

\* The highest level.
Top == Len(TBNum)

\* The levels of the wheel, and the ticks of a round of each.
LEMMA TicksAre ==
    /\ Top \in Nat /\ Top >= 3 /\ TBNum \in [1..Top -> Nat \ {0}]
    /\ TBTicks[0] = 1
    /\ \A k \in 1..Top : TBTicks[k] = TBTicks[k - 1] * TBNum[k]
    /\ \A k \in 0..Top : TBTicks[k] \in Nat \ {0}
  <1>1. Top \in Nat /\ Top >= 3 /\ TBNum \in [1..Top -> Nat \ {0}]
    BY TimerAssumption DEF Top
  <1>2. PICK D : D = [k \in 0..Top |-> Nat \ {0}]
    OBVIOUS
  <1>3. PICK st : st = [k \in 1..Top |-> [x \in Nat \ {0} |-> x * TBNum[k]]]
    OBVIOUS
  <1>4. \A j \in 1..Top : D[j - 1] = Nat \ {0} /\ D[j] = Nat \ {0}
    BY <1>1, <1>2
  <1>5. ASSUME NEW j \in 1..Top, NEW x \in D[j - 1] PROVE st[j][x] \in D[j]
    <2>1. x \in Nat \ {0} /\ TBNum[j] \in Nat \ {0} /\ st[j][x] = x * TBNum[j]
      BY <1>1, <1>3, <1>4
    <2>2. \A a, b \in Nat \ {0} : a * b \in Nat \ {0}
      BY SMT
    <2> QED BY <1>4, <2>1, <2>2
  <1>6. PICK F : Follows(F, Top, 1, st, D)
    <2>1. 1 \in D[0]
      BY <1>1, <1>2
    <2> QED BY <1>1, <1>5, <2>1, Recursion
  <1>7. \A i \in 0..Top : F[i] \in Nat \ {0}
    BY <1>2, <1>6 DEF Follows
  <1>8. F = [i \in 0..Top |-> IF i = 0 THEN 1 ELSE F[i - 1] * TBNum[i]]
    <2>1. \A i \in 0..Top : F[i] = IF i = 0 THEN 1 ELSE F[i - 1] * TBNum[i]
      <3> TAKE i \in 0..Top
      <3>1. CASE i = 0
        BY <1>6, <3>1 DEF Follows
      <3>2. CASE i # 0
        <4>1. i \in 1..Top /\ i - 1 \in 0..Top
          BY <1>1, <3>2
        <4> QED BY <1>3, <1>6, <1>7, <3>2, <4>1 DEF Follows
      <3> QED BY <3>1, <3>2
    <2>2. F = [i \in 0..Top |-> F[i]]
      BY <1>6 DEF Follows
    <2> QED BY <2>1, <2>2
  <1> DEFINE G == CHOOSE f : f = [i \in 0..Len(TBNum) |-> IF i = 0 THEN 1 ELSE f[i - 1] * TBNum[i]]
  <1>9. G = [i \in 0..Top |-> IF i = 0 THEN 1 ELSE G[i - 1] * TBNum[i]]
    BY <1>8 DEF Top
  <1>10. TBTicks = G
    BY DEF TBTicks
  <1> HIDE DEF G
  <1>11. G[0] = 1 /\ \A k \in 1..Top : G[k] = G[k - 1] * TBNum[k]
    BY <1>1, <1>9
  <1>12. \A k \in 0..Top : G[k] \in Nat \ {0}
    <2>1. PICK T : T = {k \in 0..Top : G[k] \in Nat \ {0}}
      OBVIOUS
    <2>2. 0 \in T
      BY <1>1, <1>11, <2>1
    <2>3. ASSUME NEW j \in 1..Top, j - 1 \in T PROVE j \in T
      <3>1. G[j] = G[j - 1] * TBNum[j] /\ G[j - 1] \in Nat \ {0} /\ TBNum[j] \in Nat \ {0}
        BY <1>1, <1>11, <2>1, <2>3
      <3>2. \A a, b \in Nat \ {0} : a * b \in Nat \ {0}
        BY SMT
      <3> QED BY <2>1, <3>1, <3>2
    <2> QED BY <1>1, <2>1, <2>2, <2>3, UpTo
  <1> QED BY <1>1, <1>10, <1>11, <1>12

\* F adds up a, from p on.
IsSum(F, n, p, a) == F = [i \in 0..n |-> IF i = 0 THEN p ELSE F[i - 1] + a[i]]

\* Sums of numbers exist.
LEMMA SumExists ==
    ASSUME NEW n \in Nat, NEW p \in Int, NEW a \in [1..n -> Int]
    PROVE  \E F : IsSum(F, n, p, a)
  <1>2. PICK D : D = [k \in 0..n |-> Int]
    OBVIOUS
  <1>3. PICK st : st = [k \in 1..n |-> [x \in Int |-> x + a[k]]]
    OBVIOUS
  <1>4. \A j \in 1..n : D[j - 1] = Int /\ D[j] = Int
    BY <1>2
  <1>5. ASSUME NEW j \in 1..n, NEW x \in D[j - 1] PROVE st[j][x] \in D[j]
    <2>1. x \in Int /\ a[j] \in Int /\ st[j][x] = x + a[j]
      BY <1>3, <1>4
    <2> QED BY <1>4, <2>1
  <1>6. PICK F : Follows(F, n, p, st, D)
    <2>1. p \in D[0]
      BY <1>2
    <2> QED BY <1>5, <2>1, Recursion
  <1>7. \A i \in 0..n : F[i] \in Int
    BY <1>2, <1>6 DEF Follows
  <1>8. \A i \in 0..n : F[i] = IF i = 0 THEN p ELSE F[i - 1] + a[i]
    <2> TAKE i \in 0..n
    <2>1. CASE i = 0
      BY <1>6, <2>1 DEF Follows
    <2>2. CASE i # 0
      <3>1. i \in 1..n /\ i - 1 \in 0..n
        BY <2>2
      <3> QED BY <1>3, <1>6, <1>7, <2>2, <3>1 DEF Follows
    <2> QED BY <2>1, <2>2
  <1>9. F = [i \in 0..n |-> F[i]]
    BY <1>6 DEF Follows
  <1> QED BY <1>8, <1>9 DEF IsSum

\* What a sum is, entry by entry.
LEMMA SumIs ==
    ASSUME NEW n \in Nat, NEW p \in Int, NEW a \in [1..n -> Int], NEW F, IsSum(F, n, p, a)
    PROVE  /\ F[0] = p /\ \A k \in 1..n : F[k] = F[k - 1] + a[k]
           /\ \A k \in 0..n : F[k] \in Int
  <1>1. F[0] = p /\ \A k \in 1..n : F[k] = F[k - 1] + a[k]
    BY DEF IsSum
  <1>2. PICK T : T = {k \in 0..n : F[k] \in Int}
    OBVIOUS
  <1>3. 0 \in T
    BY <1>1, <1>2
  <1>4. ASSUME NEW j \in 1..n, j - 1 \in T PROVE j \in T
    <2>1. F[j] = F[j - 1] + a[j] /\ F[j - 1] \in Int /\ a[j] \in Int
      BY <1>1, <1>2, <1>4
    <2> QED BY <1>2, <2>1
  <1> QED BY <1>1, <1>2, <1>3, <1>4, UpTo

\* The waits of the levels: they add up the ticks of their buckets.
LEMMA WaitAre ==
    /\ WaitBelow[0] = 0
    /\ \A k \in 1..Top : WaitBelow[k] = WaitBelow[k - 1] + TBTicks[k - 1]
    /\ \A k \in 0..Top : WaitBelow[k] \in Nat
    /\ \A k \in 1..Top : WaitBelow[k] >= TBTicks[k - 1] /\ WaitBelow[k] >= 1
    /\ \A k \in 0..Top : \A j \in 0..k : WaitBelow[j] <= WaitBelow[k]
  <1>0. Top \in Nat /\ \A k \in 0..Top : TBTicks[k] \in Nat \ {0}
    BY TicksAre
  <1>1. PICK a : a = [k \in 1..Top |-> TBTicks[k - 1]]
    OBVIOUS
  <1>2. a \in [1..Top -> Int]
    <2>1. \A k \in 1..Top : TBTicks[k - 1] \in Int
      BY <1>0
    <2> QED BY <1>1, <2>1
  <1>20. Top \in Nat /\ 0 \in Int
    BY <1>0
  <1>3. PICK F : IsSum(F, Top, 0, a)
    BY <1>2, <1>20, SumExists
  <1> DEFINE G == CHOOSE f : f = [k \in 0..Len(TBNum) |-> IF k = 0 THEN 0 ELSE f[k - 1] + TBTicks[k - 1]]
  <1>4. F = [k \in 0..Len(TBNum) |-> IF k = 0 THEN 0 ELSE F[k - 1] + TBTicks[k - 1]]
    <2>1. \A k \in 0..Top : F[k] = IF k = 0 THEN 0 ELSE F[k - 1] + TBTicks[k - 1]
      <3> TAKE k \in 0..Top
      <3>1. k = 0 \/ k \in 1..Top
        BY <1>0
      <3> QED BY <1>1, <1>3, <3>1 DEF IsSum
    <2>2. F = [k \in 0..Top |-> F[k]]
      BY <1>3 DEF IsSum
    <2> QED BY <2>1, <2>2 DEF Top
  <1>5. G = [k \in 0..Top |-> IF k = 0 THEN 0 ELSE G[k - 1] + TBTicks[k - 1]]
    BY <1>4 DEF Top
  <1>6. WaitBelow = G
    BY DEF WaitBelow
  <1> HIDE DEF G
  <1>7. IsSum(G, Top, 0, a)
    <2>1. \A k \in 0..Top : G[k] = IF k = 0 THEN 0 ELSE G[k - 1] + a[k]
      <3> TAKE k \in 0..Top
      <3>1. k = 0 \/ k \in 1..Top
        BY <1>0
      <3> QED BY <1>1, <1>5, <3>1
    <2>2. G = [k \in 0..Top |-> G[k]]
      BY <1>5
    <2> QED BY <2>1, <2>2 DEF IsSum
  <1>8. /\ G[0] = 0 /\ \A k \in 1..Top : G[k] = G[k - 1] + TBTicks[k - 1]
        /\ \A k \in 0..Top : G[k] \in Int
    <2>1. /\ G[0] = 0 /\ \A k \in 1..Top : G[k] = G[k - 1] + a[k]
          /\ \A k \in 0..Top : G[k] \in Int
      BY <1>2, <1>20, <1>7, SumIs, Zenon
    <2> QED BY <1>1, <2>1
  <1>9. \A k \in 0..Top : G[k] \in Nat /\ \A j \in 0..k : G[j] <= G[k]
    <2>1. PICK T : T = {k \in 0..Top : G[k] \in Nat /\ \A j \in 0..k : G[j] <= G[k]}
      OBVIOUS
    <2>2. 0 \in T
      BY <1>0, <1>8, <2>1
    <2>3. ASSUME NEW k \in 1..Top, k - 1 \in T PROVE k \in T
      <3>1. k \in Nat /\ k \in 0..Top /\ k - 1 \in 0..Top
        BY <1>0
      <3>2. G[k - 1] \in Nat /\ \A j \in 0..(k - 1) : G[j] <= G[k - 1]
        BY <2>1, <2>3
      <3>3. G[k] = G[k - 1] + TBTicks[k - 1] /\ TBTicks[k - 1] \in Nat
        BY <1>0, <1>8, <3>1
      <3>4. G[k] \in Nat /\ G[k - 1] <= G[k]
        BY <3>2, <3>3
      <3>5. ASSUME NEW j \in 0..k PROVE G[j] <= G[k]
        <4>1. j = k \/ j \in 0..(k - 1)
          BY <3>1
        <4>2. G[j] \in Int
          BY <1>0, <1>8, <3>1
        <4> QED BY <3>2, <3>4, <4>1, <4>2
      <3> QED BY <2>1, <3>1, <3>4, <3>5
    <2> QED BY <1>0, <2>1, <2>2, <2>3, UpTo
  <1>10. \A k \in 1..Top : G[k] >= TBTicks[k - 1] /\ G[k] >= 1
    <2> TAKE k \in 1..Top
    <2>1. k - 1 \in 0..Top
      BY <1>0
    <2>2. G[k] = G[k - 1] + TBTicks[k - 1] /\ G[k - 1] \in Nat /\ TBTicks[k - 1] \in Nat \ {0}
      BY <1>0, <1>8, <1>9, <2>1
    <2> QED BY <2>2
  <1> QED BY <1>6, <1>8, <1>9, <1>10

-----------------------------------------------------------------------------
\* The ticks that the pointers of the levels 1 to k have counted in this round.
Elapsed(pt) ==
    LET e[k \in 0..Len(TBNum)] == IF k = 0 THEN 0 ELSE e[k - 1] + pt[k] * TBTicks[k - 1]
    IN e

\* A pointer for each level; within a turn one may stand at the end of its level.
Pointers == [Levels -> Nat]

\* What the pointers have counted.
LEMMA ElapsedIs ==
    ASSUME NEW pt \in Pointers
    PROVE  /\ Elapsed(pt)[0] = 0
           /\ \A k \in 1..Top : Elapsed(pt)[k] = Elapsed(pt)[k - 1] + pt[k] * TBTicks[k - 1]
           /\ \A k \in 0..Top : Elapsed(pt)[k] \in Nat
  <1>0. Top \in Nat /\ pt \in [1..Top -> Nat] /\ \A k \in 0..Top : TBTicks[k] \in Nat \ {0}
    BY TicksAre DEF Pointers, Levels, Top
  <1>1. PICK a : a = [k \in 1..Top |-> pt[k] * TBTicks[k - 1]]
    OBVIOUS
  <1>2. \A k \in 1..Top : a[k] \in Nat
    <2> TAKE k \in 1..Top
    <2>1. pt[k] \in Nat /\ TBTicks[k - 1] \in Nat
      BY <1>0
    <2>2. \A x, y \in Nat : x * y \in Nat
      BY SMT
    <2> QED BY <1>1, <2>1, <2>2
  <1>22. a \in [1..Top -> Int]
    BY <1>1, <1>2
  <1>20. Top \in Nat /\ 0 \in Int
    BY <1>0
  <1>3. PICK F : IsSum(F, Top, 0, a)
    BY <1>20, <1>22, SumExists, Zenon
  <1> DEFINE G == CHOOSE f : f = [k \in 0..Len(TBNum) |-> IF k = 0 THEN 0 ELSE f[k - 1] + pt[k] * TBTicks[k - 1]]
  <1>4. F = [k \in 0..Len(TBNum) |-> IF k = 0 THEN 0 ELSE F[k - 1] + pt[k] * TBTicks[k - 1]]
    <2>1. \A k \in 0..Top : F[k] = IF k = 0 THEN 0 ELSE F[k - 1] + pt[k] * TBTicks[k - 1]
      <3> TAKE k \in 0..Top
      <3>1. k = 0 \/ k \in 1..Top
        BY <1>0
      <3> QED BY <1>1, <1>3, <3>1 DEF IsSum
    <2>2. F = [k \in 0..Top |-> F[k]]
      BY <1>3 DEF IsSum
    <2> QED BY <2>1, <2>2 DEF Top
  <1>5. G = [k \in 0..Top |-> IF k = 0 THEN 0 ELSE G[k - 1] + pt[k] * TBTicks[k - 1]]
    BY <1>4 DEF Top
  <1>6. Elapsed(pt) = G
    BY DEF Elapsed
  <1> HIDE DEF G
  <1>7. IsSum(G, Top, 0, a)
    <2>1. \A k \in 0..Top : G[k] = IF k = 0 THEN 0 ELSE G[k - 1] + a[k]
      <3> TAKE k \in 0..Top
      <3>1. k = 0 \/ k \in 1..Top
        BY <1>0
      <3> QED BY <1>1, <1>5, <3>1
    <2>2. G = [k \in 0..Top |-> G[k]]
      BY <1>5
    <2> QED BY <2>1, <2>2 DEF IsSum
  <1>8. G[0] = 0 /\ \A k \in 1..Top : G[k] = G[k - 1] + a[k]
    BY <1>20, <1>7 DEF IsSum
  <1>9. \A k \in 0..Top : G[k] \in Nat
    <2>1. PICK T : T = {k \in 0..Top : G[k] \in Nat}
      OBVIOUS
    <2>2. 0 \in T
      BY <1>0, <1>8, <2>1
    <2>3. ASSUME NEW k \in 1..Top, k - 1 \in T PROVE k \in T
      <3>1. G[k] = G[k - 1] + a[k] /\ G[k - 1] \in Nat /\ a[k] \in Nat
        BY <1>2, <1>8, <2>1, <2>3
      <3> QED BY <1>0, <2>1, <3>1
    <2> QED BY <1>0, <2>1, <2>2, <2>3, UpTo
  <1> QED BY <1>1, <1>6, <1>8, <1>9

\* It depends on these pointers only.
LEMMA ElapsedSame ==
    ASSUME NEW pt \in Pointers, NEW qt \in Pointers, NEW m \in 0..Top, \A k \in 1..m : pt[k] = qt[k]
    PROVE  \A k \in 0..m : Elapsed(pt)[k] = Elapsed(qt)[k]
  <1>0. Top \in Nat
    BY TicksAre
  <1>1. PICK T : T = {k \in 0..m : Elapsed(pt)[k] = Elapsed(qt)[k]}
    OBVIOUS
  <1>2. 0 \in T
    BY <1>0, <1>1, ElapsedIs
  <1>3. ASSUME NEW k \in 1..m, k - 1 \in T PROVE k \in T
    <2>1. k \in 1..Top /\ pt[k] = qt[k] /\ Elapsed(pt)[k - 1] = Elapsed(qt)[k - 1]
      BY <1>0, <1>1, <1>3
    <2>2. /\ Elapsed(pt)[k] = Elapsed(pt)[k - 1] + pt[k] * TBTicks[k - 1]
          /\ Elapsed(qt)[k] = Elapsed(qt)[k - 1] + qt[k] * TBTicks[k - 1]
      BY <2>1, ElapsedIs
    <2>3. Elapsed(pt)[k] = Elapsed(qt)[k]
      BY <2>1, <2>2, Zenon
    <2> QED BY <1>1, <2>3
  <1> QED BY <1>0, <1>1, <1>2, <1>3, UpTo

\* Pointers within their levels have counted less than a round.
LEMMA ElapsedBelow ==
    ASSUME NEW pt \in Pointers, NEW m \in 0..Top, \A k \in 1..m : pt[k] < TBNum[k]
    PROVE  Elapsed(pt)[m] < TBTicks[m]
  <1>0. Top \in Nat /\ m \in Nat
    BY TicksAre
  <1>1. PICK T : T = {k \in 0..m : Elapsed(pt)[k] < TBTicks[k]}
    OBVIOUS
  <1>2. 0 \in T
    BY <1>0, <1>1, ElapsedIs, TicksAre
  <1>3. ASSUME NEW k \in 1..m, k - 1 \in T PROVE k \in T
    <2>1. k \in 1..Top /\ k - 1 \in 0..Top /\ k \in 0..m
      BY <1>0
    <2>2. PICK e \in Nat, f \in Nat, t \in Nat, u \in Nat, N \in Nat, p \in Nat :
              /\ e = Elapsed(pt)[k - 1] /\ f = Elapsed(pt)[k] /\ t = TBTicks[k - 1]
              /\ u = TBTicks[k] /\ N = TBNum[k] /\ p = pt[k]
      <3>1. Elapsed(pt)[k - 1] \in Nat /\ Elapsed(pt)[k] \in Nat
        BY <2>1, ElapsedIs
      <3>2. TBTicks[k - 1] \in Nat /\ TBTicks[k] \in Nat /\ TBNum[k] \in Nat
        BY <2>1, TicksAre
      <3>3. pt[k] \in Nat
        BY <2>1 DEF Pointers, Levels, Top
      <3> QED BY <3>1, <3>2, <3>3
    <2>3. f = e + p * t /\ u = t * N /\ p < N /\ e < t
      BY <1>1, <1>3, <2>1, <2>2, ElapsedIs, TicksAre
    <2>4. (p + 1) * t <= N * t
      BY <2>3, MulMono
    <2>5. (p + 1) * t = p * t + t /\ N * t = t * N
      BY SMT
    <2>6. p * t \in Int /\ t * N \in Int
      OBVIOUS
    <2>7. f < u
      BY <2>3, <2>4, <2>5, <2>6
    <2> QED BY <1>1, <2>1, <2>2, <2>7
  <1>4. m \in T
    BY <1>0, <1>2, <1>3, UpTo
  <1> QED BY <1>1, <1>4

\* What AddTimer has subtracted from an interval when it tries level k.
LEMMA RestIs ==
    ASSUME tmPt \in Pointers, NEW d \in Nat
    PROVE  \A k \in 1..Top : Rest(d)[k] = d + 1 - WaitBelow[k] + Elapsed(tmPt)[k - 1]
  <1>0. Top \in Nat /\ Top >= 3 /\ 0 \in 0..Top
    BY TicksAre
  <1>01. Levels = 1..Top
    BY DEF Top, Levels
  <1>1. PICK a : a = [k \in 1..Top |-> 0 - (TBNum[k] - tmPt[k]) * TBTicks[k - 1]]
    OBVIOUS
  <1>2. \A k \in 1..Top : a[k] \in Int
    <2> TAKE k \in 1..Top
    <2>1. tmPt[k] \in Nat /\ TBNum[k] \in Nat
      BY TicksAre, <1>01 DEF Pointers
    <2>11. k - 1 \in 0..Top
      BY <1>0
    <2>12. TBTicks[k - 1] \in Nat
      BY <2>11, TicksAre
    <2>2. \A x, y, z \in Nat : 0 - (x - y) * z \in Int
      OBVIOUS
    <2> QED BY <1>1, <2>1, <2>12, <2>2
  <1>3. a \in [1..Top -> Int]
    BY <1>1, <1>2
  <1>4. PICK F : IsSum(F, Top, d, a)
    <2>1. Top \in Nat /\ d \in Int
      BY <1>0
    <2> QED BY <1>3, <2>1, SumExists, Zenon
  <1>5. /\ F[0] = d /\ \A k \in 1..Top : F[k] = F[k - 1] + a[k]
        /\ \A k \in 0..Top : F[k] \in Int
    <2>1. Top \in Nat /\ d \in Int
      BY <1>0
    <2> QED BY <1>3, <1>4, <2>1, SumIs, Zenon
  <1>6. PICK H : H = [k \in 1..Top |-> F[k - 1]]
    OBVIOUS
  <1> DEFINE Eq(f) == f = [k \in Levels |-> IF k = 1 THEN d
                                            ELSE f[k - 1] - (TBNum[k - 1] - tmPt[k - 1]) * TBTicks[k - 2]]
  <1>7. Eq(H)
    <2>1. ASSUME NEW k \in 1..Top, k # 1
          PROVE  H[k] = H[k - 1] - (TBNum[k - 1] - tmPt[k - 1]) * TBTicks[k - 2]
      <3>1. k - 1 \in 1..Top /\ k - 1 - 1 = k - 2
        BY <1>0, <2>1
      <3>2. F[k - 1] = F[k - 2] + a[k - 1] /\ a[k - 1] \in Int
        BY <1>2, <1>5, <3>1
      <3>3. a[k - 1] = 0 - (TBNum[k - 1] - tmPt[k - 1]) * TBTicks[k - 2]
        BY <1>1, <3>1
      <3>4. H[k] = F[k - 1] /\ H[k - 1] = F[k - 2]
        BY <1>6, <3>1
      <3>5. PICK y : y = (TBNum[k - 1] - tmPt[k - 1]) * TBTicks[k - 2]
        OBVIOUS
      <3>6. y \in Int /\ F[k - 2] \in Int
        <4>1. k - 2 \in 0..Top
          BY <1>0, <3>1
        <4>2. TBTicks[k - 2] \in Nat /\ TBNum[k - 1] \in Nat /\ tmPt[k - 1] \in Nat
          BY <3>1, <4>1, TicksAre, <1>01 DEF Pointers
        <4> QED BY <1>5, <3>5, <4>1, <4>2
      <3>7. F[k - 1] = F[k - 2] + (0 - y)
        BY <3>2, <3>3, <3>5, Zenon
      <3> QED BY <3>4, <3>5, <3>6, <3>7
    <2>2. H[1] = d
      BY <1>0, <1>5, <1>6
    <2>3. H = [k \in Levels |-> H[k]]
      BY <1>01, <1>6
    <2> QED BY <1>01, <2>1, <2>2, <2>3
  <1> DEFINE G == CHOOSE f : Eq(f)
  <1>8. Eq(G)
    BY <1>7
  <1>9. Rest(d) = G
    BY DEF Rest
  <1> HIDE DEF G
  <1>10. G[1] = d
    BY <1>0, <1>01, <1>8
  <1>11. ASSUME NEW k \in 1..Top, k # 1
         PROVE  G[k] = G[k - 1] - (TBNum[k - 1] - tmPt[k - 1]) * TBTicks[k - 2]
    BY <1>01, <1>8, <1>11
  <1> HIDE DEF Eq
  <1>12. PICK T : T = {k \in 0..Top : k = 0 \/ G[k] = d + 1 - WaitBelow[k] + Elapsed(tmPt)[k - 1]}
    OBVIOUS
  <1>13. 0 \in T
    BY <1>0, <1>12
  <1>14. ASSUME NEW k \in 1..Top, k - 1 \in T PROVE k \in T
    <2>1. CASE k = 1
      <3>1. 1 \in 1..Top
        BY <1>0
      <3>11. WaitBelow[1] = WaitBelow[1 - 1] + TBTicks[1 - 1]
        BY <3>1, WaitAre
      <3>12. WaitBelow[1] = 0 + 1
        BY <3>11, WaitAre, TicksAre
      <3>2. Elapsed(tmPt)[0] = 0
        BY ElapsedIs
      <3> QED BY <1>10, <1>12, <2>1, <3>12, <3>2
    <2>2. CASE k # 1
      <3>1. k - 1 \in 1..Top /\ k - 2 \in 0..Top /\ k - 1 - 1 = k - 2 /\ k \in 0..Top /\ k - 1 # 0
        BY <1>0, <2>2
      <3>2. PICK t \in Nat, u \in Nat, N \in Nat, p \in Nat, e \in Nat, f \in Nat, w \in Nat, v \in Nat :
                /\ t = TBTicks[k - 2] /\ u = TBTicks[k - 1] /\ N = TBNum[k - 1] /\ p = tmPt[k - 1]
                /\ e = Elapsed(tmPt)[k - 2] /\ f = Elapsed(tmPt)[k - 1]
                /\ w = WaitBelow[k - 1] /\ v = WaitBelow[k]
        <4>1. TBTicks[k - 2] \in Nat /\ TBTicks[k - 1] \in Nat /\ TBNum[k - 1] \in Nat
          BY <3>1, TicksAre
        <4>2. tmPt[k - 1] \in Nat
          BY <3>1, <1>01 DEF Pointers
        <4>3. Elapsed(tmPt)[k - 2] \in Nat /\ Elapsed(tmPt)[k - 1] \in Nat
          BY <3>1, ElapsedIs
        <4>4. WaitBelow[k - 1] \in Nat /\ WaitBelow[k] \in Nat
          BY <3>1, WaitAre
        <4> QED BY <4>1, <4>2, <4>3, <4>4
      <3>3. u = t * N /\ f = e + p * t /\ v = w + u
        BY <3>1, <3>2, TicksAre, ElapsedIs, WaitAre
      <3>4. G[k - 1] = d + 1 - w + e
        BY <1>12, <1>14, <3>1, <3>2
      <3>5. G[k] = G[k - 1] - (N - p) * t
        BY <1>11, <2>2, <3>2
      <3>6. (N - p) * t = t * N - p * t /\ t * N \in Int /\ p * t \in Int
        BY SMT
      <3>7. G[k] = d + 1 - v + f
        BY <3>3, <3>4, <3>5, <3>6
      <3> QED BY <1>12, <3>1, <3>2, <3>7
    <2> QED BY <2>1, <2>2
  <1>15. \A k \in 0..Top : k \in T
    BY <1>0, <1>13, <1>14, UpTo
  <1>16. ASSUME NEW k \in 1..Top PROVE G[k] = d + 1 - WaitBelow[k] + Elapsed(tmPt)[k - 1]
    <2>1. k \in 0..Top /\ k # 0
      BY <1>0
    <2> QED BY <1>12, <1>15, <2>1
  <1> QED BY <1>9, <1>16

-----------------------------------------------------------------------------
\* Buckets from p on to b, in a level of N.
Ahead(b, p, N) == IF b >= p THEN b - p ELSE b - p + N

\* Ticks until bucket b of level k fires or moves down.
ToGo(pt, k, b) ==
    TBTicks[k - 1] - Elapsed(pt)[k - 1] + TBTicks[k - 1] * Ahead(b, pt[k], TBNum[k])

\* A timer of level k that expires at e and is fired or moved in tick g: by how
\* much e may be before and after the beginning of that tick.
Lo(k) == (WaitBelow[k - 1] - WaitBelow[Top - 2] - 1) * Parts + 1
Hi(k) == (WaitBelow[k] + MaxLag + 1) * Parts - 2

Fits(e, k, g) == Lo(k) <= e - g * Parts /\ e - g * Parts <= Hi(k)

\* The numbers of a new timer.
LEMMA AddBounds ==
    ASSUME NEW P \in Nat \ {0}, NEW l \in Nat, NEW now \in Nat, NEW d \in Nat, NEW i \in Nat, NEW r \in Nat,
           NEW w \in Nat, NEW m \in Nat, NEW lag \in Nat, NEW wt \in Nat \ {0},
           d * P <= i, i < d * P + P, l * P <= now, now <= (l + lag + 2) * P - 1, r < m
    PROVE  /\ (w - wt - 1) * P + 1 <= now + i - (l + d + 1 - w - r) * P
           /\ now + i - (l + d + 1 - w - r) * P <= (w + m + lag + 1) * P - 2
  <1>1. PICK lP \in Nat, dP \in Nat, rP \in Nat, wP \in Nat, mP \in Nat, aP \in Nat, tP \in Nat :
            lP = l * P /\ dP = d * P /\ rP = r * P /\ wP = w * P /\ mP = m * P /\ aP = lag * P /\ tP = wt * P
    <2>1. \A x \in Nat : x * P \in Nat
      BY SMT
    <2> QED BY <2>1
  <1>2. /\ (l + lag + 2) * P = l * P + lag * P + 2 * P
        /\ (w - wt - 1) * P = w * P - wt * P - P
        /\ (l + d + 1 - w - r) * P = l * P + d * P + P - w * P - r * P
        /\ (w + m + lag + 1) * P = w * P + m * P + lag * P + P
    BY SMT
  <1>3. rP + P <= mP /\ P <= tP
    <2>1. (r + 1) * P <= m * P /\ 1 * P <= wt * P
      BY MulMono
    <2>2. (r + 1) * P = r * P + P /\ 1 * P = P
      BY SMT
    <2> QED BY <1>1, <2>1, <2>2
  <1>4. /\ dP <= i /\ i < dP + P /\ lP <= now /\ now <= lP + aP + 2 * P - 1
    BY <1>1, <1>2
  <1>5. /\ wP - tP - P + 1 <= now + i - (lP + dP + P - wP - rP)
        /\ now + i - (lP + dP + P - wP - rP) <= wP + mP + aP + P - 2
    BY <1>3, <1>4
  <1> QED BY <1>1, <1>2, <1>5

\* The bucket of a level of n buckets of m ticks for a timer of r ticks.
MoveTo(r, m, n) ==
    LET u == r \div m
        x == IF u > 0 THEN u - 1 ELSE u
    IN IF x >= n THEN n - 1 ELSE x

\* The numbers of a timer that moves down in tick g: r are the ticks that Migrate
\* sees left, and it is put v buckets of m ticks ahead in a level of n.
LEMMA MoveBounds ==
    ASSUME NEW P \in Nat \ {0}, NEW g \in Nat, NEW now \in Nat, NEW e \in Nat, NEW r \in Nat,
           NEW w \in Nat, NEW m \in Nat \ {0}, NEW n \in Nat \ {0}, NEW lag \in Nat, NEW wt \in Nat, w <= wt,
           g * P <= now, now <= (g + lag + 1) * P - 1,
           now < e => (r - 1) * P < e - now /\ e - now < (r + 1) * P,
           now >= e => r = 0,
           (w + m - wt - 1) * P + 1 <= e - g * P,
           e - g * P <= (w + m + m * n + lag + 1) * P - 2,
           NEW v \in Nat, v = MoveTo(r, m, n)
    PROVE  /\ v < n
           /\ (w - wt - 1) * P + 1 <= e - (g + m * (1 + v)) * P
           /\ e - (g + m * (1 + v)) * P <= (w + m + lag + 1) * P - 2
  <1>1. PICK u \in Nat : u = r \div m /\ u * m <= r /\ r < u * m + m
    BY DivIs
  <1>2. v = IF u = 0 THEN 0 ELSE IF u > n THEN n - 1 ELSE u - 1
    BY <1>1 DEF MoveTo
  <1>3. PICK c \in Nat : c = m * (1 + v)
    <2>1. m * (1 + v) \in Nat
      BY SMT
    <2> QED BY <2>1
  <1>4. PICK gP \in Nat, rP \in Nat, wP \in Nat, mP \in Nat, aP \in Nat, tP \in Nat, cP \in Nat, nP \in Nat :
            /\ gP = g * P /\ rP = r * P /\ wP = w * P /\ mP = m * P /\ aP = lag * P /\ tP = wt * P
            /\ cP = c * P /\ nP = (m * n) * P
    <2>1. \A x \in Nat : x * P \in Nat
      BY SMT
    <2>2. m * n \in Nat
      BY SMT
    <2> QED BY <2>1, <2>2
  <1>5. /\ (g + lag + 1) * P = g * P + lag * P + P
        /\ (r - 1) * P = r * P - P /\ (r + 1) * P = r * P + P
        /\ (w + m - wt - 1) * P = w * P + m * P - wt * P - P
        /\ (w - wt - 1) * P = w * P - wt * P - P
        /\ (g + c) * P = g * P + c * P
        /\ (w + m + lag + 1) * P = w * P + m * P + lag * P + P
    BY SMT
  <1>6. (w + m + m * n + lag + 1) * P = w * P + m * P + (m * n) * P + lag * P + P
    BY SMT
  <1>7. wP <= tP /\ P <= mP
    <2>1. w * P <= wt * P /\ 1 * P <= m * P
      BY MulMono
    <2>2. 1 * P = P
      OBVIOUS
    <2> QED BY <1>4, <2>1, <2>2
  <1>8. /\ gP <= now /\ now <= gP + aP + P - 1
        /\ now < e => rP - P < e - now /\ e - now < rP + P
        /\ now >= e => r = 0
        /\ wP + mP - tP - P + 1 <= e - gP
        /\ e - gP <= wP + mP + nP + aP + P - 2
    BY <1>4, <1>5, <1>6
  <1>9. /\ wP - tP - P + 1 <= e - (gP + cP)
        /\ e - (gP + cP) <= wP + mP + aP + P - 2
    <2>1. CASE u = 0
      <3>1. c = m * (1 + 0) /\ m * (1 + 0) = m /\ r < m
        BY <1>1, <1>2, <1>3, <2>1
      <3>2. cP = mP
        BY <1>4, <3>1
      <3>3. rP + P <= mP
        <4>1. (r + 1) * P <= m * P
          BY <3>1, MulMono
        <4> QED BY <1>4, <1>5, <4>1
      <3> QED BY <1>7, <1>8, <3>2, <3>3
    <2>2. CASE u # 0 /\ u <= n
      <3>1. v = u - 1 /\ c = m * (1 + v)
        BY <1>2, <1>3, <2>2
      <3>2. 1 + v = u /\ m * u = u * m
        BY <2>2, <3>1
      <3>3. c = u * m
        BY <3>1, <3>2
      <3>4. c <= r /\ r + 1 <= c + m
        BY <1>1, <3>3
      <3>5. cP <= rP /\ rP + P <= cP + mP
        <4>1. c * P <= r * P /\ (r + 1) * P <= (c + m) * P
          BY <3>4, MulMono
        <4>2. (c + m) * P = c * P + m * P
          BY SMT
        <4> QED BY <1>4, <1>5, <4>1, <4>2
      <3>6. now < e
        <4>1. u * m > 0
          <5>1. 1 * m <= u * m
            BY <2>2, MulMono
          <5> QED BY <5>1
        <4>2. r # 0
          BY <1>1, <4>1
        <4> QED BY <1>8, <4>2
      <3> QED BY <1>7, <1>8, <3>5, <3>6
    <2>3. CASE u # 0 /\ u > n
      <3>1. v = n - 1 /\ 1 + v = n /\ c = m * n
        BY <1>2, <1>3, <2>3
      <3>2. cP = nP
        BY <1>4, <3>1
      <3>3. c <= r
        <4>1. n * m <= u * m
          BY <2>3, MulMono
        <4>2. n * m = m * n
          BY SMT
        <4> QED BY <1>1, <3>1, <4>1, <4>2
      <3>4. cP <= rP
        <4>1. c * P <= r * P
          BY <3>3, MulMono
        <4> QED BY <1>4, <4>1
      <3>5. now < e
        <4>1. u * m > 0
          <5>1. 1 * m <= u * m
            BY <2>3, MulMono
          <5> QED BY <5>1
        <4>2. r # 0
          BY <1>1, <4>1
        <4> QED BY <1>8, <4>2
      <3> QED BY <1>7, <1>8, <3>2, <3>4, <3>5
    <2> QED BY <1>1, <2>1, <2>2, <2>3
  <1>10. v < n
    BY <1>2
  <1> QED BY <1>3, <1>4, <1>5, <1>9, <1>10

\* The ticks that Migrate sees left are less than one too many or too few.
LEMMA RemainingIs ==
    ASSUME tmNow \in Nat, NEW n, tmExpire[n] \in Nat
    PROVE  /\ Remaining(n) \in Nat
           /\ tmNow < tmExpire[n] => /\ (Remaining(n) - 1) * Parts < tmExpire[n] - tmNow
                                     /\ tmExpire[n] - tmNow < (Remaining(n) + 1) * Parts
           /\ tmNow >= tmExpire[n] => Remaining(n) = 0
  <1>1. PICK P \in Nat \ {0}, T \in Nat \ {0}, now \in Nat, e \in Nat :
            P = Parts /\ T = TicksPerSec /\ now = tmNow /\ e = tmExpire[n]
    BY TimerAssumption
  <1>2. PICK sec \in Nat \ {0} : sec = P * T
    <2>1. \A a, b \in Nat \ {0} : a * b \in Nat \ {0}
      BY SMT
    <2> QED BY <2>1
  <1>3. PICK a \in Nat, b \in Nat, x \in Nat, y \in Nat :
            /\ a = e \div sec /\ x = e % sec /\ b = now \div sec /\ y = now % sec
            /\ e = a * sec + x /\ now = b * sec + y
    <2>1. /\ e \div sec \in Nat /\ (e \div sec) * sec <= e /\ e % sec = e - (e \div sec) * sec
          /\ now \div sec \in Nat /\ (now \div sec) * sec <= now /\ now % sec = now - (now \div sec) * sec
      BY DivIs
    <2>2. (e \div sec) * sec \in Int /\ (now \div sec) * sec \in Int
      BY <2>1
    <2>3. e % sec \in Nat /\ now % sec \in Nat
      BY <2>1, <2>2
    <2>4. e = (e \div sec) * sec + (e % sec) /\ now = (now \div sec) * sec + (now % sec)
      BY <2>1, <2>2
    <2> QED BY <2>1, <2>3, <2>4
  <1>4. PICK c \in Int : /\ c = IF x - y >= 0 THEN (x - y) \div P ELSE -((-(x - y)) \div P)
                         /\ c * P - P < x - y /\ x - y < c * P + P
    <2>1. CASE x - y >= 0
      <3>1. x - y \in Nat
        BY <2>1
      <3>2. PICK q \in Nat : q = (x - y) \div P /\ q * P <= x - y /\ x - y < q * P + P
        BY <3>1, DivIs
      <3>3. q * P \in Int
        OBVIOUS
      <3>4. q * P - P < x - y
        BY <3>2, <3>3
      <3> QED BY <2>1, <3>2, <3>4
    <2>2. CASE ~(x - y >= 0)
      <3>1. -(x - y) \in Nat
        BY <2>2
      <3>2. PICK q \in Nat : q = (-(x - y)) \div P /\ q * P <= -(x - y) /\ -(x - y) < q * P + P
        BY <3>1, DivIs
      <3>3. q * P \in Int /\ (-q) * P = -(q * P)
        BY SMT
      <3>4. (-q) * P - P < x - y /\ x - y < (-q) * P + P
        BY <3>2, <3>3
      <3>5. -q \in Int
        OBVIOUS
      <3> QED BY <2>2, <3>2, <3>4, <3>5
    <2> QED BY <2>1, <2>2
  <1>5. Remaining(n) = IF now < e THEN (a - b) * T + c ELSE 0
    BY <1>1, <1>2, <1>3, <1>4 DEF Remaining
  <1>6. CASE now >= e
    BY <1>1, <1>5, <1>6
  <1>7. CASE now < e
    <2>1. PICK r \in Int : r = (a - b) * T + c /\ r = Remaining(n)
      BY <1>5, <1>7
    <2>2. r * P = (a - b) * sec + c * P
      <3>1. ((a - b) * T + c) * P = (a - b) * (P * T) + c * P
        BY SMT
      <3> QED BY <1>2, <2>1, <3>1
    <2>3. e - now = (a - b) * sec + (x - y)
      <3>1. (a - b) * sec = a * sec - b * sec /\ a * sec \in Int /\ b * sec \in Int
        BY SMT
      <3> QED BY <1>3, <3>1
    <2>4. PICK s \in Int, cP \in Int, rP \in Int : s = (a - b) * sec /\ cP = c * P /\ rP = r * P
      OBVIOUS
    <2>5. rP - P < e - now /\ e - now < rP + P
      BY <1>4, <2>2, <2>3, <2>4
    <2>6. (r - 1) * P = rP - P /\ (r + 1) * P = rP + P
      <3>1. (r - 1) * P = r * P - P /\ (r + 1) * P = r * P + P
        BY SMT
      <3> QED BY <2>4, <3>1
    <2>7. r \in Nat
      <3>1. CASE r <= -1
        <4>1. (r + 1) * P <= 0 * P /\ 0 * P = 0
          BY <3>1, MulMono
        <4> QED BY <1>7, <2>4, <2>5, <2>6, <4>1
      <3>2. CASE r > -1
        BY <3>2
      <3> QED BY <3>1, <3>2
    <2> QED BY <1>1, <1>7, <2>1, <2>5, <2>6, <2>7
  <1> QED BY <1>6, <1>7

\* The clock when tick g is handled.
ClockIn(g) == g * Parts <= tmNow /\ tmNow <= (g + MaxLag + 1) * Parts - 1

\* A timer that fits level k + 1 when its bucket is moved fits the bucket of level
\* k to which Migrate moves it.
LEMMA MigrateFits ==
    ASSUME tmNow \in Nat, NEW n, tmExpire[n] \in Nat, NEW k \in 1..(Top - 1), NEW g \in Nat, ClockIn(g),
           Fits(tmExpire[n], k + 1, g)
    PROVE  /\ MigrateIndex(n, k) \in Buckets(k)
           /\ Fits(tmExpire[n], k, g + TBTicks[k - 1] * (1 + MigrateIndex(n, k)))
  <1>0. Top \in Nat /\ Top >= 3 /\ k \in 1..Top /\ k + 1 \in 1..Top /\ k - 1 \in 0..Top /\ k \in 0..Top /\ Top - 2 \in 0..Top
        /\ k - 1 \in 0..(Top - 2) /\ k + 1 - 1 = k
    BY TicksAre
  <1>1. PICK P \in Nat \ {0}, now \in Nat, e \in Nat, r \in Nat, m \in Nat \ {0}, N \in Nat \ {0}, lag \in Nat :
            /\ P = Parts /\ now = tmNow /\ e = tmExpire[n] /\ r = Remaining(n)
            /\ m = TBTicks[k - 1] /\ N = TBNum[k] /\ lag = MaxLag
    <2>1. Remaining(n) \in Nat
      BY RemainingIs
    <2>2. TBTicks[k - 1] \in Nat \ {0} /\ TBNum[k] \in Nat \ {0}
      BY <1>0, TicksAre
    <2> QED BY <2>1, <2>2, TimerAssumption
  <1>2. PICK w \in Nat, wt \in Nat : w = WaitBelow[k - 1] /\ wt = WaitBelow[Top - 2] /\ w <= wt
    BY <1>0, WaitAre
  <1>3. WaitBelow[k] = w + m
    BY <1>0, <1>1, <1>2, WaitAre
  <1>4. WaitBelow[k + 1] = w + m + m * N
    <2>1. \A j \in 1..Top : WaitBelow[j] = WaitBelow[j - 1] + TBTicks[j - 1]
      BY WaitAre
    <2>2. TBTicks[k] = TBTicks[k - 1] * TBNum[k]
      BY <1>0, TicksAre
    <2>3. WaitBelow[k + 1] = WaitBelow[k] + TBTicks[k]
      <3>1. PICK j \in 1..Top : j = k + 1 /\ j - 1 = k
        BY <1>0
      <3>2. WaitBelow[j] = WaitBelow[j - 1] + TBTicks[j - 1]
        BY <2>1, Zenon
      <3> QED BY <3>1, <3>2, Zenon
    <2>4. TBTicks[k] = m * N
      BY <1>1, <2>2
    <2> QED BY <1>3, <2>3, <2>4
  <1>5. PICK v \in Nat : v = MoveTo(r, m, N)
    <2>1. r \div m \in Nat
      BY DivIs
    <2> QED BY <2>1 DEF MoveTo
  <1>6. MigrateIndex(n, k) = v
    BY <1>1, <1>5 DEF MigrateIndex, MoveTo
  <1>7. /\ now < e => (r - 1) * P < e - now /\ e - now < (r + 1) * P
        /\ now >= e => r = 0
    BY <1>1, RemainingIs
  <1>8. g * P <= now /\ now <= (g + lag + 1) * P - 1
    BY <1>1 DEF ClockIn
  <1>9. /\ (w + m - wt - 1) * P + 1 <= e - g * P
        /\ e - g * P <= (w + m + m * N + lag + 1) * P - 2
    BY <1>0, <1>1, <1>2, <1>3, <1>4 DEF Fits, Lo, Hi
  <1>10. /\ v < N
         /\ (w - wt - 1) * P + 1 <= e - (g + m * (1 + v)) * P
         /\ e - (g + m * (1 + v)) * P <= (w + m + lag + 1) * P - 2
    BY <1>2, <1>5, <1>7, <1>8, <1>9, MoveBounds, Zenon
  <1>11. v \in Buckets(k)
    BY <1>1, <1>10 DEF Buckets
  <1> QED BY <1>1, <1>2, <1>3, <1>6, <1>10, <1>11 DEF Fits, Lo, Hi

\* Pointers between two calls.
PointersOk(pt) == pt \in Pointers /\ \A k \in Levels : pt[k] < TBNum[k]

\* The level that AddTimer chooses has room for the interval.
LEMMA LevelIs ==
    ASSUME PointersOk(tmPt), NEW d \in Nat, d < TBTicks[Top]
    PROVE  /\ TimerLevel(d) \in 1..Top
           /\ Rest(d)[TimerLevel(d)] \in Nat /\ Rest(d)[TimerLevel(d)] < TBTicks[TimerLevel(d)]
  <1>0. Top \in Nat /\ Top >= 3 /\ Levels = 1..Top /\ tmPt \in Pointers /\ Top \in 1..Top
    BY TicksAre DEF Levels, Top, PointersOk
  <1>1. \A k \in 1..Top : Rest(d)[k] = d + 1 - WaitBelow[k] + Elapsed(tmPt)[k - 1]
    BY <1>0, RestIs
  <1>2. \A k \in 1..Top : Rest(d)[k] \in Int
    <2> TAKE k \in 1..Top
    <2>1. k \in 0..Top /\ k - 1 \in 0..Top
      BY <1>0
    <2>2. WaitBelow[k] \in Nat /\ Elapsed(tmPt)[k - 1] \in Nat
      BY <1>0, <2>1, WaitAre, ElapsedIs
    <2> QED BY <1>1, <2>2
  <1>3. PICK S : S = {k \in 1..Top : k = Top \/ Rest(d)[k] < TBTicks[k]}
    OBVIOUS
  <1>4. S \in SUBSET Nat /\ S # {}
    BY <1>0, <1>3
  <1>5. PICK m \in S : \A j \in S : m <= j
    BY <1>4, LeastNat
  <1>6. m \in 1..Top /\ (m = Top \/ Rest(d)[m] < TBTicks[m])
    BY <1>3, <1>5
  <1>7. \A j \in 1..(m - 1) : Rest(d)[j] >= TBTicks[j]
    <2> TAKE j \in 1..(m - 1)
    <2>1. j \in 1..Top /\ j \in 0..Top /\ ~(m <= j)
      BY <1>0, <1>6
    <2>2. j \notin S
      BY <1>5, <2>1
    <2>3. ~(Rest(d)[j] < TBTicks[j])
      BY <1>3, <2>1, <2>2
    <2>4. Rest(d)[j] \in Int /\ TBTicks[j] \in Nat
      BY <1>2, <2>1, TicksAre
    <2> QED BY <2>3, <2>4
  <1> DEFINE Ok(k) == /\ k = Len(TBNum) \/ Rest(d)[k] < TBTicks[k]
                      /\ \A j \in 1..(k - 1) : Rest(d)[j] >= TBTicks[j]
  <1>8. m \in Levels /\ Ok(m)
    BY <1>0, <1>6, <1>7 DEF Top
  <1> DEFINE K == CHOOSE k \in Levels : Ok(k)
  <1>9. K \in Levels /\ Ok(K)
    <2> HIDE DEF Ok
    <2> QED BY <1>8
  <1>10. TimerLevel(d) = K
    BY DEF TimerLevel
  <1> HIDE DEF K
  <1>11. /\ K \in 1..Top /\ (K = Top \/ Rest(d)[K] < TBTicks[K])
         /\ \A j \in 1..(K - 1) : Rest(d)[j] >= TBTicks[j]
    BY <1>0, <1>9 DEF Top
  <1> HIDE DEF Ok
  <1>12. K \in Nat /\ K \in 0..Top /\ K - 1 \in 0..Top
    BY <1>0, <1>11
  <1>13. Rest(d)[K] >= 0
    <2>1. CASE K = 1
      <3>1. 1 \in 1..Top /\ 1 - 1 = 0
        BY <1>0
      <3>2. WaitBelow[1] = WaitBelow[1 - 1] + TBTicks[1 - 1]
        BY <3>1, WaitAre
      <3>3. WaitBelow[1] = 0 + 1 /\ Elapsed(tmPt)[0] = 0
        BY <1>0, <3>1, <3>2, WaitAre, TicksAre, ElapsedIs
      <3> QED BY <1>1, <2>1, <3>1, <3>3
    <2>2. CASE K # 1
      <3>1. K - 1 \in 1..(K - 1) /\ K - 1 \in 1..Top /\ K - 1 - 1 = K - 2 /\ K - 2 \in 0..Top
        BY <1>0, <1>11, <2>2
      <3>2. PICK w \in Nat, x \in Nat, t \in Nat, e \in Nat, f \in Nat :
                /\ w = WaitBelow[K - 1] /\ x = WaitBelow[K] /\ t = TBTicks[K - 1]
                /\ e = Elapsed(tmPt)[K - 2] /\ f = Elapsed(tmPt)[K - 1]
        BY <1>0, <1>12, <3>1, WaitAre, TicksAre, ElapsedIs
      <3>3. x = w + t
        BY <1>11, <3>2, WaitAre
      <3>4. e <= f
        <4>1. f = e + tmPt[K - 1] * TBTicks[K - 2]
          BY <1>0, <3>1, <3>2, ElapsedIs
        <4>2. tmPt[K - 1] \in Nat /\ TBTicks[K - 2] \in Nat
          BY <1>0, <3>1, TicksAre DEF Pointers
        <4>3. \A a, b \in Nat : a * b \in Nat
          BY SMT
        <4>4. PICK y \in Nat : y = tmPt[K - 1] * TBTicks[K - 2]
          BY <4>2, <4>3
        <4> QED BY <4>1, <4>4
      <3>5. d + 1 - w + e >= t
        BY <1>1, <1>11, <3>1, <3>2
      <3>6. Rest(d)[K] = d + 1 - x + f
        BY <1>1, <1>11, <3>2
      <3> QED BY <3>3, <3>4, <3>5, <3>6
    <2> QED BY <2>1, <2>2
  <1>14. Rest(d)[K] < TBTicks[K]
    <2>1. CASE K # Top
      BY <1>11, <2>1
    <2>2. CASE K = Top
      <3>1. \A j \in 1..(Top - 1) : tmPt[j] < TBNum[j]
        BY <1>0 DEF PointersOk
      <3>2. Top - 1 \in 0..Top /\ Top \in 0..Top
        BY <1>0
      <3>3. Elapsed(tmPt)[Top - 1] < TBTicks[Top - 1]
        BY <1>0, <3>1, <3>2, ElapsedBelow
      <3>4. PICK x \in Nat, t \in Nat, f \in Nat, u \in Nat :
                x = WaitBelow[Top] /\ t = TBTicks[Top - 1] /\ f = Elapsed(tmPt)[Top - 1] /\ u = TBTicks[Top]
        BY <1>0, <3>2, WaitAre, TicksAre, ElapsedIs
      <3>5. x >= t
        BY <1>0, <3>4, WaitAre
      <3>6. Rest(d)[Top] = d + 1 - x + f
        BY <1>0, <1>1, <3>4
      <3> QED BY <2>2, <3>3, <3>4, <3>5, <3>6
    <2> QED BY <2>1, <2>2
  <1>15. Rest(d)[K] \in Nat
    BY <1>2, <1>11, <1>13
  <1> QED BY <1>10, <1>11, <1>14, <1>15

\* A new timer fits the bucket that AddTimer chooses.
LEMMA AddFits ==
    ASSUME PointersOk(tmPt), NEW i \in Intervals, NEW d, d = i \div Parts, tmNow \in Nat, tmLast \in Nat,
           tmLast * Parts <= tmNow, tmNow <= (tmLast + MaxLag + 2) * Parts - 1,
           NEW k, k = TimerLevel(d), NEW b, b = TimerIndex(d, k)
    PROVE  /\ k \in Levels /\ b \in Buckets(k)
           /\ Fits(tmNow + i, k, tmLast + ToGo(tmPt, k, b))
  <1>0. Top \in Nat /\ Top >= 3 /\ Levels = 1..Top /\ tmPt \in Pointers /\ Top - 2 \in 1..Top
    BY TicksAre DEF Levels, Top, PointersOk
  <1>1. PICK P \in Nat \ {0}, lag \in Nat, now \in Nat, l \in Nat :
            P = Parts /\ lag = MaxLag /\ now = tmNow /\ l = tmLast
    BY TimerAssumption
  <1>2. i \in Nat /\ d \in Nat /\ d < TBTicks[Top] /\ d * P <= i /\ i < d * P + P
    <2>1. i \in Nat /\ i \div Parts < TBTicks[Top]
      BY TimerAssumption DEF Top
    <2>2. i \div P \in Nat /\ (i \div P) * P <= i /\ i < (i \div P) * P + P
      BY <2>1, DivIs
    <2> QED BY <1>1, <2>1, <2>2
  <1>3. k \in 1..Top /\ Rest(d)[k] \in Nat /\ Rest(d)[k] < TBTicks[k]
    BY <1>2, LevelIs
  <1>4. k \in Nat /\ k \in 0..Top /\ k - 1 \in 0..Top
    BY <1>0, <1>3
  <1>5. PICK m \in Nat \ {0}, N \in Nat \ {0}, p \in Nat, f \in Nat, w \in Nat, wt \in Nat \ {0}, x \in Nat :
            /\ m = TBTicks[k - 1] /\ N = TBNum[k] /\ p = tmPt[k] /\ f = Elapsed(tmPt)[k - 1]
            /\ w = WaitBelow[k - 1] /\ wt = WaitBelow[Top - 2] /\ x = Rest(d)[k]
    <2>1. TBTicks[k - 1] \in Nat \ {0} /\ TBNum[k] \in Nat \ {0}
      BY <1>3, <1>4, TicksAre
    <2>2. tmPt[k] \in Nat
      BY <1>0, <1>3 DEF Pointers
    <2>3. Elapsed(tmPt)[k - 1] \in Nat
      BY <1>0, <1>4, ElapsedIs
    <2>4. WaitBelow[k - 1] \in Nat
      BY <1>4, WaitAre
    <2>5. WaitBelow[Top - 2] \in Nat \ {0}
      <3>1. Top - 2 \in 0..Top
        BY <1>0
      <3>2. WaitBelow[Top - 2] \in Nat /\ WaitBelow[Top - 2] >= 1
        BY <1>0, <3>1, WaitAre
      <3> QED BY <3>2
    <2> QED BY <1>3, <2>1, <2>2, <2>3, <2>4, <2>5
  <1>6. p < N
    BY <1>0, <1>3, <1>5 DEF PointersOk
  <1>7. x = d + 1 - (w + m) + f /\ WaitBelow[k] = w + m
    <2>1. WaitBelow[k] = w + m
      BY <1>3, <1>5, WaitAre
    <2>2. Rest(d)[k] = d + 1 - WaitBelow[k] + Elapsed(tmPt)[k - 1]
      BY <1>0, <1>2, <1>3, RestIs
    <2> QED BY <1>5, <2>1, <2>2
  <1>8. x < m * N
    BY <1>3, <1>5, TicksAre
  <1>9. PICK q \in Nat : q = x \div m /\ q * m <= x /\ x < q * m + m
    BY DivIs
  <1>10. q < N
    <2> SUFFICES ASSUME N <= q PROVE FALSE
      OBVIOUS
    <2>1. N * m <= q * m
      BY MulMono
    <2>2. N * m = m * N
      BY SMT
    <2> QED BY <1>8, <1>9, <2>1, <2>2
  <1>11. b = IF p + q < N THEN p + q ELSE p + q - N
    <2>1. b = (p + q) % N
      BY <1>5, <1>9 DEF TimerIndex
    <2>2. p + q \in Nat /\ p + q < 2 * N
      BY <1>6, <1>10
    <2>3. PICK s \in Nat : s = p + q /\ s < 2 * N
      BY <2>2
    <2>4. s % N = IF s < N THEN s ELSE s - N
      BY <2>3, RingMod
    <2> QED BY <2>1, <2>3, <2>4
  <1>12. b \in 0..(N - 1) /\ Ahead(b, p, N) = q
    BY <1>6, <1>10, <1>11 DEF Ahead
  <1>13. ToGo(tmPt, k, b) = m - f + m * q
    BY <1>5, <1>12 DEF ToGo
  <1>14. PICK r \in Nat : r = x - q * m /\ r < m
    <2>1. q * m \in Int
      OBVIOUS
    <2> QED BY <1>9, <2>1
  <1>15. l + (m - f + m * q) = l + d + 1 - w - r
    <2>1. PICK y \in Int : y = q * m
      OBVIOUS
    <2>2. m * q = q * m
      BY SMT
    <2>3. m * q = y /\ r = x - y
      BY <1>14, <2>1, <2>2
    <2>4. d \in Nat /\ x = d + 1 - (w + m) + f /\ r = x - y
      BY <1>2, <1>7, <2>3
    <2>5. l + (m - f + y) = l + d + 1 - w - r
      BY <2>4
    <2> QED BY <2>3, <2>5, Zenon
  <1>16. l * P <= now /\ now <= (l + lag + 2) * P - 1
    BY <1>1
  <1>17. /\ (w - wt - 1) * P + 1 <= now + i - (l + d + 1 - w - r) * P
         /\ now + i - (l + d + 1 - w - r) * P <= (w + m + lag + 1) * P - 2
    BY <1>2, <1>14, <1>16, AddBounds, Zenon
  <1>18. Fits(now + i, k, l + d + 1 - w - r)
    <2>1. Lo(k) = (w - wt - 1) * P + 1
      BY <1>1, <1>5 DEF Lo
    <2>2. Hi(k) = (w + m + lag + 1) * P - 2
      BY <1>1, <1>7 DEF Hi
    <2>3. P = Parts
      BY <1>1
    <2>4. Lo(k) <= now + i - (l + d + 1 - w - r) * P /\ now + i - (l + d + 1 - w - r) * P <= Hi(k)
      BY <1>17, <2>1, <2>2, Zenon
    <2>5. PICK g \in Int, e \in Int : g = l + d + 1 - w - r /\ e = now + i
      BY <1>2
    <2>50. now + i - (l + d + 1 - w - r) * P = e - g * P
      BY <1>2, <2>5
    <2>51. Lo(k) <= e - g * P /\ e - g * P <= Hi(k)
      BY <2>4, <2>50, Zenon
    <2>6. Lo(k) <= e - g * Parts /\ e - g * Parts <= Hi(k)
      BY <2>3, <2>51
    <2>7. Fits(e, k, g)
      BY <2>6 DEF Fits
    <2> QED BY <2>5, <2>7, Zenon
  <1> QED BY <1>0, <1>1, <1>3, <1>5, <1>12, <1>13, <1>15, <1>18 DEF Buckets

\* A bucket of timers for each number of each level.
IsWheel(B) == DOMAIN B = Levels /\ \A k \in Levels : B[k] \in [Buckets(k) -> Seq(TNodes)]

\* Each timer of W, and no other, is in one bucket, once.
Wheel(B, W) ==
    /\ IsWheel(B)
    /\ \A k \in Levels : \A b \in Buckets(k) : Distinct(B[k][b]) /\ ToSet(B[k][b]) \subseteq W
    /\ \A k \in Levels : \A b \in Buckets(k) : \A l \in Levels : \A c \in Buckets(l) : \A n \in W :
         n \in ToSet(B[k][b]) /\ n \in ToSet(B[l][c]) => k = l /\ b = c
    /\ \A n \in W : \E k \in Levels : \E b \in Buckets(k) : n \in ToSet(B[k][b])

\* A timer in front of a list.
LEMMA PushSet ==
    ASSUME NEW S, NEW s \in Seq(S), NEW n \in S
    PROVE  /\ <<n>> \o s \in Seq(S) /\ ToSet(<<n>> \o s) = ToSet(s) \cup {n}
           /\ Distinct(s) /\ n \notin ToSet(s) => Distinct(<<n>> \o s)
  <1>1. PICK t : t = <<n>> \o s
    OBVIOUS
  <1>2. t \in Seq(S) /\ Len(s) \in Nat /\ Len(t) = Len(s) + 1 /\ t[1] = n
        /\ \A i \in 1..Len(s) : t[i + 1] = s[i]
    BY <1>1
  <1>3. ToSet(t) = {t[i] : i \in 1..Len(t)} /\ ToSet(s) = {s[i] : i \in 1..Len(s)}
    BY <1>2 DEF ToSet
  <1>4. \A i \in 1..Len(t) : i = 1 \/ (i - 1 \in 1..Len(s) /\ t[i] = s[i - 1])
    <2> TAKE i \in 1..Len(t)
    <2>1. i = 1 \/ i - 1 \in 1..Len(s)
      BY <1>2
    <2>2. ASSUME i - 1 \in 1..Len(s) PROVE t[i] = s[i - 1]
      <3>1. t[(i - 1) + 1] = s[i - 1] /\ (i - 1) + 1 = i
        BY <1>2, <2>2
      <3> QED BY <3>1
    <2> QED BY <2>1, <2>2
  <1>5. ToSet(t) = ToSet(s) \cup {n}
    <2>1. ASSUME NEW x \in ToSet(t) PROVE x \in ToSet(s) \cup {n}
      BY <1>2, <1>3, <1>4
    <2>2. ASSUME NEW x \in ToSet(s) PROVE x \in ToSet(t)
      <3>1. PICK i \in 1..Len(s) : x = s[i]
        BY <1>3
      <3>2. i + 1 \in 1..Len(t) /\ t[i + 1] = x
        BY <1>2, <3>1
      <3> QED BY <1>3, <3>2
    <2>3. n \in ToSet(t)
      <3>1. 1 \in 1..Len(t)
        BY <1>2
      <3> QED BY <1>2, <1>3, <3>1
    <2> QED BY <2>1, <2>2, <2>3
  <1>6. ASSUME Distinct(s), n \notin ToSet(s) PROVE Distinct(t)
    <2> SUFFICES ASSUME NEW i \in 1..Len(t), NEW j \in 1..Len(t), t[i] = t[j] PROVE i = j
      BY DEF Distinct
    <2>1. \A x \in 1..Len(s) : s[x] # n
      BY <1>3, <1>6
    <2> QED BY <1>2, <1>4, <1>6, <2>1 DEF Distinct
  <1> QED BY <1>1, <1>2, <1>5, <1>6

\* A list without the timer at place i.
LEMMA RemoveSet ==
    ASSUME NEW S, NEW s \in Seq(S), NEW i \in 1..Len(s), Distinct(s)
    PROVE  /\ RemoveAt(s, i) \in Seq(S) /\ ToSet(RemoveAt(s, i)) = ToSet(s) \ {s[i]}
           /\ Distinct(RemoveAt(s, i))
  <1>1. PICK t : t = RemoveAt(s, i)
    OBVIOUS
  <1>2. Len(s) \in Nat /\ i \in Nat /\ i >= 1 /\ i <= Len(s)
    BY LenProperties
  <1>3. /\ SubSeq(s, 1, i - 1) \in Seq(S) /\ Len(SubSeq(s, 1, i - 1)) = i - 1
        /\ \A j \in 1..(i - 1) : SubSeq(s, 1, i - 1)[j] = s[j]
    BY <1>2
  <1>4. /\ SubSeq(s, i + 1, Len(s)) \in Seq(S) /\ Len(SubSeq(s, i + 1, Len(s))) = Len(s) - i
        /\ \A j \in 1..(Len(s) - i) : SubSeq(s, i + 1, Len(s))[j] = s[i + j]
    BY <1>2
  <1>5. t \in Seq(S) /\ Len(t) = Len(s) - 1
        /\ \A j \in 1..(Len(s) - 1) : t[j] = IF j < i THEN s[j] ELSE s[j + 1]
    <2>1. t = SubSeq(s, 1, i - 1) \o SubSeq(s, i + 1, Len(s))
      BY <1>1 DEF RemoveAt
    <2>2. PICK a, b : a = SubSeq(s, 1, i - 1) /\ b = SubSeq(s, i + 1, Len(s))
      OBVIOUS
    <2>3. a \in Seq(S) /\ b \in Seq(S) /\ t = a \o b /\ Len(a) = i - 1 /\ Len(b) = Len(s) - i
      BY <1>3, <1>4, <2>1, <2>2
    <2>4. t \in Seq(S) /\ Len(t) = Len(s) - 1
      BY <1>2, <2>3
    <2>5. ASSUME NEW j \in 1..(Len(s) - 1) PROVE t[j] = IF j < i THEN s[j] ELSE s[j + 1]
      <3>1. CASE j < i
        <4>1. j \in 1..(i - 1)
          BY <1>2, <3>1
        <4>2. t[j] = a[j]
          BY <2>3, <4>1
        <4> QED BY <1>3, <2>2, <3>1, <4>1, <4>2
      <3>2. CASE ~(j < i)
        <4>1. j - (i - 1) \in 1..(Len(s) - i) /\ i + (j - (i - 1)) = j + 1
          BY <1>2, <3>2
        <4>2. t[j] = b[j - (i - 1)]
          BY <1>2, <2>3, <3>2, <4>1
        <4>3. b[j - (i - 1)] = s[i + (j - (i - 1))]
          BY <1>4, <2>2, <4>1
        <4> QED BY <3>2, <4>1, <4>2, <4>3
      <3> QED BY <3>1, <3>2
    <2> QED BY <2>4, <2>5
  <1>6. ToSet(t) = {t[j] : j \in 1..Len(t)} /\ ToSet(s) = {s[j] : j \in 1..Len(s)}
    BY <1>5 DEF ToSet
  <1>7. ASSUME NEW x \in ToSet(t) PROVE x \in ToSet(s) \ {s[i]}
    <2>1. PICK j \in 1..Len(t) : x = t[j]
      BY <1>6
    <2>2. PICK l \in 1..Len(s) : l # i /\ x = s[l]
      <3>1. CASE j < i
        <4>1. j \in 1..Len(s) /\ j # i /\ x = s[j]
          BY <1>2, <1>5, <2>1, <3>1
        <4> QED BY <4>1
      <3>2. CASE ~(j < i)
        <4>1. j + 1 \in 1..Len(s) /\ j + 1 # i /\ x = s[j + 1]
          BY <1>2, <1>5, <2>1, <3>2
        <4> QED BY <4>1
      <3> QED BY <3>1, <3>2
    <2> QED BY <1>6, <2>2 DEF Distinct
  <1>8. ASSUME NEW x \in ToSet(s) \ {s[i]} PROVE x \in ToSet(t)
    <2>1. PICK l \in 1..Len(s) : x = s[l] /\ l # i
      BY <1>6
    <2>2. CASE l < i
      <3>1. l \in 1..Len(t) /\ t[l] = x
        BY <1>2, <1>5, <2>1, <2>2
      <3> QED BY <1>6, <3>1
    <2>3. CASE ~(l < i)
      <3>1. l - 1 \in 1..Len(t) /\ ~(l - 1 < i) /\ (l - 1) + 1 = l
        BY <1>2, <1>5, <2>1, <2>3
      <3>2. t[l - 1] = x
        BY <1>5, <2>1, <3>1
      <3> QED BY <1>6, <3>1, <3>2
    <2> QED BY <2>2, <2>3
  <1>9. Distinct(t)
    <2> SUFFICES ASSUME NEW a \in 1..Len(t), NEW b \in 1..Len(t), t[a] = t[b] PROVE a = b
      BY DEF Distinct
    <2>1. PICK x \in 1..Len(s) : t[a] = s[x] /\ x = IF a < i THEN a ELSE a + 1
      <3>1. a \in 1..Len(s) /\ a + 1 \in 1..Len(s)
        BY <1>2, <1>5
      <3> QED BY <1>5, <3>1
    <2>2. PICK y \in 1..Len(s) : t[b] = s[y] /\ y = IF b < i THEN b ELSE b + 1
      <3>1. b \in 1..Len(s) /\ b + 1 \in 1..Len(s)
        BY <1>2, <1>5
      <3> QED BY <1>5, <3>1
    <2>3. x = y
      BY <2>1, <2>2 DEF Distinct
    <2> QED BY <1>2, <1>5, <2>1, <2>2, <2>3
  <1> QED BY <1>1, <1>5, <1>7, <1>8, <1>9

\* A list without its first timer.
LEMMA TailSet ==
    ASSUME NEW S, NEW s \in Seq(S), s # <<>>, Distinct(s)
    PROVE  /\ Tail(s) \in Seq(S) /\ ToSet(Tail(s)) = ToSet(s) \ {Head(s)}
           /\ Distinct(Tail(s)) /\ Len(Tail(s)) = Len(s) - 1 /\ Head(s) \in ToSet(s)
  <1>1. Len(s) \in Nat /\ Len(s) >= 1 /\ Head(s) = s[1] /\ Tail(s) \in Seq(S) /\ Len(Tail(s)) = Len(s) - 1
        /\ \A i \in 1..(Len(s) - 1) : Tail(s)[i] = s[i + 1]
    BY EmptySeq, HeadTailProperties, LenProperties
  <1>2. 1 \in 1..Len(s)
    BY <1>1
  <1>3. ToSet(Tail(s)) = {Tail(s)[i] : i \in 1..(Len(s) - 1)} /\ ToSet(s) = {s[i] : i \in 1..Len(s)}
    <2>1. PICK t \in Seq(S) : t = Tail(s) /\ Len(t) = Len(s) - 1
      BY <1>1
    <2>2. ToSet(t) = {t[i] : i \in 1..Len(t)} /\ ToSet(s) = {s[i] : i \in 1..Len(s)}
      BY DEF ToSet
    <2> QED BY <2>1, <2>2
  <1>4. ASSUME NEW x \in ToSet(Tail(s)) PROVE x \in ToSet(s) \ {Head(s)}
    <2>1. PICK i \in 1..(Len(s) - 1) : x = s[i + 1]
      BY <1>1, <1>3
    <2>2. i + 1 \in 1..Len(s) /\ i + 1 # 1
      BY <1>1
    <2> QED BY <1>1, <1>2, <1>3, <2>1, <2>2 DEF Distinct
  <1>5. ASSUME NEW x \in ToSet(s) \ {Head(s)} PROVE x \in ToSet(Tail(s))
    <2>1. PICK i \in 1..Len(s) : x = s[i] /\ i # 1
      BY <1>1, <1>3
    <2>2. i - 1 \in 1..(Len(s) - 1) /\ (i - 1) + 1 = i
      BY <1>1, <2>1
    <2>3. Tail(s)[i - 1] = x
      BY <1>1, <2>1, <2>2
    <2> QED BY <1>3, <2>2, <2>3
  <1>6. Distinct(Tail(s))
    <2> SUFFICES ASSUME NEW i \in 1..(Len(s) - 1), NEW j \in 1..(Len(s) - 1), Tail(s)[i] = Tail(s)[j] PROVE i = j
      BY <1>1 DEF Distinct
    <2>1. i + 1 \in 1..Len(s) /\ j + 1 \in 1..Len(s) /\ s[i + 1] = s[j + 1]
      BY <1>1
    <2>2. i + 1 = j + 1
      BY <2>1 DEF Distinct
    <2> QED BY <2>2
  <1> QED BY <1>1, <1>2, <1>3, <1>4, <1>5, <1>6

-----------------------------------------------------------------------------
\* The buckets B with s in bucket b of level k.
With(B, k, b, s) == [B EXCEPT ![k][b] = s]

\* C is B but for s in bucket b of level k.
Replaced(C, B, k, b, s) ==
    /\ IsWheel(C) /\ C[k][b] = s
    /\ \A l \in Levels : \A c \in Buckets(l) : l # k \/ c # b => C[l][c] = B[l][c]

\* A wheel with another list in one of its buckets.
LEMMA WithIs ==
    ASSUME NEW B, IsWheel(B), NEW k \in Levels, NEW b \in Buckets(k), NEW s \in Seq(TNodes)
    PROVE  Replaced(With(B, k, b, s), B, k, b, s)
  <1>1. PICK C : C = With(B, k, b, s)
    OBVIOUS
  <1>2. PICK r : r = [B[k] EXCEPT ![b] = s]
    OBVIOUS
  <1>3. DOMAIN C = Levels /\ C[k] = r /\ \A l \in Levels : l # k => C[l] = B[l]
    BY <1>1, <1>2 DEF With, IsWheel
  <1>4. r \in [Buckets(k) -> Seq(TNodes)] /\ r[b] = s /\ \A c \in Buckets(k) : c # b => r[c] = B[k][c]
    BY <1>2 DEF IsWheel
  <1>5. IsWheel(C)
    BY <1>3, <1>4 DEF IsWheel
  <1>6. Replaced(C, B, k, b, s)
    BY <1>3, <1>4, <1>5 DEF Replaced
  <1> QED BY <1>1, <1>6

\* Timers are taken out of a bucket.
LEMMA WheelDrop ==
    ASSUME NEW B, NEW W, Wheel(B, W), NEW k \in Levels, NEW b \in Buckets(k), NEW X, X \subseteq ToSet(B[k][b]),
           NEW s \in Seq(TNodes), ToSet(s) = ToSet(B[k][b]) \ X, Distinct(s)
    PROVE  Wheel(With(B, k, b, s), W \ X)
  <1>1. PICK C : C = With(B, k, b, s)
    OBVIOUS
  <1>2. /\ IsWheel(C) /\ C[k][b] = s
        /\ \A l \in Levels : \A c \in Buckets(l) : l # k \/ c # b => C[l][c] = B[l][c]
    <2>1. Replaced(C, B, k, b, s)
      BY <1>1, WithIs DEF Wheel
    <2> QED BY <2>1 DEF Replaced
  <1>3. \A l \in Levels : \A c \in Buckets(l) : Distinct(C[l][c]) /\ ToSet(C[l][c]) = ToSet(B[l][c]) \ X
    <2> TAKE l \in Levels
    <2> TAKE c \in Buckets(l)
    <2>1. CASE l = k /\ c = b
      BY <1>2, <2>1
    <2>2. CASE l # k \/ c # b
      <3>1. C[l][c] = B[l][c]
        BY <1>2, <2>2
      <3>2. \A n \in X : n \notin ToSet(B[l][c])
        BY <2>2 DEF Wheel
      <3> QED BY <3>1, <3>2 DEF Wheel
    <2> QED BY <2>1, <2>2
  <1>4. \A l \in Levels : \A c \in Buckets(l) : ToSet(C[l][c]) \subseteq W \ X
    BY <1>3 DEF Wheel
  <1>5. ASSUME NEW i \in Levels, NEW a \in Buckets(i), NEW l \in Levels, NEW c \in Buckets(l), NEW n \in W \ X,
               n \in ToSet(C[i][a]), n \in ToSet(C[l][c])
        PROVE  i = l /\ a = c
    <2>1. n \in ToSet(B[i][a]) /\ n \in ToSet(B[l][c]) /\ n \in W
      BY <1>3, <1>5
    <2> QED BY <2>1 DEF Wheel
  <1>6. ASSUME NEW n \in W \ X PROVE \E l \in Levels : \E c \in Buckets(l) : n \in ToSet(C[l][c])
    <2>1. PICK l \in Levels : \E c \in Buckets(l) : n \in ToSet(B[l][c])
      BY DEF Wheel
    <2> QED BY <1>3, <2>1
  <1>7. Wheel(C, W \ X)
    BY <1>2, <1>3, <1>4, <1>5, <1>6 DEF Wheel
  <1> QED BY <1>1, <1>7

\* A timer is put in front of a bucket.
LEMMA WheelPush ==
    ASSUME NEW B, NEW W, Wheel(B, W), NEW k \in Levels, NEW b \in Buckets(k), NEW n \in TNodes, n \notin W
    PROVE  Wheel(With(B, k, b, <<n>> \o B[k][b]), W \cup {n})
  <1>0. B[k][b] \in Seq(TNodes)
    BY DEF Wheel, IsWheel
  <1>1. PICK s : s = <<n>> \o B[k][b]
    OBVIOUS
  <1>2. s \in Seq(TNodes) /\ ToSet(s) = ToSet(B[k][b]) \cup {n} /\ Distinct(s)
    <2>1. Distinct(B[k][b]) /\ n \notin ToSet(B[k][b])
      BY DEF Wheel
    <2> QED BY <1>0, <1>1, <2>1, PushSet
  <1>3. PICK C : C = With(B, k, b, s)
    OBVIOUS
  <1>4. /\ IsWheel(C) /\ C[k][b] = s
        /\ \A l \in Levels : \A c \in Buckets(l) : l # k \/ c # b => C[l][c] = B[l][c]
    <2>1. Replaced(C, B, k, b, s)
      BY <1>2, <1>3, WithIs DEF Wheel
    <2> QED BY <2>1 DEF Replaced
  <1>5. \A l \in Levels : \A c \in Buckets(l) :
          Distinct(C[l][c]) /\ ToSet(C[l][c]) = ToSet(B[l][c]) \cup (IF l = k /\ c = b THEN {n} ELSE {})
    <2> TAKE l \in Levels
    <2> TAKE c \in Buckets(l)
    <2>1. CASE l = k /\ c = b
      BY <1>2, <1>4, <2>1
    <2>2. CASE ~(l = k /\ c = b)
      <3>1. C[l][c] = B[l][c]
        BY <1>4, <2>2
      <3> QED BY <2>2, <3>1 DEF Wheel
    <2> QED BY <2>1, <2>2
  <1>6. \A l \in Levels : \A c \in Buckets(l) : ToSet(C[l][c]) \subseteq W \cup {n}
    BY <1>5 DEF Wheel
  <1>7. ASSUME NEW i \in Levels, NEW a \in Buckets(i), NEW l \in Levels, NEW c \in Buckets(l), NEW x \in W \cup {n},
               x \in ToSet(C[i][a]), x \in ToSet(C[l][c])
        PROVE  i = l /\ a = c
    <2>1. \A j \in Levels : \A d \in Buckets(j) : n \notin ToSet(B[j][d])
      BY DEF Wheel
    <2>2. CASE x = n
      BY <1>5, <1>7, <2>1, <2>2
    <2>3. CASE x # n
      <3>1. x \in ToSet(B[i][a]) /\ x \in ToSet(B[l][c]) /\ x \in W
        BY <1>5, <1>7, <2>3
      <3> QED BY <3>1 DEF Wheel
    <2> QED BY <2>2, <2>3
  <1>8. ASSUME NEW x \in W \cup {n} PROVE \E l \in Levels : \E c \in Buckets(l) : x \in ToSet(C[l][c])
    <2>1. CASE x = n
      BY <1>5, <2>1
    <2>2. CASE x # n
      <3>1. PICK l \in Levels : \E c \in Buckets(l) : x \in ToSet(B[l][c])
        BY <2>2 DEF Wheel
      <3> QED BY <1>5, <3>1
    <2> QED BY <2>1, <2>2
  <1>9. Wheel(C, W \cup {n})
    BY <1>4, <1>5, <1>6, <1>7, <1>8 DEF Wheel
  <1> QED BY <1>1, <1>3, <1>9
-----------------------------------------------------------------------------
\* z is y with timer n moved from bucket b of level k + 1 to bucket v of level k.
MovedOne(y, z, k, b, n, v) ==
    /\ n \in ToSet(y[k + 1][b]) /\ z[k + 1][b] = Tail(y[k + 1][b])
    /\ ToSet(z[k][v]) = ToSet(y[k][v]) \cup {n}
    /\ \A l \in Levels : \A c \in Buckets(l) :
         ~(l = k + 1 /\ c = b) /\ ~(l = k /\ c = v) => z[l][c] = y[l][c]

\* One timer moves down a level.
LEMMA MoveFirstIs ==
    ASSUME NEW y, NEW W, Wheel(y, W), NEW k \in 1..(Top - 1), NEW b \in Buckets(k + 1), y[k + 1][b] # <<>>,
           NEW n, n = Head(y[k + 1][b]), NEW v \in Buckets(k), v = MigrateIndex(n, k),
           NEW z, z = MoveFirst(y, k, b)
    PROVE  Wheel(z, W) /\ MovedOne(y, z, k, b, n, v)
  <1>0. Top \in Nat /\ Levels = 1..Top /\ k \in Levels /\ k + 1 \in Levels /\ k # k + 1
    BY TicksAre DEF Levels, Top
  <1>1. PICK s : s = y[k + 1][b] /\ s \in Seq(TNodes) /\ Distinct(s) /\ s # <<>> /\ ToSet(s) \subseteq W
    BY <1>0 DEF Wheel, IsWheel
  <1>2. /\ Tail(s) \in Seq(TNodes) /\ ToSet(Tail(s)) = ToSet(s) \ {n}
        /\ Distinct(Tail(s)) /\ n \in ToSet(s)
    BY <1>1, TailSet
  <1>3. n \in TNodes
    BY <1>1, <1>2 DEF ToSet
  <1>4. PICK x : x = With(y, k + 1, b, Tail(s))
    OBVIOUS
  <1>5. /\ IsWheel(x) /\ x[k + 1][b] = Tail(s)
        /\ \A l \in Levels : \A c \in Buckets(l) : l # k + 1 \/ c # b => x[l][c] = y[l][c]
    <2>1. IsWheel(y)
      BY DEF Wheel
    <2>2. Replaced(x, y, k + 1, b, Tail(s))
      BY <1>0, <1>2, <1>4, <2>1, WithIs, Zenon
    <2> QED BY <2>2 DEF Replaced
  <1>6. Wheel(x, W \ {n})
    BY <1>0, <1>1, <1>2, <1>4, WheelDrop
  <1>7. x[k][v] = y[k][v]
    BY <1>0, <1>5
  <1>8. PICK u : u = With(x, k, v, <<n>> \o x[k][v])
    OBVIOUS
  <1>9. Wheel(u, (W \ {n}) \cup {n})
    BY <1>0, <1>3, <1>6, <1>8, WheelPush
  <1>10. Wheel(u, W)
    <2>1. (W \ {n}) \cup {n} = W
      BY <1>1, <1>2
    <2> QED BY <1>9, <2>1
  <1>11. x[k][v] \in Seq(TNodes) /\ <<n>> \o x[k][v] \in Seq(TNodes)
         /\ ToSet(<<n>> \o x[k][v]) = ToSet(x[k][v]) \cup {n}
    <2>1. x[k][v] \in Seq(TNodes)
      BY <1>0, <1>5 DEF IsWheel
    <2> QED BY <1>3, <2>1, PushSet
  <1>12. /\ u[k][v] = <<n>> \o x[k][v]
         /\ \A l \in Levels : \A c \in Buckets(l) : l # k \/ c # v => u[l][c] = x[l][c]
    <2>1. Replaced(u, x, k, v, <<n>> \o x[k][v])
      BY <1>0, <1>5, <1>8, <1>11, WithIs, Zenon
    <2> QED BY <2>1 DEF Replaced
  <1>13. z = u
    <2>1. DOMAIN y = Levels /\ DOMAIN x = Levels
      BY <1>5 DEF Wheel, IsWheel
    <2>2. z = [y EXCEPT ![k] = [y[k] EXCEPT ![v] = <<n>> \o @], ![k + 1] = [y[k + 1] EXCEPT ![b] = Tail(@)]]
      BY <1>0, <2>1 DEF MoveFirst
    <2>3. x = [y EXCEPT ![k + 1] = [y[k + 1] EXCEPT ![b] = Tail(s)]]
      BY <1>4 DEF With
    <2>4. u = [x EXCEPT ![k] = [x[k] EXCEPT ![v] = <<n>> \o x[k][v]]]
      BY <1>8 DEF With
    <2>5. x[k] = y[k]
      BY <1>0, <2>1, <2>3
    <2>6. z[k] = u[k]
      BY <1>0, <2>1, <2>2, <2>4, <2>5
    <2>7. z[k + 1] = u[k + 1]
      BY <1>0, <1>1, <2>1, <2>2, <2>3, <2>4
    <2>8. \A l \in Levels : l # k /\ l # k + 1 => z[l] = y[l] /\ u[l] = y[l]
      BY <1>0, <2>1, <2>2, <2>3, <2>4
    <2>9. z = [l \in Levels |-> z[l]] /\ u = [l \in Levels |-> u[l]]
      BY <2>1, <2>2, <2>4
    <2>10. \A l \in Levels : z[l] = u[l]
      BY <2>6, <2>7, <2>8
    <2> QED BY <2>9, <2>10
  <1>14. u[k + 1][b] = Tail(s)
    BY <1>0, <1>5, <1>12
  <1>15. ToSet(u[k][v]) = ToSet(y[k][v]) \cup {n}
    BY <1>7, <1>11, <1>12
  <1>16. ASSUME NEW l \in Levels, NEW c \in Buckets(l), ~(l = k + 1 /\ c = b), ~(l = k /\ c = v)
         PROVE  u[l][c] = y[l][c]
    BY <1>5, <1>12, <1>16
  <1>17. MovedOne(y, u, k, b, n, v)
    BY <1>1, <1>2, <1>14, <1>15, <1>16 DEF MovedOne
  <1> QED BY <1>10, <1>13, <1>17

\* After the first moves of Migrate.
IsMoved(F, s, k) ==
    /\ F[0] = s.bucket
    /\ \A i \in 1..Len(s.bucket[k + 1][s.pt[k + 1]]) : F[i] = MoveFirst(F[i - 1], k, s.pt[k + 1])
    /\ Migrate(s, k) = [s EXCEPT !.bucket = F[Len(s.bucket[k + 1][s.pt[k + 1]])]]

\* The recursion that defines Migrate has a solution.
LEMMA MovedExists ==
    ASSUME NEW s, NEW k, Len(s.bucket[k + 1][s.pt[k + 1]]) \in Nat
    PROVE  \E F : IsMoved(F, s, k)
  <1> DEFINE B == s.pt[k + 1]
  <1> DEFINE N == Len(s.bucket[k + 1][B])
  <1> DEFINE Rec(f, n) == [i \in 0..n |-> IF i = 0 THEN s.bucket ELSE MoveFirst(f[i - 1], k, B)]
  <1>0. N \in Nat
    OBVIOUS
  <1> HIDE DEF N, B
  <1>1. PICK T : T = {n \in 0..N : \E f : f = Rec(f, n)}
    OBVIOUS
  <1>2. 0 \in T
    <2>1. PICK f : f = [i \in 0..0 |-> s.bucket]
      OBVIOUS
    <2>2. f = Rec(f, 0)
      BY <2>1
    <2>3. 0 \in 0..N
      BY <1>0
    <2> HIDE DEF Rec
    <2> QED BY <2>2, <2>3, <1>1
  <1>3. ASSUME NEW j \in 1..N, j - 1 \in T PROVE j \in T
    <2>1. PICK f : f = Rec(f, j - 1)
      BY <1>1, <1>3
    <2>2. PICK r : r = MoveFirst(f[j - 1], k, B)
      OBVIOUS
    <2>3. PICK g : g = [i \in 0..j |-> IF i = j THEN r ELSE f[i]]
      OBVIOUS
    <2>4. \A i \in 0..j : g[i] = IF i = 0 THEN s.bucket ELSE MoveFirst(g[i - 1], k, B)
      <3> TAKE i \in 0..j
      <3>1. j \in Nat /\ j >= 1
        BY <1>0
      <3>2. CASE i = 0
        BY <2>1, <2>3, <3>1, <3>2
      <3>3. CASE i # 0 /\ i # j
        <4>1. i \in 0..(j - 1) /\ i - 1 \in 0..j /\ i - 1 # j
          BY <3>1, <3>3
        <4>2. g[i] = f[i] /\ g[i - 1] = f[i - 1]
          BY <2>3, <3>3, <4>1
        <4>3. f[i] = MoveFirst(f[i - 1], k, B)
          BY <2>1, <3>3, <4>1
        <4> QED BY <3>3, <4>2, <4>3
      <3>4. CASE i = j
        <4>1. j - 1 \in 0..j /\ j - 1 # j
          BY <3>1
        <4>2. g[j] = r /\ g[j - 1] = f[j - 1]
          BY <2>3, <3>4, <4>1
        <4> QED BY <2>2, <3>1, <3>4, <4>2
      <3> QED BY <3>2, <3>3, <3>4
    <2>5. g = [i \in 0..j |-> g[i]]
      BY <2>3
    <2>6. g = Rec(g, j)
      BY <2>4, <2>5
    <2>7. j \in 0..N
      BY <1>0
    <2> HIDE DEF Rec
    <2> QED BY <1>1, <2>6, <2>7
  <1>4. N \in T
    <2>1. N \in 0..N
      BY <1>0
    <2> HIDE DEF Rec
    <2> QED BY <1>0, <1>2, <1>3, <2>1, UpTo
  <1>5. \E f : f = Rec(f, N)
    BY <1>1, <1>4
  <1> DEFINE F == CHOOSE f : f = Rec(f, N)
  <1>6. F = Rec(F, N)
    BY <1>5
  <1>7. Migrate(s, k) = [s EXCEPT !.bucket = F[N]]
    BY DEF Migrate, N, B
  <1> HIDE DEF F
  <1>8. F[0] = s.bucket /\ \A n \in 1..N : F[n] = MoveFirst(F[n - 1], k, B)
    BY <1>0, <1>6
  <1> QED BY <1>7, <1>8 DEF IsMoved, N, B

\* z is y with the timers of bucket b of level k + 1 moved to level k.
MovedDown(y, z, k, b) ==
    /\ z[k + 1][b] = <<>>
    /\ \A l \in Levels : \A c \in Buckets(l) : l # k /\ ~(l = k + 1 /\ c = b) => z[l][c] = y[l][c]
    /\ \A c \in Buckets(k) : \A n \in ToSet(z[k][c]) :
         n \in ToSet(y[k][c]) \/ (n \in ToSet(y[k + 1][b]) /\ MigrateIndex(n, k) = c)

\* What Migrate does with the wheel.
LEMMA Migrates ==
    ASSUME NEW s, NEW W, Wheel(s.bucket, W), NEW k \in 1..(Top - 1), s.pt[k + 1] \in Buckets(k + 1),
           \A n \in ToSet(s.bucket[k + 1][s.pt[k + 1]]) : MigrateIndex(n, k) \in Buckets(k)
    PROVE  \E z : /\ Migrate(s, k) = [s EXCEPT !.bucket = z]
                  /\ Wheel(z, W) /\ MovedDown(s.bucket, z, k, s.pt[k + 1])
  <1>0. Top \in Nat /\ Levels = 1..Top /\ k \in Levels /\ k + 1 \in Levels /\ k # k + 1
    BY TicksAre DEF Levels, Top
  <1>1. PICK y, b : y = s.bucket /\ b = s.pt[k + 1]
    OBVIOUS
  <1>2. b \in Buckets(k + 1) /\ Wheel(y, W) /\ y[k + 1][b] \in Seq(TNodes)
        /\ \A n \in ToSet(y[k + 1][b]) : MigrateIndex(n, k) \in Buckets(k)
    BY <1>0, <1>1 DEF Wheel, IsWheel
  <1>3. PICK N \in Nat : N = Len(y[k + 1][b])
    BY <1>2, LenProperties
  <1>4. PICK F : IsMoved(F, s, k)
    BY <1>1, <1>3, MovedExists
  <1>5. /\ F[0] = y /\ \A i \in 1..N : F[i] = MoveFirst(F[i - 1], k, b)
        /\ Migrate(s, k) = [s EXCEPT !.bucket = F[N]]
    BY <1>1, <1>3, <1>4 DEF IsMoved
  <1> DEFINE Ok(z, i) ==
        /\ Wheel(z, W) /\ Len(z[k + 1][b]) = N - i /\ ToSet(z[k + 1][b]) \subseteq ToSet(y[k + 1][b])
        /\ \A l \in Levels : \A c \in Buckets(l) : l # k /\ ~(l = k + 1 /\ c = b) => z[l][c] = y[l][c]
        /\ \A c \in Buckets(k) : \A n \in ToSet(z[k][c]) :
             n \in ToSet(y[k][c]) \/ (n \in ToSet(y[k + 1][b]) /\ MigrateIndex(n, k) = c)
  <1>6. PICK T : T = {i \in 0..N : Ok(F[i], i)}
    OBVIOUS
  <1>7. 0 \in T
    <2>1. Ok(y, 0)
      BY <1>2, <1>3
    <2>2. 0 \in 0..N
      BY <1>3
    <2> HIDE DEF Ok
    <2> QED BY <1>5, <1>6, <2>1, <2>2
  <1>8. ASSUME NEW i \in 1..N, i - 1 \in T PROVE i \in T
    <2>1. PICK x : x = F[i - 1] /\ Ok(x, i - 1)
      <3> HIDE DEF Ok
      <3> QED BY <1>6, <1>8
    <2>2. PICK t : t = x[k + 1][b] /\ t \in Seq(TNodes) /\ Len(t) = N - (i - 1) /\ Distinct(t)
                   /\ ToSet(t) \subseteq ToSet(y[k + 1][b])
      <3>1. Wheel(x, W) /\ Len(x[k + 1][b]) = N - (i - 1) /\ ToSet(x[k + 1][b]) \subseteq ToSet(y[k + 1][b])
        BY <2>1
      <3>2. x[k + 1][b] \in Seq(TNodes) /\ Distinct(x[k + 1][b])
        BY <1>0, <1>2, <3>1 DEF Wheel, IsWheel
      <3> QED BY <3>1, <3>2
    <2>3. t # <<>>
      BY <1>3, <2>2
    <2>4. PICK n : n = Head(t)
      OBVIOUS
    <2>5. /\ n \in ToSet(t) /\ Len(Tail(t)) = Len(t) - 1 /\ ToSet(Tail(t)) \subseteq ToSet(t)
      <3>1. /\ Tail(t) \in Seq(TNodes) /\ ToSet(Tail(t)) = ToSet(t) \ {Head(t)}
            /\ Distinct(Tail(t)) /\ Len(Tail(t)) = Len(t) - 1 /\ Head(t) \in ToSet(t)
        BY <2>2, <2>3, TailSet
      <3> QED BY <2>4, <3>1
    <2>6. PICK v \in Buckets(k) : v = MigrateIndex(n, k)
      BY <1>2, <2>2, <2>5
    <2>7. PICK z : z = MoveFirst(x, k, b) /\ z = F[i]
      BY <1>5, <2>1
    <2>8. /\ Wheel(z, W)
          /\ n \in ToSet(x[k + 1][b]) /\ z[k + 1][b] = Tail(x[k + 1][b])
          /\ ToSet(z[k][v]) = ToSet(x[k][v]) \cup {n}
          /\ \A l \in Levels : \A c \in Buckets(l) :
               ~(l = k + 1 /\ c = b) /\ ~(l = k /\ c = v) => z[l][c] = x[l][c]
      <3>1. Wheel(x, W)
        BY <2>1
      <3>2. Wheel(z, W) /\ MovedOne(x, z, k, b, n, v)
        BY <1>2, <2>2, <2>3, <2>4, <2>6, <2>7, <3>1, MoveFirstIs, Zenon
      <3> QED BY <3>2 DEF MovedOne
    <2>9. Len(z[k + 1][b]) = N - i /\ ToSet(z[k + 1][b]) \subseteq ToSet(y[k + 1][b])
      <3>1. z[k + 1][b] = Tail(t)
        BY <2>2, <2>8
      <3>2. Len(Tail(t)) = N - i
        <4>1. (N - (i - 1)) - 1 = N - i
          BY <1>3
        <4> QED BY <2>2, <2>5, <4>1, Zenon
      <3> QED BY <2>2, <2>5, <3>1, <3>2
    <2>10. \A l \in Levels : \A c \in Buckets(l) : l # k /\ ~(l = k + 1 /\ c = b) => z[l][c] = y[l][c]
      BY <2>1, <2>8
    <2>11. ASSUME NEW c \in Buckets(k), NEW a \in ToSet(z[k][c])
           PROVE  a \in ToSet(y[k][c]) \/ (a \in ToSet(y[k + 1][b]) /\ MigrateIndex(a, k) = c)
      <3>1. CASE c = v /\ a = n
        BY <2>2, <2>6, <2>8, <3>1
      <3>2. CASE ~(c = v /\ a = n)
        <4>1. a \in ToSet(x[k][c])
          BY <1>0, <2>8, <3>2
        <4> QED BY <2>1, <4>1
      <3> QED BY <3>1, <3>2
    <2>12. Ok(z, i)
      BY <2>8, <2>9, <2>10, <2>11
    <2>13. i \in 0..N
      BY <1>3
    <2> HIDE DEF Ok
    <2> QED BY <1>6, <2>7, <2>12, <2>13
  <1>9. Ok(F[N], N)
    <2>1. N \in 0..N
      BY <1>3
    <2> HIDE DEF Ok
    <2>2. N \in T
      BY <1>3, <1>7, <1>8, <2>1, UpTo
    <2> QED BY <1>6, <2>2
  <1>10. F[N][k + 1][b] = <<>>
    <2>1. F[N][k + 1][b] \in Seq(TNodes) /\ Len(F[N][k + 1][b]) = 0
      BY <1>0, <1>2, <1>3, <1>9 DEF Wheel, IsWheel
    <2> QED BY <2>1, EmptySeq
  <1>11. MovedDown(y, F[N], k, b)
    BY <1>9, <1>10 DEF MovedDown
  <1> QED BY <1>1, <1>5, <1>9, <1>11

\* What the levels and their numbers are.
LEMMA LevelFacts ==
    ASSUME NEW k \in 1..Top, NEW pt \in Pointers
    PROVE  /\ TBNum[k] \in Nat \ {0} /\ TBTicks[k - 1] \in Nat \ {0} /\ TBTicks[k] \in Nat \ {0}
           /\ TBTicks[k] = TBTicks[k - 1] * TBNum[k]
           /\ pt[k] \in Nat /\ Elapsed(pt)[k - 1] \in Nat /\ Elapsed(pt)[k] \in Nat
           /\ Elapsed(pt)[k] = Elapsed(pt)[k - 1] + pt[k] * TBTicks[k - 1]
  <1>0. Top \in Nat /\ k - 1 \in 0..Top /\ k \in 0..Top
    BY TicksAre
  <1>1. TBNum[k] \in Nat \ {0} /\ TBTicks[k - 1] \in Nat \ {0} /\ TBTicks[k] \in Nat \ {0}
        /\ TBTicks[k] = TBTicks[k - 1] * TBNum[k]
    BY <1>0, TicksAre
  <1>2. Elapsed(pt)[k - 1] \in Nat /\ Elapsed(pt)[k] \in Nat
        /\ Elapsed(pt)[k] = Elapsed(pt)[k - 1] + pt[k] * TBTicks[k - 1]
    BY <1>0, ElapsedIs
  <1>3. pt[k] \in Nat
    BY DEF Pointers, Levels, Top
  <1> QED BY <1>1, <1>2, <1>3

\* Where the pointer of level k stands when the levels below have gone on by a
\* tick: they have not gone round and it has not moved, or they have and it has.
Stepped(x, o, k) ==
    \/ x[k] = o[k] /\ Elapsed(x)[k - 1] = Elapsed(o)[k - 1] + 1
    \/ /\ Elapsed(x)[k - 1] = 0 /\ Elapsed(o)[k - 1] = TBTicks[k - 1] - 1
       /\ x[k] = IF k = Top THEN (o[k] + 1) % TBNum[k] ELSE o[k] + 1

\* A tick brings a bucket a tick nearer, unless its turn has come.
LEMMA ToGoNext ==
    ASSUME NEW x \in Pointers, NEW o \in Pointers, NEW k \in 1..Top, o[k] < TBNum[k], Stepped(x, o, k),
           NEW b \in Buckets(k), b = o[k] => Elapsed(x)[k - 1] # 0, NEW g \in Nat
    PROVE  g + 1 + ToGo(x, k, b) = g + ToGo(o, k, b)
  <1>1. PICK t \in Nat \ {0}, N \in Nat \ {0}, p \in Nat, q \in Nat, e \in Nat, f \in Nat :
            /\ t = TBTicks[k - 1] /\ N = TBNum[k] /\ p = x[k] /\ q = o[k]
            /\ e = Elapsed(x)[k - 1] /\ f = Elapsed(o)[k - 1]
    BY LevelFacts
  <1>2. b \in 0..(N - 1) /\ q < N
    BY <1>1 DEF Buckets
  <1>3. PICK A \in Int, C \in Int : A = Ahead(b, p, N) /\ C = Ahead(b, q, N)
    <2>1. Ahead(b, p, N) \in Int
      BY <1>2 DEF Ahead
    <2>2. Ahead(b, q, N) \in Int
      BY <1>2 DEF Ahead
    <2> QED BY <2>1, <2>2
  <1>4. PICK tA \in Int, tC \in Int : tA = t * A /\ tC = t * C
    OBVIOUS
  <1>5. ToGo(x, k, b) = t - e + tA /\ ToGo(o, k, b) = t - f + tC
    BY <1>1, <1>3, <1>4 DEF ToGo
  <1>6. CASE p = q /\ e = f + 1
    <2>1. tA = tC
      BY <1>3, <1>4, <1>6
    <2> QED BY <1>5, <1>6, <2>1
  <1>7. CASE e = 0 /\ f = t - 1 /\ p = IF k = Top THEN (q + 1) % N ELSE q + 1
    <2>0. p = IF k = Top /\ q + 1 = N THEN 0 ELSE q + 1
      <3>1. PICK z \in Nat : z = q + 1 /\ z <= N /\ z < 2 * N
        BY <1>2
      <3>2. z % N = IF z < N THEN z ELSE z - N
        BY <3>1, RingMod
      <3> QED BY <1>7, <3>1, <3>2
    <2>1. b # q
      BY <1>1, <1>7
    <2>2. C = A + 1
      BY <1>2, <1>3, <2>0, <2>1 DEF Ahead
    <2>3. tC = tA + t
      <3>1. t * (A + 1) = t * A + t
        BY SMT
      <3> QED BY <1>4, <2>2, <3>1
    <2> QED BY <1>5, <1>7, <2>3
  <1> QED BY <1>1, <1>6, <1>7 DEF Stepped
\* A bucket's turn comes after a tick at least, and in the next tick when its level
\* points to it and the levels below go round.
LEMMA ToGoLeast ==
    ASSUME NEW o \in Pointers, NEW k \in 1..Top, Elapsed(o)[k - 1] < TBTicks[k - 1], o[k] < TBNum[k],
           NEW b \in Buckets(k)
    PROVE  /\ ToGo(o, k, b) \in Nat \ {0}
           /\ b = o[k] /\ Elapsed(o)[k - 1] = TBTicks[k - 1] - 1 => ToGo(o, k, b) = 1
  <1>1. PICK t \in Nat \ {0}, N \in Nat \ {0}, q \in Nat, f \in Nat :
            t = TBTicks[k - 1] /\ N = TBNum[k] /\ q = o[k] /\ f = Elapsed(o)[k - 1]
    BY LevelFacts
  <1>2. b \in 0..(N - 1) /\ q < N /\ f < t
    BY <1>1 DEF Buckets
  <1>3. PICK C \in Nat : C = Ahead(b, q, N) /\ (b = q => C = 0)
    BY <1>2 DEF Ahead
  <1>4. PICK tC \in Nat : tC = t * C /\ (C = 0 => tC = 0)
    <2>1. t * C \in Nat /\ (C = 0 => t * C = 0)
      BY SMT
    <2> QED BY <2>1
  <1>5. ToGo(o, k, b) = t - f + tC
    BY <1>1, <1>3, <1>4 DEF ToGo
  <1> QED BY <1>1, <1>2, <1>3, <1>4, <1>5

\* When the levels below are at their beginning, bucket b of a level that begins
\* comes after b more rounds of theirs; so it is with the pointer at its end.
LEMMA ToGoRound ==
    ASSUME NEW x \in Pointers, NEW k \in 1..Top, Elapsed(x)[k - 1] = 0, x[k] = 0 \/ x[k] = TBNum[k],
           NEW b \in Buckets(k)
    PROVE  ToGo(x, k, b) = TBTicks[k - 1] * (1 + b)
  <1>1. PICK t \in Nat \ {0}, N \in Nat \ {0} : t = TBTicks[k - 1] /\ N = TBNum[k]
    BY LevelFacts
  <1>2. b \in 0..(N - 1)
    BY <1>1 DEF Buckets
  <1>3. Ahead(b, x[k], N) = b
    BY <1>1, <1>2 DEF Ahead
  <1>4. ToGo(x, k, b) = t - 0 + t * b
    BY <1>1, <1>3 DEF ToGo
  <1>5. t - 0 + t * b = t * (1 + b)
    BY <1>2, SMT
  <1> QED BY <1>1, <1>4, <1>5

\* The pointers of the levels 1 to k agree.
Alike(x, z, k) == \A j \in 1..k : x[j] = z[j]

\* It depends on the pointers of the levels up to k only.
LEMMA ToGoSame ==
    ASSUME NEW x \in Pointers, NEW z \in Pointers, NEW k \in 1..Top, Alike(x, z, k), NEW b
    PROVE  ToGo(x, k, b) = ToGo(z, k, b)
  <1>0. Top \in Nat /\ k - 1 \in 0..Top /\ k - 1 \in 0..(k - 1) /\ k \in 1..k /\ \A j \in 1..(k - 1) : j \in 1..k
    BY TicksAre
  <1>1. \A j \in 1..(k - 1) : x[j] = z[j]
    BY <1>0 DEF Alike
  <1>2. Elapsed(x)[k - 1] = Elapsed(z)[k - 1]
    BY <1>0, <1>1, ElapsedSame
  <1>3. x[k] = z[k]
    BY <1>0 DEF Alike
  <1> QED BY <1>2, <1>3, Zenon DEF ToGo

-----------------------------------------------------------------------------
\* The timers of level k fit their buckets when g ticks have been handled.
LevelFits(y, k, pt, g) ==
    \A b \in Buckets(k) : \A n \in ToSet(y[k][b]) : Fits(tmExpire[n], k, g + ToGo(pt, k, b))

\* The turn from the pointers o in tick g + 1, when level k has been handled.
Stage(x, y, o, k, g, W) ==
    /\ x \in Pointers /\ Wheel(y, W)
    /\ \A j \in 1..k : x[j] < TBNum[j]
    /\ \A j \in (k + 2)..Top : x[j] = o[j]
    /\ Stepped(x, o, k + 1)
    /\ \A j \in 1..(k + 1) : LevelFits(y, j, x, g + 1)
    /\ \A j \in (k + 2)..Top : LevelFits(y, j, o, g)

\* Timers that wait for a bucket whose turn has not come fit as before.
LEMMA NextFits ==
    ASSUME NEW x \in Pointers, NEW o \in Pointers, NEW k \in 1..Top, o[k] < TBNum[k], Stepped(x, o, k),
           NEW y, NEW z, NEW g \in Nat, LevelFits(y, k, o, g),
           Elapsed(x)[k - 1] = 0 => z[k][o[k]] = <<>>,
           \A b \in Buckets(k) : z[k][b] = y[k][b] \/ z[k][b] = <<>>
    PROVE  LevelFits(z, k, x, g + 1)
  <1> SUFFICES ASSUME NEW b \in Buckets(k), NEW n \in ToSet(z[k][b])
               PROVE  Fits(tmExpire[n], k, g + 1 + ToGo(x, k, b))
    BY DEF LevelFits
  <1>1. ToSet(<<>>) = {}
    BY DEF ToSet
  <1>2. z[k][b] = y[k][b] /\ (b = o[k] => Elapsed(x)[k - 1] # 0)
    BY <1>1
  <1>3. g + 1 + ToGo(x, k, b) = g + ToGo(o, k, b)
    BY <1>2, ToGoNext
  <1>4. Fits(tmExpire[n], k, g + ToGo(o, k, b))
    BY <1>2 DEF LevelFits
  <1> QED BY <1>3, <1>4, Zenon
-----------------------------------------------------------------------------
\* What GetTimer works on.
WheelAt(x, y, p, f) == [pt |-> x, bucket |-> y, pool |-> p, fired |-> f]

\* The nodes of a wheel are nodes.
LEMMA WheelNodes ==
    ASSUME NEW y, NEW W, Wheel(y, W), NEW k \in Levels, NEW b \in Buckets(k), NEW n \in ToSet(y[k][b])
    PROVE  n \in TNodes
  <1>1. y[k][b] \in Seq(TNodes)
    BY DEF Wheel, IsWheel
  <1> QED BY <1>1 DEF ToSet

\* A level whose pointer has not gone round stays as it is.
LEMMA LevelStays ==
    ASSUME NEW o, PointersOk(o), NEW x, NEW y, NEW W, NEW g \in Nat, NEW k \in 1..(Top - 1),
           Stage(x, y, o, k - 1, g, W), x[k] # TBNum[k]
    PROVE  Stage(x, y, o, k, g, W)
  <1>0. /\ Top \in Nat /\ Levels = 1..Top /\ k \in 1..Top /\ k + 1 \in 1..Top /\ k # Top /\ (k - 1) + 1 = k
        /\ (k - 1) + 2 = k + 1 /\ k \in Nat /\ k + 1 - 1 = k
    <2>1. Top \in Nat /\ Top >= 3
      BY TicksAre
    <2>2. Levels = 1..Top
      BY DEF Levels, Top
    <2> QED BY <2>1, <2>2
  <1>1. /\ x \in Pointers /\ Wheel(y, W) /\ o \in Pointers /\ \A j \in 1..Top : o[j] < TBNum[j]
        /\ \A j \in 1..(k - 1) : x[j] < TBNum[j]
        /\ \A j \in (k + 1)..Top : x[j] = o[j]
        /\ Stepped(x, o, k)
        /\ \A j \in 1..k : LevelFits(y, j, x, g + 1)
        /\ \A j \in (k + 1)..Top : LevelFits(y, j, o, g)
    BY <1>0 DEF Stage, PointersOk
  <1>2. PICK t \in Nat \ {0}, N \in Nat \ {0}, p \in Nat, q \in Nat, e \in Nat, f \in Nat, e2 \in Nat, f2 \in Nat :
            /\ t = TBTicks[k - 1] /\ N = TBNum[k] /\ p = x[k] /\ q = o[k]
            /\ e = Elapsed(x)[k - 1] /\ f = Elapsed(o)[k - 1] /\ e2 = Elapsed(x)[k] /\ f2 = Elapsed(o)[k]
    <2>1. /\ TBNum[k] \in Nat \ {0} /\ TBTicks[k - 1] \in Nat \ {0}
          /\ x[k] \in Nat /\ Elapsed(x)[k - 1] \in Nat /\ Elapsed(x)[k] \in Nat
      BY <1>0, <1>1, LevelFacts
    <2>2. o[k] \in Nat /\ Elapsed(o)[k - 1] \in Nat /\ Elapsed(o)[k] \in Nat
      BY <1>0, <1>1, LevelFacts
    <2> QED BY <2>1, <2>2
  <1>20. e2 = e + p * t /\ f2 = f + q * t
    <2>1. /\ Elapsed(x)[k] = Elapsed(x)[k - 1] + x[k] * TBTicks[k - 1]
          /\ Elapsed(o)[k] = Elapsed(o)[k - 1] + o[k] * TBTicks[k - 1]
      BY <1>0, <1>1, LevelFacts
    <2> QED BY <1>2, <2>1
  <1>3. (p = q /\ e = f + 1) \/ (e = 0 /\ f = t - 1 /\ p = q + 1)
    BY <1>0, <1>1, <1>2 DEF Stepped
  <1>4. p < N
    <2>1. q < N /\ p # N
      BY <1>0, <1>1, <1>2
    <2> QED BY <1>3, <2>1
  <1>5. e2 = f2 + 1
    <2>1. PICK pt \in Int, qt \in Int : pt = p * t /\ qt = q * t
      OBVIOUS
    <2>2. p = q + 1 => pt = qt + t
      <3>1. (q + 1) * t = q * t + t
        BY SMT
      <3> QED BY <2>1, <3>1
    <2>3. p = q => pt = qt
      BY <2>1
    <2> QED BY <1>3, <1>20, <2>1, <2>2, <2>3
  <1>6. Stepped(x, o, k + 1)
    <2>1. x[k + 1] = o[k + 1]
      BY <1>0, <1>1
    <2>2. Elapsed(x)[k + 1 - 1] = Elapsed(o)[k + 1 - 1] + 1
      BY <1>0, <1>2, <1>5
    <2> QED BY <2>1, <2>2 DEF Stepped
  <1>7. \A j \in 1..k : x[j] < TBNum[j]
    <2> TAKE j \in 1..k
    <2>1. j = k \/ j \in 1..(k - 1)
      BY <1>0
    <2> QED BY <1>1, <1>2, <1>4, <2>1
  <1>8. LevelFits(y, k + 1, x, g + 1)
    <2>1. LevelFits(y, k + 1, o, g)
      BY <1>0, <1>1
    <2>2. Elapsed(x)[k + 1 - 1] # 0
      <3>1. Elapsed(x)[k] # 0
        BY <1>2, <1>5
      <3> QED BY <1>0, <3>1
    <2>3. o[k + 1] < TBNum[k + 1]
      BY <1>0, <1>1
    <2> QED BY <1>0, <1>1, <1>6, <2>1, <2>2, <2>3, NextFits
  <1>9. \A j \in 1..(k + 1) : LevelFits(y, j, x, g + 1)
    <2> TAKE j \in 1..(k + 1)
    <2>1. j = k + 1 \/ j \in 1..k
      BY <1>0
    <2> QED BY <1>1, <1>8, <2>1
  <1>10. /\ \A j \in (k + 2)..Top : x[j] = o[j]
         /\ \A j \in (k + 2)..Top : LevelFits(y, j, o, g)
    <2>1. \A j \in (k + 2)..Top : j \in (k + 1)..Top
      BY <1>0
    <2> QED BY <1>1, <2>1
  <1> QED BY <1>1, <1>6, <1>7, <1>9, <1>10 DEF Stage

\* The pointers when the one of level k is reset and the next one goes on.
GoneRound(x, k) ==
    [x EXCEPT ![k] = 0, ![k + 1] = IF k + 1 = Len(TBNum) THEN (x[k + 1] + 1) % TBNum[k + 1] ELSE x[k + 1] + 1]

\* When the pointer of level k has gone round, the bucket of the next level that is
\* moved down has come to its turn.
LEMMA RoundDone ==
    ASSUME NEW o, PointersOk(o), NEW x, NEW y, NEW W, NEW g \in Nat, NEW k \in 1..(Top - 1),
           Stage(x, y, o, k - 1, g, W), x[k] = TBNum[k]
    PROVE  /\ Elapsed(x)[k - 1] = 0 /\ Elapsed(o)[k] = TBTicks[k] - 1
           /\ x[k + 1] = o[k + 1] /\ x[k + 1] \in Buckets(k + 1)
           /\ \A n \in ToSet(y[k + 1][x[k + 1]]) : Fits(tmExpire[n], k + 1, g + 1)
  <1>0. /\ Top \in Nat /\ Levels = 1..Top /\ k \in 1..Top /\ k + 1 \in 1..Top /\ k # Top /\ (k - 1) + 1 = k
        /\ (k - 1) + 2 = k + 1 /\ k \in Nat /\ k + 1 - 1 = k /\ k # k + 1 /\ k - 1 \in 0..Top
    <2>1. Top \in Nat /\ Top >= 3
      BY TicksAre
    <2>2. Levels = 1..Top
      BY DEF Levels, Top
    <2> QED BY <2>1, <2>2
  <1>1. /\ x \in Pointers /\ Wheel(y, W) /\ o \in Pointers /\ \A j \in 1..Top : o[j] < TBNum[j]
        /\ \A j \in 1..(k - 1) : x[j] < TBNum[j]
        /\ \A j \in (k + 1)..Top : x[j] = o[j]
        /\ Stepped(x, o, k)
        /\ \A j \in 1..k : LevelFits(y, j, x, g + 1)
        /\ \A j \in (k + 1)..Top : LevelFits(y, j, o, g)
    BY <1>0 DEF Stage, PointersOk
  <1>2. PICK t \in Nat \ {0}, N \in Nat \ {0}, q \in Nat, e \in Nat, f \in Nat, f2 \in Nat, t2 \in Nat \ {0} :
            /\ t = TBTicks[k - 1] /\ N = TBNum[k] /\ q = o[k] /\ t2 = TBTicks[k]
            /\ e = Elapsed(x)[k - 1] /\ f = Elapsed(o)[k - 1] /\ f2 = Elapsed(o)[k]
    <2>1. /\ TBNum[k] \in Nat \ {0} /\ TBTicks[k - 1] \in Nat \ {0} /\ TBTicks[k] \in Nat \ {0}
          /\ Elapsed(x)[k - 1] \in Nat
      BY <1>0, <1>1, LevelFacts
    <2>2. o[k] \in Nat /\ Elapsed(o)[k - 1] \in Nat /\ Elapsed(o)[k] \in Nat
      BY <1>0, <1>1, LevelFacts
    <2> QED BY <2>1, <2>2
  <1>20. t2 = t * N /\ f2 = f + q * t
    <2>1. /\ TBTicks[k] = TBTicks[k - 1] * TBNum[k]
          /\ Elapsed(o)[k] = Elapsed(o)[k - 1] + o[k] * TBTicks[k - 1]
      BY <1>0, <1>1, LevelFacts
    <2> QED BY <1>2, <2>1
  <1>3. e = 0 /\ f = t - 1 /\ N = q + 1
    <2>1. q < N
      BY <1>0, <1>1, <1>2
    <2> QED BY <1>0, <1>1, <1>2, <2>1 DEF Stepped
  <1>4. f2 = t2 - 1
    <2>1. t * (q + 1) = q * t + t
      BY SMT
    <2>2. PICK y1 \in Int : y1 = q * t
      OBVIOUS
    <2> QED BY <1>3, <1>20, <2>1, <2>2
  <1>5. PICK M \in Nat \ {0}, r \in Nat : M = TBNum[k + 1] /\ r = x[k + 1] /\ r = o[k + 1] /\ r < M
    <2>1. TBNum[k + 1] \in Nat \ {0} /\ o[k + 1] \in Nat
      BY <1>0, <1>1, LevelFacts
    <2> QED BY <1>0, <1>1, <2>1
  <1>6. r \in Buckets(k + 1)
    BY <1>5 DEF Buckets
  <1>7. ToGo(o, k + 1, r) = 1
    <2>1. Elapsed(o)[k + 1 - 1] < TBTicks[k + 1 - 1] /\ Elapsed(o)[k + 1 - 1] = TBTicks[k + 1 - 1] - 1
      <3>1. Elapsed(o)[k] < TBTicks[k] /\ Elapsed(o)[k] = TBTicks[k] - 1
        BY <1>2, <1>4
      <3> QED BY <1>0, <3>1
    <2> QED BY <1>0, <1>1, <1>5, <1>6, <2>1, ToGoLeast
  <1>8. ASSUME NEW n \in ToSet(y[k + 1][r]) PROVE Fits(tmExpire[n], k + 1, g + 1)
    <2>1. Fits(tmExpire[n], k + 1, g + ToGo(o, k + 1, r))
      BY <1>0, <1>1, <1>6 DEF LevelFits
    <2> QED BY <1>7, <2>1, Zenon
  <1> QED BY <1>2, <1>3, <1>4, <1>5, <1>6, <1>8

\* A level whose pointer has gone round begins again, and the next one moves a
\* bucket down.
LEMMA LevelTurns ==
    ASSUME NEW o, PointersOk(o), NEW x, NEW y, NEW W, NEW g \in Nat, NEW k \in 1..(Top - 1),
           Stage(x, y, o, k - 1, g, W), x[k] = TBNum[k],
           tmNow \in Nat, tmExpire \in [TNodes -> Nat], ClockIn(g + 1),
           NEW z, Wheel(z, W), MovedDown(y, z, k, x[k + 1]),
           NEW w, w = GoneRound(x, k)
    PROVE  Stage(w, z, o, k, g, W)
  <1>0. /\ Top \in Nat /\ Levels = 1..Top /\ k \in 1..Top /\ k + 1 \in 1..Top /\ k # Top /\ (k - 1) + 1 = k
        /\ (k - 1) + 2 = k + 1 /\ k \in Nat /\ k + 1 - 1 = k /\ k # k + 1 /\ k - 1 \in 0..Top
    <2>1. Top \in Nat /\ Top >= 3
      BY TicksAre
    <2>2. Levels = 1..Top
      BY DEF Levels, Top
    <2> QED BY <2>1, <2>2
  <1>1. /\ x \in Pointers /\ Wheel(y, W) /\ o \in Pointers /\ \A j \in 1..Top : o[j] < TBNum[j]
        /\ \A j \in 1..(k - 1) : x[j] < TBNum[j]
        /\ \A j \in (k + 1)..Top : x[j] = o[j]
        /\ Stepped(x, o, k)
        /\ \A j \in 1..k : LevelFits(y, j, x, g + 1)
        /\ \A j \in (k + 1)..Top : LevelFits(y, j, o, g)
    BY <1>0 DEF Stage, PointersOk
  <1>2. /\ Elapsed(x)[k - 1] = 0 /\ Elapsed(o)[k] = TBTicks[k] - 1
        /\ x[k + 1] = o[k + 1] /\ x[k + 1] \in Buckets(k + 1)
        /\ \A n \in ToSet(y[k + 1][x[k + 1]]) : Fits(tmExpire[n], k + 1, g + 1)
    BY RoundDone
  <1>3. PICK t \in Nat \ {0}, N \in Nat \ {0} : t = TBTicks[k - 1] /\ N = TBNum[k]
    BY <1>0, <1>1, LevelFacts
  <1>5. PICK M \in Nat \ {0}, r \in Nat : M = TBNum[k + 1] /\ r = x[k + 1] /\ r = o[k + 1] /\ r < M
    <2>1. TBNum[k + 1] \in Nat \ {0} /\ o[k + 1] \in Nat
      BY <1>0, <1>1, LevelFacts
    <2> QED BY <1>0, <1>1, <2>1
  <1>6. /\ w[k] = 0 /\ w[k + 1] = IF k + 1 = Top THEN (o[k + 1] + 1) % TBNum[k + 1] ELSE o[k + 1] + 1
        /\ \A j \in 1..Top : j # k /\ j # k + 1 => w[j] = x[j]
        /\ DOMAIN w = 1..Top
    BY <1>0, <1>1, <1>5 DEF Pointers, Top, GoneRound
  <1>7. w \in Pointers
    <2>1. w[k + 1] \in Nat
      <3>1. PICK u \in Nat : u = r + 1
        OBVIOUS
      <3>2. u % M \in Nat
        BY DivIs
      <3> QED BY <1>5, <1>6, <3>1, <3>2
    <2>2. \A j \in 1..Top : w[j] \in Nat
      <3> TAKE j \in 1..Top
      <3>1. x[j] \in Nat
        BY <1>0, <1>1 DEF Pointers
      <3>2. j = k \/ j = k + 1 \/ w[j] = x[j]
        BY <1>6
      <3>3. w[k] \in Nat
        BY <1>6
      <3> QED BY <2>1, <3>1, <3>2, <3>3
    <2>3. w = [j \in 1..Top |-> w[j]]
      BY <1>0, <1>1 DEF Pointers, GoneRound
    <2> QED BY <1>0, <2>2, <2>3 DEF Pointers
  <1>8. Elapsed(w)[k - 1] = 0 /\ Elapsed(w)[k] = 0
    <2>1. \A j \in 1..(k - 1) : w[j] = x[j]
      BY <1>0, <1>6
    <2>2. k - 1 \in 0..(k - 1)
      BY <1>0
    <2>20. Elapsed(w)[k - 1] = Elapsed(x)[k - 1]
      <3>1. \A i \in 0..(k - 1) : Elapsed(w)[i] = Elapsed(x)[i]
        BY <1>0, <1>1, <1>7, <2>1, ElapsedSame, Zenon
      <3> QED BY <2>2, <3>1
    <2>3. Elapsed(w)[k - 1] = 0
      BY <1>2, <2>20
    <2>4. Elapsed(w)[k] = Elapsed(w)[k - 1] + w[k] * TBTicks[k - 1]
      BY <1>0, <1>7, LevelFacts
    <2>5. 0 * t = 0
      OBVIOUS
    <2> QED BY <1>3, <1>6, <2>3, <2>4, <2>5
  <1>9. Stepped(w, o, k + 1)
    <2>1. Elapsed(w)[k + 1 - 1] = 0 /\ Elapsed(o)[k + 1 - 1] = TBTicks[k + 1 - 1] - 1
      BY <1>0, <1>2, <1>8
    <2> QED BY <1>6, <2>1 DEF Stepped
  <1>10. \A j \in 1..k : w[j] < TBNum[j]
    <2> TAKE j \in 1..k
    <2>1. j = k \/ (j \in 1..(k - 1) /\ j \in 1..Top /\ j # k /\ j # k + 1)
      BY <1>0
    <2>2. 0 < N
      OBVIOUS
    <2> QED BY <1>1, <1>3, <1>6, <2>1, <2>2
  <1>11. /\ r \in Buckets(k + 1) /\ z[k + 1][r] = <<>>
         /\ \A l \in Levels : \A c \in Buckets(l) : l # k /\ ~(l = k + 1 /\ c = r) => z[l][c] = y[l][c]
         /\ \A c \in Buckets(k) : \A n \in ToSet(z[k][c]) :
               n \in ToSet(y[k][c]) \/ (n \in ToSet(y[k + 1][r]) /\ MigrateIndex(n, k) = c)
    BY <1>5 DEF MovedDown, Buckets
  <1>12. LevelFits(z, k + 1, w, g + 1)
    <2>1. LevelFits(y, k + 1, o, g)
      BY <1>0, <1>1
    <2>2. o[k + 1] < TBNum[k + 1] /\ z[k + 1][o[k + 1]] = <<>>
      BY <1>0, <1>1, <1>5, <1>11
    <2>3. \A b \in Buckets(k + 1) : z[k + 1][b] = y[k + 1][b] \/ z[k + 1][b] = <<>>
      BY <1>0, <1>11
    <2> QED BY <1>0, <1>1, <1>7, <1>9, <2>1, <2>2, <2>3, NextFits
  <1>13. ASSUME NEW b \in Buckets(k), NEW n \in ToSet(z[k][b])
         PROVE  Fits(tmExpire[n], k, g + 1 + ToGo(w, k, b))
    <2>1. ToGo(w, k, b) = TBTicks[k - 1] * (1 + b)
      BY <1>0, <1>6, <1>7, <1>8, ToGoRound
    <2>2. CASE n \in ToSet(y[k][b])
      <3>1. ToGo(x, k, b) = TBTicks[k - 1] * (1 + b)
        BY <1>0, <1>1, <1>2, ToGoRound
      <3>2. k \in 1..k
        BY <1>0
      <3>3. Fits(tmExpire[n], k, g + 1 + ToGo(x, k, b))
        BY <1>1, <2>2, <3>2 DEF LevelFits
      <3> QED BY <2>1, <3>1, <3>3, Zenon
    <2>3. CASE n \in ToSet(y[k + 1][r]) /\ MigrateIndex(n, k) = b
      <3>1. n \in TNodes /\ tmExpire[n] \in Nat
        BY <1>0, <1>1, <1>11, <2>3, WheelNodes
      <3>4. Fits(tmExpire[n], k + 1, g + 1)
        BY <1>2, <1>5, <2>3
      <3>5. g + 1 \in Nat
        OBVIOUS
      <3>6. Fits(tmExpire[n], k, g + 1 + TBTicks[k - 1] * (1 + b))
        BY <2>3, <3>1, <3>4, <3>5, MigrateFits, Zenon
      <3> QED BY <2>1, <3>6, Zenon
    <2>4. n \in ToSet(y[k][b]) \/ (n \in ToSet(y[k + 1][r]) /\ MigrateIndex(n, k) = b)
      BY <1>11, Zenon
    <2> QED BY <2>2, <2>3, <2>4
  <1>14. ASSUME NEW j \in 1..(k - 1) PROVE LevelFits(z, j, w, g + 1)
    <2>1. j \in 1..k /\ j \in 1..Top /\ j # k /\ j # k + 1
      BY <1>0
    <2>2. \A i \in 1..j : i \in 1..Top /\ i # k /\ i # k + 1
      BY <1>0
    <2>3. \A i \in 1..j : x[i] = w[i]
      BY <1>6, <2>2
    <2>4. LevelFits(y, j, x, g + 1)
      BY <1>1, <2>1
    <2>5. ASSUME NEW b \in Buckets(j), NEW n \in ToSet(z[j][b])
          PROVE  Fits(tmExpire[n], j, g + 1 + ToGo(w, j, b))
      <3>1. z[j][b] = y[j][b]
        BY <1>0, <1>11, <2>1
      <3>2. ToGo(x, j, b) = ToGo(w, j, b)
        <4>1. x \in Pointers /\ w \in Pointers /\ j \in 1..Top
          BY <1>1, <1>7, <2>1
        <4>2. Alike(x, w, j)
          BY <2>3 DEF Alike
        <4> QED BY <4>1, <4>2, ToGoSame
      <3>3. Fits(tmExpire[n], j, g + 1 + ToGo(x, j, b))
        BY <2>4, <3>1 DEF LevelFits
      <3> QED BY <3>2, <3>3, Zenon
    <2> QED BY <2>5 DEF LevelFits
  <1>15. \A j \in 1..(k + 1) : LevelFits(z, j, w, g + 1)
    <2> TAKE j \in 1..(k + 1)
    <2>1. j = k + 1 \/ j = k \/ j \in 1..(k - 1)
      <3>1. k \in Nat
        BY <1>0
      <3> QED BY <3>1
    <2>2. LevelFits(z, k, w, g + 1)
      BY <1>13 DEF LevelFits
    <2> QED BY <1>12, <1>14, <2>1, <2>2
  <1>16. ASSUME NEW j \in (k + 2)..Top PROVE w[j] = o[j] /\ LevelFits(z, j, o, g)
    <2>1. j \in (k + 1)..Top /\ j \in 1..Top /\ j # k /\ j # k + 1
      BY <1>0
    <2>2. LevelFits(y, j, o, g) /\ w[j] = o[j]
      BY <1>1, <1>6, <2>1
    <2>3. \A b \in Buckets(j) : z[j][b] = y[j][b]
      BY <1>0, <1>11, <2>1
    <2> QED BY <2>2, <2>3 DEF LevelFits
  <1> QED BY <1>7, <1>9, <1>10, <1>15, <1>16 DEF Stage

\* s is a stage of a turn.
AtStage(s, o, k, g, W, p, f) == \E w, z : s = WheelAt(w, z, p, f) /\ Stage(w, z, o, k, g, W)

\* A step of Turn keeps what is known of the turn.
LEMMA TurnLevelIs ==
    ASSUME NEW o, PointersOk(o), NEW x, NEW y, NEW W, NEW g \in Nat, NEW k \in 1..(Top - 1),
           Stage(x, y, o, k - 1, g, W), tmNow \in Nat, tmExpire \in [TNodes -> Nat], ClockIn(g + 1),
           NEW p, NEW f
    PROVE  AtStage(TurnLevel(WheelAt(x, y, p, f), k), o, k, g, W, p, f)
  <1>0. Top \in Nat /\ Levels = 1..Top /\ k + 1 \in Levels
    <2>1. Top \in Nat /\ Top >= 3
      BY TicksAre
    <2>2. Levels = 1..Top
      BY DEF Levels, Top
    <2> QED BY <2>1, <2>2
  <1>1. PICK s : s = WheelAt(x, y, p, f)
    OBVIOUS
  <1>11. s.pt = x /\ s.bucket = y
    BY <1>1 DEF WheelAt
  <1>2. CASE x[k] # TBNum[k]
    <2>1. TurnLevel(s, k) = s
      BY <1>11, <1>2 DEF TurnLevel
    <2>2. Stage(x, y, o, k, g, W)
      BY <1>2, LevelStays
    <2> QED BY <1>1, <2>1, <2>2 DEF AtStage
  <1>3. CASE x[k] = TBNum[k]
    <2>1. /\ x[k + 1] \in Buckets(k + 1)
          /\ \A n \in ToSet(y[k + 1][x[k + 1]]) : Fits(tmExpire[n], k + 1, g + 1)
      BY <1>3, RoundDone
    <2>2. Wheel(y, W)
      BY DEF Stage
    <2>3. ASSUME NEW n \in ToSet(y[k + 1][x[k + 1]]) PROVE MigrateIndex(n, k) \in Buckets(k)
      <3>1. n \in TNodes
        BY <1>0, <2>1, <2>2, WheelNodes, Zenon
      <3>2. tmExpire[n] \in Nat /\ g + 1 \in Nat /\ Fits(tmExpire[n], k + 1, g + 1)
        BY <2>1, <3>1
      <3> QED BY <3>2, MigrateFits, Zenon
    <2>4. PICK z : /\ Migrate(s, k) = [s EXCEPT !.bucket = z]
                   /\ Wheel(z, W) /\ MovedDown(s.bucket, z, k, s.pt[k + 1])
      <3>1. Wheel(s.bucket, W) /\ s.pt[k + 1] \in Buckets(k + 1)
            /\ \A n \in ToSet(s.bucket[k + 1][s.pt[k + 1]]) : MigrateIndex(n, k) \in Buckets(k)
        BY <1>11, <2>1, <2>2, <2>3
      <3> QED BY <3>1, Migrates, Zenon
    <2>5. Migrate(s, k) = WheelAt(x, z, p, f) /\ MovedDown(y, z, k, x[k + 1])
      BY <1>1, <1>11, <2>4 DEF WheelAt
    <2>6. PICK w : w = GoneRound(x, k)
      OBVIOUS
    <2>7. TurnLevel(s, k) = WheelAt(w, z, p, f)
      <3>1. PICK m : m = WheelAt(x, z, p, f)
        OBVIOUS
      <3>2. TurnLevel(s, k) = [m EXCEPT !.pt = GoneRound(m.pt, k)]
        <4>1. m.pt = x /\ s.pt[k] = TBNum[k] /\ s.pt[k + 1] = x[k + 1]
          BY <1>3, <1>11, <3>1 DEF WheelAt
        <4> QED BY <2>5, <3>1, <4>1 DEF TurnLevel, GoneRound
      <3> QED BY <2>6, <3>1, <3>2 DEF WheelAt
    <2>8. Stage(w, z, o, k, g, W)
      BY <1>3, <2>4, <2>5, <2>6, LevelTurns, Zenon
    <2> QED BY <1>1, <2>7, <2>8 DEF AtStage
  <1> QED BY <1>2, <1>3

\* The levels of a turn, one after the other.
IsTurned(F, s) ==
    /\ F[0] = [s EXCEPT !.pt[1] = @ + 1]
    /\ \A k \in 1..(Top - 1) : F[k] = TurnLevel(F[k - 1], k)
    /\ Turn(s) = F[Top - 1]

\* The recursion that defines Turn has a solution.
LEMMA TurnedExists ==
    ASSUME NEW s
    PROVE  \E F : IsTurned(F, s)
  <1> DEFINE First == [s EXCEPT !.pt[1] = @ + 1]
  <1> DEFINE N == Top - 1
  <1> DEFINE Rec(f, n) == [i \in 0..n |-> IF i = 0 THEN First ELSE TurnLevel(f[i - 1], i)]
  <1>0. N \in Nat
    BY TicksAre
  <1> HIDE DEF N
  <1>1. PICK T : T = {n \in 0..N : \E f : f = Rec(f, n)}
    OBVIOUS
  <1> HIDE DEF First
  <1>2. 0 \in T
    <2>1. PICK f : f = [i \in 0..0 |-> First]
      OBVIOUS
    <2>2. f = Rec(f, 0)
      BY <2>1
    <2>3. 0 \in 0..N
      BY <1>0
    <2> HIDE DEF Rec
    <2> QED BY <2>2, <2>3, <1>1
  <1>3. ASSUME NEW j \in 1..N, j - 1 \in T PROVE j \in T
    <2>1. PICK f : f = Rec(f, j - 1)
      BY <1>1, <1>3
    <2>2. PICK r : r = TurnLevel(f[j - 1], j)
      OBVIOUS
    <2>3. PICK g : g = [i \in 0..j |-> IF i = j THEN r ELSE f[i]]
      OBVIOUS
    <2>4. \A i \in 0..j : g[i] = IF i = 0 THEN First ELSE TurnLevel(g[i - 1], i)
      <3> TAKE i \in 0..j
      <3>1. j \in Nat /\ j >= 1
        BY <1>0
      <3>2. CASE i = 0
        BY <2>1, <2>3, <3>1, <3>2
      <3>3. CASE i # 0 /\ i # j
        <4>1. i \in 0..(j - 1) /\ i - 1 \in 0..j /\ i - 1 # j
          BY <3>1, <3>3
        <4>2. g[i] = f[i] /\ g[i - 1] = f[i - 1]
          BY <2>3, <3>3, <4>1
        <4>3. f[i] = TurnLevel(f[i - 1], i)
          BY <2>1, <3>3, <4>1
        <4> QED BY <3>3, <4>2, <4>3
      <3>4. CASE i = j
        <4>1. j - 1 \in 0..j /\ j - 1 # j
          BY <3>1
        <4>2. g[j] = r /\ g[j - 1] = f[j - 1]
          BY <2>3, <3>4, <4>1
        <4> QED BY <2>2, <3>1, <3>4, <4>2
      <3> QED BY <3>2, <3>3, <3>4
    <2>5. g = [i \in 0..j |-> g[i]]
      BY <2>3
    <2>6. g = Rec(g, j)
      BY <2>4, <2>5
    <2>7. j \in 0..N
      BY <1>0
    <2> HIDE DEF Rec
    <2> QED BY <1>1, <2>6, <2>7
  <1>4. N \in T
    <2>1. N \in 0..N
      BY <1>0
    <2> HIDE DEF Rec
    <2> QED BY <1>0, <1>2, <1>3, <2>1, UpTo
  <1>5. \E f : f = Rec(f, N)
    BY <1>1, <1>4
  <1> DEFINE F == CHOOSE f : f = Rec(f, N)
  <1>6. F = Rec(F, N)
    BY <1>5
  <1>7. Turn(s) = F[N]
    BY DEF Turn, N, First, Top
  <1> HIDE DEF F
  <1>8. F[0] = First /\ \A n \in 1..N : F[n] = TurnLevel(F[n - 1], n)
    BY <1>0, <1>6
  <1> QED BY <1>7, <1>8 DEF IsTurned, N, First

\* The timers of all levels fit their buckets when g ticks have been handled.
OnTime(y, pt, g) == \A k \in Levels : LevelFits(y, k, pt, g)

\* s is the end of a turn in tick g.
TurnDone(s, g, W, p, f) ==
    \E w, z : /\ s = WheelAt(w, z, p, f)
              /\ PointersOk(w) /\ Wheel(z, W) /\ OnTime(z, w, g)

\* What Turn does.
LEMMA TurnIs ==
    ASSUME NEW o, PointersOk(o), NEW y, NEW W, Wheel(y, W), NEW g \in Nat, OnTime(y, o, g), y[1][o[1]] = <<>>,
           tmNow \in Nat, tmExpire \in [TNodes -> Nat], ClockIn(g + 1), NEW p, NEW f
    PROVE  TurnDone(Turn(WheelAt(o, y, p, f)), g + 1, W, p, f)
  <1>0. /\ Top \in Nat /\ Top >= 3 /\ Levels = 1..Top /\ 1 \in 1..Top /\ 1 - 1 = 0 /\ 0 + 1 = 1 /\ 0 + 2 = 2 /\ Top # 1
        /\ o \in Pointers /\ \A j \in 1..Top : o[j] < TBNum[j]
    <2>1. Top \in Nat /\ Top >= 3
      BY TicksAre
    <2>2. Levels = 1..Top
      BY DEF Levels, Top
    <2>3. o \in Pointers /\ \A j \in 1..Top : o[j] < TBNum[j]
      BY <2>2 DEF PointersOk
    <2> QED BY <2>1, <2>2, <2>3
  <1>1. PICK s : s = WheelAt(o, y, p, f)
    OBVIOUS
  <1>2. PICK F : IsTurned(F, s)
    BY TurnedExists
  <1>3. PICK x : x = [o EXCEPT ![1] = @ + 1]
    OBVIOUS
  <1>4. F[0] = WheelAt(x, y, p, f)
    BY <1>1, <1>2, <1>3 DEF IsTurned, WheelAt
  <1>5. x \in Pointers /\ x[1] = o[1] + 1 /\ \A j \in 2..Top : x[j] = o[j]
    BY <1>0, <1>3 DEF Pointers
  <1>6. Stage(x, y, o, 0, g, W)
    <2>1. Elapsed(x)[1 - 1] = 0 /\ Elapsed(o)[1 - 1] = 0 /\ TBTicks[1 - 1] = 1
      BY <1>0, <1>5, ElapsedIs, TicksAre
    <2>2. Stepped(x, o, 1)
      BY <1>0, <1>5, <2>1 DEF Stepped
    <2>3. LevelFits(y, 1, o, g) /\ o[1] < TBNum[1]
      BY <1>0 DEF OnTime
    <2>4. LevelFits(y, 1, x, g + 1)
      BY <1>0, <1>5, <2>2, <2>3, NextFits
    <2>5. \A j \in 2..Top : LevelFits(y, j, o, g)
      BY <1>0 DEF OnTime
    <2>6. \A j \in 1..(0 + 1) : LevelFits(y, j, x, g + 1)
      <3> TAKE j \in 1..(0 + 1)
      <3>1. j = 1
        OBVIOUS
      <3> QED BY <2>4, <3>1
    <2> QED BY <1>0, <1>5, <2>2, <2>5, <2>6 DEF Stage
  <1> DEFINE Ok(s1, k) == AtStage(s1, o, k, g, W, p, f)
  <1>7. PICK T : T = {k \in 0..(Top - 1) : Ok(F[k], k)}
    OBVIOUS
  <1>8. 0 \in T
    <2>1. Ok(F[0], 0) /\ 0 \in 0..(Top - 1)
      BY <1>0, <1>4, <1>6 DEF AtStage
    <2> HIDE DEF Ok
    <2> QED BY <1>7, <2>1
  <1>9. ASSUME NEW k \in 1..(Top - 1), k - 1 \in T PROVE k \in T
    <2>1. Ok(F[k - 1], k - 1)
      <3> HIDE DEF Ok
      <3> QED BY <1>7, <1>9
    <2>2. PICK w, z : F[k - 1] = WheelAt(w, z, p, f) /\ Stage(w, z, o, k - 1, g, W)
      BY <2>1 DEF AtStage
    <2>3. AtStage(TurnLevel(WheelAt(w, z, p, f), k), o, k, g, W, p, f)
      BY <2>2, TurnLevelIs, Zenon
    <2>4. F[k] = TurnLevel(WheelAt(w, z, p, f), k)
      BY <1>2, <2>2 DEF IsTurned
    <2>5. Ok(F[k], k) /\ k \in 0..(Top - 1)
      BY <1>0, <2>3, <2>4
    <2> HIDE DEF Ok
    <2> QED BY <1>7, <2>5
  <1>10. Ok(F[Top - 1], Top - 1)
    <2> HIDE DEF Ok
    <2>1. Top - 1 \in Nat /\ Top - 1 \in 0..(Top - 1)
      BY <1>0
    <2>2. Top - 1 \in T
      BY <1>8, <1>9, <2>1, UpTo
    <2> QED BY <1>7, <2>2
  <1>11. PICK w, z : F[Top - 1] = WheelAt(w, z, p, f) /\ Stage(w, z, o, Top - 1, g, W)
    BY <1>10 DEF AtStage
  <1>12. Turn(s) = WheelAt(w, z, p, f)
    BY <1>2, <1>11 DEF IsTurned
  <1>13. /\ w \in Pointers /\ Wheel(z, W) /\ (\A j \in 1..(Top - 1) : w[j] < TBNum[j]) /\ Stepped(w, o, Top)
         /\ \A j \in 1..Top : LevelFits(z, j, w, g + 1)
    <2>1. (Top - 1) + 1 = Top
      BY <1>0
    <2> QED BY <1>11, <2>1 DEF Stage
  <1>14. w[Top] < TBNum[Top]
    <2>1. PICK N \in Nat \ {0}, q \in Nat : N = TBNum[Top] /\ q = o[Top] /\ q < N
      <3>1. Top \in 1..Top
        BY <1>0
      <3> QED BY <1>0, <3>1, LevelFacts
    <2>2. PICK u \in Nat : u = q + 1
      OBVIOUS
    <2>3. u % N < N
      BY SMT
    <2> QED BY <1>13, <2>1, <2>2, <2>3 DEF Stepped
  <1>15. PointersOk(w)
    <2>1. ASSUME NEW j \in 1..Top PROVE w[j] < TBNum[j]
      <3>1. j = Top \/ j \in 1..(Top - 1)
        BY <1>0
      <3> QED BY <1>13, <1>14, <3>1
    <2> QED BY <1>0, <1>13, <2>1 DEF PointersOk
  <1>16. OnTime(z, w, g + 1)
    BY <1>0, <1>13 DEF OnTime
  <1> QED BY <1>1, <1>12, <1>13, <1>15, <1>16 DEF TurnDone
-----------------------------------------------------------------------------
\* The loop of GetTimer after some turns: g ticks have been handled, and of the
\* timers U some have fired, none of them too early.
InLoop(x, y, p, f, g, U) ==
    /\ PointersOk(x) /\ PoolOk(p, TimerNodes) /\ Wheel(y, p.used) /\ OnTime(y, x, g)
    /\ p.used \cup f = U /\ p.used \cap f = {}
    /\ \A n \in f : tmExpire[n] - tmNow <= Hi(1)

\* s is the loop of GetTimer when g ticks have been scanned.
LoopAt(s, g, U) == \E x, y, p, f : s = WheelAt(x, y, p, f) /\ InLoop(x, y, p, f, g, U)

\* s with the buckets, the pool and the fired timers that a scan leaves.
Changed(s, y, p, f) == [s EXCEPT !.bucket = y, !.pool = p, !.fired = f]

\* What firing a bucket changes.
LEMMA AtChanges ==
    ASSUME NEW x, NEW y, NEW p, NEW f, NEW y1, NEW p1, NEW f1, NEW a, a = WheelAt(x, y, p, f)
    PROVE  Changed(a, y1, p1, f1) = WheelAt(x, y1, p1, f1)
  <1>2. PICK r : r = [a EXCEPT !.bucket = y1, !.pool = p1, !.fired = f1]
    OBVIOUS
  <1>3. /\ DOMAIN a = {"pt", "bucket", "pool", "fired"} /\ a.pt = x
    BY DEF WheelAt
  <1>4. /\ DOMAIN r = {"pt", "bucket", "pool", "fired"}
        /\ r.pt = x /\ r.bucket = y1 /\ r.pool = p1 /\ r.fired = f1
    BY <1>2, <1>3
  <1>5. r = [i \in {"pt", "bucket", "pool", "fired"} |-> r[i]]
    BY <1>2, <1>3
  <1> HIDE <1>2
  <1>6. r = WheelAt(x, y1, p1, f1)
    BY <1>4, <1>5 DEF WheelAt
  <1> QED BY <1>2, <1>6, Zenon DEF Changed

\* Nothing is late in an empty wheel.
LEMMA EmptyOnTime ==
    ASSUME NEW y, Wheel(y, {}), NEW pt, NEW g
    PROVE  OnTime(y, pt, g)
  BY DEF OnTime, LevelFits, Wheel

\* One tick of GetTimer.
LEMMA InternalIs ==
    ASSUME NEW x, NEW y, NEW p, NEW f, NEW g \in Nat, NEW U \in SUBSET TNodes, InLoop(x, y, p, f, g, U),
           tmNow \in Nat, tmExpire \in [TNodes -> Nat], ClockIn(g + 1)
    PROVE  LoopAt(GetTimerInternal(WheelAt(x, y, p, f)), g + 1, U)
  <1>0. /\ Top \in Nat /\ 1 \in 1..Top /\ 1 \in Levels /\ 1 - 1 = 0 /\ x \in Pointers /\ x[1] < TBNum[1]
        /\ TimerNodes \in Nat \ {0} /\ Parts \in Nat \ {0}
    <2>1. Top \in Nat /\ Top >= 3
      BY TicksAre
    <2>2. Levels = 1..Top
      BY DEF Levels, Top
    <2>3. 1 \in Levels
      BY <2>1, <2>2
    <2> QED BY <2>1, <2>2, <2>3, TimerAssumption DEF InLoop, PointersOk
  <1>1. /\ PointersOk(x) /\ PoolOk(p, TimerNodes) /\ Wheel(y, p.used) /\ OnTime(y, x, g)
        /\ p.used \cup f = U /\ p.used \cap f = {}
        /\ \A n \in f : tmExpire[n] - tmNow <= Hi(1)
    BY DEF InLoop
  <1>2. PICK s : s = WheelAt(x, y, p, f)
    OBVIOUS
  <1>3. s.pt = x /\ s.bucket = y /\ s.pool = p /\ s.fired = f
    BY <1>2 DEF WheelAt
  <1>4. CASE p.used = {}
    <2>1. GetTimerInternal(s) = s
      BY <1>3, <1>4 DEF GetTimerInternal
    <2>2. OnTime(y, x, g + 1)
      BY <1>1, <1>4, EmptyOnTime
    <2>3. InLoop(x, y, p, f, g + 1, U)
      BY <1>1, <2>2 DEF InLoop
    <2> QED BY <1>2, <2>1, <2>3 DEF LoopAt
  <1>5. CASE p.used # {}
    <2>1. x[1] \in Buckets(1)
      BY <1>0, LevelFacts DEF Buckets
    <2>2. PICK due : /\ due = y[1][x[1]] /\ due \in Seq(TNodes) /\ Distinct(due)
                     /\ ToSet(due) \subseteq p.used
      BY <1>0, <1>1, <2>1 DEF Wheel, IsWheel
    <2>3. PICK p1 : p1 = ReleaseNodes(p, due) /\ PoolOk(p1, TimerNodes) /\ p1.used = p.used \ ToSet(due)
      BY <1>0, <1>1, <2>2, PoolReleasesAll
    <2>4. PICK f1 : f1 = f \cup ToSet(due)
      OBVIOUS
    <2>5. PICK y1 : y1 = With(y, 1, x[1], <<>>)
      OBVIOUS
    <2>6. ToSet(<<>>) = {} /\ Distinct(<<>>) /\ <<>> \in Seq(TNodes)
      BY DEF ToSet, Distinct
    <2>7. Wheel(y1, p1.used)
      <3>1. ToSet(<<>>) = ToSet(y[1][x[1]]) \ ToSet(due) /\ ToSet(due) \subseteq ToSet(y[1][x[1]])
        BY <2>2, <2>6
      <3>2. Wheel(y1, p.used \ ToSet(due))
        BY <1>0, <1>1, <2>1, <2>5, <2>6, <3>1, WheelDrop, Zenon
      <3> QED BY <2>3, <3>2
    <2>8. Replaced(y1, y, 1, x[1], <<>>)
      <3>1. IsWheel(y)
        BY <1>1 DEF Wheel
      <3> QED BY <1>0, <2>1, <2>5, <2>6, <3>1, WithIs, Zenon
    <2>9. OnTime(y1, x, g)
      <3> SUFFICES ASSUME NEW k \in Levels, NEW b \in Buckets(k), NEW n \in ToSet(y1[k][b])
                   PROVE  Fits(tmExpire[n], k, g + ToGo(x, k, b))
        BY DEF OnTime, LevelFits
      <3>1. ~(k = 1 /\ b = x[1])
        BY <2>6, <2>8 DEF Replaced
      <3>2. y1[k][b] = y[k][b]
        BY <2>8, <3>1 DEF Replaced
      <3> QED BY <1>1, <3>2 DEF OnTime, LevelFits
    <2>10. ASSUME NEW n \in ToSet(due) PROVE tmExpire[n] - tmNow <= Hi(1)
      <3>1. Elapsed(x)[1 - 1] = 0 /\ TBTicks[1 - 1] = 1
        BY <1>0, ElapsedIs, TicksAre
      <3>2. Elapsed(x)[1 - 1] < TBTicks[1 - 1] /\ Elapsed(x)[1 - 1] = TBTicks[1 - 1] - 1
        BY <3>1
      <3>3. ToGo(x, 1, x[1]) = 1
        BY <1>0, <2>1, <3>2, ToGoLeast
      <3>4. Fits(tmExpire[n], 1, g + ToGo(x, 1, x[1]))
        BY <1>0, <1>1, <2>1, <2>2 DEF OnTime, LevelFits
      <3>5. Fits(tmExpire[n], 1, g + 1)
        BY <3>3, <3>4, Zenon
      <3>6. PICK e \in Nat, P \in Nat, now \in Nat : e = tmExpire[n] /\ P = Parts /\ now = tmNow
        <4>1. n \in TNodes
          BY <2>2 DEF ToSet
        <4> QED BY <1>0, <4>1
      <3>7. PICK c \in Int : c = (g + 1) * P
        OBVIOUS
      <3>8. PICK h \in Int : h = Hi(1)
        <4>1. WaitBelow[1] \in Nat /\ MaxLag \in Nat
          <5>1. 1 \in 0..Top
            BY <1>0
          <5> QED BY <5>1, WaitAre, TimerAssumption
        <4> QED BY <3>6, <4>1 DEF Hi
      <3>9. e - c <= h /\ c <= now
        BY <3>5, <3>6, <3>7, <3>8 DEF Fits, ClockIn
      <3> QED BY <3>6, <3>8, <3>9
    <2>11. \A n \in f1 : tmExpire[n] - tmNow <= Hi(1)
      BY <1>1, <2>4, <2>10
    <2>12. p1.used \cup f1 = U /\ p1.used \cap f1 = {}
      BY <1>1, <2>2, <2>3, <2>4
    <2>13. PICK t : t = WheelAt(x, y1, p1, f1)
      OBVIOUS
    <2>14. GetTimerInternal(s) = IF t.pool.used = {} THEN t ELSE Turn(t)
      <3>1. t = [s EXCEPT !.bucket = [@ EXCEPT ![1][s.pt[1]] = <<>>],
                          !.pool = ReleaseNodes(@, due), !.fired = @ \cup ToSet(due)]
        <4>1. [s.bucket EXCEPT ![1][s.pt[1]] = <<>>] = y1
          BY <1>3, <2>5 DEF With
        <4>2. ReleaseNodes(s.pool, due) = p1 /\ s.fired \cup ToSet(due) = f1
          BY <1>3, <2>3, <2>4
        <4>3. t = [s EXCEPT !.bucket = y1, !.pool = p1, !.fired = f1]
          <5>1. Changed(s, y1, p1, f1) = WheelAt(x, y1, p1, f1)
            BY <1>2, AtChanges
          <5> QED BY <2>13, <5>1, Zenon DEF Changed
        <4> QED BY <4>1, <4>2, <4>3
      <3>2. due = s.bucket[1][s.pt[1]] /\ s.pool.used # {}
        BY <1>3, <1>5, <2>2
      <3> QED BY <3>1, <3>2 DEF GetTimerInternal
    <2>15. t.pool = p1
      BY <2>13 DEF WheelAt
    <2>16. CASE p1.used = {}
      <3>1. OnTime(y1, x, g + 1)
        BY <2>7, <2>16, EmptyOnTime
      <3>2. InLoop(x, y1, p1, f1, g + 1, U)
        BY <1>1, <2>3, <2>7, <2>11, <2>12, <3>1 DEF InLoop
      <3> QED BY <1>2, <2>13, <2>14, <2>15, <2>16, <3>2 DEF LoopAt
    <2>17. CASE p1.used # {}
      <3>1. y1[1][x[1]] = <<>>
        BY <2>8 DEF Replaced
      <3>2. PICK w, z : /\ Turn(WheelAt(x, y1, p1, f1)) = WheelAt(w, z, p1, f1)
                        /\ PointersOk(w) /\ Wheel(z, p1.used) /\ OnTime(z, w, g + 1)
        <4>1. TurnDone(Turn(WheelAt(x, y1, p1, f1)), g + 1, p1.used, p1, f1)
          BY <1>1, <2>7, <2>9, <3>1, TurnIs, Zenon
        <4> QED BY <4>1 DEF TurnDone
      <3>3. InLoop(w, z, p1, f1, g + 1, U)
        BY <2>3, <2>11, <2>12, <3>2 DEF InLoop
      <3> QED BY <1>2, <2>13, <2>14, <2>15, <2>17, <3>2, <3>3 DEF LoopAt
    <2> QED BY <2>16, <2>17
  <1> QED BY <1>4, <1>5

\* The first n turns of the loop of GetTimer.
LoopIs(F, n) ==
    /\ F[0] = WheelAt(tmPt, tmBucket, tmPool, {})
    /\ \A i \in 1..n : F[i] = GetTimerInternal(F[i - 1])

\* What GetTimer makes of the result of its loop.
Scanned(s) ==
    /\ tmLast' = tmNow \div Parts
    /\ tmPt' = s.pt /\ tmBucket' = s.bucket /\ tmPool' = s.pool
    /\ tmEarly' = CHOOSE e \in {tmExpire[n] - tmNow : n \in s.fired} \cup {0} :
                    \A f \in {tmExpire[n] - tmNow : n \in s.fired} \cup {0} : f <= e
    /\ tmExpire' = [n \in TNodes |-> IF n \in s.fired THEN 0 ELSE tmExpire[n]]
    /\ UNCHANGED <<tmNow, tmAdds>>

\* The recursion that defines the loop of GetTimer has a solution.
LEMMA ScanIs ==
    ASSUME NEW N \in Nat, N = tmNow \div Parts - tmLast, GetTimer
    PROVE  N > 0 /\ \E F : LoopIs(F, N) /\ Scanned(F[N])
  <1> DEFINE First == WheelAt(tmPt, tmBucket, tmPool, {})
  <1> DEFINE Rec(f, n) == [i \in 0..n |-> IF i = 0 THEN First ELSE GetTimerInternal(f[i - 1])]
  <1>1. PICK T : T = {n \in 0..N : \E f : f = Rec(f, n)}
    OBVIOUS
  <1> HIDE DEF First
  <1>2. 0 \in T
    <2>1. PICK f : f = [i \in 0..0 |-> First]
      OBVIOUS
    <2>2. f = Rec(f, 0)
      BY <2>1
    <2>3. 0 \in 0..N
      OBVIOUS
    <2> HIDE DEF Rec
    <2> QED BY <2>2, <2>3, <1>1
  <1>3. ASSUME NEW j \in 1..N, j - 1 \in T PROVE j \in T
    <2>1. PICK f : f = Rec(f, j - 1)
      BY <1>1, <1>3
    <2>2. PICK r : r = GetTimerInternal(f[j - 1])
      OBVIOUS
    <2>3. PICK g : g = [i \in 0..j |-> IF i = j THEN r ELSE f[i]]
      OBVIOUS
    <2>4. \A i \in 0..j : g[i] = IF i = 0 THEN First ELSE GetTimerInternal(g[i - 1])
      <3> TAKE i \in 0..j
      <3>1. j \in Nat /\ j >= 1
        OBVIOUS
      <3>2. CASE i = 0
        BY <2>1, <2>3, <3>1, <3>2
      <3>3. CASE i # 0 /\ i # j
        <4>1. i \in 0..(j - 1) /\ i - 1 \in 0..j /\ i - 1 # j
          BY <3>1, <3>3
        <4>2. g[i] = f[i] /\ g[i - 1] = f[i - 1]
          BY <2>3, <3>3, <4>1
        <4>3. f[i] = GetTimerInternal(f[i - 1])
          BY <2>1, <3>3, <4>1
        <4> QED BY <3>3, <4>2, <4>3
      <3>4. CASE i = j
        <4>1. j - 1 \in 0..j /\ j - 1 # j
          BY <3>1
        <4>2. g[j] = r /\ g[j - 1] = f[j - 1]
          BY <2>3, <3>4, <4>1
        <4> QED BY <2>2, <3>1, <3>4, <4>2
      <3> QED BY <3>2, <3>3, <3>4
    <2>5. g = [i \in 0..j |-> g[i]]
      BY <2>3
    <2>6. g = Rec(g, j)
      BY <2>4, <2>5
    <2>7. j \in 0..N
      OBVIOUS
    <2> HIDE DEF Rec
    <2> QED BY <1>1, <2>6, <2>7
  <1>4. N \in T
    <2>1. N \in 0..N
      OBVIOUS
    <2> HIDE DEF Rec
    <2> QED BY <1>2, <1>3, <2>1, UpTo
  <1>5. \E f : f = Rec(f, N)
    BY <1>1, <1>4
  <1> DEFINE F == CHOOSE f : f = Rec(f, N)
  <1>6. F = Rec(F, N)
    BY <1>5
  <1> DEFINE D == tmNow \div Parts - tmLast
  <1> DEFINE G == CHOOSE f : f = [i \in 0..D |-> IF i = 0 THEN [pt |-> tmPt, bucket |-> tmBucket,
                                                               pool |-> tmPool, fired |-> {}]
                                                 ELSE GetTimerInternal(f[i - 1])]
  <1>7. G = F
    BY DEF First, WheelAt
  <1>8. D > 0 /\ Scanned(G[D])
    BY DEF GetTimer, Scanned
  <1>9. N > 0 /\ Scanned(F[N])
    BY <1>7, <1>8
  <1> HIDE DEF F
  <1>10. F[0] = First /\ \A n \in 1..N : F[n] = GetTimerInternal(F[n - 1])
    BY <1>6
  <1>11. LoopIs(F, N)
    BY <1>10 DEF LoopIs, First
  <1> QED BY <1>9, <1>11

-----------------------------------------------------------------------------
\* The clock is no further than the caller's lag from the last scan.
ClockOk == tmLast * Parts <= tmNow /\ tmNow <= (tmLast + MaxLag + 2) * Parts - 1

\* Every pending timer is in one bucket, and in one that fits it.
TimerInv ==
    /\ tmNow \in Nat /\ tmLast \in Nat /\ tmExpire \in [TNodes -> Nat]
    /\ ClockOk
    /\ tmEarly \in Int /\ tmEarly <= Hi(1)
    /\ PointersOk(tmPt) /\ PoolOk(tmPool, TimerNodes)
    /\ Wheel(tmBucket, tmPool.used) /\ OnTime(tmBucket, tmPt, tmLast)

\* The numbers of level 1.
LEMMA HiFirst == Hi(1) = (MaxLag + 2) * Parts - 2 /\ Hi(1) \in Nat
  <1>1. PICK P \in Nat \ {0}, lag \in Nat : P = Parts /\ lag = MaxLag
    BY TimerAssumption
  <1>2. WaitBelow[1] = 1
    <2>1. Top \in Nat /\ Top >= 3
      BY TicksAre
    <2>2. 1 \in 1..Top /\ 1 - 1 = 0
      BY <2>1
    <2>3. WaitBelow[1] = WaitBelow[1 - 1] + TBTicks[1 - 1]
      BY <2>2, WaitAre
    <2> QED BY <2>2, <2>3, WaitAre, TicksAre
  <1>3. Hi(1) = (1 + lag + 1) * P - 2
    BY <1>1, <1>2 DEF Hi
  <1>4. 1 + lag + 1 = lag + 2
    OBVIOUS
  <1>5. 2 * P <= (lag + 2) * P /\ (lag + 2) * P \in Int
    BY MulMono
  <1>6. (lag + 2) * P - 2 \in Nat
    BY <1>5
  <1> QED BY <1>1, <1>3, <1>4, <1>6

\* The empty wheel.
LEMMA TimerStarts == TimerInit => TimerInv
  <1> SUFFICES ASSUME TimerInit PROVE TimerInv
    OBVIOUS
  <1>1. PICK P \in Nat \ {0}, lag \in Nat : P = Parts /\ lag = MaxLag
    BY TimerAssumption
  <1>2. tmNow \in 0..(P - 1) /\ tmLast = 0
    BY <1>1 DEF TimerInit
  <1>3. ClockOk
    <2>1. 1 * P <= (0 + lag + 2) * P /\ (0 + lag + 2) * P \in Int
      BY MulMono
    <2>2. tmNow <= (0 + lag + 2) * P - 1 /\ 0 * P <= tmNow
      BY <1>2, <2>1
    <2> QED BY <1>1, <1>2, <2>2 DEF ClockOk
  <1>4. tmExpire \in [TNodes -> Nat] /\ tmEarly = 0
    BY DEF TimerInit
  <1>5. PointersOk(tmPt)
    <2>1. tmPt \in Pointers /\ \A k \in Levels : tmPt[k] = 0
      BY DEF TimerInit, Pointers
    <2>2. \A k \in Levels : TBNum[k] \in Nat \ {0}
      BY TicksAre DEF Levels, Top
    <2> QED BY <2>1, <2>2 DEF PointersOk
  <1>6. PoolOk(tmPool, TimerNodes) /\ tmPool.used = {}
    <2>1. PoolOk(tmPool, TimerNodes)
      BY PoolStarts, TimerAssumption DEF TimerInit
    <2> QED BY <2>1 DEF TimerInit, PoolInit
  <1>7. Wheel(tmBucket, {})
    <2>1. DOMAIN tmBucket = Levels /\ \A k \in Levels : tmBucket[k] = [b \in Buckets(k) |-> <<>>]
      BY DEF TimerInit
    <2>2. \A k \in Levels : tmBucket[k] \in [Buckets(k) -> Seq(TNodes)]
      <3> TAKE k \in Levels
      <3>1. <<>> \in Seq(TNodes)
        OBVIOUS
      <3>2. PICK S, f : S = Buckets(k) /\ f = tmBucket[k] /\ f = [b \in S |-> <<>>]
        BY <2>1
      <3>3. f \in [S -> Seq(TNodes)]
        BY <3>1, <3>2
      <3> QED BY <3>2, <3>3
    <2>3. \A k \in Levels : \A b \in Buckets(k) : tmBucket[k][b] = <<>>
      BY <2>1
    <2>4. ToSet(<<>>) = {} /\ Distinct(<<>>)
      BY DEF ToSet, Distinct
    <2>5. \A k \in Levels : \A b \in Buckets(k) : ToSet(tmBucket[k][b]) = {} /\ Distinct(tmBucket[k][b])
      BY <2>3, <2>4
    <2> QED BY <2>1, <2>2, <2>5 DEF Wheel, IsWheel
  <1>8. OnTime(tmBucket, tmPt, tmLast)
    BY <1>7, EmptyOnTime
  <1> QED BY <1>2, <1>3, <1>4, <1>5, <1>6, <1>7, <1>8, HiFirst DEF TimerInv
\* The clock goes on.
LEMMA ClockKeeps == TimerInv /\ ClockTick => TimerInv'
  <1> SUFFICES ASSUME TimerInv, ClockTick PROVE TimerInv'
    OBVIOUS
  <1>1. PICK P \in Nat \ {0}, lag \in Nat, l \in Nat, now \in Nat :
            P = Parts /\ lag = MaxLag /\ l = tmLast /\ now = tmNow
    BY TimerAssumption DEF TimerInv
  <1>2. /\ tmNow' = now + 1 /\ (now + 1) \div P - l <= 1 + lag
        /\ UNCHANGED <<tmLast, tmPt, tmBucket, tmExpire, tmPool, tmAdds, tmEarly>>
    BY <1>1 DEF ClockTick
  <1>3. ClockOk'
    <2>1. PICK u \in Nat : u = now + 1
      OBVIOUS
    <2>2. PICK q \in Nat : q = u \div P /\ u < q * P + P
      BY DivIs
    <2>3. q <= l + 1 + lag
      BY <1>2, <2>1, <2>2
    <2>4. q * P <= (l + 1 + lag) * P
      BY <2>3, MulMono
    <2>5. (l + lag + 2) * P = (l + 1 + lag) * P + P
      BY SMT
    <2>6. PICK a \in Int, b \in Int, c \in Int : a = q * P /\ b = (l + 1 + lag) * P /\ c = (l + lag + 2) * P
      OBVIOUS
    <2>7. u <= c - 1
      BY <2>2, <2>4, <2>5, <2>6
    <2>8. l * P <= now /\ l * P \in Int
      BY <1>1 DEF TimerInv, ClockOk
    <2>9. l * P <= u
      BY <2>1, <2>8
    <2> QED BY <1>1, <1>2, <2>1, <2>6, <2>7, <2>9 DEF ClockOk
  <1>4. tmNow' \in Nat
    BY <1>2
  <1> QED BY <1>2, <1>3, <1>4 DEF TimerInv, OnTime, LevelFits

\* A new timer.
LEMMA AddKeeps == TimerInv /\ (\E i \in Intervals : AddTimer(i)) => TimerInv'
  <1> SUFFICES ASSUME TimerInv, NEW i \in Intervals, AddTimer(i) PROVE TimerInv'
    OBVIOUS
  <1>0. /\ TimerNodes \in Nat \ {0} /\ i \in Nat /\ tmNow \in Nat /\ tmLast \in Nat
        /\ tmExpire \in [TNodes -> Nat] /\ ClockOk /\ PointersOk(tmPt) /\ PoolOk(tmPool, TimerNodes)
        /\ Wheel(tmBucket, tmPool.used) /\ OnTime(tmBucket, tmPt, tmLast)
    BY TimerAssumption DEF TimerInv
  <1>1. PICK n, d, k, b : /\ n = FreeNode(tmPool) /\ d = i \div Parts /\ k = TimerLevel(d)
                          /\ b = TimerIndex(d, k)
    OBVIOUS
  <1>2. /\ ~PoolFull(tmPool) /\ tmPool' = AllocateNode(tmPool)
        /\ tmBucket' = [tmBucket EXCEPT ![k][b] = <<n>> \o @]
        /\ tmExpire' = [tmExpire EXCEPT ![n] = tmNow + i]
        /\ UNCHANGED <<tmNow, tmLast, tmPt, tmEarly>>
    BY <1>1 DEF AddTimer
  <1>3. /\ PoolOk(tmPool', TimerNodes) /\ n \in TNodes /\ n \notin tmPool.used
        /\ tmPool'.used = tmPool.used \cup {n}
    BY <1>0, <1>1, <1>2, PoolAllocates DEF TNodes
  <1>4. k \in Levels /\ b \in Buckets(k) /\ Fits(tmNow + i, k, tmLast + ToGo(tmPt, k, b))
    BY <1>0, <1>1, AddFits DEF ClockOk
  <1>5. tmBucket[k][b] \in Seq(TNodes) /\ IsWheel(tmBucket)
    BY <1>0, <1>4 DEF Wheel, IsWheel
  <1>6. PICK s : s = <<n>> \o tmBucket[k][b]
    OBVIOUS
  <1>7. s \in Seq(TNodes) /\ ToSet(s) = ToSet(tmBucket[k][b]) \cup {n}
    BY <1>3, <1>5, <1>6, PushSet
  <1>8. tmBucket' = With(tmBucket, k, b, s)
    BY <1>2, <1>4, <1>5, <1>6 DEF With, IsWheel
  <1>9. Wheel(tmBucket', tmPool'.used)
    <2>1. Wheel(With(tmBucket, k, b, <<n>> \o tmBucket[k][b]), tmPool.used \cup {n})
      BY <1>0, <1>3, <1>4, WheelPush, Zenon
    <2> QED BY <1>3, <1>6, <1>8, <2>1
  <1>10. Replaced(tmBucket', tmBucket, k, b, s)
    BY <1>4, <1>5, <1>7, <1>8, WithIs, Zenon
  <1>11. /\ tmExpire' \in [TNodes -> Nat] /\ tmExpire'[n] = tmNow + i
         /\ \A m \in TNodes : m # n => tmExpire'[m] = tmExpire[m]
    BY <1>0, <1>2, <1>3
  <1>12. ASSUME NEW l \in Levels, NEW c \in Buckets(l), NEW m \in ToSet(tmBucket'[l][c])
         PROVE  Fits(tmExpire'[m], l, tmLast + ToGo(tmPt, l, c))
    <2>1. CASE m = n
      <3>1. l = k /\ c = b
        <4>1. n \in ToSet(tmBucket'[k][b])
          BY <1>7, <1>10 DEF Replaced
        <4>2. n \in tmPool'.used
          BY <1>3
        <4> QED BY <1>4, <1>9, <1>12, <2>1, <4>1, <4>2 DEF Wheel
      <3> QED BY <1>4, <1>11, <2>1, <3>1
    <2>2. CASE m # n
      <3>1. m \in ToSet(tmBucket[l][c])
        BY <1>7, <1>10, <2>2 DEF Replaced
      <3>2. m \in TNodes
        BY <1>0, <3>1, WheelNodes
      <3>3. Fits(tmExpire[m], l, tmLast + ToGo(tmPt, l, c))
        BY <1>0, <3>1 DEF OnTime, LevelFits
      <3> QED BY <1>11, <2>2, <3>2, <3>3
    <2> QED BY <2>1, <2>2
  <1>13. OnTime(tmBucket, tmPt, tmLast)'
    <2>1. tmLast' = tmLast /\ tmPt' = tmPt
      BY <1>2
    <2> QED BY <1>12, <2>1 DEF OnTime, LevelFits
  <1>14. ClockOk'
    BY <1>0, <1>2 DEF ClockOk
  <1> QED BY <1>0, <1>2, <1>3, <1>9, <1>11, <1>13, <1>14 DEF TimerInv

\* A timer that is deleted.
LEMMA DelKeeps == TimerInv /\ (\E n \in TNodes : DelTimer(n)) => TimerInv'
  <1> SUFFICES ASSUME TimerInv, NEW n \in TNodes, DelTimer(n) PROVE TimerInv'
    OBVIOUS
  <1>0. /\ TimerNodes \in Nat \ {0} /\ tmExpire \in [TNodes -> Nat] /\ ClockOk /\ PoolOk(tmPool, TimerNodes)
        /\ Wheel(tmBucket, tmPool.used) /\ OnTime(tmBucket, tmPt, tmLast)
    BY TimerAssumption DEF TimerInv
  <1>1. /\ n \in tmPool.used /\ tmPool' = ReleaseNode(tmPool, n)
        /\ tmExpire' = [tmExpire EXCEPT ![n] = 0]
        /\ UNCHANGED <<tmNow, tmLast, tmPt, tmAdds, tmEarly>>
    BY DEF DelTimer
  <1>2. PICK k \in Levels : \E b \in Buckets(k) : \E i \in 1..Len(tmBucket[k][b]) :
              /\ tmBucket[k][b][i] = n
              /\ tmBucket' = [tmBucket EXCEPT ![k][b] = RemoveAt(@, i)]
    BY DEF DelTimer
  <1>20. PICK b \in Buckets(k) : \E i \in 1..Len(tmBucket[k][b]) :
              /\ tmBucket[k][b][i] = n
              /\ tmBucket' = [tmBucket EXCEPT ![k][b] = RemoveAt(@, i)]
    BY <1>2
  <1>3. PICK i \in 1..Len(tmBucket[k][b]) :
              /\ tmBucket[k][b][i] = n
              /\ tmBucket' = [tmBucket EXCEPT ![k][b] = RemoveAt(@, i)]
    BY <1>20
  <1>4. PoolOk(tmPool', TimerNodes) /\ tmPool'.used = tmPool.used \ {n}
    BY <1>0, <1>1, PoolReleases
  <1>5. PICK t : t = tmBucket[k][b] /\ t \in Seq(TNodes) /\ Distinct(t) /\ IsWheel(tmBucket)
    BY <1>0 DEF Wheel, IsWheel
  <1>6. PICK s : s = RemoveAt(t, i)
    OBVIOUS
  <1>7. s \in Seq(TNodes) /\ ToSet(s) = ToSet(t) \ {n} /\ Distinct(s) /\ n \in ToSet(t)
    <2>1. i \in 1..Len(t) /\ t[i] = n
      BY <1>3, <1>5
    <2>2. RemoveAt(t, i) \in Seq(TNodes) /\ ToSet(RemoveAt(t, i)) = ToSet(t) \ {t[i]} /\ Distinct(RemoveAt(t, i))
      BY <1>5, <2>1, RemoveSet
    <2>3. n \in ToSet(t)
      BY <1>5, <2>1 DEF ToSet
    <2> QED BY <1>6, <2>1, <2>2, <2>3
  <1>8. tmBucket' = With(tmBucket, k, b, s)
    BY <1>3, <1>5, <1>6 DEF With, IsWheel
  <1>9. Wheel(tmBucket', tmPool'.used)
    <2>1. {n} \subseteq ToSet(tmBucket[k][b]) /\ ToSet(s) = ToSet(tmBucket[k][b]) \ {n}
      BY <1>5, <1>7
    <2>2. Wheel(With(tmBucket, k, b, s), tmPool.used \ {n})
      BY <1>0, <1>7, <2>1, WheelDrop
    <2> QED BY <1>4, <1>8, <2>2
  <1>10. Replaced(tmBucket', tmBucket, k, b, s)
    BY <1>5, <1>7, <1>8, WithIs, Zenon
  <1>11. tmExpire' \in [TNodes -> Nat] /\ \A m \in TNodes : m # n => tmExpire'[m] = tmExpire[m]
    BY <1>0, <1>1
  <1>12. ASSUME NEW l \in Levels, NEW c \in Buckets(l), NEW m \in ToSet(tmBucket'[l][c])
         PROVE  Fits(tmExpire'[m], l, tmLast + ToGo(tmPt, l, c))
    <2>1. m # n
      BY <1>4, <1>9 DEF Wheel
    <2>2. m \in ToSet(tmBucket[l][c])
      BY <1>5, <1>7, <1>10 DEF Replaced
    <2>3. m \in TNodes
      BY <1>0, <2>2, WheelNodes
    <2>4. Fits(tmExpire[m], l, tmLast + ToGo(tmPt, l, c))
      BY <1>0, <2>2 DEF OnTime, LevelFits
    <2> QED BY <1>11, <2>1, <2>3, <2>4
  <1>13. OnTime(tmBucket, tmPt, tmLast)'
    <2>1. tmLast' = tmLast /\ tmPt' = tmPt
      BY <1>1
    <2> QED BY <1>12, <2>1 DEF OnTime, LevelFits
  <1>14. ClockOk'
    BY <1>0, <1>1 DEF ClockOk
  <1> QED BY <1>1, <1>4, <1>9, <1>11, <1>13, <1>14 DEF TimerInv
\* The largest of a set of numbers with a bound.
LEMMA GreatestInt ==
    ASSUME NEW S \in SUBSET Int, S # {}, NEW h \in Int, \A e \in S : e <= h
    PROVE  \E e \in S : \A f \in S : f <= e
  <1>1. PICK T : T = {h - e : e \in S}
    OBVIOUS
  <1>2. T \in SUBSET Nat /\ T # {}
    <2>1. \A e \in S : h - e \in Nat
      <3> TAKE e \in S
      <3>1. e \in Int /\ e <= h
        OBVIOUS
      <3> QED BY <3>1
    <2> QED BY <1>1, <2>1
  <1>3. PICK m \in T : \A j \in T : m <= j
    BY <1>2, LeastNat
  <1>4. PICK e \in S : m = h - e
    BY <1>1, <1>3
  <1>5. ASSUME NEW f \in S PROVE f <= e
    <2>1. h - f \in T
      BY <1>1
    <2>2. h - e <= h - f
      BY <1>3, <1>4, <2>1
    <2> QED BY <2>2
  <1> QED BY <1>5

\* A scan: tick by tick up to the clock.
LEMMA ScanKeeps == TimerInv /\ GetTimer => TimerInv'
  <1> SUFFICES ASSUME TimerInv, GetTimer PROVE TimerInv'
    OBVIOUS
  <1>0. /\ tmNow \in Nat /\ tmLast \in Nat /\ tmExpire \in [TNodes -> Nat] /\ ClockOk
        /\ PointersOk(tmPt) /\ PoolOk(tmPool, TimerNodes)
        /\ Wheel(tmBucket, tmPool.used) /\ OnTime(tmBucket, tmPt, tmLast)
    BY DEF TimerInv
  <1>1. PICK P \in Nat \ {0}, lag \in Nat, l \in Nat, now \in Nat :
            P = Parts /\ lag = MaxLag /\ l = tmLast /\ now = tmNow
    BY <1>0, TimerAssumption
  <1>2. l * P <= now /\ now <= (l + lag + 2) * P - 1
    BY <1>0, <1>1 DEF ClockOk
  <1>3. PICK q \in Nat : q = now \div P /\ q * P <= now /\ now < q * P + P
    BY DivIs
  <1>4. l <= q
    <2> SUFFICES ASSUME q + 1 <= l PROVE FALSE
      OBVIOUS
    <2>1. (q + 1) * P <= l * P
      BY MulMono
    <2>2. (q + 1) * P = q * P + P
      BY SMT
    <2>3. PICK a \in Int, b \in Int : a = q * P /\ b = l * P
      OBVIOUS
    <2> QED BY <1>2, <1>3, <2>1, <2>2, <2>3
  <1>5. PICK N \in Nat : N = tmNow \div Parts - tmLast /\ N = q - l
    <2>1. tmNow \div Parts = q
      BY <1>1, <1>3, Zenon
    <2>2. q - l \in Nat
      BY <1>4
    <2> QED BY <1>1, <2>1, <2>2
  <1>6. PICK F : LoopIs(F, N) /\ Scanned(F[N])
    BY <1>5, ScanIs
  <1>7. PICK U : U = tmPool.used /\ U \in SUBSET TNodes
    BY <1>0 DEF PoolOk, PoolTypes, TNodes
  <1>8. ASSUME NEW i \in 1..N PROVE ClockIn((l + (i - 1)) + 1)
    <2>1. PICK g \in Nat : g = (l + (i - 1)) + 1 /\ g <= q /\ l + 1 <= g
      BY <1>5
    <2>2. g * P <= q * P /\ (l + lag + 2) * P <= (g + lag + 1) * P
      BY <2>1, MulMono
    <2>3. PICK a \in Int, b \in Int, c \in Int, d \in Int :
              a = g * P /\ b = q * P /\ c = (l + lag + 2) * P /\ d = (g + lag + 1) * P
      OBVIOUS
    <2>4. g * P <= now /\ now <= (g + lag + 1) * P - 1
      BY <1>2, <1>3, <2>2, <2>3
    <2> QED BY <1>1, <2>1, <2>4 DEF ClockIn
  <1>9. PICK T : T = {i \in 0..N : LoopAt(F[i], l + i, U)}
    OBVIOUS
  <1>10. 0 \in T
    <2>1. U \cup {} = U /\ U \cap {} = {} /\ l + 0 = l /\ 0 \in 0..N
      OBVIOUS
    <2>2. InLoop(tmPt, tmBucket, tmPool, {}, l, U)
      BY <1>0, <1>1, <1>7 DEF InLoop
    <2>3. LoopAt(F[0], l, U)
      BY <1>6, <2>2 DEF LoopAt, LoopIs
    <2> QED BY <1>9, <2>1, <2>3
  <1>11. ASSUME NEW i \in 1..N, i - 1 \in T PROVE i \in T
    <2>1. LoopAt(F[i - 1], l + (i - 1), U)
      BY <1>9, <1>11
    <2>2. PICK x, y, p, f : F[i - 1] = WheelAt(x, y, p, f) /\ InLoop(x, y, p, f, l + (i - 1), U)
      BY <2>1 DEF LoopAt
    <2>3. l + (i - 1) \in Nat /\ (l + (i - 1)) + 1 = l + i /\ i \in 0..N
      OBVIOUS
    <2>4. LoopAt(GetTimerInternal(WheelAt(x, y, p, f)), (l + (i - 1)) + 1, U)
      BY <1>0, <1>7, <1>8, <2>2, <2>3, InternalIs, Zenon
    <2>5. F[i] = GetTimerInternal(WheelAt(x, y, p, f))
      BY <1>6, <2>2 DEF LoopIs
    <2> QED BY <1>9, <2>3, <2>4, <2>5
  <1>12. LoopAt(F[N], q, U)
    <2>1. N \in 0..N /\ l + N = q
      BY <1>5
    <2>2. N \in T
      BY <1>10, <1>11, <2>1, UpTo
    <2>3. LoopAt(F[N], l + N, U)
      BY <1>9, <2>2
    <2> QED BY <2>1, <2>3
  <1>13. PICK x, y, p, f : F[N] = WheelAt(x, y, p, f) /\ InLoop(x, y, p, f, q, U)
    BY <1>12 DEF LoopAt
  <1>14. /\ tmLast' = q /\ tmPt' = x /\ tmBucket' = y /\ tmPool' = p
         /\ tmEarly' = CHOOSE e \in {tmExpire[n] - tmNow : n \in f} \cup {0} :
                         \A h \in {tmExpire[n] - tmNow : n \in f} \cup {0} : h <= e
         /\ tmExpire' = [n \in TNodes |-> IF n \in f THEN 0 ELSE tmExpire[n]]
         /\ tmNow' = tmNow
    <2>1. PICK s : s = F[N] /\ s.pt = x /\ s.bucket = y /\ s.pool = p /\ s.fired = f
      BY <1>13 DEF WheelAt
    <2>2. Scanned(s)
      BY <1>6, <2>1
    <2> QED BY <1>1, <1>3, <2>1, <2>2 DEF Scanned
  <1>15. /\ PointersOk(x) /\ PoolOk(p, TimerNodes) /\ Wheel(y, p.used) /\ OnTime(y, x, q)
         /\ p.used \cup f = U /\ p.used \cap f = {}
         /\ \A n \in f : tmExpire[n] - tmNow <= Hi(1)
    BY <1>13 DEF InLoop
  <1>16. tmEarly' \in Int /\ tmEarly' <= Hi(1)
    <2>1. PICK S : S = {tmExpire[n] - tmNow : n \in f} \cup {0}
      OBVIOUS
    <2>2. \A n \in f : tmExpire[n] - tmNow \in Int
      BY <1>0, <1>7, <1>15
    <2>3. S \in SUBSET Int /\ S # {} /\ \A e \in S : e <= Hi(1)
      BY <1>15, <2>1, <2>2, HiFirst
    <2>4. \E e \in S : \A h \in S : h <= e
      <3>1. PICK top \in Int : top = Hi(1)
        BY HiFirst
      <3>2. \A e \in S : e <= top
        BY <2>3, <3>1
      <3> QED BY <2>3, <3>2, GreatestInt, Zenon
    <2>5. tmEarly' = CHOOSE e \in S : \A h \in S : h <= e
      BY <1>14, <2>1
    <2>6. tmEarly' \in S
      BY <2>4, <2>5
    <2> QED BY <2>3, <2>6
  <1>17. tmExpire' \in [TNodes -> Nat] /\ \A n \in p.used : tmExpire'[n] = tmExpire[n]
    <2>1. \A n \in TNodes : tmExpire[n] \in Nat
      BY <1>0
    <2>2. tmExpire' \in [TNodes -> Nat]
      BY <1>14, <2>1
    <2>3. \A n \in p.used : n \in TNodes /\ n \notin f
      BY <1>7, <1>15
    <2> QED BY <1>14, <2>2, <2>3
  <1>18. ASSUME NEW k \in Levels, NEW b \in Buckets(k), NEW n \in ToSet(y[k][b])
         PROVE  Fits(tmExpire'[n], k, q + ToGo(x, k, b))
    <2>1. n \in p.used
      BY <1>15 DEF Wheel
    <2>2. Fits(tmExpire[n], k, q + ToGo(x, k, b))
      BY <1>15 DEF OnTime, LevelFits
    <2> QED BY <1>17, <2>1, <2>2
  <1>19. OnTime(tmBucket, tmPt, tmLast)'
    BY <1>14, <1>18 DEF OnTime, LevelFits
  <1>20. ClockOk'
    <2>1. 1 * P <= (lag + 2) * P
      BY MulMono
    <2>2. (q + lag + 2) * P = q * P + (lag + 2) * P /\ 1 * P = P
      BY SMT
    <2>3. PICK a \in Int, b \in Int, c \in Int : a = q * P /\ b = (lag + 2) * P /\ c = (q + lag + 2) * P
      OBVIOUS
    <2>4. q * P <= now /\ now <= (q + lag + 2) * P - 1
      BY <1>3, <2>1, <2>2, <2>3
    <2> QED BY <1>1, <1>14, <2>4 DEF ClockOk
  <1>21. tmNow' \in Nat /\ tmLast' \in Nat
    BY <1>0, <1>14
  <1> QED BY <1>14, <1>15, <1>16, <1>17, <1>19, <1>20, <1>21 DEF TimerInv

\* Every step keeps the timers in order.
LEMMA TimerKeeps == TimerInv /\ [TimerNext]_timerVars => TimerInv'
  <1> SUFFICES ASSUME TimerInv, [TimerNext]_timerVars PROVE TimerInv'
    OBVIOUS
  <1>1. CASE ClockTick
    BY <1>1, ClockKeeps
  <1>2. CASE GetTimer
    BY <1>2, ScanKeeps
  <1>3. CASE \E i \in Intervals : AddTimer(i)
    BY <1>3, AddKeeps
  <1>4. CASE \E n \in TNodes : DelTimer(n)
    BY <1>4, DelKeeps
  <1>5. CASE UNCHANGED timerVars
    BY <1>5 DEF timerVars, TimerInv, ClockOk, OnTime, LevelFits
  <1> QED BY <1>1, <1>2, <1>3, <1>4, <1>5 DEF TimerNext

\* Timers in order are punctual: a bucket's turn comes after a tick at least.
LEMMA TimerHolds == TimerInv => TimersPunctual
  <1> SUFFICES ASSUME TimerInv PROVE TimersPunctual
    OBVIOUS
  <1>0. Top \in Nat /\ Top >= 3 /\ Levels = 1..Top /\ Top - 2 \in 0..Top
    <2>1. Top \in Nat /\ Top >= 3
      BY TicksAre
    <2>2. Levels = 1..Top
      BY DEF Levels, Top
    <2> QED BY <2>1, <2>2
  <1>1. tmEarly <= (MaxLag + 2) * Parts - 2
    BY HiFirst DEF TimerInv
  <1>2. PICK P \in Nat \ {0}, lag \in Nat, l \in Nat, now \in Nat, wt \in Nat :
            P = Parts /\ lag = MaxLag /\ l = tmLast /\ now = tmNow /\ wt = WaitBelow[Top - 2]
    <2>1. WaitBelow[Top - 2] \in Nat
      BY <1>0, WaitAre
    <2> QED BY <2>1, TimerAssumption DEF TimerInv
  <1>3. ASSUME NEW n \in tmPool.used, NEW k \in Levels, NEW b \in Buckets(k), n \in ToSet(tmBucket[k][b])
        PROVE  tmNow <= tmExpire[n] + (MaxLag + 2 + WaitBelow[Len(TBNum) - 2]) * Parts - 2
    <2>1. PICK e \in Nat : e = tmExpire[n]
      BY DEF TimerInv, PoolOk, PoolTypes, TNodes
    <2>2. PICK t \in Nat \ {0} : t = ToGo(tmPt, k, b)
      <3>1. tmPt \in Pointers /\ \A j \in 1..Top : tmPt[j] < TBNum[j]
        BY <1>0 DEF TimerInv, PointersOk
      <3>2. k \in 1..Top /\ k - 1 \in 0..Top /\ \A j \in 1..(k - 1) : j \in 1..Top
        BY <1>0
      <3>3. Elapsed(tmPt)[k - 1] < TBTicks[k - 1]
        BY <3>1, <3>2, ElapsedBelow
      <3>4. ToGo(tmPt, k, b) \in Nat \ {0}
        BY <3>1, <3>2, <3>3, ToGoLeast
      <3> QED BY <3>4
    <2>3. Lo(k) <= e - (l + t) * P
      BY <1>2, <1>3, <2>1, <2>2 DEF TimerInv, OnTime, LevelFits, Fits
    <2>4. PICK w \in Nat : w = WaitBelow[k - 1]
      <3>1. k - 1 \in 0..Top
        BY <1>0
      <3> QED BY <3>1, WaitAre
    <2>5. (w - wt - 1) * P + 1 <= e - (l + t) * P
      BY <1>2, <2>3, <2>4 DEF Lo
    <2>6. now <= (l + lag + 2) * P - 1
      BY <1>2 DEF TimerInv, ClockOk
    <2>7. now <= e + (lag + 2 + wt) * P - 2
      <3>1. PICK lP \in Int, aP \in Int, wP \in Int, vP \in Int, tP \in Int :
                lP = l * P /\ aP = lag * P /\ wP = wt * P /\ vP = w * P /\ tP = t * P
        OBVIOUS
      <3>2. /\ (w - wt - 1) * P = w * P - wt * P - P
            /\ (l + t) * P = l * P + t * P
            /\ (l + lag + 2) * P = l * P + lag * P + 2 * P
            /\ (lag + 2 + wt) * P = lag * P + 2 * P + wt * P
        BY SMT
      <3>3. 1 * P <= t * P /\ 0 * P <= w * P
        BY MulMono
      <3>4. P <= tP /\ 0 <= vP
        BY <3>1, <3>3
      <3>5. vP - wP - P + 1 <= e - (lP + tP) /\ now <= lP + aP + 2 * P - 1
        BY <2>5, <2>6, <3>1, <3>2
      <3>6. now <= e + (aP + 2 * P + wP) - 2
        BY <3>4, <3>5
      <3> QED BY <3>1, <3>2, <3>6
    <2> QED BY <1>2, <2>1, <2>7 DEF Top
  <1>4. ASSUME NEW n \in tmPool.used
        PROVE  /\ tmNow <= tmExpire[n] + (MaxLag + 2 + WaitBelow[Len(TBNum) - 2]) * Parts - 2
               /\ \E k \in Levels : \E b \in Buckets(k) : \E i \in 1..Len(tmBucket[k][b]) :
                    /\ tmBucket[k][b][i] = n
                    /\ \A j \in Levels : \A c \in Buckets(j) : \A h \in 1..Len(tmBucket[j][c]) :
                         tmBucket[j][c][h] = n => j = k /\ c = b /\ h = i
    <2>1. Wheel(tmBucket, tmPool.used)
      BY DEF TimerInv
    <2>2. PICK k \in Levels : \E b \in Buckets(k) : n \in ToSet(tmBucket[k][b])
      BY <2>1 DEF Wheel
    <2>3. PICK b \in Buckets(k) : n \in ToSet(tmBucket[k][b])
      BY <2>2
    <2>4. PICK i \in 1..Len(tmBucket[k][b]) : tmBucket[k][b][i] = n
      <3>1. tmBucket[k][b] \in Seq(TNodes)
        BY <2>1 DEF Wheel, IsWheel
      <3> QED BY <2>3, <3>1 DEF ToSet
    <2>5. ASSUME NEW j \in Levels, NEW c \in Buckets(j), NEW h \in 1..Len(tmBucket[j][c]), tmBucket[j][c][h] = n
          PROVE  j = k /\ c = b /\ h = i
      <3>1. tmBucket[j][c] \in Seq(TNodes)
        BY <2>1 DEF Wheel, IsWheel
      <3>2. n \in ToSet(tmBucket[j][c])
        BY <2>5, <3>1 DEF ToSet
      <3>3. j = k /\ c = b
        BY <2>1, <2>3, <3>2 DEF Wheel
      <3>4. Distinct(tmBucket[k][b])
        BY <2>1 DEF Wheel
      <3> QED BY <2>4, <2>5, <3>3, <3>4 DEF Distinct
    <2> QED BY <1>3, <2>3, <2>4, <2>5
  <1> QED BY <1>1, <1>4 DEF TimersPunctual

\* In a wheel of three or more levels of any size, with any intervals that fit it
\* and a caller of GetTimer late by at most MaxLag ticks, no timer fires earlier
\* than the lag and the cut ticks explain nor is one pending later than that and
\* its waits on the lower levels, and each pending timer is in one bucket, once:
\* whatever is added, deleted and scanned in between.
THEOREM TimersAlwaysPunctual == TimerSpec => []TimersPunctual
  <1>1. TimerInit => TimerInv
    BY TimerStarts
  <1>2. TimerInv /\ [TimerNext]_timerVars => TimerInv'
    BY TimerKeeps
  <1>3. TimerInv => TimersPunctual
    BY TimerHolds
  <1> QED BY <1>1, <1>2, <1>3, PTL DEF TimerSpec
=============================================================================
