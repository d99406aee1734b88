----------------------------- MODULE ByteStream -----------------------------
(***************************************************************************)
(* A byte stream through class CConnInfo and the epoll loop that drives    *)
(* it.  The sending end is a conn server that writes to a client without   *)
(* blocking: conn/conn.cpp, Send2Client.  The receiving end is the loop of *)
(* Run that a bus runs for its peers and a conn server for its clients;    *)
(* the client at the other end, which is not part of the repository's      *)
(* servers, is taken to frame packets in the same way.  (The sockets on    *)
(* which a bus sends do block: see BusRoute.)                              *)
(*                                                                         *)
(* A packet is known by its number, and byte i of packet k is <<k, i>>; the *)
(* first HeaderLen bytes carry the packet's length.                        *)
(***************************************************************************)
EXTENDS Integers, Sequences, FiniteSets

CONSTANTS
  HeaderLen,    \* GetHeaderLen of BusHeader or XYHeader
  MaxBuffLen,   \* XY_MAXBUFF_LEN, the same number as XY_PKG_MAX_LEN
  SockLen,      \* bytes the kernel holds between write and read
  PkgLens,      \* lengths of the packets sent
  MaxPkgs,      \* bound: packets sent
  MayBreak      \* whether the connection may break

ASSUME StreamAssumption ==
  /\ HeaderLen \in Nat \ {0} /\ MaxBuffLen \in Nat /\ SockLen \in Nat \ {0}
  /\ PkgLens \subseteq HeaderLen..MaxBuffLen /\ MaxPkgs \in Nat
  /\ MayBreak \in BOOLEAN

VARIABLES
  stSent,     \* lengths of the packets that Send2Client took, in order
  stOut,      \* m_RemainSendData of the sending end
  stEpollOut, \* EPOLLOUT is registered for the sending end
  stWire,     \* bytes in the kernel
  stIn,       \* m_RemainRecvData of the receiving end
  stProc,     \* pCurBuffPos .. pCurBuffPos + RecvLen: bytes not processed yet
  stPc,       \* where the receiving end is: in epoll_wait, or in its loop
  stGot,      \* packets ProcessPkg has handled
  stOpen,     \* ends that still have the connection in m_PosConnMap
  stLost      \* the connection broke, or the sending end gave it up

streamVars == <<stSent, stOut, stEpollOut, stWire, stIn, stProc, stPc, stGot,
                stOpen, stLost>>

Bytes(k, len) == [i \in 1..len |-> <<k, i>>]
Take(s, n) == SubSeq(s, 1, n)
Drop(s, n) == SubSeq(s, n + 1, Len(s))
Least(a, b) == IF a < b THEN a ELSE b

\* What write() may accept of n bytes: all that fit or fewer; none (EAGAIN)
\* only when the kernel is full.
Writes(wire, n) == LET free == SockLen - Len(wire)
                   IN IF free = 0 THEN {0} ELSE 1..Least(free, n)

StreamInit ==
  /\ stSent = << >> /\ stOut = << >> /\ stEpollOut = FALSE
  /\ stWire = << >> /\ stIn = << >> /\ stProc = << >> /\ stPc = "epoll"
  /\ stGot = << >> /\ stOpen = {"send", "recv"} /\ stLost = FALSE

-----------------------------------------------------------------------------
(* The sending end.                                                        *)

\* CConnInfo::Send of packet p, its outcomes: what is then in the kernel, in
\* m_RemainSendData, and left of p.  The remainder goes first, and p is touched
\* only when nothing of the remainder is left.
SendResults(p) ==
  LET first == IF stOut = << >> THEN {0} ELSE Writes(stWire, Len(stOut))
      wire(w) == stWire \o Take(stOut, w)
  IN UNION {IF w < Len(stOut)
            THEN {[wire |-> wire(w), out |-> Drop(stOut, w), rest |-> p]}
            ELSE {[wire |-> wire(w) \o Take(p, v), out |-> << >>,
                   rest |-> Drop(p, v)] : v \in Writes(wire(w), Len(p))}
            : w \in first}

\* As the next definition, but the unsent part of the packet goes in front.
AddSendDataFront(out, rest) == rest \o out

\* AddSendData: the unsent part of the packet is kept behind the remainder.
AddSendData(out, rest) == out \o rest

\* Send2Client: Send, then AddSendData and EPOLLOUT for what is
\* left; when that does not fit either, ReleaseConn.
Send2Client(len) ==
  /\ "send" \in stOpen
  /\ Len(stSent) < MaxPkgs
  /\ \E r \in SendResults(Bytes(Len(stSent) + 1, len)) :
       /\ stWire' = r.wire
       /\ IF Len(r.out) + Len(r.rest) > MaxBuffLen
          THEN /\ stOpen' = stOpen \ {"send"} /\ stLost' = TRUE
               /\ stOut' = << >> /\ stEpollOut' = FALSE
               /\ UNCHANGED stSent
          ELSE /\ stOut' = AddSendData(r.out, r.rest)
               /\ stEpollOut' = (stEpollOut \/ r.rest # << >>)
               /\ stSent' = Append(stSent, len)
               /\ UNCHANGED <<stOpen, stLost>>
  /\ UNCHANGED <<stIn, stProc, stPc, stGot>>

\* As the next definition, but EPOLLOUT is removed whatever was written.
SendRemainDataOnce ==
  /\ stEpollOut /\ Len(stWire) < SockLen
  /\ \E w \in IF stOut = << >> THEN {0} ELSE Writes(stWire, Len(stOut)) :
       /\ stWire' = stWire \o Take(stOut, w)
       /\ stOut' = Drop(stOut, w)
       /\ stEpollOut' = FALSE
  /\ UNCHANGED <<stSent, stIn, stProc, stPc, stGot, stOpen, stLost>>

\* Run, EPOLLOUT: the event stays registered until the remainder is sent.
SendRemainData ==
  /\ stEpollOut /\ Len(stWire) < SockLen
  /\ \E w \in IF stOut = << >> THEN {0} ELSE Writes(stWire, Len(stOut)) :
       /\ stWire' = stWire \o Take(stOut, w)
       /\ stOut' = Drop(stOut, w)
       /\ stEpollOut' = (w < Len(stOut))
  /\ UNCHANGED <<stSent, stIn, stProc, stPc, stGot, stOpen, stLost>>

-----------------------------------------------------------------------------
(* The receiving end.                                                      *)

\* Run, EPOLLIN, CConnInfo::Recv: the remainder and what read() returns.  The
\* read is limited to what the buffer has left beside the remainder.
StreamRecv ==
  /\ "recv" \in stOpen /\ stPc = "epoll"
  /\ \E n \in 1..Least(Len(stWire), MaxBuffLen - Len(stIn)) :
       /\ stProc' = stIn \o Take(stWire, n)
       /\ stWire' = Drop(stWire, n)
  /\ stIn' = << >>
  /\ stPc' = "process"
  /\ UNCHANGED <<stSent, stOut, stEpollOut, stGot, stOpen, stLost>>

\* read() returns 0, because the sending end has closed or because the buffer
\* has no room beside the remainder: ReleaseConn.
StreamRecvZero ==
  /\ "recv" \in stOpen /\ stPc = "epoll"
  /\ \/ stWire = << >> /\ "send" \notin stOpen
     \/ stWire # << >> /\ Len(stIn) = MaxBuffLen
  /\ stOpen' = stOpen \ {"recv"}
  /\ stIn' = << >>
  /\ UNCHANGED <<stSent, stOut, stEpollOut, stWire, stProc, stPc, stGot, stLost>>

\* The length in the header at the start of buf.  Bytes in the middle of a
\* packet are no header; whatever is read there is taken for a length.
PkgLen(buf) == LET k == buf[1][1] IN IF buf[1][2] = 1 THEN stSent[k] ELSE HeaderLen

\* ProcessPkg, the return value: more than Len(buf) when bytes are missing.
ProcLen(buf) == IF Len(buf) < HeaderLen THEN HeaderLen ELSE PkgLen(buf)

\* A complete packet is handled.
StreamProcessPkg ==
  /\ stPc = "process" /\ stProc # << >>
  /\ ProcLen(stProc) <= Len(stProc)
  /\ stGot' = Append(stGot, Take(stProc, ProcLen(stProc)))
  /\ stProc' = Drop(stProc, ProcLen(stProc))
  /\ UNCHANGED <<stSent, stOut, stEpollOut, stWire, stIn, stPc, stOpen, stLost>>

\* The loop ends: nothing is left, or AddRecvData keeps an incomplete packet.
AddRecvData ==
  /\ stPc = "process"
  /\ stProc # << >> => ProcLen(stProc) > Len(stProc)
  /\ stIn' = stProc
  /\ stProc' = << >>
  /\ stPc' = "epoll"
  /\ UNCHANGED <<stSent, stOut, stEpollOut, stWire, stGot, stOpen, stLost>>

\* The connection breaks; EPOLLERR or EPOLLHUP is looked at before EPOLLIN, so
\* what was not read is lost at both ends.
StreamBreak ==
  /\ MayBreak /\ stPc = "epoll" /\ stOpen # {}
  /\ stOpen' = {} /\ stLost' = TRUE
  /\ stOut' = << >> /\ stEpollOut' = FALSE /\ stWire' = << >> /\ stIn' = << >>
  /\ UNCHANGED <<stSent, stProc, stPc, stGot>>

StreamRecvStep == StreamRecv \/ StreamRecvZero \/ StreamProcessPkg \/ AddRecvData
StreamNext ==
  \/ \E len \in PkgLens : Send2Client(len)
  \/ SendRemainData \/ StreamRecvStep \/ StreamBreak

StreamSpec == StreamInit /\ [][StreamNext]_streamVars

-----------------------------------------------------------------------------
(* Properties.                                                             *)
Flatten(ps) == LET f[n \in 0..Len(ps)] == IF n = 0 THEN << >> ELSE f[n - 1] \o ps[n]
               IN f[Len(ps)]
AllBytes == Flatten([k \in 1..Len(stSent) |-> Bytes(k, stSent[k])])

\* Partial writes, partial reads, packets split at any byte, several in one
\* read: the packets handled, the buffers of both ends and the kernel together
\* are exactly the packets sent, in order, and each packet was handled whole.
\* When the connection is lost, what was handled is still a prefix.
StreamWhole ==
  /\ \A k \in 1..Len(stGot) : k <= Len(stSent) /\ stGot[k] = Bytes(k, stSent[k])
  /\ ~stLost => AllBytes = Flatten(stGot) \o stProc \o stIn \o stWire \o stOut

\* A packet that Send2Client took is handled by the other end, unless the
\* connection is lost: no remainder is forgotten at either end, and a packet
\* of the maximal length does not end the connection.
StreamDelivers == \A k \in 1..MaxPkgs : Len(stSent) >= k ~> (Len(stGot) >= k \/ stLost)
=============================================================================
