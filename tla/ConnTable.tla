----------------------------- MODULE ConnTable -----------------------------
(***************************************************************************)
(* The connection table of a conn server and the scan for idle            *)
(* connections: m_PosConnMap, m_ConnPosCnt and the iterator               *)
(* m_itrCurCheckConn, which Accept, ReleaseConn and CheckConn share.       *)
(* conn/conn.cpp; AcceptConn of bus/bus.cpp is the same code.              *)
(***************************************************************************)
EXTENDS Integers, FiniteSets

CONSTANTS
  ListenPos,   \* positions of the listening sockets
  ClientMin,   \* CLIENT_SOCK_CPOS_MIN
  ClientMax,   \* the largest unsigned int
  MaxConns     \* bound: client connections at a time

ASSUME TableAssumption ==
  /\ ClientMin \in Nat /\ ClientMax \in Nat /\ MaxConns \in Nat
  /\ ListenPos \subseteq 1..(ClientMin - 1) /\ MaxConns < ClientMax - ClientMin

VARIABLES
  tbPos,     \* keys of m_PosConnMap
  tbCnt,     \* m_ConnPosCnt
  tbCursor,  \* the key m_itrCurCheckConn points at, or End
  tbIdle,    \* client connections idle for longer than m_TimeOut
  tbEvents,  \* positions in RetEvent that are still to be handled
  tbPc       \* where Run is in its loop

tableVars == <<tbPos, tbCnt, tbCursor, tbIdle, tbEvents, tbPc>>

End == ClientMax + 1                              \* m_PosConnMap.end()
First(S) == IF S = {} THEN End ELSE CHOOSE p \in S : \A q \in S : p <= q
After(p) == First({q \in tbPos : q > p})          \* the iterator's ++

\* Init: the listening sockets.  The iterator was set to begin() while the map
\* was empty.
TableInit ==
  /\ tbPos = ListenPos /\ tbCnt = 0 /\ tbCursor = End
  /\ tbIdle = {} /\ tbEvents = {} /\ tbPc = "epoll"

\* m_ConnPosCnt after the increment, which wraps at the width of an int.
NextCnt == IF tbCnt + 1 \in ClientMin..ClientMax THEN tbCnt + 1 ELSE ClientMin + 1

\* The search for a position that is not in use, upwards from the counter.
FreeConnPos ==
  LET above == First((NextCnt..ClientMax) \ tbPos)
  IN IF above # End THEN above ELSE First((ClientMin + 1..ClientMax) \ tbPos)

\* AcceptConn, and the insertion into the map.
AcceptConn ==
  /\ Cardinality(tbPos \ ListenPos) < MaxConns
  /\ tbPos' = tbPos \cup {FreeConnPos}
  /\ tbCnt' = NextCnt
  /\ UNCHANGED <<tbCursor, tbIdle>>

\* As the next definition, but the scan is not told.
ReleaseUnnoticed(p) ==
  /\ tbPos' = tbPos \ {p}
  /\ tbIdle' = tbIdle \ {p}
  /\ UNCHANGED <<tbCursor, tbCnt>>

\* ReleaseConn: an iterator that points at p moves on before p is erased.
Release(p) ==
  /\ tbCursor' = IF tbCursor = p THEN After(p) ELSE tbCursor
  /\ tbPos' = tbPos \ {p}
  /\ tbIdle' = tbIdle \ {p}
  /\ UNCHANGED tbCnt

-----------------------------------------------------------------------------
(* The loop of Run: events, then messages of other servers, then one step  *)
(* of the scan.                                                            *)
EpollWait ==
  /\ tbPc = "epoll"
  /\ tbEvents' \in SUBSET tbPos
  /\ tbPc' = "events"
  /\ UNCHANGED <<tbPos, tbCnt, tbCursor, tbIdle>>

\* A position that an earlier event of the batch has released is skipped.
HandleEvent(p) ==
  /\ tbPc = "events" /\ p \in tbEvents
  /\ tbEvents' = tbEvents \ {p}
  /\ IF p \in ListenPos
     THEN AcceptConn \/ UNCHANGED <<tbPos, tbCnt, tbCursor, tbIdle>>
     ELSE IF p \notin tbPos
     THEN UNCHANGED <<tbPos, tbCnt, tbCursor, tbIdle>>
     ELSE \/ Release(p)                               \* closed, or an error
          \/ /\ tbIdle' = tbIdle \ {p}                \* data
             /\ UNCHANGED <<tbPos, tbCnt, tbCursor>>
  /\ UNCHANGED tbPc

EventsDone ==
  /\ tbPc = "events" /\ tbEvents = {}
  /\ tbPc' = "messages"
  /\ UNCHANGED <<tbPos, tbCnt, tbCursor, tbIdle, tbEvents>>

\* A message of the bus that ends a connection, or none.
HandleMessage ==
  /\ tbPc = "messages"
  /\ \/ \E p \in tbPos \ ListenPos : Release(p)
     \/ UNCHANGED <<tbPos, tbCnt, tbCursor, tbIdle>>
  /\ tbPc' = "check"
  /\ UNCHANGED tbEvents

\* CheckConn: one connection per turn.
CheckConn ==
  /\ tbPc = "check"
  /\ \/ /\ tbCursor = End
        /\ tbCursor' = First(tbPos)
        /\ UNCHANGED <<tbPos, tbCnt, tbIdle>>
     \/ /\ tbCursor \in tbPos
        /\ IF tbCursor \in tbIdle
           THEN Release(tbCursor)
           ELSE tbCursor' = After(tbCursor) /\ UNCHANGED <<tbPos, tbCnt, tbIdle>>
  /\ tbPc' = "epoll"
  /\ UNCHANGED tbEvents

\* Time passes without data from p.
TimesOut(p) ==
  /\ p \in tbPos \ ListenPos
  /\ tbIdle' = tbIdle \cup {p}
  /\ UNCHANGED <<tbPos, tbCnt, tbCursor, tbEvents, tbPc>>

TableRun == \/ EpollWait \/ (\E p \in tbEvents : HandleEvent(p)) \/ EventsDone
            \/ HandleMessage \/ CheckConn
TableNext == TableRun \/ \E p \in tbPos : TimesOut(p)
TableSpec == TableInit /\ [][TableNext]_tableVars

-----------------------------------------------------------------------------
\* A connection on which nothing has come for m_TimeOut seconds is released,
\* or gets data first, although CheckConn looks at one connection per turn and
\* its iterator is moved, and what it points at erased, by accepts, closes and
\* kicks in between.  (If the iterator were left on an erased entry, CheckConn
\* would have no step here; in the program the outcome would be undefined.)
IdleReleased == \A p \in ClientMin..ClientMax : p \in tbIdle ~> p \notin tbIdle
=============================================================================
