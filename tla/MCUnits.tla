------------------------------ MODULE MCUnits ------------------------------
(***************************************************************************)
(* Seven small machines that do not interact, checked in one run: the      *)
(* initial state chooses one of them, and the others stand still.          *)
(***************************************************************************)
EXTENDS BusLink, ByteStream, ConnTable, LogFiles, SafeTcp, MemPool, TimerPool

VARIABLE unit   \* the machine that runs

unitVars == <<unit, vars, streamVars, tableVars, logVars, safeVars, poolVars, timerVars>>

UnitsInit ==
  /\ unit \in {"link", "stream", "table", "log", "safe", "pool", "timer"}
  /\ Init /\ StreamInit /\ TableInit /\ LogInit /\ SafeInit /\ MemPoolInit /\ TimerInit
  /\ unit # "log" => lgInode = 0
  /\ unit # "timer" => tmNow = 0

LinkRuns == unit = "link" /\ UNCHANGED <<unit, streamVars, tableVars, logVars, safeVars, poolVars, timerVars>>
StreamRuns == unit = "stream" /\ UNCHANGED <<unit, vars, tableVars, logVars, safeVars, poolVars, timerVars>>
TableRuns == unit = "table" /\ UNCHANGED <<unit, vars, streamVars, logVars, safeVars, poolVars, timerVars>>
LogRuns == unit = "log" /\ UNCHANGED <<unit, vars, streamVars, tableVars, safeVars, poolVars, timerVars>>
SafeRuns == unit = "safe" /\ UNCHANGED <<unit, vars, streamVars, tableVars, logVars, poolVars, timerVars>>
PoolRuns == unit = "pool" /\ UNCHANGED <<unit, vars, streamVars, tableVars, logVars, safeVars, timerVars>>
TimerRuns == unit = "timer" /\ UNCHANGED <<unit, vars, streamVars, tableVars, logVars, safeVars, poolVars>>

UnitsNext ==
  \/ LinkRuns /\ Next
  \/ StreamRuns /\ StreamNext
  \/ TableRuns /\ TableNext
  \/ LogRuns /\ LogNext
  \/ SafeRuns /\ SafeNext
  \/ PoolRuns /\ MemPoolNext
  \/ TimerRuns /\ TimerNext

\* The fairness of BusLink, and that of the two epoll loops: a loop that has
\* an event to handle handles it, and goes on turning.
UnitsFairness ==
  /\ \A c \in Clusters :
       /\ WF_unitVars(LinkRuns /\ SendHelloMessage(c))
       /\ WF_unitVars(LinkRuns /\ Restart(c))
       /\ WF_unitVars(LinkRuns /\ \E x \in conns[c] : EpollHup(c, x))
       /\ \A d \in Clusters : WF_unitVars(LinkRuns /\
            (RecvHelloKnown(c, d) \/ RecvHelloConnect(c, d) \/ RecvHelloRefused(c, d)))
  /\ WF_unitVars(StreamRuns /\ SendRemainData)
  /\ WF_unitVars(StreamRuns /\ StreamRecvStep)
  /\ WF_unitVars(TableRuns /\ TableRun)

UnitsSpec == UnitsInit /\ [][UnitsNext]_unitVars /\ UnitsFairness

\* A wheel of sixteen ticks in four levels.
MCTBNum == <<2, 2, 2, 2>>

-----------------------------------------------------------------------------
\* Once the faults are over, every cluster that runs gets back its connection to
\* every other one, or is the one whose last position ReleaseConn forgets to
\* reset: lost hellos, deaths of either side and connections that break while
\* they are being replaced do not leave two buses without a connection.
LinksComeBack == unit = "link" => LinkRecovers
=============================================================================
