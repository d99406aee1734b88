----------------------------- MODULE TimerPool -----------------------------
(***************************************************************************)
(* CTimerPool: the hierarchical timer wheel of timer_pool/timer_pool.h.    *)
(* Time is counted in parts of a tick of TIMER_ELEMENT microseconds; a     *)
(* bucket's doubly linked list is a sequence with the newest timer first.  *)
(* Callers delete a timer only while it is pending: the random number in   *)
(* an identifier tells a reused node from the old one, but not a node that *)
(* has been released and not reused.                                       *)
(***************************************************************************)
EXTENDS FixedsizeMemPool, Sequences, SequencesExt

CONSTANTS
  TBNum,        \* TB1_NUM, TB2_NUM, ...: <<256, 64, 64, 64, 64>>
  Parts,        \* parts of a tick
  TicksPerSec,  \* 1000000 / TIMER_ELEMENT
  TimerNodes,   \* nodes of m_objTimerNodePool
  Intervals,    \* intervals of AddTimer, in parts of a tick
  MaxLag,       \* ticks by which a call of GetTimer may come late
  MaxAdds,      \* bound: calls of AddTimer
  MaxTime       \* bound: parts of a tick

Levels == 1..Len(TBNum)

\* The ticks in which the pointers of the levels 1 to k go round; shifting by
\* the bits of these levels is dividing by it.
TBTicks[k \in 0..Len(TBNum)] == IF k = 0 THEN 1 ELSE TBTicks[k - 1] * TBNum[k]

\* An interval fits the wheel, as every unsigned int does in the program.
ASSUME TimerAssumption ==
  /\ TBNum \in Seq(Nat \ {0}) /\ Len(TBNum) >= 3
  /\ Parts \in Nat \ {0} /\ TicksPerSec \in Nat \ {0} /\ TimerNodes \in Nat \ {0}
  /\ \A i \in Intervals : i \in Nat \ {0} /\ i \div Parts < TBTicks[Len(TBNum)]
  /\ MaxLag \in Nat /\ MaxAdds \in Nat /\ MaxTime \in Nat

VARIABLES
  tmNow,     \* the clock
  tmLast,    \* tLastScanTime, in ticks
  tmPt,      \* uiTB1CurPt, uiTB2CurPt, ...
  tmBucket,  \* the timers of each bucket
  tmExpire,  \* tExpire of each node; 0 in a free one, where nobody reads it
  tmPool,    \* m_objTimerNodePool
  tmAdds,    \* timers added so far
  tmEarly    \* history: by how much a timer of the last scan fired too early

timerVars == <<tmNow, tmLast, tmPt, tmBucket, tmExpire, tmPool, tmAdds, tmEarly>>

TNodes     == 0..(TimerNodes - 1)
Buckets(k) == 0..(TBNum[k] - 1)

TimerInit ==
  /\ tmNow \in 0..(Parts - 1) /\ tmLast = 0
  /\ tmPt = [k \in Levels |-> 0]
  /\ tmBucket = [k \in Levels |-> [b \in Buckets(k) |-> <<>>]]
  /\ tmExpire = [n \in TNodes |-> 0]
  /\ tmPool = PoolInit(TimerNodes)
  /\ tmAdds = 0 /\ tmEarly = 0

-----------------------------------------------------------------------------
\* As the next definition, but what the lower levels still hold is not counted.
RestWhole(d) ==
  LET rest[k \in Levels] ==
        IF k = 1 THEN d
        ELSE rest[k - 1] - TBNum[k - 1] * TBTicks[k - 2]
  IN rest

\* uiIntervalForTB when level k is tried: less the ticks until the pointers of
\* the levels below have gone round.
Rest(d) ==
  LET rest[k \in Levels] ==
        IF k = 1 THEN d
        ELSE rest[k - 1] - (TBNum[k - 1] - tmPt[k - 1]) * TBTicks[k - 2]
  IN rest

\* The level and the bucket of AddTimer for an interval of d ticks.
TimerLevel(d) ==
  CHOOSE k \in Levels :
    /\ k = Len(TBNum) \/ Rest(d)[k] < TBTicks[k]
    /\ \A j \in 1..(k - 1) : Rest(d)[j] >= TBTicks[j]

TimerIndex(d, k) == (tmPt[k] + Rest(d)[k] \div TBTicks[k - 1]) % TBNum[k]

AddTimer(i) ==
  /\ tmAdds < MaxAdds /\ ~PoolFull(tmPool)
  /\ LET n == FreeNode(tmPool)
         d == i \div Parts
         k == TimerLevel(d)
     IN /\ tmBucket' = [tmBucket EXCEPT ![k][TimerIndex(d, k)] = <<n>> \o @]
        /\ tmExpire' = [tmExpire EXCEPT ![n] = tmNow + i]
  /\ tmPool' = AllocateNode(tmPool)
  /\ tmAdds' = tmAdds + 1
  /\ UNCHANGED <<tmNow, tmLast, tmPt, tmEarly>>

\* DelTimer takes the node out of the list it is in.
DelTimer(n) ==
  /\ n \in tmPool.used
  /\ \E k \in Levels : \E b \in Buckets(k) : \E i \in 1..Len(tmBucket[k][b]) :
       /\ tmBucket[k][b][i] = n
       /\ tmBucket' = [tmBucket EXCEPT ![k][b] = RemoveAt(@, i)]
  /\ tmPool' = ReleaseNode(tmPool, n)
  /\ tmExpire' = [tmExpire EXCEPT ![n] = 0]
  /\ UNCHANGED <<tmNow, tmLast, tmPt, tmAdds, tmEarly>>

-----------------------------------------------------------------------------
(* GetTimer.  s holds the pointers, the buckets and the pool while the loop *)
(* runs, and the nodes that have fired.                                     *)

\* Ticks until node n expires, as Migrate computes them: whole seconds, and a
\* difference of microseconds that is cut towards zero and may be negative.
Remaining(n) ==
  LET sec   == Parts * TicksPerSec
      usecs == (tmExpire[n] % sec) - (tmNow % sec)
      cut   == IF usecs >= 0 THEN usecs \div Parts ELSE -((-usecs) \div Parts)
  IN IF tmNow < tmExpire[n]
     THEN (tmExpire[n] \div sec - tmNow \div sec) * TicksPerSec + cut ELSE 0

\* The bucket of level k to which Migrate moves node n.
MigrateIndex(n, k) ==
  LET u == Remaining(n) \div TBTicks[k - 1]
      v == IF u > 0 THEN u - 1 ELSE u
  IN IF v >= TBNum[k] THEN TBNum[k] - 1 ELSE v

\* The first timer in bucket b of level k + 1 moves to level k.
MoveFirst(bucket, k, b) ==
  LET n == Head(bucket[k + 1][b])
  IN [bucket EXCEPT ![k][MigrateIndex(n, k)] = <<n>> \o @, ![k + 1][b] = Tail(@)]

\* Migrate: the timers in the current bucket of level k + 1 move to level k.
Migrate(s, k) ==
  LET b == s.pt[k + 1]
      moved[i \in 0..Len(s.bucket[k + 1][b])] ==
        IF i = 0 THEN s.bucket ELSE MoveFirst(moved[i - 1], k, b)
  IN [s EXCEPT !.bucket = moved[Len(s.bucket[k + 1][b])]]

\* The pointer of level 1 goes on by one; a pointer that has gone round is reset
\* when the current bucket of the next level has been moved down.
TurnLevel(s, k) ==
  LET up == s.pt[k + 1] + 1
  IN IF s.pt[k] # TBNum[k] THEN s
     ELSE [Migrate(s, k) EXCEPT
            !.pt = [@ EXCEPT ![k] = 0,
                             ![k + 1] = IF k + 1 = Len(TBNum) THEN up % TBNum[k + 1] ELSE up]]

Turn(s) ==
  LET turned[k \in 0..(Len(TBNum) - 1)] ==
        IF k = 0 THEN [s EXCEPT !.pt[1] = @ + 1] ELSE TurnLevel(turned[k - 1], k)
  IN turned[Len(TBNum) - 1]

\* GetTimerInternal: the current bucket of level 1 fires, and the wheel turns
\* unless no timer is left.
GetTimerInternal(s) ==
  LET due == s.bucket[1][s.pt[1]]
      t   == [s EXCEPT !.bucket = [@ EXCEPT ![1][s.pt[1]] = <<>>],
                       !.pool = ReleaseNodes(@, due),
                       !.fired = @ \cup ToSet(due)]
  IN IF s.pool.used = {} THEN s
     ELSE IF t.pool.used = {} THEN t ELSE Turn(t)

\* GetTimer: one turn for each tick since the last scan.
GetTimer ==
  LET ticks == tmNow \div Parts - tmLast
      loop[i \in 0..ticks] ==
        IF i = 0 THEN [pt |-> tmPt, bucket |-> tmBucket, pool |-> tmPool, fired |-> {}]
        ELSE GetTimerInternal(loop[i - 1])
      s     == loop[ticks]
      early == {tmExpire[n] - tmNow : n \in s.fired} \cup {0}
  IN /\ ticks > 0
     /\ tmLast' = tmNow \div Parts
     /\ tmPt' = s.pt /\ tmBucket' = s.bucket /\ tmPool' = s.pool
     /\ tmEarly' = CHOOSE e \in early : \A f \in early : f <= e
     /\ tmExpire' = [n \in TNodes |-> IF n \in s.fired THEN 0 ELSE tmExpire[n]]
     /\ UNCHANGED <<tmNow, tmAdds>>

\* The clock goes on; the caller's loop calls GetTimer in every tick, or up to
\* MaxLag ticks late.
ClockTick ==
  /\ tmNow < MaxTime
  /\ (tmNow + 1) \div Parts - tmLast <= 1 + MaxLag
  /\ tmNow' = tmNow + 1
  /\ UNCHANGED <<tmLast, tmPt, tmBucket, tmExpire, tmPool, tmAdds, tmEarly>>

TimerNext ==
  \/ ClockTick \/ GetTimer
  \/ \E i \in Intervals : AddTimer(i)
  \/ \E n \in TNodes : DelTimer(n)

TimerSpec == TimerInit /\ [][TimerNext]_timerVars

-----------------------------------------------------------------------------
\* The ticks that a timer waits in the first buckets of the levels 1 to k.
WaitBelow[k \in 0..Len(TBNum)] == IF k = 0 THEN 0 ELSE WaitBelow[k - 1] + TBTicks[k - 1]

\* A timer fires no earlier than the fractions of ticks and the lag of the caller
\* explain, wherever the pointers stood when it was added, and although Migrate
\* goes by the clock while the pointers lag behind it.  It fires no later than
\* that, but for what it loses on its way down: Migrate has it wait for a bucket
\* of the new level even if its time comes sooner.  From level 3 it loses a tick,
\* from level 4 a round of level 1 more (2.56 s), from level 5 a round of level 2
\* as well (166 s).  And each pending timer is in one bucket, once.
TimersPunctual ==
  /\ tmEarly <= (MaxLag + 2) * Parts - 2
  /\ \A n \in tmPool.used :
       /\ tmNow <= tmExpire[n] + (MaxLag + 2 + WaitBelow[Len(TBNum) - 2]) * Parts - 2
       /\ \E k \in Levels : \E b \in Buckets(k) : \E i \in 1..Len(tmBucket[k][b]) :
            /\ tmBucket[k][b][i] = n
            /\ \A l \in Levels : \A c \in Buckets(l) : \A j \in 1..Len(tmBucket[l][c]) :
                 tmBucket[l][c][j] = n => l = k /\ c = b /\ j = i
=============================================================================
