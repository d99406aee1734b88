------------------------------ MODULE ShmQueue ------------------------------
(***************************************************************************)
(* mmlib/shm_queue: the byte ring in shared memory through which every     *)
(* process of the system talks to its neighbours (servers to the bus, the  *)
(* bus to the servers, the user process to its loader and writer).         *)
(*                                                                         *)
(* A node of the ring is a four-byte length followed by the data.  A       *)
(* producer owns semaphore 0 while it copies its node behind uiTail and    *)
(* then moves uiTail; a consumer owns semaphore 1 while it copies the node *)
(* at uiHead and then moves uiHead.  The two semaphores are independent,   *)
(* so the two copies run concurrently: they are modelled byte by byte.     *)
(* Both semaphores are taken with SEM_UNDO: a process may die anywhere and *)
(* the kernel gives its semaphore back.                                    *)
(***************************************************************************)
EXTENDS Integers, Sequences

CONSTANTS
    Producers,  \* processes that call InQueue
    Consumers,  \* processes that call OutQueue
    Peekers,    \* consumers that use MsgPeek/ReleaseMsg, which take no lock
    Inspectors, \* processes that call GetAllQueueData
    Msgs,       \* the packets: sequences of bytes
    Size,       \* m_QueueDataSize
    BufLen,     \* length of the buffer the consumer offers to OutQueue
    MaxMsgs,    \* bound: no InQueue call starts once so many packets went in
    MaxCrashes, \* bound on the number of process deaths
    NoProc      \* "the semaphore is free"

Byte == 0..255

\* Callers pass the length as a positive int; with the length field it must
\* stay inside the four-byte field.
MaxDataLen == 2147483643

ASSUME QueueAssumption ==
    /\ Size \in Nat \ {0}
    /\ BufLen \in Nat /\ MaxMsgs \in Nat /\ MaxCrashes \in Nat
    /\ \A m \in Msgs : m \in Seq(Byte) /\ Len(m) <= MaxDataLen

ASSUME ProcAssumption ==
    /\ Producers \cap Consumers = {}
    /\ Inspectors \cap (Producers \cup Consumers) = {}
    /\ NoProc \notin Producers \cup Consumers \cup Inspectors

\* shm_queue.h: the lock-free interface is for queues with a single consumer.
ASSUME PeekAssumption ==
    /\ Peekers \subseteq Consumers
    /\ Peekers # {} => \A c, d \in Consumers : c = d

VARIABLES
    uiHead, uiTail, \* the two offsets of _QueueHead
    mem,            \* the bytes between m_pQueueDataStart and m_pQueueDataEnd
    semIn, semOut,  \* holders of semaphores 0 and 1
    pc,             \* where every process is
    pMsg, pIdx,     \* the packet a producer copies, and how many node bytes are in
    cLen, cGot,     \* the length a consumer has read, and the bytes it has copied
    crashes,        \* deaths so far
    enq,            \* history: every packet put in, with the offset of its node
    out             \* history: what the consumers were given

Procs == Producers \cup Consumers \cup Inspectors

ring  == <<uiHead, uiTail, mem>>
locks == <<semIn, semOut>>
hist  == <<enq, out>>
vars  == <<ring, locks, pc, pMsg, pIdx, cLen, cGot, crashes, hist>>

-----------------------------------------------------------------------------
(* Offset arithmetic *)

\* As FreeSpace, without the byte that stays free.
FreeSpaceFull(head, tail) ==
    IF tail >= head THEN Size - (tail - head) ELSE head - tail

FreeSpace(head, tail) ==
    IF tail >= head THEN Size - (tail - head) - 1 ELSE head - tail - 1

UsedSpace(head, tail) ==
    IF tail >= head THEN tail - head ELSE Size - (head - tail)

\* As AddOffset, without the wrap.
AddOffsetNoWrap(offset, size) == offset + size

AddOffset(offset, size) == (offset + size) % Size

NodeSize(len) == len + 4

\* An unsigned int in memory: four bytes, least significant first.
LenByte(len, j) ==
    IF j = 0 THEN len % 256
    ELSE IF j = 1 THEN (len \div 256) % 256
    ELSE IF j = 2 THEN (len \div 65536) % 256
    ELSE (len \div 16777216) % 256

\* Byte j of the node of packet m.
NodeByte(m, j) == IF j < 4 THEN LenByte(Len(m), j) ELSE m[j - 3]

\* The three memcpy layouts of CopyDataInQueue: the place of node byte j.
CopyDataInQueue(offset, len, j) ==
    LET end_free == Size - offset
        d        == j - 4
    IN  IF end_free >= 4
        THEN IF j < 4 THEN offset + j
             ELSE IF end_free - 4 >= len THEN offset + 4 + d
             ELSE IF end_free - 4 > 0
                  THEN IF d < end_free - 4 THEN offset + 4 + d
                                           ELSE d - (end_free - 4)
             ELSE d
        ELSE IF j < end_free THEN offset + j
             ELSE IF j < 4 THEN j - end_free
             ELSE (4 - end_free) + d

\* The length field of the node at offset, split over the end if need be.
DataLen(offset) ==
    LET end_used == Size - offset
        B(j) == IF end_used >= 4 \/ j < end_used THEN mem[offset + j]
                                                 ELSE mem[j - end_used]
    IN  B(0) + 256 * B(1) + 65536 * B(2) + 16777216 * B(3)

\* CopyDataOutQueue: where data byte d of the node at offset is read.
CopyDataOutQueue(offset, len, d) ==
    LET raw      == Size - offset
        end_used == IF raw >= 4 THEN raw - 4 ELSE 0
        start    == IF raw > 4 THEN offset + 4
                    ELSE IF raw = 4 THEN 0 ELSE 4 - raw
    IN  IF end_used >= len \/ end_used = 0 THEN start + d
        ELSE IF d < end_used THEN start + d ELSE d - end_used

\* MsgPeek hands out the same bytes, in place or through m_pMsgPeekBuf.
PeekAddr(offset, len, d) ==
    LET raw == Size - offset
    IN  IF raw < 4 THEN (4 - raw) + d
        ELSE IF raw = 4 THEN d
        ELSE IF raw - 4 < len /\ d >= raw - 4 THEN d - (raw - 4)
        ELSE offset + 4 + d

-----------------------------------------------------------------------------
Init ==
    /\ uiHead = 0 /\ uiTail = 0
    /\ mem = [a \in 0..Size - 1 |-> 0]
    /\ semIn = NoProc /\ semOut = NoProc
    /\ pc = [p \in Procs |-> "idle"]
    /\ pMsg = [p \in Producers |-> <<>>]
    /\ pIdx = [p \in Producers |-> 0]
    /\ cLen = [c \in Consumers |-> 0]
    /\ cGot = [c \in Consumers |-> <<>>]
    /\ crashes = 0
    /\ enq = <<>> /\ out = <<>>

Goto(p, l) == pc' = [pc EXCEPT ![p] = l]

-----------------------------------------------------------------------------
(* InQueue *)

InQueue(p) ==
    /\ pc[p] = "idle"
    /\ Len(enq) < MaxMsgs
    /\ \E m \in Msgs : pMsg' = [pMsg EXCEPT ![p] = m]
    /\ Goto(p, "inLock")
    /\ UNCHANGED <<ring, locks, pIdx, cLen, cGot, crashes, hist>>

\* As InLock, without waiting for the semaphore.
InLockUnguarded(p) ==
    /\ pc[p] = "inLock"
    /\ semIn' = p
    /\ Goto(p, "inCheck")
    /\ UNCHANGED <<ring, semOut, pMsg, pIdx, cLen, cGot, crashes, hist>>

InLock(p) ==
    /\ pc[p] = "inLock"
    /\ semIn = NoProc
    /\ semIn' = p
    /\ Goto(p, "inCheck")
    /\ UNCHANGED <<ring, semOut, pMsg, pIdx, cLen, cGot, crashes, hist>>

\* E_SHM_QUEUE_INLOCK: a signal interrupts semop, which is not tried again.
InLockErr(p) ==
    /\ pc[p] = "inLock"
    /\ pMsg' = [pMsg EXCEPT ![p] = <<>>]
    /\ Goto(p, "idle")
    /\ UNCHANGED <<ring, locks, pIdx, cLen, cGot, crashes, hist>>

\* E_SHM_QUEUE_INQUEUE_LEN or E_SHM_QUEUE_FULL: nothing is written.
InReject(p) ==
    /\ pc[p] = "inCheck"
    /\ \/ Len(pMsg[p]) = 0
       \/ NodeSize(Len(pMsg[p])) > FreeSpace(uiHead, uiTail)
    /\ Goto(p, "inUnlock")
    /\ UNCHANGED <<ring, locks, pMsg, pIdx, cLen, cGot, crashes, hist>>

InAccept(p) ==
    /\ pc[p] = "inCheck"
    /\ Len(pMsg[p]) # 0
    /\ NodeSize(Len(pMsg[p])) <= FreeSpace(uiHead, uiTail)
    /\ Goto(p, "inCopy")
    /\ UNCHANGED <<ring, locks, pMsg, pIdx, cLen, cGot, crashes, hist>>

InCopy(p) ==
    /\ pc[p] = "inCopy"
    /\ pIdx[p] < NodeSize(Len(pMsg[p]))
    /\ mem' = [mem EXCEPT ![CopyDataInQueue(uiTail, Len(pMsg[p]), pIdx[p])] =
                              NodeByte(pMsg[p], pIdx[p])]
    /\ pIdx' = [pIdx EXCEPT ![p] = @ + 1]
    /\ UNCHANGED <<uiHead, uiTail, locks, pc, pMsg, cLen, cGot, crashes, hist>>

\* As InAddTail, before the copy is complete.
InAddTailEarly(p) ==
    /\ pc[p] = "inCopy"
    /\ uiTail' = AddOffset(uiTail, NodeSize(Len(pMsg[p])))
    /\ enq' = Append(enq, [msg |-> pMsg[p], at |-> uiTail])
    /\ Goto(p, "inUnlock")
    /\ UNCHANGED <<uiHead, mem, locks, pMsg, pIdx, cLen, cGot, crashes, out>>

\* The packet becomes visible to the consumer by this one assignment.
InAddTail(p) ==
    /\ pc[p] = "inCopy"
    /\ pIdx[p] = NodeSize(Len(pMsg[p]))
    /\ uiTail' = AddOffset(uiTail, NodeSize(Len(pMsg[p])))
    /\ enq' = Append(enq, [msg |-> pMsg[p], at |-> uiTail])
    /\ Goto(p, "inUnlock")
    /\ UNCHANGED <<uiHead, mem, locks, pMsg, pIdx, cLen, cGot, crashes, out>>

InUnlock(p) ==
    /\ pc[p] = "inUnlock"
    /\ semIn' = NoProc
    /\ pMsg' = [pMsg EXCEPT ![p] = <<>>]
    /\ pIdx' = [pIdx EXCEPT ![p] = 0]
    /\ Goto(p, "idle")
    /\ UNCHANGED <<ring, semOut, cLen, cGot, crashes, hist>>

-----------------------------------------------------------------------------
(* OutQueue *)

OutLock(c) ==
    /\ pc[c] = "idle"
    /\ c \notin Peekers
    /\ semOut = NoProc
    /\ semOut' = c
    /\ Goto(c, "outCheck")
    /\ UNCHANGED <<ring, semIn, pMsg, pIdx, cLen, cGot, crashes, hist>>

\* E_SHM_QUEUE_EMPTY
OutEmpty(c) ==
    /\ pc[c] = "outCheck"
    /\ UsedSpace(uiHead, uiTail) < 4
    /\ Goto(c, "outUnlock")
    /\ UNCHANGED <<ring, locks, pMsg, pIdx, cLen, cGot, crashes, hist>>

OutLen(c) ==
    /\ pc[c] = "outCheck"
    /\ UsedSpace(uiHead, uiTail) >= 4
    /\ cLen' = [cLen EXCEPT ![c] = DataLen(uiHead)]
    /\ Goto(c, IF DataLen(uiHead) > BufLen THEN "outSkip" ELSE "outCopy")
    /\ UNCHANGED <<ring, locks, pMsg, pIdx, cGot, crashes, hist>>

OutCopy(c) ==
    /\ pc[c] = "outCopy"
    /\ Len(cGot[c]) < cLen[c]
    /\ cGot' = [cGot EXCEPT ![c] =
                   Append(@, mem[CopyDataOutQueue(uiHead, cLen[c], Len(@))])]
    /\ UNCHANGED <<ring, locks, pc, pMsg, pIdx, cLen, crashes, hist>>

\* As OutAddHead, forgetting the length field.
OutAddHeadDataOnly(c) ==
    /\ \/ /\ pc[c] = "outCopy"
          /\ Len(cGot[c]) = cLen[c]
          /\ out' = Append(out, [ok |-> TRUE, data |-> cGot[c]])
       \/ /\ pc[c] = "outSkip"
          /\ out' = Append(out, [ok |-> FALSE, data |-> <<>>])
    /\ uiHead' = AddOffset(uiHead, cLen[c])
    /\ Goto(c, "outUnlock")
    /\ UNCHANGED <<uiTail, mem, locks, pMsg, pIdx, cLen, cGot, crashes, enq>>

\* A packet longer than the caller's buffer is skipped (E_SHM_QUEUE_DATALEN).
OutAddHead(c) ==
    /\ \/ /\ pc[c] = "outCopy"
          /\ Len(cGot[c]) = cLen[c]
          /\ out' = Append(out, [ok |-> TRUE, data |-> cGot[c]])
       \/ /\ pc[c] = "outSkip"
          /\ out' = Append(out, [ok |-> FALSE, data |-> <<>>])
    /\ uiHead' = AddOffset(uiHead, NodeSize(cLen[c]))
    /\ Goto(c, "outUnlock")
    /\ UNCHANGED <<uiTail, mem, locks, pMsg, pIdx, cLen, cGot, crashes, enq>>

\* As OutUnlock, keeping the semaphore.
OutUnlockKeeps(c) ==
    /\ pc[c] = "outUnlock"
    /\ cLen' = [cLen EXCEPT ![c] = 0]
    /\ cGot' = [cGot EXCEPT ![c] = <<>>]
    /\ Goto(c, "idle")
    /\ UNCHANGED <<ring, locks, pMsg, pIdx, crashes, hist>>

OutUnlock(c) ==
    /\ pc[c] = "outUnlock"
    /\ semOut' = NoProc
    /\ cLen' = [cLen EXCEPT ![c] = 0]
    /\ cGot' = [cGot EXCEPT ![c] = <<>>]
    /\ Goto(c, "idle")
    /\ UNCHANGED <<ring, semIn, pMsg, pIdx, crashes, hist>>

-----------------------------------------------------------------------------
(* MsgPeek and ReleaseMsg: no semaphore, the caller reads in place. *)

MsgPeek(c) ==
    /\ pc[c] = "idle"
    /\ c \in Peekers
    /\ UsedSpace(uiHead, uiTail) >= 4
    /\ cLen' = [cLen EXCEPT ![c] = DataLen(uiHead)]
    /\ Goto(c, "peek")
    /\ UNCHANGED <<ring, locks, pMsg, pIdx, cGot, crashes, hist>>

PeekRead(c) ==
    /\ pc[c] = "peek"
    /\ Len(cGot[c]) < cLen[c]
    /\ cGot' = [cGot EXCEPT ![c] =
                   Append(@, mem[PeekAddr(uiHead, cLen[c], Len(@))])]
    /\ UNCHANGED <<ring, locks, pc, pMsg, pIdx, cLen, crashes, hist>>

ReleaseMsg(c) ==
    /\ pc[c] = "peek"
    /\ Len(cGot[c]) = cLen[c]
    /\ IF UsedSpace(uiHead, uiTail) < 4
       THEN UNCHANGED <<uiHead, out>>
       ELSE /\ uiHead' = AddOffset(uiHead, NodeSize(DataLen(uiHead)))
            /\ out' = Append(out, [ok |-> TRUE, data |-> cGot[c]])
    /\ cLen' = [cLen EXCEPT ![c] = 0]
    /\ cGot' = [cGot EXCEPT ![c] = <<>>]
    /\ Goto(c, "idle")
    /\ UNCHANGED <<uiTail, mem, locks, pMsg, pIdx, crashes, enq>>

-----------------------------------------------------------------------------
(* GetAllQueueData: both semaphores, 0 before 1; the walk itself changes    *)
(* nothing and is the operator AllQueueData below.                          *)

AllLockIn(i) ==
    /\ pc[i] = "idle"
    /\ semIn = NoProc
    /\ semIn' = i
    /\ Goto(i, "allLock")
    /\ UNCHANGED <<ring, semOut, pMsg, pIdx, cLen, cGot, crashes, hist>>

AllLockOut(i) ==
    /\ pc[i] = "allLock"
    /\ semOut = NoProc
    /\ semOut' = i
    /\ Goto(i, "allWalk")
    /\ UNCHANGED <<ring, semIn, pMsg, pIdx, cLen, cGot, crashes, hist>>

\* A signal interrupts the second semop: the first semaphore is given back.
AllLockErr(i) ==
    /\ pc[i] = "allLock"
    /\ semIn' = NoProc
    /\ Goto(i, "idle")
    /\ UNCHANGED <<ring, semOut, pMsg, pIdx, cLen, cGot, crashes, hist>>

\* As AllUnlock, semaphore 0 not released.
AllUnlockOutOnly(i) ==
    /\ pc[i] = "allWalk"
    /\ semOut' = NoProc
    /\ Goto(i, "idle")
    /\ UNCHANGED <<ring, semIn, pMsg, pIdx, cLen, cGot, crashes, hist>>

AllUnlock(i) ==
    /\ pc[i] = "allWalk"
    /\ semIn' = NoProc /\ semOut' = NoProc
    /\ Goto(i, "idle")
    /\ UNCHANGED <<ring, pMsg, pIdx, cLen, cGot, crashes, hist>>

\* Where the walk reads data byte d of the node at offset.
AllAddr(offset, len, d) ==
    IF offset + 4 + len <= Size THEN offset + 4 + d
    ELSE IF offset + 4 < Size
         THEN IF d < Size - offset - 4 THEN offset + 4 + d ELSE d - (Size - offset - 4)
    ELSE 4 - (Size - offset) + d

\* As AllQueueData, a length field that ends the ring taken for one that is
\* split.
AllQueueDataNoSplit ==
    LET walk[n \in 0..Size] ==
            IF n = 0 THEN [at |-> uiHead, data |-> <<>>]
            ELSE LET w   == walk[n - 1]
                     len == DataLen(w.at)
                 IN  IF UsedSpace(w.at, uiTail) < 4 THEN w
                     ELSE [at   |-> AddOffset(w.at, NodeSize(len)),
                           data |-> Append(w.data,
                               [i \in 1..len |-> mem[IF w.at + 4 + i - 1 < Size
                                                     THEN w.at + 4 + i - 1 ELSE i - 1]])]
    IN  walk[Size].data

\* The walk from uiHead to uiTail collects the data of every node: where it
\* stands (offset_head) and what it has (vsAllData) after n turns of the loop.
\* A node takes four bytes at least, so Size turns reach the end.
AllQueueData ==
    LET walk[n \in 0..Size] ==
            IF n = 0 THEN [at |-> uiHead, data |-> <<>>]
            ELSE LET w   == walk[n - 1]
                     len == DataLen(w.at)
                 IN  IF UsedSpace(w.at, uiTail) < 4 THEN w
                     ELSE [at   |-> AddOffset(w.at, NodeSize(len)),
                           data |-> Append(w.data,
                               [i \in 1..len |-> mem[AllAddr(w.at, len, i - 1)]])]
    IN  walk[Size].data

-----------------------------------------------------------------------------
(* A process dies: SEM_UNDO releases what it held, its locals are gone, and *)
(* the restarted process attaches to the segment as it was left (Init of    *)
(* CShmQueue resets the offsets only when it creates the segment).          *)

Crash(p) ==
    /\ pc[p] # "idle"
    /\ crashes < MaxCrashes
    /\ crashes' = crashes + 1
    /\ semIn' = IF semIn = p THEN NoProc ELSE semIn
    /\ semOut' = IF semOut = p THEN NoProc ELSE semOut
    /\ pMsg' = [q \in Producers |-> IF q = p THEN <<>> ELSE pMsg[q]]
    /\ pIdx' = [q \in Producers |-> IF q = p THEN 0 ELSE pIdx[q]]
    /\ cLen' = [q \in Consumers |-> IF q = p THEN 0 ELSE cLen[q]]
    /\ cGot' = [q \in Consumers |-> IF q = p THEN <<>> ELSE cGot[q]]
    /\ Goto(p, "idle")
    /\ UNCHANGED <<ring, hist>>

-----------------------------------------------------------------------------
InStep(p) == InLock(p) \/ InReject(p) \/ InAccept(p) \/ InCopy(p)
                \/ InAddTail(p) \/ InUnlock(p)

OutStep(c) == OutEmpty(c) \/ OutLen(c) \/ OutCopy(c) \/ OutAddHead(c)
                \/ OutUnlock(c)

PeekStep(c) == MsgPeek(c) \/ PeekRead(c) \/ ReleaseMsg(c)

AllStep(i) == AllLockOut(i) \/ AllUnlock(i)

Next ==
    \/ \E p \in Producers : InQueue(p) \/ InLockErr(p) \/ InStep(p)
    \/ \E c \in Consumers : OutLock(c) \/ OutStep(c) \/ PeekStep(c)
    \/ \E i \in Inspectors : AllLockIn(i) \/ AllLockErr(i) \/ AllStep(i)
    \/ \E p \in Procs : Crash(p)

Spec == Init /\ [][Next]_vars

\* A process that runs keeps running; semop serves its waiters in turn, so a
\* process is not passed over for ever; servers poll their queue for ever.
Fairness ==
    /\ \A p \in Producers : SF_vars(InLock(p)) /\ WF_vars(InStep(p))
    /\ \A c \in Consumers : SF_vars(OutLock(c)) /\ WF_vars(OutStep(c) \/ PeekStep(c))
    /\ \A i \in Inspectors : SF_vars(AllLockOut(i)) /\ WF_vars(AllStep(i))

FairSpec == Spec /\ Fairness

-----------------------------------------------------------------------------
(* Properties *)

\* The packets in the ring, oldest first, as the abstract queue sees them.
PendingMsgs == [k \in 1..Len(enq) - Len(out) |-> enq[Len(out) + k].msg]

\* Their positions in the history.
Pending == {k \in DOMAIN enq : k > Len(out)}

\* Type correctness of the ring offsets, the bytes, the locks and the locals.
TypeOK ==
    /\ uiHead \in 0..Size - 1 /\ uiTail \in 0..Size - 1
    /\ mem \in [0..Size - 1 -> Byte]
    /\ semIn \in Procs \cup {NoProc} /\ semOut \in Procs \cup {NoProc}
    /\ pc \in [Procs -> {"idle", "inLock", "inCheck", "inCopy", "inUnlock",
                         "outCheck", "outCopy", "outSkip", "outUnlock",
                         "peek", "allLock", "allWalk"}]
    /\ pMsg \in [Producers -> Msgs \cup {<<>>}]
    /\ pIdx \in [Producers -> Nat]
    /\ cLen \in [Consumers -> Nat]
    /\ cGot \in [Consumers -> Seq(Byte)]
    /\ crashes \in Nat
    /\ enq \in Seq([msg : Msgs, at : 0..Size - 1])
    /\ out \in Seq([ok : BOOLEAN, data : Seq(Byte)])

\* What a consumer is given for packet m: the packet, or a skip if it does
\* not fit the buffer.  A peeker has no buffer and gets every packet.
Outcome(m) ==
    IF Peekers = {} /\ Len(m) > BufLen THEN [ok |-> FALSE, data |-> <<>>]
                                       ELSE [ok |-> TRUE, data |-> m]

\* OutQueue gives out exactly the packets that InQueue took, in order, none
\* lost, doubled, torn or mixed with another, whatever the interleaving of
\* the two copies and whoever died in the middle of one.
FifoDelivery ==
    /\ Len(out) <= Len(enq)
    /\ \A k \in DOMAIN out : out[k] = Outcome(enq[k].msg)

\* The bytes of every packet still in the ring are intact: neither a
\* producer's copy nor one cut short by a crash touches a byte a consumer has
\* yet to read.
PendingIntact ==
    \A k \in Pending : \A j \in 0..NodeSize(Len(enq[k].msg)) - 1 :
        mem[AddOffset(enq[k].at, j)] = NodeByte(enq[k].msg, j)

\* Where the node of the k-th packet starts, or will start.
NodeAt(k) == IF k \in DOMAIN enq THEN enq[k].at ELSE uiTail

\* The offsets and the packets agree: the nodes of the pending packets lie
\* one behind the other from uiHead to uiTail, and never fill the ring (a
\* full ring would read as an empty one).
NodesContiguous ==
    /\ NodeAt(Len(out) + 1) = uiHead
    /\ \A k \in Pending :
          /\ NodeAt(k + 1) = AddOffset(NodeAt(k), NodeSize(Len(enq[k].msg)))
          /\ UsedSpace(uiHead, NodeAt(k)) + NodeSize(Len(enq[k].msg))
                <= UsedSpace(uiHead, uiTail)

\* GetAllQueueData, run while other processes are inside InQueue or were
\* killed there, returns exactly the packets not yet taken out.
SnapshotExact ==
    (\E i \in Inspectors : pc[i] = "allWalk") =>
        AllQueueData = PendingMsgs

\* The byte ring with its two locks implements the atomic packet queue: every
\* step is a whole Put, a whole Get or invisible.
Abstract == INSTANCE PacketQueue
              WITH queue <- PendingMsgs, given <- out,
                   used <- UsedSpace(uiHead, uiTail), Capacity <- Size - 1,
                   Truncates <- (Peekers = {})

RingIsPacketQueue == Abstract!Spec

\* Every packet InQueue accepted is eventually given out (or skipped because
\* it exceeds the buffer).
EventuallyOut == \A k \in 1..MaxMsgs : (Len(enq) >= k) ~> (Len(out) >= k)

\* Every InQueue call returns: nobody keeps semaphore 0 for ever, not even
\* against GetAllQueueData, which takes both.
CallsReturn == \A p \in Producers : (pc[p] = "inLock") ~> (pc[p] = "idle")
=============================================================================
