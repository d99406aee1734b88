--------------------------- MODULE ShmQueueProofs ---------------------------
(***************************************************************************)
(* Proofs about the packet queue in shared memory, for every ring size,    *)
(* every set of packets and any number of processes and deaths.            *)
(*                                                                         *)
(* FifoDelivery is not inductive: what OutQueue hands out depends on the   *)
(* bytes between uiHead and uiTail, and those on every copy that ever ran. *)
(* IInv adds what the code relies on without saying so: who may be where   *)
(* given the two semaphores (ProcInv), that the pending nodes lie one      *)
(* behind the other from uiHead to uiTail with a byte to spare (RingInv)   *)
(* and hold their packets (PendingIntact), that a half-made copy stands in *)
(* the free space behind uiTail (CopyInv), and that a half-done read is a  *)
(* prefix of the oldest packet (ReadInv).  What the loop of                *)
(* GetAllQueueData collects then follows turn by turn (UpTo).              *)
(***************************************************************************)
EXTENDS ShmQueue, NumberLemmas, SequenceTheorems, TLAPS

\* The wrap of AddOffset is a single subtraction below twice the ring size.
LEMMA ModBelow ==
    ASSUME NEW x \in Nat, x < 2 * Size
    PROVE  x % Size = IF x < Size THEN x ELSE x - Size
  <1> USE QueueAssumption
  <1>1. CASE x < Size
    BY <1>1, SMT
  <1>2. CASE x >= Size
    BY <1>2, SMT
  <1> QED BY <1>1, <1>2

\* The four bytes of a length field give the length back.
LEMMA LenRoundTrip ==
    ASSUME NEW len \in Nat, len <= MaxDataLen
    PROVE  /\ \A j \in Nat : LenByte(len, j) \in Byte
           /\ LenByte(len, 0) + 256 * LenByte(len, 1) + 65536 * LenByte(len, 2)
                + 16777216 * LenByte(len, 3) = len
  <1>1. \A j \in Nat : LenByte(len, j) \in Byte
     BY SMT DEF LenByte, Byte
  <1>2. /\ LenByte(len, 0) = len % 256 
        /\ LenByte(len, 1) = (len \div 256) % 256
        /\ LenByte(len, 2) = (len \div 65536) % 256 
        /\ LenByte(len, 3) = (len \div 16777216) % 256
     BY SMT DEF LenByte
  <1>3. len = 256 * (len \div 256) + (len % 256)
     BY SMT
  <1>4. PICK a \in Nat : a = len \div 256
     BY SMT
  <1>5. len \div 65536 = a \div 256
     BY <1>4, SMT
  <1>6. PICK b \in Nat : b = a \div 256
     BY <1>4, SMT
  <1>7. len \div 16777216 = b \div 256
     BY <1>4, <1>6, SMT
  <1>8. (b \div 256) % 256 = b \div 256
     BY <1>4, <1>6, SMT DEF MaxDataLen
  <1>9. a = 256 * b + (a % 256) /\ b = 256 * (b \div 256) + (b % 256)
     BY <1>4, <1>6, SMT
  <1>10. /\ LenByte(len, 0) = len % 256 /\ LenByte(len, 1) = a % 256
         /\ LenByte(len, 2) = b % 256 /\ LenByte(len, 3) = b \div 256
     <2>1. LenByte(len, 1) = a % 256
        BY <1>2, <1>4
     <2>2. LenByte(len, 2) = b % 256
        BY <1>2, <1>5, <1>6
     <2>3. LenByte(len, 3) = b \div 256
        BY <1>2, <1>7, <1>8
     <2> QED BY <1>2, <2>1, <2>2, <2>3
  <1>11. (len % 256) + 256 * (a % 256) + 65536 * (b % 256) + 16777216 * (b \div 256) = len
     BY <1>3, <1>4, <1>9, SMT
  <1> QED BY <1>1, <1>10, <1>11, SMT

(* Offsets, seen as distances from another offset. *)

\* AddOffset by at most a lap wraps at most once and stays in the ring.
LEMMA AddOffsetWraps ==
    ASSUME NEW a \in 0..Size - 1, NEW s \in 0..Size
    PROVE  /\ AddOffset(a, s) = IF a + s < Size THEN a + s ELSE a + s - Size
           /\ AddOffset(a, s) \in 0..Size - 1
  <1>1. a + s \in Nat /\ a + s < 2 * Size
    BY QueueAssumption
  <1>2. PICK x \in Nat : x = a + s
    BY <1>1
  <1>3. x % Size = IF x < Size THEN x ELSE x - Size
    BY <1>1, <1>2, ModBelow
  <1> QED BY <1>2, <1>3, QueueAssumption DEF AddOffset

\* Used and free space make up the ring but for the one byte that stays free.
LEMMA SpaceSplits ==
    ASSUME NEW h \in 0..Size - 1, NEW t \in 0..Size - 1
    PROVE  /\ UsedSpace(h, t) \in 0..Size - 1
           /\ FreeSpace(h, t) = Size - 1 - UsedSpace(h, t)
  BY QueueAssumption DEF UsedSpace, FreeSpace

\* A step forward that does not overtake adds to the distance from head.
LEMMA UsedAdd ==
    ASSUME NEW h \in 0..Size - 1, NEW t \in 0..Size - 1, NEW n \in Nat,
           UsedSpace(h, t) + n < Size
    PROVE  /\ AddOffset(t, n) \in 0..Size - 1
           /\ UsedSpace(h, AddOffset(t, n)) = UsedSpace(h, t) + n
  <1>1. n \in 0..Size
    BY SpaceSplits, QueueAssumption
  <1>2. /\ AddOffset(t, n) = IF t + n < Size THEN t + n ELSE t + n - Size
        /\ AddOffset(t, n) \in 0..Size - 1
    BY <1>1, AddOffsetWraps
  <1> QED BY <1>2, QueueAssumption DEF UsedSpace

\* Moving head forward takes the step off every distance.
LEMMA UsedMove ==
    ASSUME NEW h \in 0..Size - 1, NEW a \in 0..Size - 1, NEW n \in Nat,
           n <= UsedSpace(h, a)
    PROVE  /\ AddOffset(h, n) \in 0..Size - 1
           /\ UsedSpace(AddOffset(h, n), a) = UsedSpace(h, a) - n
  <1>1. n \in 0..Size
    BY SpaceSplits, QueueAssumption
  <1>2. /\ AddOffset(h, n) = IF h + n < Size THEN h + n ELSE h + n - Size
        /\ AddOffset(h, n) \in 0..Size - 1
    BY <1>1, AddOffsetWraps
  <1> QED BY <1>2, QueueAssumption DEF UsedSpace

\* Distances from head compare as the offsets themselves.
LEMMA UsedBetween ==
    ASSUME NEW h \in 0..Size - 1, NEW a \in 0..Size - 1, NEW t \in 0..Size - 1,
           UsedSpace(h, a) <= UsedSpace(h, t)
    PROVE  UsedSpace(a, t) = UsedSpace(h, t) - UsedSpace(h, a)
  BY QueueAssumption DEF UsedSpace

\* An offset is at distance 0 from itself.
LEMMA UsedZero ==
    ASSUME NEW h \in 0..Size - 1
    PROVE  UsedSpace(h, h) = 0
  BY QueueAssumption DEF UsedSpace

\* The three layouts of CopyDataInQueue write node byte j at offset + j, wrapped.
LEMMA InAddress ==
    ASSUME NEW o \in 0..Size - 1, NEW len \in Nat, NodeSize(len) < Size,
           NEW j \in 0..NodeSize(len) - 1
    PROVE  CopyDataInQueue(o, len, j) = AddOffset(o, j)
  <1>1. j \in 0..Size
    BY QueueAssumption DEF NodeSize
  <1>2. AddOffset(o, j) = IF o + j < Size THEN o + j ELSE o + j - Size
    BY <1>1, AddOffsetWraps
  <1> QED BY <1>2, QueueAssumption DEF CopyDataInQueue, NodeSize

\* CopyDataOutQueue and MsgPeek read data byte d at offset + 4 + d, wrapped.
LEMMA OutAddress ==
    ASSUME NEW o \in 0..Size - 1, NEW len \in Nat, NodeSize(len) < Size,
           NEW d \in 0..len - 1
    PROVE  /\ CopyDataOutQueue(o, len, d) = AddOffset(o, d + 4)
           /\ PeekAddr(o, len, d) = AddOffset(o, d + 4)
  <1>1. d + 4 \in 0..Size
    BY QueueAssumption DEF NodeSize
  <1>2. AddOffset(o, d + 4) = IF o + (d + 4) < Size THEN o + (d + 4)
                                                    ELSE o + (d + 4) - Size
    BY <1>1, AddOffsetWraps
  <1> QED BY <1>2, QueueAssumption DEF CopyDataOutQueue, PeekAddr, NodeSize

\* GetAllQueueData reads data byte d at offset + 4 + d, wrapped.
LEMMA AllAddress ==
    ASSUME NEW o \in 0..Size - 1, NEW len \in Nat, NodeSize(len) < Size,
           NEW d \in 0..len - 1
    PROVE  AllAddr(o, len, d) = AddOffset(o, d + 4)
  <1>1. d + 4 \in 0..Size
    BY QueueAssumption DEF NodeSize
  <1>2. AddOffset(o, d + 4) = IF o + (d + 4) < Size THEN o + (d + 4)
                                                    ELSE o + (d + 4) - Size
    BY <1>1, AddOffsetWraps
  <1> QED BY <1>2, QueueAssumption DEF AllAddr, NodeSize

-----------------------------------------------------------------------------
(* The inductive invariant. *)

\* Who is where, and which semaphore that takes.
ProcInv ==
    /\ \A p \in Producers :
          /\ pc[p] \in {"idle", "inLock", "inCheck", "inCopy", "inUnlock"}
          /\ pc[p] \in {"inCheck", "inCopy", "inUnlock"} => semIn = p
    /\ \A c \in Consumers :
          /\ pc[c] \in {"idle", "outCheck", "outCopy", "outSkip", "outUnlock", "peek"}
          /\ pc[c] \in {"outCheck", "outCopy", "outSkip", "outUnlock"} =>
                semOut = c /\ c \notin Peekers
          /\ pc[c] = "peek" => c \in Peekers
    /\ \A i \in Inspectors :
          /\ pc[i] \in {"idle", "allLock", "allWalk"}
          /\ pc[i] # "idle" => semIn = i
          /\ pc[i] = "allWalk" => semOut = i

\* The pending nodes are disjoint and in order.
RingInv ==
    /\ Len(out) <= Len(enq)
    /\ \A k \in Pending : Len(enq[k].msg) > 0
    /\ NodesContiguous
    /\ \A i, j \in Pending : i < j =>
          UsedSpace(uiHead, enq[i].at) + NodeSize(Len(enq[i].msg))
              <= UsedSpace(uiHead, enq[j].at)

\* What a producer has copied so far stands behind uiTail, in free space.
CopyInv ==
    \A p \in Producers :
        /\ pc[p] \in {"idle", "inLock", "inCheck"} => pIdx[p] = 0
        /\ pc[p] # "idle" => pMsg[p] \in Msgs
        /\ pc[p] = "inCopy" =>
              /\ Len(pMsg[p]) > 0
              /\ NodeSize(Len(pMsg[p])) <= FreeSpace(uiHead, uiTail)
              /\ pIdx[p] <= NodeSize(Len(pMsg[p]))
              /\ \A j \in 0..pIdx[p] - 1 :
                    mem[AddOffset(uiTail, j)] = NodeByte(pMsg[p], j)

\* What a consumer has copied so far is a prefix of the oldest packet.
ReadInv ==
    \A c \in Consumers :
        /\ pc[c] \in {"idle", "outCheck"} => cGot[c] = <<>>
        /\ pc[c] \in {"outCopy", "outSkip", "peek"} =>
              /\ Len(out) < Len(enq)
              /\ cLen[c] = Len(enq[Len(out) + 1].msg)
              /\ Len(cGot[c]) <= cLen[c]
              /\ \A j \in 1..Len(cGot[c]) : cGot[c][j] = enq[Len(out) + 1].msg[j]
        /\ pc[c] = "outCopy" => cLen[c] <= BufLen
        /\ pc[c] = "outSkip" => cLen[c] > BufLen

IInv == TypeOK /\ ProcInv /\ RingInv /\ PendingIntact /\ CopyInv /\ ReadInv
          /\ FifoDelivery

-----------------------------------------------------------------------------
\* A pending node starts in the ring and lies between uiHead and uiTail.
LEMMA PendingNode ==
    ASSUME TypeOK, RingInv, NEW k \in Pending
    PROVE  /\ k \in 1..Len(enq) /\ k > Len(out)
           /\ enq[k].msg \in Msgs /\ enq[k].msg \in Seq(Byte)
           /\ Len(enq[k].msg) \in Nat /\ Len(enq[k].msg) > 0
           /\ Len(enq[k].msg) <= MaxDataLen
           /\ enq[k].at \in 0..Size - 1 /\ NodeAt(k) = enq[k].at
           /\ UsedSpace(uiHead, enq[k].at) \in 0..Size - 1
           /\ UsedSpace(uiHead, uiTail) \in 0..Size - 1
           /\ UsedSpace(uiHead, enq[k].at) + NodeSize(Len(enq[k].msg))
                 <= UsedSpace(uiHead, uiTail)
           /\ NodeSize(Len(enq[k].msg)) < Size
  <1>1. k \in 1..Len(enq) /\ k > Len(out) /\ k \in DOMAIN enq
    BY DEF Pending, TypeOK
  <1>2. enq[k] \in [msg : Msgs, at : 0..Size - 1]
    <2>1. enq \in Seq([msg : Msgs, at : 0..Size - 1])
      BY DEF TypeOK
    <2> QED BY <1>1, <2>1, ElementOfSeq
  <1>3. /\ enq[k].msg \in Msgs /\ enq[k].msg \in Seq(Byte)
        /\ Len(enq[k].msg) \in Nat /\ Len(enq[k].msg) > 0
        /\ Len(enq[k].msg) <= MaxDataLen
        /\ enq[k].at \in 0..Size - 1
    BY <1>2, QueueAssumption DEF RingInv
  <1>4. NodeAt(k) = enq[k].at
    BY <1>1 DEF NodeAt
  <1>5. /\ UsedSpace(uiHead, enq[k].at) \in 0..Size - 1
        /\ UsedSpace(uiHead, uiTail) \in 0..Size - 1
    BY <1>3, SpaceSplits DEF TypeOK
  <1>6. UsedSpace(uiHead, enq[k].at) + NodeSize(Len(enq[k].msg))
                 <= UsedSpace(uiHead, uiTail)
    BY <1>4 DEF RingInv, NodesContiguous
  <1> QED BY <1>1, <1>3, <1>4, <1>5, <1>6, QueueAssumption DEF NodeSize

\* Every pending node reads as its packet, length field included.
LEMMA NodeReads ==
    ASSUME TypeOK, RingInv, PendingIntact, NEW k \in Pending
    PROVE  /\ DataLen(enq[k].at) = Len(enq[k].msg)
           /\ \A d \in 0..Len(enq[k].msg) - 1 :
                 mem[AddOffset(enq[k].at, d + 4)] = enq[k].msg[d + 1]
  <1> DEFINE m == enq[k].msg
             a == enq[k].at
  <1>2. /\ a \in 0..Size - 1 /\ Len(m) \in Nat /\ Len(m) > 0
        /\ NodeSize(Len(m)) < Size /\ Len(m) <= MaxDataLen
    BY PendingNode
  <1>3. \A j \in 0..NodeSize(Len(m)) - 1 : mem[AddOffset(a, j)] = NodeByte(m, j)
    BY DEF PendingIntact
  <1>4. \A d \in 0..Len(m) - 1 : mem[AddOffset(a, d + 4)] = m[d + 1]
    <2> TAKE d \in 0..Len(m) - 1
    <2>1. d + 4 \in 0..NodeSize(Len(m)) - 1 /\ (d + 4) - 3 = d + 1 /\ ~(d + 4 < 4)
      BY <1>2 DEF NodeSize
    <2>2. NodeByte(m, d + 4) = m[d + 1]
      BY <2>1 DEF NodeByte
    <2> QED BY <1>3, <2>1, <2>2
  <1>5. ASSUME NEW j \in 0..3
        PROVE  mem[AddOffset(a, j)] = LenByte(Len(m), j)
    <2>1. j \in 0..NodeSize(Len(m)) - 1 /\ j < 4
      BY <1>2 DEF NodeSize
    <2> QED BY <1>3, <2>1 DEF NodeByte
  <1>6. ASSUME NEW j \in 0..3
        PROVE  AddOffset(a, j) = IF Size - a >= 4 \/ j < Size - a
                                 THEN a + j ELSE j - (Size - a)
    <2>1. j \in 0..Size /\ a \in 0..Size - 1
      BY <1>2, QueueAssumption DEF NodeSize
    <2>2. AddOffset(a, j) = IF a + j < Size THEN a + j ELSE a + j - Size
      BY <2>1, AddOffsetWraps
    <2> QED BY <2>1, <2>2, QueueAssumption
  <1>7. DataLen(a) = LenByte(Len(m), 0) + 256 * LenByte(Len(m), 1)
            + 65536 * LenByte(Len(m), 2) + 16777216 * LenByte(Len(m), 3)
    <2> DEFINE B(j) == IF Size - a >= 4 \/ j < Size - a
                       THEN mem[a + j] ELSE mem[j - (Size - a)]
    <2>1. ASSUME NEW j \in 0..3 PROVE B(j) = LenByte(Len(m), j)
      BY <1>5, <1>6
    <2>2. B(0) = LenByte(Len(m), 0) /\ B(1) = LenByte(Len(m), 1)
          /\ B(2) = LenByte(Len(m), 2) /\ B(3) = LenByte(Len(m), 3)
      BY <2>1
    <2>3. DataLen(a) = B(0) + 256 * B(1) + 65536 * B(2) + 16777216 * B(3)
      BY DEF DataLen
    <2> HIDE DEF B
    <2> QED BY <2>2, <2>3
  <1>8. DataLen(a) = Len(m)
    BY <1>2, <1>7, LenRoundTrip
  <1> QED BY <1>4, <1>8

\* The oldest pending node is the one uiHead points at, length field included.
LEMMA FirstNode ==
    ASSUME TypeOK, RingInv, PendingIntact, Len(out) < Len(enq)
    PROVE  /\ Len(out) + 1 \in Pending
           /\ enq[Len(out) + 1].at = uiHead
           /\ DataLen(uiHead) = Len(enq[Len(out) + 1].msg)
           /\ \A d \in 0..Len(enq[Len(out) + 1].msg) - 1 :
                 mem[AddOffset(uiHead, d + 4)] = enq[Len(out) + 1].msg[d + 1]
  <1>1. Len(out) + 1 \in Pending
    BY DEF Pending, TypeOK
  <1>2. enq[Len(out) + 1].at = uiHead
    BY <1>1, PendingNode DEF RingInv, NodesContiguous
  <1> QED BY <1>1, <1>2, NodeReads

\* Four used bytes or more, the test of OutQueue, mean that a packet is pending.
LEMMA NonEmpty ==
    ASSUME TypeOK, RingInv, UsedSpace(uiHead, uiTail) >= 4
    PROVE  Len(out) < Len(enq)
  <1> SUFFICES ASSUME Len(out) = Len(enq) PROVE FALSE
    BY DEF RingInv, TypeOK
  <1>1. uiHead = uiTail
    BY DEF RingInv, NodesContiguous, NodeAt, TypeOK
  <1> QED BY <1>1, UsedZero DEF TypeOK

-----------------------------------------------------------------------------
(* Steps that leave the ring and the histories alone. *)

\* RingInv and PendingIntact speak of the ring and the histories only.
LEMMA RingSame ==
    ASSUME RingInv, PendingIntact, FifoDelivery, UNCHANGED <<ring, hist>>
    PROVE  RingInv' /\ PendingIntact' /\ FifoDelivery'
  BY DEF ring, hist, RingInv, PendingIntact, FifoDelivery, NodesContiguous,
         NodeAt, Pending

\* A producer's step disturbs no consumer's read, and the other way round.
LEMMA ReadSame ==
    ASSUME ReadInv, UNCHANGED <<hist, cLen, cGot>>,
           \A c \in Consumers : pc'[c] = pc[c]
    PROVE  ReadInv'
  BY DEF ReadInv, hist

\* A consumer's step disturbs no producer's copy.
LEMMA CopySame ==
    ASSUME CopyInv, UNCHANGED <<ring, pMsg, pIdx>>,
           \A p \in Producers : pc'[p] = pc[p]
    PROVE  CopyInv'
  BY DEF CopyInv, ring

\* Starting an InQueue call preserves the invariant.
LEMMA InQueueStep ==
    ASSUME IInv, NEW p \in Producers, InQueue(p)
    PROVE  IInv'
  <1> USE ProcAssumption DEF Procs, Goto
  <1>1. TypeOK'
    BY DEF IInv, TypeOK, InQueue, ring, locks, hist
  <1>2. ProcInv'
    BY DEF IInv, TypeOK, ProcInv, InQueue, locks
  <1>3. RingInv' /\ PendingIntact' /\ FifoDelivery'
    BY RingSame DEF IInv, InQueue
  <1>4. CopyInv'
    BY DEF IInv, TypeOK, CopyInv, InQueue, ring
  <1>5. ReadInv'
    BY ReadSame DEF IInv, TypeOK, InQueue
  <1> QED BY <1>1, <1>2, <1>3, <1>4, <1>5 DEF IInv

\* Taking semaphore 0 preserves the invariant.
LEMMA InLockStep ==
    ASSUME IInv, NEW p \in Producers, InLock(p)
    PROVE  IInv'
  <1> USE ProcAssumption DEF Procs, Goto
  <1>1. TypeOK'
    BY DEF IInv, TypeOK, InLock, ring, hist
  <1>2. ProcInv'
    BY DEF IInv, TypeOK, ProcInv, InLock
  <1>3. RingInv' /\ PendingIntact' /\ FifoDelivery'
    BY RingSame DEF IInv, InLock
  <1>4. CopyInv'
    BY DEF IInv, TypeOK, CopyInv, InLock, ring
  <1>5. ReadInv'
    BY ReadSame DEF IInv, TypeOK, InLock
  <1> QED BY <1>1, <1>2, <1>3, <1>4, <1>5 DEF IInv

\* Giving up on semaphore 0 preserves the invariant.
LEMMA InLockErrStep ==
    ASSUME IInv, NEW p \in Producers, InLockErr(p)
    PROVE  IInv'
  <1> USE ProcAssumption DEF Procs, Goto
  <1>1. TypeOK'
    BY DEF IInv, TypeOK, InLockErr, ring, locks, hist
  <1>2. ProcInv'
    BY DEF IInv, TypeOK, ProcInv, InLockErr, locks
  <1>3. RingInv' /\ PendingIntact' /\ FifoDelivery'
    BY RingSame DEF IInv, InLockErr
  <1>4. CopyInv'
    BY DEF IInv, TypeOK, CopyInv, InLockErr, ring
  <1>5. ReadInv'
    BY ReadSame DEF IInv, TypeOK, InLockErr
  <1> QED BY <1>1, <1>2, <1>3, <1>4, <1>5 DEF IInv

\* The length and space checks of InQueue preserve the invariant.
LEMMA InDecideStep ==
    ASSUME IInv, NEW p \in Producers, InReject(p) \/ InAccept(p)
    PROVE  IInv'
  <1> USE ProcAssumption DEF Procs, Goto
  <1>1. TypeOK'
    BY DEF IInv, TypeOK, InReject, InAccept, ring, locks, hist
  <1>2. ProcInv'
    BY DEF IInv, TypeOK, ProcInv, InReject, InAccept, locks
  <1>3. RingInv' /\ PendingIntact' /\ FifoDelivery'
    BY RingSame DEF IInv, InReject, InAccept
  <1>4. CopyInv'
    <2>1. pMsg[p] \in Msgs /\ pIdx[p] = 0 /\ pc[p] = "inCheck"
      BY DEF IInv, CopyInv, InReject, InAccept
    <2>2. Len(pMsg[p]) \in Nat
      BY <2>1, QueueAssumption
    <2>3. CASE InReject(p)
      BY <2>1, <2>3 DEF IInv, TypeOK, CopyInv, InReject, ring
    <2>4. CASE InAccept(p)
      <3>1. Len(pMsg[p]) > 0 /\ 0 <= NodeSize(Len(pMsg[p]))
        BY <2>2, <2>4 DEF InAccept, NodeSize
      <3>2. UNCHANGED <<uiHead, uiTail, mem, pMsg, pIdx>>
        BY <2>4 DEF InAccept, ring
      <3> QED BY <2>1, <2>4, <3>1, <3>2 DEF IInv, TypeOK, CopyInv, InAccept
    <2> QED BY <2>3, <2>4
  <1>5. ReadInv'
    BY ReadSame DEF IInv, TypeOK, InReject, InAccept
  <1> QED BY <1>1, <1>2, <1>3, <1>4, <1>5 DEF IInv

\* Leaving InQueue preserves the invariant.
LEMMA InUnlockStep ==
    ASSUME IInv, NEW p \in Producers, InUnlock(p)
    PROVE  IInv'
  <1> USE ProcAssumption DEF Procs, Goto
  <1>1. TypeOK'
    BY DEF IInv, TypeOK, InUnlock, ring, hist
  <1>2. ProcInv'
    BY DEF IInv, TypeOK, ProcInv, InUnlock
  <1>3. RingInv' /\ PendingIntact' /\ FifoDelivery'
    BY RingSame DEF IInv, InUnlock
  <1>4. CopyInv'
    BY DEF IInv, TypeOK, CopyInv, InUnlock, ring
  <1>5. ReadInv'
    BY ReadSame DEF IInv, TypeOK, InUnlock
  <1> QED BY <1>1, <1>2, <1>3, <1>4, <1>5 DEF IInv

-----------------------------------------------------------------------------
(* The producer writes. *)

\* What a producer writes is a byte.
LEMMA NodeByteType ==
    ASSUME NEW m \in Msgs, NEW j \in 0..NodeSize(Len(m)) - 1
    PROVE  NodeByte(m, j) \in Byte
  <1>1. m \in Seq(Byte) /\ Len(m) \in Nat /\ Len(m) <= MaxDataLen
    BY QueueAssumption
  <1>2. CASE j < 4
    BY <1>1, <1>2, LenRoundTrip DEF NodeByte
  <1>3. CASE ~(j < 4)
    <2>1. j - 3 \in 1..Len(m)
      BY <1>1, <1>3 DEF NodeSize
    <2> QED BY <1>1, <1>3, <2>1, ElementOfSeq DEF NodeByte
  <1> QED BY <1>2, <1>3

\* A byte written behind uiTail lies in free space: no pending byte changes.
LEMMA InCopyStep ==
    ASSUME IInv, NEW p \in Producers, InCopy(p)
    PROVE  IInv'
  <1> USE ProcAssumption DEF Procs
  <1> DEFINE m == pMsg[p]
             i == pIdx[p]
             w == AddOffset(uiTail, i)
  <1>1. /\ pc[p] = "inCopy" /\ semIn = p /\ m \in Msgs
        /\ Len(m) \in Nat /\ Len(m) > 0
        /\ i \in Nat /\ i < NodeSize(Len(m))
        /\ uiHead \in 0..Size - 1 /\ uiTail \in 0..Size - 1
        /\ UsedSpace(uiHead, uiTail) \in 0..Size - 1
        /\ NodeSize(Len(m)) <= Size - 1 - UsedSpace(uiHead, uiTail)
    <2>1. /\ pc[p] = "inCopy" /\ semIn = p /\ m \in Msgs /\ Len(m) > 0
          /\ i \in Nat /\ i < NodeSize(Len(m))
          /\ NodeSize(Len(m)) <= FreeSpace(uiHead, uiTail)
          /\ uiHead \in 0..Size - 1 /\ uiTail \in 0..Size - 1
      BY DEF IInv, TypeOK, ProcInv, CopyInv, InCopy
    <2>2. Len(m) \in Nat
      BY <2>1, QueueAssumption
    <2> QED BY <2>1, <2>2, SpaceSplits
  <1>2. /\ w \in 0..Size - 1
        /\ UsedSpace(uiHead, w) = UsedSpace(uiHead, uiTail) + i
        /\ CopyDataInQueue(uiTail, Len(m), i) = w
    <2>1. UsedSpace(uiHead, uiTail) + i < Size /\ NodeSize(Len(m)) < Size
          /\ i \in 0..NodeSize(Len(m)) - 1
      BY <1>1, QueueAssumption DEF NodeSize
    <2> QED BY <1>1, <2>1, UsedAdd, InAddress
  <1>3. /\ mem' = [mem EXCEPT ![w] = NodeByte(m, i)]
        /\ pIdx' = [pIdx EXCEPT ![p] = i + 1]
        /\ UNCHANGED <<uiHead, uiTail, semIn, semOut, pc, pMsg, cLen, cGot, crashes, enq, out>>
    BY <1>2 DEF InCopy, locks, hist
  <1>4. mem \in [0..Size - 1 -> Byte] /\ NodeByte(m, i) \in Byte
    <2>1. i \in 0..NodeSize(Len(m)) - 1
      BY <1>1 DEF NodeSize
    <2> QED BY <1>1, <2>1, NodeByteType DEF IInv, TypeOK
  <1>5. TypeOK'
    <2>1. mem' \in [0..Size - 1 -> Byte]
      BY <1>3, <1>4
    <2>2. pIdx' \in [Producers -> Nat]
      BY <1>1, <1>3 DEF IInv, TypeOK
    <2> QED BY <1>3, <2>1, <2>2 DEF IInv, TypeOK
  <1>6. ProcInv'
    BY <1>3 DEF IInv, ProcInv
  <1>7. RingInv' /\ FifoDelivery'
    BY <1>3 DEF IInv, RingInv, FifoDelivery, NodesContiguous, NodeAt, Pending
  <1>8. PendingIntact'
    <2> SUFFICES ASSUME NEW k \in Pending, NEW j \in 0..NodeSize(Len(enq[k].msg)) - 1
                 PROVE  mem'[AddOffset(enq[k].at, j)] = NodeByte(enq[k].msg, j)
      BY <1>3 DEF PendingIntact, Pending
    <2>1. /\ enq[k].at \in 0..Size - 1 /\ Len(enq[k].msg) \in Nat
          /\ UsedSpace(uiHead, enq[k].at) \in 0..Size - 1
          /\ UsedSpace(uiHead, enq[k].at) + NodeSize(Len(enq[k].msg))
                 <= UsedSpace(uiHead, uiTail)
      BY PendingNode DEF IInv
    <2>2. j \in Nat /\ UsedSpace(uiHead, enq[k].at) + j < UsedSpace(uiHead, uiTail)
          /\ UsedSpace(uiHead, enq[k].at) + j < Size
      <3>1. NodeSize(Len(enq[k].msg)) \in Nat
        BY <2>1 DEF NodeSize
      <3>2. j \in Nat /\ j < NodeSize(Len(enq[k].msg))
        BY <3>1
      <3> QED BY <1>1, <2>1, <3>1, <3>2, QueueAssumption
    <2>3. /\ AddOffset(enq[k].at, j) \in 0..Size - 1
          /\ UsedSpace(uiHead, AddOffset(enq[k].at, j)) = UsedSpace(uiHead, enq[k].at) + j
      BY <1>1, <2>1, <2>2, UsedAdd
    <2>4. AddOffset(enq[k].at, j) # w
      BY <1>1, <1>2, <2>1, <2>2, <2>3
    <2>5. mem[AddOffset(enq[k].at, j)] = NodeByte(enq[k].msg, j)
      BY DEF IInv, PendingIntact
    <2> QED BY <1>3, <1>4, <2>3, <2>4, <2>5
  <1>9. CopyInv'
    <2> SUFFICES ASSUME NEW q \in Producers
                 PROVE  /\ pc[q] \in {"idle", "inLock", "inCheck"} => pIdx'[q] = 0
                        /\ pc[q] # "idle" => pMsg[q] \in Msgs
                        /\ pc[q] = "inCopy" =>
                              /\ Len(pMsg[q]) > 0
                              /\ NodeSize(Len(pMsg[q])) <= FreeSpace(uiHead, uiTail)
                              /\ pIdx'[q] <= NodeSize(Len(pMsg[q]))
                              /\ \A j \in 0..pIdx'[q] - 1 :
                                    mem'[AddOffset(uiTail, j)] = NodeByte(pMsg[q], j)
      BY <1>3 DEF CopyInv
    <2>1. CASE q # p
      <3>1. pc[q] # "inCopy"
        BY <1>1, <2>1 DEF IInv, ProcInv
      <3> QED BY <1>3, <2>1, <3>1 DEF IInv, TypeOK, CopyInv
    <2>2. CASE q = p
      <3>1. pIdx'[p] = i + 1 /\ i + 1 <= NodeSize(Len(m))
        BY <1>1, <1>3 DEF IInv, TypeOK, NodeSize
      <3>2. ASSUME NEW j \in 0..i
            PROVE  mem'[AddOffset(uiTail, j)] = NodeByte(m, j)
        <4>1. CASE j = i
          BY <1>2, <1>3, <1>4, <4>1
        <4>2. CASE j # i
          <5>1. j \in 0..i - 1
            BY <1>1, <4>2
          <5>2. mem[AddOffset(uiTail, j)] = NodeByte(m, j)
            BY <1>1, <5>1 DEF IInv, CopyInv
          <5>3. UsedSpace(uiHead, uiTail) + j < Size /\ j \in Nat
            BY <1>1, <5>1, QueueAssumption DEF NodeSize
          <5>4. /\ AddOffset(uiTail, j) \in 0..Size - 1
                /\ UsedSpace(uiHead, AddOffset(uiTail, j)) = UsedSpace(uiHead, uiTail) + j
            BY <1>1, <5>3, UsedAdd
          <5>5. AddOffset(uiTail, j) # w
            BY <1>1, <1>2, <4>2, <5>3, <5>4
          <5> QED BY <1>3, <1>4, <5>2, <5>4, <5>5
        <4> QED BY <4>1, <4>2
      <3>3. 0..(i + 1) - 1 = 0..i
        BY <1>1
      <3> QED BY <1>1, <2>2, <3>1, <3>2, <3>3 DEF IInv, CopyInv
    <2> QED BY <2>1, <2>2
  <1>10. ReadInv'
    BY <1>3, ReadSame DEF IInv, hist
  <1> QED BY <1>5, <1>6, <1>7, <1>8, <1>9, <1>10 DEF IInv

\* Moving uiTail turns the completed copy into the youngest pending node.
LEMMA InAddTailStep ==
    ASSUME IInv, NEW p \in Producers, InAddTail(p)
    PROVE  IInv'
  <1> USE ProcAssumption DEF Procs
  <1> DEFINE m == pMsg[p]
             n == NodeSize(Len(m))
             new == [msg |-> m, at |-> uiTail]
  <1>0. PICK L \in Nat, o \in Nat : L = Len(enq) /\ o = Len(out)
    BY DEF IInv, TypeOK
  <1>1. /\ pc[p] = "inCopy" /\ semIn = p /\ m \in Msgs
        /\ Len(m) \in Nat /\ Len(m) > 0 /\ n \in Nat /\ pIdx[p] = n
        /\ uiHead \in 0..Size - 1 /\ uiTail \in 0..Size - 1
        /\ UsedSpace(uiHead, uiTail) \in 0..Size - 1
        /\ UsedSpace(uiHead, uiTail) + n < Size
        /\ \A j \in 0..n - 1 : mem[AddOffset(uiTail, j)] = NodeByte(m, j)
    <2>1. /\ pc[p] = "inCopy" /\ semIn = p /\ m \in Msgs /\ Len(m) > 0
          /\ pIdx[p] = n
          /\ n <= FreeSpace(uiHead, uiTail)
          /\ uiHead \in 0..Size - 1 /\ uiTail \in 0..Size - 1
          /\ \A j \in 0..n - 1 : mem[AddOffset(uiTail, j)] = NodeByte(m, j)
      BY DEF IInv, TypeOK, ProcInv, CopyInv, InAddTail
    <2>2. Len(m) \in Nat /\ n \in Nat
      BY <2>1, QueueAssumption DEF NodeSize
    <2>3. /\ UsedSpace(uiHead, uiTail) \in 0..Size - 1
          /\ UsedSpace(uiHead, uiTail) + n < Size
      <3>1. /\ UsedSpace(uiHead, uiTail) \in 0..Size - 1
            /\ n <= Size - 1 - UsedSpace(uiHead, uiTail)
        BY <2>1, SpaceSplits
      <3> HIDE DEF n
      <3> QED BY <2>2, <3>1, QueueAssumption
    <2> QED BY <2>1, <2>2, <2>3
  <1>2. /\ uiTail' = AddOffset(uiTail, n) /\ uiTail' \in 0..Size - 1
        /\ UsedSpace(uiHead, uiTail') = UsedSpace(uiHead, uiTail) + n
    BY <1>1, UsedAdd DEF InAddTail
  <1>3. /\ enq' = Append(enq, new)
        /\ pc' = [pc EXCEPT ![p] = "inUnlock"]
        /\ UNCHANGED <<uiHead, mem, semIn, semOut, pMsg, pIdx, cLen, cGot, crashes, out>>
    BY DEF InAddTail, Goto, locks
  <1>4. /\ enq \in Seq([msg : Msgs, at : 0..Size - 1]) /\ L = Len(enq)
        /\ out \in Seq([ok : BOOLEAN, data : Seq(Byte)])
        /\ o = Len(out) /\ o = Len(out')
        /\ new \in [msg : Msgs, at : 0..Size - 1]
        /\ o <= L
    BY <1>0, <1>1, <1>3 DEF IInv, TypeOK, RingInv
  <1>5. /\ enq' \in Seq([msg : Msgs, at : 0..Size - 1])
        /\ Len(enq') = L + 1 /\ DOMAIN enq' = 1..L + 1 /\ DOMAIN enq = 1..L
        /\ \A k \in 1..L : enq'[k] = enq[k]
        /\ enq'[L + 1] = new
    BY <1>3, <1>4
  <1>6. Pending' = Pending \cup {L + 1} /\ \A k \in Pending : k \in 1..L /\ k > Len(out)
    BY <1>3, <1>4, <1>5 DEF Pending
  <1>7. TypeOK'
    BY <1>1, <1>2, <1>3, <1>5 DEF IInv, TypeOK
  <1>8. ProcInv'
    BY <1>1, <1>3 DEF IInv, TypeOK, ProcInv
  <1> HIDE DEF n
  <1>9. RingInv'
    <2>1. Len(out') <= Len(enq')
      BY <1>3, <1>4, <1>5
    <2>2. \A k \in Pending' : Len(enq'[k].msg) > 0
      BY <1>1, <1>5, <1>6 DEF IInv, RingInv
    <2>3. NodeAt(L + 1) = uiTail /\ NodeAt(L + 1)' = uiTail /\ NodeAt(L + 2)' = uiTail'
          /\ \A k \in 1..L : NodeAt(k)' = NodeAt(k)
      BY <1>4, <1>5 DEF NodeAt
    <2>4. NodeAt(o + 1)' = uiHead'
      <3>1. NodeAt(o + 1) = uiHead
        BY <1>4 DEF IInv, RingInv, NodesContiguous
      <3>2. o + 1 \in 1..L \/ o + 1 = L + 1
        BY <1>4, SMTT(30)
      <3> QED BY <1>3, <2>3, <3>1, <3>2
    <2>5. ASSUME NEW k \in Pending'
          PROVE  /\ NodeAt(k + 1)' = AddOffset(NodeAt(k)', NodeSize(Len(enq'[k].msg)))
                 /\ UsedSpace(uiHead', NodeAt(k)') + NodeSize(Len(enq'[k].msg))
                       <= UsedSpace(uiHead', uiTail')
      <3>1. CASE k = L + 1
        <4>1. (L + 1) + 1 = L + 2 /\ NodeSize(Len(enq'[k].msg)) = n
          BY <1>4, <1>5, <3>1 DEF n
        <4>2. NodeAt(k)' = uiTail /\ NodeAt(k + 1)' = uiTail' /\ uiHead' = uiHead
          BY <1>3, <2>3, <3>1, <4>1
        <4>3. UsedSpace(uiHead, uiTail) + n <= UsedSpace(uiHead, uiTail')
          BY <1>1, <1>2
        <4> QED BY <1>2, <4>1, <4>2, <4>3
      <3>2. CASE k \in Pending
        <4>1. /\ enq'[k] = enq[k] /\ NodeAt(k)' = NodeAt(k)
              /\ NodeAt(k + 1)' = NodeAt(k + 1)
          <5>1. k \in 1..L /\ (k + 1 \in 1..L \/ k + 1 = L + 1)
            BY <1>4, <1>6, <3>2
          <5> QED BY <1>5, <2>3, <5>1
        <4>2. /\ NodeAt(k + 1) = AddOffset(NodeAt(k), NodeSize(Len(enq[k].msg)))
              /\ UsedSpace(uiHead, NodeAt(k)) + NodeSize(Len(enq[k].msg))
                    <= UsedSpace(uiHead, uiTail)
          BY <3>2 DEF IInv, RingInv, NodesContiguous
        <4>3. UsedSpace(uiHead, NodeAt(k)) \in Nat /\ NodeSize(Len(enq[k].msg)) \in Nat
          BY <3>2, PendingNode DEF IInv, NodeSize
        <4>4. UsedSpace(uiHead, NodeAt(k)) + NodeSize(Len(enq[k].msg))
                    <= UsedSpace(uiHead, uiTail')
          BY <1>1, <1>2, <4>2, <4>3
        <4> QED BY <1>3, <4>1, <4>2, <4>4
      <3> QED BY <1>6, <3>1, <3>2
    <2>6. ASSUME NEW i \in Pending', NEW j \in Pending', i < j
          PROVE  UsedSpace(uiHead', enq'[i].at) + NodeSize(Len(enq'[i].msg))
                    <= UsedSpace(uiHead', enq'[j].at)
      <3>1. i \in Pending /\ i \in 1..L
        BY <1>4, <1>6, <2>6
      <3>2. CASE j \in Pending
        BY <1>3, <1>5, <1>6, <2>6, <3>1, <3>2 DEF IInv, RingInv
      <3>3. CASE j = L + 1
        <4>1. UsedSpace(uiHead, enq[i].at) + NodeSize(Len(enq[i].msg))
                    <= UsedSpace(uiHead, uiTail)
          BY <3>1, PendingNode DEF IInv
        <4> QED BY <1>3, <1>5, <3>1, <3>3, <4>1
      <3> QED BY <1>6, <3>2, <3>3
    <2>7. NodesContiguous'
      BY <1>4, <2>4, <2>5 DEF NodesContiguous
    <2> QED BY <2>1, <2>2, <2>6, <2>7 DEF RingInv
  <1>10. PendingIntact'
    <2> SUFFICES ASSUME NEW k \in Pending', NEW j \in 0..NodeSize(Len(enq'[k].msg)) - 1
                 PROVE  mem'[AddOffset(enq'[k].at, j)] = NodeByte(enq'[k].msg, j)
      BY DEF PendingIntact
    <2>1. CASE k \in Pending
      BY <1>3, <1>5, <1>6, <2>1 DEF IInv, PendingIntact
    <2>2. CASE k = L + 1
      BY <1>1, <1>3, <1>5, <2>2 DEF n
    <2> QED BY <1>6, <2>1, <2>2
  <1>11. CopyInv'
    <2>1. \A q \in Producers : pc'[q] # "inCopy"
      BY <1>1, <1>3 DEF IInv, TypeOK, ProcInv
    <2> QED BY <1>1, <1>3, <2>1 DEF IInv, TypeOK, CopyInv
  <1>12. ReadInv'
    <2>1. \A c \in Consumers : pc'[c] = pc[c]
      BY <1>3 DEF IInv, TypeOK
    <2>2. Len(out) < Len(enq) => Len(out) < Len(enq') /\ enq'[Len(out) + 1] = enq[Len(out) + 1]
      BY <1>4, <1>5
    <2> QED BY <1>3, <2>1, <2>2 DEF IInv, ReadInv
  <1>13. FifoDelivery'
    <2>1. \A k \in DOMAIN out : enq'[k] = enq[k]
      <3>1. DOMAIN out = 1..o
        BY <1>4, LenProperties
      <3>2. \A k \in 1..o : k \in 1..L
        BY <1>4
      <3> QED BY <1>5, <3>1, <3>2
    <2>2. Len(out') <= Len(enq')
      BY <1>3, <1>4, <1>5
    <2> QED BY <1>3, <2>1, <2>2 DEF IInv, FifoDelivery
  <1> QED BY <1>7, <1>8, <1>9, <1>10, <1>11, <1>12, <1>13 DEF IInv

-----------------------------------------------------------------------------
(* The consumer reads. *)

\* Taking semaphore 1 preserves the invariant.
LEMMA OutLockStep ==
    ASSUME IInv, NEW c \in Consumers, OutLock(c)
    PROVE  IInv'
  <1> USE ProcAssumption DEF Procs, Goto
  <1>1. TypeOK'
    BY DEF IInv, TypeOK, OutLock, ring, hist
  <1>2. ProcInv'
    BY DEF IInv, TypeOK, ProcInv, OutLock
  <1>3. RingInv' /\ PendingIntact' /\ FifoDelivery'
    BY RingSame DEF IInv, OutLock
  <1>4. CopyInv'
    BY CopySame DEF IInv, TypeOK, OutLock
  <1>5. ReadInv'
    BY DEF IInv, TypeOK, ReadInv, OutLock, hist
  <1> QED BY <1>1, <1>2, <1>3, <1>4, <1>5 DEF IInv

\* Finding the ring empty preserves the invariant.
LEMMA OutEmptyStep ==
    ASSUME IInv, NEW c \in Consumers, OutEmpty(c)
    PROVE  IInv'
  <1> USE ProcAssumption DEF Procs, Goto
  <1>1. TypeOK'
    BY DEF IInv, TypeOK, OutEmpty, ring, locks, hist
  <1>2. ProcInv'
    BY DEF IInv, TypeOK, ProcInv, OutEmpty, locks
  <1>3. RingInv' /\ PendingIntact' /\ FifoDelivery'
    BY RingSame DEF IInv, OutEmpty
  <1>4. CopyInv'
    BY CopySame DEF IInv, TypeOK, OutEmpty
  <1>5. ReadInv'
    BY DEF IInv, TypeOK, ReadInv, OutEmpty, hist
  <1> QED BY <1>1, <1>2, <1>3, <1>4, <1>5 DEF IInv

\* Leaving OutQueue preserves the invariant.
LEMMA OutUnlockStep ==
    ASSUME IInv, NEW c \in Consumers, OutUnlock(c)
    PROVE  IInv'
  <1> USE ProcAssumption DEF Procs, Goto
  <1>1. TypeOK'
    BY EmptySeq DEF IInv, TypeOK, OutUnlock, ring, hist
  <1>2. ProcInv'
    BY DEF IInv, TypeOK, ProcInv, OutUnlock
  <1>3. RingInv' /\ PendingIntact' /\ FifoDelivery'
    BY RingSame DEF IInv, OutUnlock
  <1>4. CopyInv'
    BY CopySame DEF IInv, TypeOK, OutUnlock
  <1>5. ReadInv'
    BY DEF IInv, TypeOK, ReadInv, OutUnlock, hist
  <1> QED BY <1>1, <1>2, <1>3, <1>4, <1>5 DEF IInv

\* The length a consumer reads is the length of the oldest pending packet.
LEMMA LenStep ==
    ASSUME IInv, NEW c \in Consumers, OutLen(c) \/ MsgPeek(c)
    PROVE  IInv'
  <1> USE ProcAssumption DEF Procs, Goto
  <1>0. TypeOK /\ ProcInv /\ RingInv /\ PendingIntact /\ CopyInv /\ ReadInv /\ FifoDelivery
    BY DEF IInv
  <1>1. Len(out) < Len(enq)
    BY <1>0, NonEmpty DEF OutLen, MsgPeek
  <1>2. DataLen(uiHead) = Len(enq[Len(out) + 1].msg) /\ DataLen(uiHead) \in Nat
    BY <1>0, <1>1, FirstNode, PendingNode
  <1>3. /\ cLen' = [cLen EXCEPT ![c] = DataLen(uiHead)]
        /\ pc[c] \in {"idle", "outCheck"}
        /\ \/ pc' = [pc EXCEPT ![c] = "outCopy"] /\ DataLen(uiHead) <= BufLen
           \/ pc' = [pc EXCEPT ![c] = "outSkip"] /\ DataLen(uiHead) > BufLen
           \/ pc' = [pc EXCEPT ![c] = "peek"] 
        /\ UNCHANGED <<uiHead, uiTail, mem, semIn, semOut, pMsg, pIdx, cGot, crashes, enq, out>>
    BY <1>2, QueueAssumption DEF OutLen, MsgPeek, ring, locks, hist
  <1>4. TypeOK'
    BY <1>0, <1>2, <1>3 DEF TypeOK
  <1>5. ProcInv'
    BY <1>0, ZenonT(60) DEF TypeOK, ProcInv, OutLen, MsgPeek, locks
  <1>6. RingInv' /\ PendingIntact' /\ FifoDelivery'
    BY <1>0, <1>3, RingSame DEF ring, hist
  <1>7. CopyInv'
    BY <1>0, <1>3, CopySame DEF TypeOK, ring
  <1>8. ReadInv'
    <2> SUFFICES ASSUME NEW d \in Consumers
                 PROVE  /\ pc'[d] \in {"idle", "outCheck"} => cGot[d] = <<>>
                        /\ pc'[d] \in {"outCopy", "outSkip", "peek"} =>
                            /\ Len(out) < Len(enq)
                            /\ cLen'[d] = Len(enq[Len(out) + 1].msg)
                            /\ Len(cGot[d]) <= cLen'[d]
                            /\ \A j \in 1..Len(cGot[d]) :
                                  cGot[d][j] = enq[Len(out) + 1].msg[j]
                        /\ pc'[d] = "outCopy" => cLen'[d] <= BufLen
                        /\ pc'[d] = "outSkip" => cLen'[d] > BufLen
      BY <1>3 DEF ReadInv
    <2>1. CASE d # c
      <3>1. pc'[d] = pc[d] /\ cLen'[d] = cLen[d]
        BY <1>0, <1>3, <2>1 DEF TypeOK
      <3> QED BY <1>0, <3>1 DEF ReadInv
    <2>2. CASE d = c
      <3>1. cGot[c] = <<>> /\ Len(cGot[c]) = 0 /\ cLen'[c] = DataLen(uiHead)
        BY <1>0, <1>3 DEF TypeOK, ReadInv
      <3>2. \A j \in 1..Len(cGot[c]) : FALSE
        BY <3>1
      <3>3. /\ pc'[c] \in {"outCopy", "outSkip", "peek"}
            /\ pc'[c] = "outCopy" => DataLen(uiHead) <= BufLen
            /\ pc'[c] = "outSkip" => DataLen(uiHead) > BufLen
        BY <1>0, <1>3 DEF TypeOK
      <3> QED BY <1>1, <1>2, <2>2, <3>1, <3>2, <3>3
    <2> QED BY <2>1, <2>2
  <1> QED BY <1>4, <1>5, <1>6, <1>7, <1>8 DEF IInv

\* The byte a consumer reads is the next byte of the oldest pending packet.
LEMMA ReadStep ==
    ASSUME IInv, NEW c \in Consumers, OutCopy(c) \/ PeekRead(c)
    PROVE  IInv'
  <1> USE ProcAssumption DEF Procs
  <1> DEFINE k == Len(out) + 1
             m == enq[k].msg
             l == Len(cGot[c])
  <1>0. TypeOK /\ ProcInv /\ RingInv /\ PendingIntact /\ CopyInv /\ ReadInv /\ FifoDelivery
    BY DEF IInv
  <1>1. /\ pc[c] \in {"outCopy", "peek"} /\ Len(out) < Len(enq) /\ cLen[c] = Len(m)
        /\ l < Len(m)
        /\ \A j \in 1..l : cGot[c][j] = m[j]
    BY <1>0 DEF ReadInv, OutCopy, PeekRead
  <1>2. /\ uiHead \in 0..Size - 1 /\ Len(m) \in Nat /\ NodeSize(Len(m)) < Size
        /\ m \in Seq(Byte)
        /\ \A d \in 0..Len(m) - 1 : mem[AddOffset(uiHead, d + 4)] = m[d + 1]
    BY <1>0, <1>1, FirstNode, PendingNode DEF TypeOK
  <1>3. cGot \in [Consumers -> Seq(Byte)] /\ cGot[c] \in Seq(Byte) /\ l \in Nat
    BY <1>0 DEF TypeOK
  <1>4. l \in 0..Len(m) - 1 /\ l + 1 \in 1..Len(m)
    BY <1>1, <1>2, <1>3
  <1>5. /\ cGot' = [cGot EXCEPT ![c] = Append(cGot[c], m[l + 1])]
        /\ UNCHANGED <<uiHead, uiTail, mem, semIn, semOut, pc, pMsg, pIdx, cLen,
                       crashes, enq, out>>
    <2>1. /\ mem[CopyDataOutQueue(uiHead, Len(m), l)] = m[l + 1]
          /\ mem[PeekAddr(uiHead, Len(m), l)] = m[l + 1]
      BY <1>2, <1>4, OutAddress
    <2> QED BY <1>1, <2>1 DEF OutCopy, PeekRead, ring, locks, hist
  <1>6. m[l + 1] \in Byte
    BY <1>2, <1>4, ElementOfSeq
  <1>7. /\ Append(cGot[c], m[l + 1]) \in Seq(Byte)
        /\ Len(Append(cGot[c], m[l + 1])) = l + 1
        /\ \A j \in 1..l + 1 : Append(cGot[c], m[l + 1])[j] = m[j]
    BY <1>1, <1>3, <1>6
  <1>8. TypeOK'
    <2>1. cGot' \in [Consumers -> Seq(Byte)]
      BY <1>3, <1>5, <1>7
    <2> QED BY <1>0, <1>5, <2>1 DEF TypeOK
  <1>9. ProcInv'
    BY <1>0, <1>5 DEF ProcInv
  <1>10. RingInv' /\ PendingIntact' /\ FifoDelivery'
    BY <1>0, <1>5, RingSame DEF ring, hist
  <1>11. CopyInv'
    BY <1>0, <1>5, CopySame DEF ring
  <1>12. ReadInv'
    <2> SUFFICES ASSUME NEW d \in Consumers
                 PROVE  /\ pc[d] \in {"idle", "outCheck"} => cGot'[d] = <<>>
                        /\ pc[d] \in {"outCopy", "outSkip", "peek"} =>
                            /\ Len(out) < Len(enq)
                            /\ cLen[d] = Len(m)
                            /\ Len(cGot'[d]) <= cLen[d]
                            /\ \A j \in 1..Len(cGot'[d]) : cGot'[d][j] = m[j]
                        /\ pc[d] = "outCopy" => cLen[d] <= BufLen
                        /\ pc[d] = "outSkip" => cLen[d] > BufLen
      BY <1>5 DEF ReadInv
    <2>1. CASE d # c
      <3>1. cGot'[d] = cGot[d]
        BY <1>3, <1>5, <2>1
      <3> QED BY <1>0, <3>1 DEF ReadInv
    <2>2. CASE d = c
      <3>1. cGot'[c] = Append(cGot[c], m[l + 1])
        BY <1>3, <1>5
      <3>2. Len(cGot'[c]) <= Len(m) /\ \A j \in 1..Len(cGot'[c]) : cGot'[c][j] = m[j]
        BY <1>2, <1>4, <1>7, <3>1
      <3> QED BY <1>0, <1>1, <2>2, <3>2 DEF ReadInv
    <2> QED BY <2>1, <2>2
  <1> QED BY <1>8, <1>9, <1>10, <1>11, <1>12 DEF IInv

\* The oldest packet leaves the ring.
LEMMA AdvanceHead ==
    ASSUME TypeOK, RingInv, PendingIntact, FifoDelivery, Len(out) < Len(enq),
           uiHead' = AddOffset(uiHead, NodeSize(Len(enq[Len(out) + 1].msg))),
           out' = Append(out, Outcome(enq[Len(out) + 1].msg)),
           UNCHANGED <<uiTail, mem, enq>>
    PROVE  /\ uiHead' \in 0..Size - 1
           /\ out' \in Seq([ok : BOOLEAN, data : Seq(Byte)])
           /\ RingInv' /\ PendingIntact' /\ FifoDelivery'
           /\ FreeSpace(uiHead, uiTail) <= FreeSpace(uiHead', uiTail)
           /\ UsedSpace(uiHead', uiTail)
                = UsedSpace(uiHead, uiTail) - NodeSize(Len(enq[Len(out) + 1].msg))
  <1>0. PICK L \in Nat, o \in Nat : L = Len(enq) /\ o = Len(out)
    BY DEF TypeOK
  <1> DEFINE f == o + 1
             m == enq[f].msg
             n == NodeSize(Len(m))
             r == Outcome(m)
             R == [ok : BOOLEAN, data : Seq(Byte)]
  <1>1. /\ f \in Pending /\ enq[f].at = uiHead /\ NodeAt(f) = uiHead
        /\ m \in Seq(Byte) /\ Len(m) \in Nat /\ n \in Nat
        /\ UsedSpace(uiHead, uiTail) \in 0..Size - 1
        /\ n <= UsedSpace(uiHead, uiTail)
    <2>1. f \in Pending /\ enq[f].at = uiHead
      BY <1>0, FirstNode
    <2>2. /\ m \in Seq(Byte) /\ Len(m) \in Nat /\ NodeAt(f) = enq[f].at
          /\ UsedSpace(uiHead, uiTail) \in 0..Size - 1
          /\ UsedSpace(uiHead, enq[f].at) + n <= UsedSpace(uiHead, uiTail)
      BY <2>1, PendingNode
    <2>3. n \in Nat
      BY <2>2 DEF NodeSize
    <2>4. UsedSpace(uiHead, enq[f].at) = 0
      BY <2>1, UsedZero DEF TypeOK
    <2> HIDE DEF n
    <2> QED BY <2>1, <2>2, <2>3, <2>4
  <1>2. /\ uiHead' = AddOffset(uiHead, n) /\ uiHead' \in 0..Size - 1
        /\ UsedSpace(uiHead', uiTail) = UsedSpace(uiHead, uiTail) - n
    <2>1. uiHead' = AddOffset(uiHead, n)
      BY <1>0
    <2>2. uiHead \in 0..Size - 1 /\ uiTail \in 0..Size - 1
      BY DEF TypeOK
    <2> QED BY <1>1, <2>1, <2>2, UsedMove
  <1>3. FreeSpace(uiHead, uiTail) <= FreeSpace(uiHead', uiTail)
    <2>1. uiHead \in 0..Size - 1 /\ uiTail \in 0..Size - 1
      BY DEF TypeOK
    <2>2. /\ FreeSpace(uiHead, uiTail) = Size - 1 - UsedSpace(uiHead, uiTail)
          /\ FreeSpace(uiHead', uiTail) = Size - 1 - UsedSpace(uiHead', uiTail)
      BY <1>2, <2>1, SpaceSplits
    <2> HIDE DEF n
    <2> QED BY <1>1, <1>2, <2>2, QueueAssumption
  <1>4. /\ out \in Seq(R) /\ r \in R
        /\ out' = Append(out, r) /\ out' \in Seq(R) /\ Len(out') = o + 1
        /\ DOMAIN out = 1..o /\ DOMAIN out' = 1..o + 1
        /\ \A k \in 1..o : out'[k] = out[k]
        /\ out'[o + 1] = r
    <2>1. out \in Seq(R)
      BY DEF TypeOK
    <2>2. r \in R
      BY <1>1, EmptySeq DEF Outcome
    <2>3. out' = Append(out, r)
      BY <1>0
    <2> HIDE DEF r, R
    <2> QED BY <1>0, <2>1, <2>2, <2>3
  <1>5. Pending' \subseteq Pending /\ \A k \in Pending' : k > f /\ k \in 1..L
    BY <1>0, <1>4, LenProperties DEF Pending, TypeOK
  <1>6. ASSUME NEW k \in Pending'
        PROVE  /\ k \in Pending /\ enq[k].at \in 0..Size - 1 /\ NodeAt(k) = enq[k].at
               /\ NodeSize(Len(enq[k].msg)) \in Nat
               /\ UsedSpace(uiHead, enq[k].at) \in Nat
               /\ UsedSpace(uiHead', enq[k].at) = UsedSpace(uiHead, enq[k].at) - n
    <2>1. k \in Pending /\ f < k
      BY <1>5
    <2>2. /\ enq[k].at \in 0..Size - 1 /\ NodeAt(k) = enq[k].at
          /\ NodeSize(Len(enq[k].msg)) \in Nat
          /\ UsedSpace(uiHead, enq[k].at) \in Nat
      BY <2>1, PendingNode DEF NodeSize
    <2>3. UsedSpace(uiHead, enq[f].at) + n <= UsedSpace(uiHead, enq[k].at)
      BY <1>1, <2>1 DEF RingInv
    <2>4. UsedSpace(uiHead, enq[f].at) = 0
      BY <1>1, UsedZero DEF TypeOK
    <2>5. n <= UsedSpace(uiHead, enq[k].at) /\ uiHead \in 0..Size - 1
      <3> HIDE DEF n
      <3> QED BY <1>1, <2>2, <2>3, <2>4 DEF TypeOK
    <2>6. UsedSpace(uiHead', enq[k].at) = UsedSpace(uiHead, enq[k].at) - n
      BY <1>1, <1>2, <2>2, <2>5, UsedMove
    <2> QED BY <2>1, <2>2, <2>6
  <1>7. NodesContiguous'
    <2>1. \A k \in Nat : NodeAt(k)' = NodeAt(k)
      BY DEF NodeAt
    <2>2. NodeAt(o + 2)' = uiHead'
      <3>1. NodeAt(f + 1) = AddOffset(NodeAt(f), n)
        BY <1>1 DEF RingInv, NodesContiguous
      <3>2. f + 1 = o + 2 /\ o + 2 \in Nat
        OBVIOUS
      <3>3. NodeAt(o + 2) = AddOffset(uiHead, n)
        BY <1>1, <3>1, <3>2
      <3> QED BY <1>2, <2>1, <3>2, <3>3
    <2>3. Len(out') + 1 = o + 2
      BY <1>4
    <2>4. ASSUME NEW k \in Pending'
          PROVE  /\ NodeAt(k + 1)' = AddOffset(NodeAt(k)', NodeSize(Len(enq'[k].msg)))
                 /\ UsedSpace(uiHead', NodeAt(k)') + NodeSize(Len(enq'[k].msg))
                       <= UsedSpace(uiHead', uiTail')
      <3>1. /\ NodeAt(k + 1) = AddOffset(NodeAt(k), NodeSize(Len(enq[k].msg)))
            /\ UsedSpace(uiHead, NodeAt(k)) + NodeSize(Len(enq[k].msg))
                  <= UsedSpace(uiHead, uiTail)
        BY <1>6 DEF RingInv, NodesContiguous
      <3>2. NodeAt(k)' = NodeAt(k) /\ NodeAt(k + 1)' = NodeAt(k + 1)
        <4>1. k \in Nat /\ k + 1 \in Nat
          BY <1>5
        <4> QED BY <2>1, <4>1
      <3>3. UsedSpace(uiHead', NodeAt(k)) + NodeSize(Len(enq[k].msg))
                  <= UsedSpace(uiHead', uiTail)
        <4>1. /\ UsedSpace(uiHead', NodeAt(k)) = UsedSpace(uiHead, NodeAt(k)) - n
              /\ UsedSpace(uiHead, NodeAt(k)) \in Nat
              /\ NodeSize(Len(enq[k].msg)) \in Nat
          BY <1>6
        <4> HIDE DEF n
        <4> QED BY <1>1, <1>2, <3>1, <4>1
      <3> QED BY <3>1, <3>2, <3>3
    <2> QED BY <2>2, <2>3, <2>4 DEF NodesContiguous
  <1>8. RingInv'
    <2>1. Len(out') <= Len(enq')
      BY <1>0, <1>4
    <2>2. \A k \in Pending' : Len(enq'[k].msg) > 0
      BY <1>5 DEF RingInv
    <2>3. ASSUME NEW i \in Pending', NEW j \in Pending', i < j
          PROVE  UsedSpace(uiHead', enq'[i].at) + NodeSize(Len(enq'[i].msg))
                    <= UsedSpace(uiHead', enq'[j].at)
      <3>1. UsedSpace(uiHead, enq[i].at) + NodeSize(Len(enq[i].msg))
               <= UsedSpace(uiHead, enq[j].at)
        BY <1>6, <2>3 DEF RingInv
      <3>2. /\ UsedSpace(uiHead', enq[i].at) = UsedSpace(uiHead, enq[i].at) - n
            /\ UsedSpace(uiHead', enq[j].at) = UsedSpace(uiHead, enq[j].at) - n
            /\ UsedSpace(uiHead, enq[i].at) \in Nat /\ UsedSpace(uiHead, enq[j].at) \in Nat
            /\ NodeSize(Len(enq[i].msg)) \in Nat
        BY <1>6
      <3> HIDE DEF n
      <3> QED BY <1>1, <3>1, <3>2
    <2> QED BY <1>7, <2>1, <2>2, <2>3 DEF RingInv
  <1>9. PendingIntact'
    BY <1>5 DEF PendingIntact
  <1>10. FifoDelivery'
    <2>1. \A k \in DOMAIN out' : out'[k] = Outcome(enq'[k].msg)
      <3> SUFFICES ASSUME NEW k \in 1..o + 1 PROVE out'[k] = Outcome(enq[k].msg)
        BY <1>4
      <3>1. CASE k = o + 1
        BY <1>4, <3>1
      <3>2. CASE k # o + 1
        <4>1. k \in 1..o
          BY <3>2
        <4> QED BY <1>4, <4>1 DEF FifoDelivery
      <3> QED BY <3>1, <3>2
    <2>2. Len(out') <= Len(enq')
      BY <1>0, <1>4
    <2> QED BY <2>1, <2>2 DEF FifoDelivery
  <1> QED BY <1>0, <1>2, <1>3, <1>4, <1>8, <1>9, <1>10

\* Both consumers of the ring, by OutQueue and by MsgPeek, are alone.
LEMMA OneReader ==
    ASSUME ProcInv, NEW c \in Consumers, NEW d \in Consumers,
           pc[c] \in {"outCheck", "outCopy", "outSkip", "peek"},
           pc[d] \in {"outCheck", "outCopy", "outSkip", "peek"}
    PROVE  c = d
  BY PeekAssumption DEF ProcInv

\* What leaves by OutQueue is the oldest packet.
LEMMA OutGives ==
    ASSUME IInv, NEW c \in Consumers, OutAddHead(c)
    PROVE  /\ pc[c] \in {"outCopy", "outSkip"} /\ Len(out) < Len(enq)
           /\ cLen[c] = Len(enq[Len(out) + 1].msg)
           /\ out' = Append(out, Outcome(enq[Len(out) + 1].msg))
  <1> DEFINE m == enq[Len(out) + 1].msg
  <1>0. TypeOK /\ ProcInv /\ RingInv /\ PendingIntact /\ CopyInv /\ ReadInv /\ FifoDelivery
    BY DEF IInv
  <1>1. /\ pc[c] \in {"outCopy", "outSkip"} /\ Len(out) < Len(enq)
        /\ cLen[c] = Len(m) /\ Peekers = {}
    BY <1>0, PeekAssumption DEF OutAddHead, ProcInv, ReadInv
  <1>2. m \in Seq(Byte) /\ Len(m) \in Nat
    BY <1>0, <1>1, FirstNode, PendingNode
  <1>3. CASE pc[c] = "outCopy"
    <2>1. /\ cGot[c] \in Seq(Byte) /\ Len(cGot[c]) = Len(m) /\ ~(Len(m) > BufLen)
          /\ \A j \in 1..Len(cGot[c]) : cGot[c][j] = m[j]
          /\ out' = Append(out, [ok |-> TRUE, data |-> cGot[c]])
      BY <1>0, <1>1, <1>2, <1>3, QueueAssumption DEF TypeOK, ReadInv, OutAddHead
    <2>2. cGot[c] = m
      BY <1>2, <2>1, SeqEqual
    <2> QED BY <1>1, <2>1, <2>2 DEF Outcome
  <1>4. CASE pc[c] = "outSkip"
    BY <1>0, <1>1, <1>4 DEF ReadInv, OutAddHead, Outcome
  <1> QED BY <1>1, <1>3, <1>4

\* And so is what leaves by ReleaseMsg: the packet that was peeked at.
LEMMA PeekGives ==
    ASSUME IInv, NEW c \in Consumers, ReleaseMsg(c)
    PROVE  /\ pc[c] = "peek" /\ c \in Peekers /\ Len(out) < Len(enq)
           /\ uiHead' = AddOffset(uiHead, NodeSize(Len(enq[Len(out) + 1].msg)))
           /\ out' = Append(out, Outcome(enq[Len(out) + 1].msg))
           /\ UNCHANGED <<uiTail, mem, enq>>
  <1> DEFINE m == enq[Len(out) + 1].msg
  <1>0. TypeOK /\ ProcInv /\ RingInv /\ PendingIntact /\ CopyInv /\ ReadInv /\ FifoDelivery
    BY DEF IInv
  <1>1. /\ pc[c] = "peek" /\ Len(out) < Len(enq) /\ Len(cGot[c]) = Len(m)
        /\ \A j \in 1..Len(cGot[c]) : cGot[c][j] = m[j]
        /\ c \in Peekers /\ cGot[c] \in Seq(Byte)
    BY <1>0 DEF ReleaseMsg, ProcInv, ReadInv, TypeOK
  <1>2. /\ m \in Seq(Byte) /\ Len(m) \in Nat /\ DataLen(uiHead) = Len(m)
        /\ ~(UsedSpace(uiHead, uiTail) < 4)
    <2>1. /\ Len(out) + 1 \in Pending /\ DataLen(uiHead) = Len(m)
      BY <1>0, <1>1, FirstNode
    <2>2. /\ m \in Seq(Byte) /\ Len(m) \in Nat
          /\ UsedSpace(uiHead, enq[Len(out) + 1].at) \in 0..Size - 1
          /\ UsedSpace(uiHead, uiTail) \in 0..Size - 1
          /\ UsedSpace(uiHead, enq[Len(out) + 1].at) + NodeSize(Len(m))
                 <= UsedSpace(uiHead, uiTail)
      BY <1>0, <2>1, PendingNode
    <2> QED BY <2>1, <2>2, QueueAssumption DEF NodeSize
  <1>3. cGot[c] = m
    BY <1>1, <1>2, SeqEqual
  <1> QED BY <1>1, <1>2, <1>3 DEF ReleaseMsg, Outcome

\* OutQueue moving uiHead preserves the invariant.
LEMMA OutAddHeadStep ==
    ASSUME IInv, NEW c \in Consumers, OutAddHead(c)
    PROVE  IInv'
  <1> USE ProcAssumption DEF Procs, Goto
  <1> DEFINE m == enq[Len(out) + 1].msg
  <1>0. TypeOK /\ ProcInv /\ RingInv /\ PendingIntact /\ CopyInv /\ ReadInv /\ FifoDelivery
    BY DEF IInv
  <1>1. /\ pc[c] \in {"outCopy", "outSkip"} /\ Len(out) < Len(enq)
        /\ cLen[c] = Len(m)
    BY OutGives
  <1>3. out' = Append(out, Outcome(m))
    BY OutGives
  <1>4. /\ uiHead' = AddOffset(uiHead, NodeSize(Len(m)))
        /\ pc' = [pc EXCEPT ![c] = "outUnlock"]
        /\ UNCHANGED <<uiTail, mem, semIn, semOut, pMsg, pIdx, cLen, cGot, crashes, enq>>
    BY <1>1 DEF OutAddHead, locks
  <1>5. /\ uiHead' \in 0..Size - 1
        /\ out' \in Seq([ok : BOOLEAN, data : Seq(Byte)])
        /\ RingInv' /\ PendingIntact' /\ FifoDelivery'
        /\ FreeSpace(uiHead, uiTail) <= FreeSpace(uiHead', uiTail)
    BY <1>0, <1>1, <1>3, <1>4, AdvanceHead
  <1>6. TypeOK'
    BY <1>0, <1>4, <1>5 DEF TypeOK
  <1>7. ProcInv'
    BY <1>0, <1>1, <1>4 DEF TypeOK, ProcInv
  <1>8. CopyInv'
    <2> SUFFICES ASSUME NEW p \in Producers, pc[p] = "inCopy"
                 PROVE  NodeSize(Len(pMsg[p])) <= FreeSpace(uiHead', uiTail)
      BY <1>0, <1>4 DEF TypeOK, CopyInv
    <2>1. NodeSize(Len(pMsg[p])) <= FreeSpace(uiHead, uiTail) /\ pMsg[p] \in Msgs
      BY <1>0 DEF CopyInv
    <2>2. /\ FreeSpace(uiHead, uiTail) \in Int /\ FreeSpace(uiHead', uiTail) \in Int
          /\ NodeSize(Len(pMsg[p])) \in Int
      <3>1. /\ UsedSpace(uiHead, uiTail) \in 0..Size - 1
            /\ UsedSpace(uiHead', uiTail) \in 0..Size - 1
            /\ FreeSpace(uiHead, uiTail) = Size - 1 - UsedSpace(uiHead, uiTail)
            /\ FreeSpace(uiHead', uiTail) = Size - 1 - UsedSpace(uiHead', uiTail)
        BY <1>0, <1>5, SpaceSplits DEF TypeOK
      <3>2. NodeSize(Len(pMsg[p])) \in Int
        BY <2>1, QueueAssumption DEF NodeSize
      <3> QED BY <3>1, <3>2, QueueAssumption
    <2> QED BY <1>5, <2>1, <2>2
  <1>9. ReadInv'
    <2>1. \A d \in Consumers : d # c => pc'[d] = pc[d] /\ pc[d] \in {"idle", "outUnlock"}
      BY <1>0, <1>1, <1>4, OneReader DEF TypeOK, ProcInv
    <2>2. pc'[c] = "outUnlock"
      BY <1>0, <1>4 DEF TypeOK
    <2> QED BY <1>0, <1>4, <2>1, <2>2 DEF ReadInv
  <1> QED BY <1>5, <1>6, <1>7, <1>8, <1>9 DEF IInv

\* ReleaseMsg moving uiHead preserves the invariant.
LEMMA ReleaseMsgStep ==
    ASSUME IInv, NEW c \in Consumers, ReleaseMsg(c)
    PROVE  IInv'
  <1> USE ProcAssumption DEF Procs, Goto
  <1> DEFINE m == enq[Len(out) + 1].msg
  <1>0. TypeOK /\ ProcInv /\ RingInv /\ PendingIntact /\ CopyInv /\ ReadInv /\ FifoDelivery
    BY DEF IInv
  <1>1. pc[c] = "peek" /\ c \in Peekers /\ Len(out) < Len(enq)
    BY PeekGives
  <1>3. out' = Append(out, Outcome(m))
    BY PeekGives
  <1>4. /\ uiHead' = AddOffset(uiHead, NodeSize(Len(m)))
        /\ pc' = [pc EXCEPT ![c] = "idle"]
        /\ cLen' = [cLen EXCEPT ![c] = 0]
        /\ cGot' = [cGot EXCEPT ![c] = <<>>]
        /\ UNCHANGED <<uiTail, mem, semIn, semOut, pMsg, pIdx, crashes, enq>>
    BY PeekGives DEF ReleaseMsg, locks
  <1>5. /\ uiHead' \in 0..Size - 1
        /\ out' \in Seq([ok : BOOLEAN, data : Seq(Byte)])
        /\ RingInv' /\ PendingIntact' /\ FifoDelivery'
        /\ FreeSpace(uiHead, uiTail) <= FreeSpace(uiHead', uiTail)
    BY <1>0, <1>1, <1>3, <1>4, AdvanceHead
  <1>6. TypeOK'
    BY <1>0, <1>4, <1>5, EmptySeq DEF TypeOK
  <1>7. ProcInv'
    BY <1>0, <1>1, <1>4 DEF TypeOK, ProcInv
  <1>8. CopyInv'
    <2> SUFFICES ASSUME NEW p \in Producers, pc[p] = "inCopy"
                 PROVE  NodeSize(Len(pMsg[p])) <= FreeSpace(uiHead', uiTail)
      BY <1>0, <1>4 DEF TypeOK, CopyInv
    <2>1. NodeSize(Len(pMsg[p])) <= FreeSpace(uiHead, uiTail) /\ pMsg[p] \in Msgs
      BY <1>0 DEF CopyInv
    <2>2. /\ FreeSpace(uiHead, uiTail) \in Int /\ FreeSpace(uiHead', uiTail) \in Int
          /\ NodeSize(Len(pMsg[p])) \in Int
      <3>1. /\ UsedSpace(uiHead, uiTail) \in 0..Size - 1
            /\ UsedSpace(uiHead', uiTail) \in 0..Size - 1
            /\ FreeSpace(uiHead, uiTail) = Size - 1 - UsedSpace(uiHead, uiTail)
            /\ FreeSpace(uiHead', uiTail) = Size - 1 - UsedSpace(uiHead', uiTail)
        BY <1>0, <1>5, SpaceSplits DEF TypeOK
      <3>2. NodeSize(Len(pMsg[p])) \in Int
        BY <2>1, QueueAssumption DEF NodeSize
      <3> QED BY <3>1, <3>2, QueueAssumption
    <2> QED BY <1>5, <2>1, <2>2
  <1>9. ReadInv'
    <2>1. \A d \in Consumers : d = c
      BY <1>1, PeekAssumption
    <2>2. pc'[c] = "idle" /\ cGot'[c] = <<>>
      BY <1>0, <1>4 DEF TypeOK
    <2> QED BY <2>1, <2>2 DEF ReadInv
  <1> QED BY <1>5, <1>6, <1>7, <1>8, <1>9 DEF IInv

-----------------------------------------------------------------------------
(* The inspector and the deaths. *)

\* GetAllQueueData preserves the invariant.
LEMMA InspectStep ==
    ASSUME IInv, NEW i \in Inspectors, AllLockIn(i) \/ AllLockErr(i) \/ AllLockOut(i) \/ AllUnlock(i)
    PROVE  IInv'
  <1> USE ProcAssumption DEF Procs, Goto
  <1>1. TypeOK'
    BY DEF IInv, TypeOK, AllLockIn, AllLockErr, AllLockOut, AllUnlock, ring, hist
  <1>2. ProcInv'
    <2>1. CASE AllLockIn(i)
      BY <2>1 DEF IInv, TypeOK, ProcInv, AllLockIn
    <2>2. CASE AllLockOut(i)
      BY <2>2 DEF IInv, TypeOK, ProcInv, AllLockOut
    <2>3. CASE AllUnlock(i)
      BY <2>3 DEF IInv, TypeOK, ProcInv, AllUnlock
    <2>4. CASE AllLockErr(i)
      BY <2>4 DEF IInv, TypeOK, ProcInv, AllLockErr
    <2> QED BY <2>1, <2>2, <2>3, <2>4
  <1>3. RingInv' /\ PendingIntact' /\ FifoDelivery'
    BY RingSame DEF IInv, AllLockIn, AllLockErr, AllLockOut, AllUnlock
  <1>4. CopyInv'
    BY CopySame DEF IInv, TypeOK, AllLockIn, AllLockErr, AllLockOut, AllUnlock
  <1>5. ReadInv'
    BY ReadSame DEF IInv, TypeOK, AllLockIn, AllLockErr, AllLockOut, AllUnlock
  <1> QED BY <1>1, <1>2, <1>3, <1>4, <1>5 DEF IInv

\* A death anywhere, with SEM_UNDO, preserves the invariant.
LEMMA CrashStep ==
    ASSUME IInv, NEW p \in Procs, Crash(p)
    PROVE  IInv'
  <1> USE ProcAssumption DEF Goto
  <1>1. TypeOK'
    BY EmptySeq DEF IInv, TypeOK, Crash, ring, hist
  <1>2. ProcInv'
    BY DEF IInv, TypeOK, ProcInv, Crash, Procs
  <1>3. RingInv' /\ PendingIntact' /\ FifoDelivery'
    BY RingSame DEF IInv, Crash
  <1>4. CopyInv'
    BY DEF IInv, TypeOK, CopyInv, Crash, ring, Procs
  <1>5. ReadInv'
    BY DEF IInv, TypeOK, ReadInv, Crash, hist, Procs
  <1> QED BY <1>1, <1>2, <1>3, <1>4, <1>5 DEF IInv

-----------------------------------------------------------------------------
\* A new ring satisfies the invariant.
LEMMA InitIInv == Init => IInv
  <1> SUFFICES ASSUME Init PROVE IInv
    OBVIOUS
  <1> USE ProcAssumption, QueueAssumption DEF Init
  <1>1. TypeOK
    <2>1. mem \in [0..Size - 1 -> Byte] /\ 0 \in 0..Size - 1
      BY DEF Byte
    <2> QED BY <2>1, EmptySeq DEF TypeOK, Procs
  <1>2. ProcInv
    BY DEF ProcInv, Procs
  <1>3. Pending = {}
    BY DEF Pending
  <1>4. RingInv
    BY <1>3 DEF RingInv, NodesContiguous, NodeAt
  <1>5. PendingIntact
    BY <1>3 DEF PendingIntact
  <1>6. CopyInv
    BY DEF CopyInv, Procs
  <1>7. ReadInv
    BY DEF ReadInv, Procs
  <1>8. FifoDelivery
    BY DEF FifoDelivery
  <1> QED BY <1>1, <1>2, <1>4, <1>5, <1>6, <1>7, <1>8 DEF IInv

\* Every step preserves the invariant.
LEMMA NextIInv == IInv /\ [Next]_vars => IInv'
  <1> SUFFICES ASSUME IInv, [Next]_vars PROVE IInv'
    OBVIOUS
  <1>1. ASSUME NEW p \in Producers, InQueue(p) \/ InLockErr(p) \/ InStep(p) PROVE IInv'
    BY <1>1, InQueueStep, InLockErrStep, InLockStep, InDecideStep, InCopyStep, InAddTailStep,
       InUnlockStep DEF InStep
  <1>2. ASSUME NEW c \in Consumers, OutLock(c) \/ OutStep(c) \/ PeekStep(c) PROVE IInv'
    BY <1>2, OutLockStep, OutEmptyStep, LenStep, ReadStep, OutAddHeadStep,
       OutUnlockStep, ReleaseMsgStep DEF OutStep, PeekStep
  <1>3. ASSUME NEW i \in Inspectors, AllLockIn(i) \/ AllLockErr(i) \/ AllStep(i) PROVE IInv'
    BY <1>3, InspectStep DEF AllStep
  <1>4. ASSUME NEW p \in Procs, Crash(p) PROVE IInv'
    BY <1>4, CrashStep
  <1>5. CASE UNCHANGED vars
    <2>1. UNCHANGED <<uiHead, uiTail, mem, semIn, semOut, pc, pMsg, pIdx, cLen,
                      cGot, crashes, enq, out>>
      BY <1>5 DEF vars, ring, locks, hist
    <2>2. TypeOK' /\ ProcInv'
      BY <2>1 DEF IInv, TypeOK, ProcInv
    <2>3. RingInv' /\ PendingIntact' /\ FifoDelivery'
      BY <2>1, RingSame DEF IInv, ring, hist
    <2>4. CopyInv' /\ ReadInv'
      BY <2>1, CopySame, ReadSame DEF IInv, ring, hist
    <2> QED BY <2>2, <2>3, <2>4 DEF IInv
  <1> QED BY <1>1, <1>2, <1>3, <1>4, <1>5 DEF Next

\* The strengthened invariant holds in every reachable state of the ring.
THEOREM Inductive == Spec => []IInv
  BY InitIInv, NextIInv, PTL DEF Spec

\* The offsets, bytes, locks and locals of the ring always have their types.
THEOREM RingTypes == Spec => []TypeOK
  <1>1. IInv => TypeOK
    BY DEF IInv
  <1> QED BY <1>1, Inductive, PTL

\* For every ring size, every set of packets and any number of processes,
\* OutQueue (or MsgPeek) gives out the packets InQueue accepted, in order and
\* unchanged, across all interleavings of the two copies and all deaths.
THEOREM FifoAlways == Spec => []FifoDelivery
  <1>1. IInv => FifoDelivery
    BY DEF IInv
  <1> QED BY <1>1, Inductive, PTL

\* No copy, finished or cut short by a death, overwrites a byte of a packet
\* that was accepted and not yet taken.
THEOREM PendingAlwaysIntact == Spec => []PendingIntact
  <1>1. IInv => PendingIntact
    BY DEF IInv
  <1> QED BY <1>1, Inductive, PTL

\* uiHead and uiTail always delimit exactly the pending nodes, and the ring is
\* never full to the last byte.
THEOREM ContiguousAlways == Spec => []NodesContiguous
  <1>1. IInv => NodesContiguous
    BY DEF IInv, RingInv
  <1> QED BY <1>1, Inductive, PTL

-----------------------------------------------------------------------------
(* GetAllQueueData. *)

\* The walk goes on at a pending node, and ends at uiTail.
LEMMA WalkGoesOn ==
    ASSUME TypeOK, RingInv, NEW k \in Pending
    PROVE  ~(UsedSpace(enq[k].at, uiTail) < 4)
  <1>1. /\ enq[k].at \in 0..Size - 1 /\ Len(enq[k].msg) \in Nat
        /\ UsedSpace(uiHead, enq[k].at) \in 0..Size - 1
        /\ UsedSpace(uiHead, enq[k].at) + NodeSize(Len(enq[k].msg))
                 <= UsedSpace(uiHead, uiTail)
        /\ UsedSpace(uiHead, uiTail) \in 0..Size - 1
    BY PendingNode
  <1>2. uiHead \in 0..Size - 1 /\ uiTail \in 0..Size - 1 /\ Size \in Nat
    BY QueueAssumption DEF TypeOK
  <1>3. UsedSpace(enq[k].at, uiTail) = UsedSpace(uiHead, uiTail) - UsedSpace(uiHead, enq[k].at)
    <2>1. UsedSpace(uiHead, enq[k].at) <= UsedSpace(uiHead, uiTail)
      BY <1>1, <1>2 DEF NodeSize
    <2> QED BY <1>1, <1>2, <2>1, UsedBetween
  <1> QED BY <1>1, <1>2, <1>3 DEF NodeSize

\* There are no more pending packets than bytes.
LEMMA FewPending ==
    ASSUME TypeOK, RingInv
    PROVE  Len(enq) - Len(out) \in 0..Size
  <1>0. Len(enq) \in Nat /\ Len(out) \in Nat /\ Len(out) <= Len(enq) /\ Size \in Nat \ {0}
    BY QueueAssumption DEF TypeOK, RingInv
  <1>1. PICK N \in Nat, o \in Nat : o = Len(out) /\ N = Len(enq) - o /\ Size \in Nat \ {0}
    BY <1>0
  <1>2. CASE N = 0
    BY <1>1, <1>2
  <1>3. CASE N > 0
    <2>0. N - 1 \in Nat
      BY <1>3
    <2>1. PICK n \in Nat : n = N - 1
      BY <2>0
    <2>2. PICK T : T = {j \in 0..n : UsedSpace(uiHead, enq[o + 1 + j].at) >= j}
      OBVIOUS
    <2>3. \A j \in 0..n : o + 1 + j \in Pending
      BY <1>0, <1>1, <2>1 DEF Pending, TypeOK
    <2>4. \A j \in 0..n : UsedSpace(uiHead, enq[o + 1 + j].at) \in 0..Size - 1
      BY <2>3, PendingNode
    <2>5. 0 \in T
      BY <2>2, <2>4
    <2>6. ASSUME NEW j \in 1..n, j - 1 \in T PROVE j \in T
      <3>1. PICK a \in Nat, b \in Nat : a = o + 1 + (j - 1) /\ b = o + 1 + j
        BY <1>1, SMTT(30)
      <3>2. j - 1 \in 0..n /\ j \in 0..n /\ a < b
        BY <3>1, <1>1
      <3>3. a \in Pending /\ b \in Pending
        BY <2>3, <3>1, <3>2
      <3>4. /\ UsedSpace(uiHead, enq[a].at) \in 0..Size - 1
            /\ UsedSpace(uiHead, enq[b].at) \in 0..Size - 1
            /\ Len(enq[a].msg) \in Nat
        BY <3>3, PendingNode
      <3>5. UsedSpace(uiHead, enq[a].at) + NodeSize(Len(enq[a].msg))
              <= UsedSpace(uiHead, enq[b].at)
        BY <3>2, <3>3 DEF RingInv
      <3>6. UsedSpace(uiHead, enq[a].at) >= j - 1
        BY <2>2, <2>6, <3>1
      <3>7. UsedSpace(uiHead, enq[b].at) >= j
        BY <3>4, <3>5, <3>6, <1>1 DEF NodeSize
      <3> QED BY <2>2, <3>1, <3>2, <3>7
    <2>7. n \in T
      <3>1. n \in 0..n
        BY <2>1
      <3> QED BY <2>1, <2>5, <2>6, <3>1, UpTo
    <2>8. n \in 0..n
      BY <2>1
    <2>9. PICK u \in 0..Size - 1 : u >= n
      BY <2>2, <2>4, <2>7, <2>8
    <2>10. N = n + 1 /\ N <= Size
      BY <1>1, <2>1, <2>9
    <2> QED BY <1>1, <2>10
  <1> QED BY <1>1, <1>2, <1>3

\* The walk of GetAllQueueData, one turn at a time, collects the pending packets.
LEMMA SnapshotIs ==
    ASSUME IInv
    PROVE  AllQueueData = PendingMsgs
  <1> DEFINE N == Len(enq) - Len(out)
             M(n) == IF n < N THEN n ELSE N
             Turn(w) == IF UsedSpace(w.at, uiTail) < 4 THEN w
                        ELSE [at   |-> AddOffset(w.at, NodeSize(DataLen(w.at))),
                              data |-> Append(w.data,
                                  [i \in 1..DataLen(w.at) |->
                                      mem[AllAddr(w.at, DataLen(w.at), i - 1)]])]
             Walk(f) == [n \in 0..Size |->
                           IF n = 0 THEN [at |-> uiHead, data |-> <<>>] ELSE Turn(f[n - 1])]
             First(m) == [at   |-> NodeAt(Len(out) + 1 + m),
                          data |-> [k \in 1..m |-> enq[Len(out) + k].msg]]
             g == [n \in 0..Size |-> First(M(n))]
  <1>0. /\ TypeOK /\ RingInv /\ PendingIntact
        /\ Len(enq) \in Nat /\ Len(out) \in Nat /\ Size \in Nat \ {0}
        /\ N \in Nat /\ N <= Size
    BY FewPending, QueueAssumption DEF IInv, TypeOK
  <1>1. First(0) = [at |-> uiHead, data |-> <<>>]
    <2>1. NodeAt(Len(out) + 1 + 0) = uiHead
      BY <1>0 DEF RingInv, NodesContiguous
    <2>2. [k \in 1..0 |-> enq[Len(out) + k].msg] = <<>>
      OBVIOUS
    <2> QED BY <2>1, <2>2
  <1>2. ASSUME NEW m \in 0..N - 1
        PROVE  Turn(First(m)) = First(m + 1)
    <2>1. PICK k \in Nat : k = Len(out) + 1 + m
      BY <1>0
    <2>2. k \in Pending /\ k \in DOMAIN enq /\ k + 1 = Len(out) + 1 + (m + 1)
      BY <1>0, <2>1 DEF Pending, TypeOK
    <2>3. /\ enq[k].at \in 0..Size - 1 /\ NodeAt(k) = enq[k].at
          /\ Len(enq[k].msg) \in Nat /\ NodeSize(Len(enq[k].msg)) < Size
          /\ enq[k].msg \in Seq(Byte)
      BY <1>0, <2>2, PendingNode
    <2>4. ~(UsedSpace(enq[k].at, uiTail) < 4)
      BY <1>0, <2>2, WalkGoesOn
    <2>5. DataLen(enq[k].at) = Len(enq[k].msg)
      BY <1>0, <2>2, NodeReads
    <2>6. [i \in 1..Len(enq[k].msg) |-> mem[AllAddr(enq[k].at, Len(enq[k].msg), i - 1)]]
             = enq[k].msg
      <3>1. ASSUME NEW i \in 1..Len(enq[k].msg)
            PROVE  mem[AllAddr(enq[k].at, Len(enq[k].msg), i - 1)] = enq[k].msg[i]
        <4>1. PICK d \in 0..Len(enq[k].msg) - 1 : d = i - 1 /\ d + 1 = i
          BY <2>3
        <4>2. AllAddr(enq[k].at, Len(enq[k].msg), d) = AddOffset(enq[k].at, d + 4)
          BY <2>3, AllAddress
        <4>3. mem[AddOffset(enq[k].at, d + 4)] = enq[k].msg[d + 1]
          BY <1>0, <2>2, NodeReads
        <4> QED BY <4>1, <4>2, <4>3
      <3>2. PICK s \in Seq(Byte) : s = enq[k].msg
        BY <2>3
      <3>3. s = [i \in 1..Len(s) |-> s[i]]
        BY LenProperties
      <3> QED BY <3>1, <3>2, <3>3
    <2>7. NodeAt(k + 1) = AddOffset(NodeAt(k), NodeSize(Len(enq[k].msg)))
      BY <1>0, <2>2 DEF RingInv, NodesContiguous
    <2>8. Append([j \in 1..m |-> enq[Len(out) + j].msg], enq[k].msg)
            = [j \in 1..m + 1 |-> enq[Len(out) + j].msg]
      <3>1. PICK s : s = [j \in 1..m |-> enq[Len(out) + j].msg]
        OBVIOUS
      <3>2. s \in Seq(Seq(Byte)) /\ Len(s) = m
        <4>1. \A j \in 1..m : enq[Len(out) + j].msg \in Seq(Byte)
          <5>1. \A j \in 1..m : Len(out) + j \in Pending
            BY <1>0 DEF Pending, TypeOK
          <5> QED BY <5>1, <1>0, PendingNode
        <4> QED BY <3>1, <4>1, <1>0
      <3>3. k = Len(out) + (m + 1)
        BY <1>0, <2>1
      <3>4. \A j \in 1..m : s[j] = enq[Len(out) + j].msg
        BY <3>1
      <3> HIDE DEF N
      <3>5. Append(s, enq[k].msg) = [j \in 1..m + 1 |-> enq[Len(out) + j].msg]
        <4>1. \A j \in 1..m + 1 : j \in 1..m \/ j = m + 1
          BY <1>0
        <4>2. m \in Nat
          BY <1>0
        <4>3. Append(s, enq[k].msg) = [j \in 1..m + 1 |-> IF j = m + 1 THEN enq[k].msg ELSE s[j]]
          BY <3>2, <4>2
        <4> QED BY <3>3, <3>4, <4>1, <4>3
      <3> QED BY <3>1, <3>5
    <2> DEFINE w == First(m)
    <2>9. w.at = enq[k].at /\ w.data = [j \in 1..m |-> enq[Len(out) + j].msg]
      BY <2>1, <2>3
    <2>10. Turn(w) = [at |-> AddOffset(enq[k].at, NodeSize(Len(enq[k].msg))),
                      data |-> Append([j \in 1..m |-> enq[Len(out) + j].msg], enq[k].msg)]
      <3> HIDE DEF w, First
      <3> QED BY <2>4, <2>5, <2>6, <2>9
    <2>11. AddOffset(enq[k].at, NodeSize(Len(enq[k].msg))) = NodeAt(Len(out) + 1 + (m + 1))
      BY <2>2, <2>3, <2>7
    <2> QED BY <2>8, <2>10, <2>11
  <1>3. Turn(First(N)) = First(N)
    <2>1. PICK k \in Nat : k = Len(out) + 1 + N
      BY <1>0
    <2>2. k \notin DOMAIN enq
      BY <1>0, <2>1 DEF TypeOK
    <2>3. First(N).at = uiTail
      BY <2>1, <2>2 DEF NodeAt
    <2>4. UsedSpace(uiTail, uiTail) = 0
      BY <1>0, UsedZero DEF TypeOK
    <2> HIDE DEF First, N
    <2> QED BY <2>3, <2>4
  <1>4. First(N).data = PendingMsgs
    BY DEF PendingMsgs
  <1> HIDE DEF First, Turn
  <1>5. g[0] = [at |-> uiHead, data |-> <<>>]
    <2>1. M(0) = 0 /\ 0 \in 0..Size
      BY <1>0
    <2> QED BY <2>1, <1>1
  <1>6. ASSUME NEW n \in 1..Size PROVE g[n] = Turn(g[n - 1])
    <2>1. PICK m \in Nat : m = n - 1 /\ m + 1 = n /\ m \in 0..Size
      BY <1>0
    <2>2. n \in 0..Size
      BY <1>0
    <2>3. CASE m < N
      <3>1. m \in 0..N - 1 /\ M(m) = m /\ M(n) = m + 1
        BY <1>0, <2>1, <2>3
      <3> QED BY <3>1, <1>2, <2>1, <2>2
    <2>4. CASE ~(m < N)
      <3>1. M(m) = N /\ M(n) = N
        BY <1>0, <2>1, <2>4
      <3> QED BY <3>1, <1>3, <2>1, <2>2
    <2> QED BY <2>3, <2>4
  <1>7. g[Size] = First(N) /\ Size \in 0..Size /\ 0 \in 0..Size
    BY <1>0
  <1>8. \A n \in 0..Size : n = 0 \/ n \in 1..Size
    BY <1>0
  <1>g. g = [n \in 0..Size |-> g[n]]
    OBVIOUS
  <1> HIDE DEF g, M, N
  <1>9. g = Walk(g)
    <2>1. \A n \in 0..Size : g[n] = Walk(g)[n]
      BY <1>5, <1>6, <1>8
    <2> QED BY <2>1, <1>g
  <1>10. ASSUME NEW f, f = Walk(f) PROVE f = g
    <2>1. f[0] = [at |-> uiHead, data |-> <<>>] /\ \A n \in 1..Size : f[n] = Turn(f[n - 1])
      BY <1>10, <1>0
    <2>2. PICK T : T = {j \in 0..Size : f[j] = g[j]}
      OBVIOUS
    <2>3. \A j \in 1..Size : j - 1 \in T => j \in T
      BY <2>1, <2>2, <1>6, <1>0
    <2>4. 0 \in T
      BY <2>1, <2>2, <1>5, <1>7
    <2>5. \A j \in 0..Size : f[j] = g[j]
      BY <2>2, <2>3, <2>4, <1>0, UpTo
    <2> QED BY <2>5, <1>10, <1>g
  <1> DEFINE R == CHOOSE f : f = Walk(f)
  <1>11. AllQueueData = R[Size].data
    BY DEF AllQueueData, Turn
  <1>12. R = Walk(R)
    BY <1>9
  <1> HIDE DEF R
  <1>13. R = g
    BY <1>10, <1>12
  <1> QED BY <1>4, <1>7, <1>11, <1>13

\* GetAllQueueData, which runs beside other processes' calls and after deaths in
\* the middle of them, returns exactly the packets accepted and not yet taken.
THEOREM SnapshotAlwaysExact == Spec => []SnapshotExact
  <1>1. IInv => SnapshotExact
    BY SnapshotIs DEF SnapshotExact
  <1> QED BY <1>1, Inductive, PTL
-----------------------------------------------------------------------------
(* The byte ring implements the atomic packet queue. *)

\* The pending packets, as a sequence.
LEMMA SuffixSeq ==
    ASSUME NEW e \in Seq([msg : Msgs, at : 0..Size - 1]),
           NEW n \in Nat, n <= Len(e),
           NEW s, s = [k \in 1..Len(e) - n |-> e[n + k].msg]
    PROVE  /\ s \in Seq(Seq(Byte))
           /\ Len(s) = Len(e) - n
           /\ \A k \in 1..Len(e) - n : s[k] = e[n + k].msg
  <1>1. Len(e) \in Nat /\ Len(e) - n \in Nat
    OBVIOUS
  <1>2. ASSUME NEW k \in 1..Len(e) - n
        PROVE  e[n + k].msg \in Seq(Byte)
    <2>1. n + k \in 1..Len(e)
      BY <1>1
    <2>2. e[n + k] \in [msg : Msgs, at : 0..Size - 1]
      BY <2>1, ElementOfSeq
    <2> QED BY <2>2, QueueAssumption
  <1> QED BY <1>1, <1>2

\* InAddTail is a Put of the abstract queue.
LEMMA RefinePut ==
    ASSUME IInv, IInv', NEW p \in Producers, InAddTail(p)
    PROVE  \E m \in Msgs : Abstract!Put(m)
  <1> DEFINE m == pMsg[p]
             T == Seq(Byte)
  <1>0. PICK L \in Nat, o \in Nat : L = Len(enq) /\ o = Len(out)
    BY DEF IInv, TypeOK
  <1>1. /\ m \in Msgs /\ m \in T /\ Len(m) \in Nat /\ Len(m) > 0
        /\ NodeSize(Len(m)) <= FreeSpace(uiHead, uiTail)
        /\ uiHead \in 0..Size - 1 /\ uiTail \in 0..Size - 1
        /\ enq \in Seq([msg : Msgs, at : 0..Size - 1])
    BY QueueAssumption DEF IInv, CopyInv, TypeOK, InAddTail
  <1>2. /\ uiTail' = AddOffset(uiTail, NodeSize(Len(m)))
        /\ enq' = Append(enq, [msg |-> m, at |-> uiTail])
        /\ UNCHANGED <<uiHead, out>>
    BY DEF InAddTail
  <1>3. /\ UsedSpace(uiHead, uiTail) \in 0..Size - 1 /\ NodeSize(Len(m)) \in Nat
        /\ UsedSpace(uiHead, uiTail) + NodeSize(Len(m)) <= Size - 1
    <2>1. /\ UsedSpace(uiHead, uiTail) \in 0..Size - 1
          /\ FreeSpace(uiHead, uiTail) = Size - 1 - UsedSpace(uiHead, uiTail)
      BY <1>1, SpaceSplits
    <2>2. NodeSize(Len(m)) \in Nat
      BY <1>1 DEF NodeSize
    <2> QED BY <1>1, <2>1, <2>2, QueueAssumption
  <1>4. UsedSpace(uiHead', uiTail') = UsedSpace(uiHead, uiTail) + NodeSize(Len(m))
    <2>1. UsedSpace(uiHead, uiTail) + NodeSize(Len(m)) < Size
      BY <1>3, QueueAssumption
    <2> QED BY <1>1, <1>2, <1>3, <2>1, UsedAdd
  <1>5. PendingMsgs' = Append(PendingMsgs, m)
    <2>1. /\ PendingMsgs \in Seq(T) /\ Len(PendingMsgs) = L - o
          /\ \A k \in 1..L - o : PendingMsgs[k] = enq[o + k].msg
      BY <1>0, SuffixSeq DEF IInv, TypeOK, RingInv, PendingMsgs
    <2>2. /\ Len(enq') = L + 1 /\ Len(out') = o
          /\ \A k \in 1..L : enq'[k] = enq[k]
          /\ enq'[L + 1].msg = m
      BY <1>0, <1>1, <1>2
    <2>3. /\ PendingMsgs' \in Seq(T) /\ Len(PendingMsgs') = (L + 1) - o
          /\ \A k \in 1..(L + 1) - o : PendingMsgs'[k] = enq'[o + k].msg
      <3>1. /\ PendingMsgs' \in Seq(T) /\ Len(PendingMsgs') = Len(enq') - Len(out')
            /\ \A k \in 1..Len(enq') - Len(out') : PendingMsgs'[k] = enq'[Len(out') + k].msg
        <4>1. enq' \in Seq([msg : Msgs, at : 0..Size - 1]) /\ Len(out') \in Nat /\ Len(out') <= Len(enq')
          BY DEF IInv, TypeOK, RingInv
        <4>2. PendingMsgs' = [k \in 1..Len(enq') - Len(out') |-> enq'[Len(out') + k].msg]
          BY DEF PendingMsgs
        <4> QED BY <4>1, <4>2, SuffixSeq
      <3> QED BY <2>2, <3>1
    <2>4. o <= L
      BY <1>0 DEF IInv, RingInv
    <2>5. /\ Append(PendingMsgs, m) \in Seq(T) /\ Len(Append(PendingMsgs, m)) = (L + 1) - o
          /\ \A k \in 1..L - o : Append(PendingMsgs, m)[k] = enq[o + k].msg
          /\ Append(PendingMsgs, m)[(L + 1) - o] = m
      <3> HIDE DEF T
      <3> QED BY <1>1, <2>1, <2>4
    <2>6. ASSUME NEW k \in 1..(L + 1) - o
          PROVE  PendingMsgs'[k] = Append(PendingMsgs, m)[k]
      <3>1. CASE k = (L + 1) - o
        <4>1. o + k = L + 1
          BY <3>1
        <4> QED BY <2>2, <2>3, <2>5, <3>1, <4>1
      <3>2. CASE k # (L + 1) - o
        <4>1. k \in 1..L - o /\ o + k \in 1..L
          BY <2>4, <3>2
        <4> QED BY <2>2, <2>3, <2>5, <4>1
      <3> QED BY <3>1, <3>2
    <2> HIDE DEF T
    <2> QED BY <2>3, <2>5, <2>6, SeqEqual
  <1> QED BY <1>1, <1>2, <1>3, <1>4, <1>5 DEF Abstract!Put, Abstract!Cost, NodeSize

\* Taking the oldest packet out is a Get of the abstract queue.
LEMMA RefineGet ==
    ASSUME IInv, IInv', Len(out) < Len(enq),
           uiHead' = AddOffset(uiHead, NodeSize(Len(enq[Len(out) + 1].msg))),
           out' = Append(out, Outcome(enq[Len(out) + 1].msg)),
           UNCHANGED <<uiTail, mem, enq>>
    PROVE  Abstract!Get
  <1> DEFINE T == Seq(Byte)
  <1>0. PICK L \in Nat, o \in Nat : L = Len(enq) /\ o = Len(out)
    BY DEF IInv, TypeOK
  <1>1. /\ PendingMsgs \in Seq(T) /\ Len(PendingMsgs) = L - o
        /\ \A k \in 1..L - o : PendingMsgs[k] = enq[o + k].msg
    BY <1>0, SuffixSeq DEF IInv, TypeOK, RingInv, PendingMsgs
  <1>2. Len(out') = o + 1
    BY <1>0 DEF IInv, TypeOK
  <1>3. /\ PendingMsgs' \in Seq(T) /\ Len(PendingMsgs') = L - (o + 1)
        /\ \A k \in 1..L - (o + 1) : PendingMsgs'[k] = enq[(o + 1) + k].msg
    <2>1. /\ PendingMsgs' \in Seq(T) /\ Len(PendingMsgs') = Len(enq') - Len(out')
          /\ \A k \in 1..Len(enq') - Len(out') : PendingMsgs'[k] = enq'[Len(out') + k].msg
      <3>1. enq' \in Seq([msg : Msgs, at : 0..Size - 1]) /\ Len(out') \in Nat /\ Len(out') <= Len(enq')
        BY DEF IInv, TypeOK, RingInv
      <3>2. PendingMsgs' = [k \in 1..Len(enq') - Len(out') |-> enq'[Len(out') + k].msg]
        BY DEF PendingMsgs
      <3> QED BY <3>1, <3>2, SuffixSeq
    <2> QED BY <1>0, <1>2, <2>1
  <1>4. PendingMsgs # <<>> /\ Head(PendingMsgs) = enq[o + 1].msg
    <2> HIDE DEF T
    <2> QED BY <1>0, <1>1
  <1>5. PendingMsgs' = Tail(PendingMsgs)
    <2> HIDE DEF T
    <2>1. /\ Tail(PendingMsgs) \in Seq(T) /\ Len(Tail(PendingMsgs)) = L - (o + 1)
      <3>1. /\ Tail(PendingMsgs) \in Seq(T)
            /\ Len(Tail(PendingMsgs)) = Len(PendingMsgs) - 1
        BY <1>1, <1>4, HeadTailProperties
      <3> QED BY <1>1, <3>1
    <2>2. ASSUME NEW k \in 1..L - (o + 1) PROVE PendingMsgs'[k] = Tail(PendingMsgs)[k]
      <3>1. Tail(PendingMsgs)[k] = PendingMsgs[k + 1]
        BY <1>0, <1>1, <1>4, <2>1
      <3>2. k + 1 \in 1..L - o /\ o + (k + 1) = (o + 1) + k
        BY <1>0
      <3>3. PendingMsgs[k + 1] = enq[(o + 1) + k].msg
        BY <1>1, <3>2
      <3> QED BY <1>3, <3>1, <3>3
    <2> QED BY <1>3, <2>1, <2>2, SeqEqual
  <1>6. UsedSpace(uiHead', uiTail') = UsedSpace(uiHead, uiTail) - NodeSize(Len(enq[o + 1].msg))
    BY <1>0, AdvanceHead DEF IInv
  <1>7. out' = Append(out, Outcome(enq[o + 1].msg))
    BY <1>0
  <1> QED BY <1>4, <1>5, <1>6, <1>7
          DEF Abstract!Get, Abstract!Cost, Abstract!Result, NodeSize, Outcome

\* Every step is a Put, a Get or a stutter of the abstract queue.
LEMMA RefineStep ==
    ASSUME IInv, IInv', [Next]_vars
    PROVE  [Abstract!Next]_<<PendingMsgs, UsedSpace(uiHead, uiTail), out>>
  <1> DEFINE Same == UNCHANGED <<PendingMsgs, UsedSpace(uiHead, uiTail), out>>
  <1>1. ASSUME UNCHANGED <<uiHead, uiTail, enq, out>> PROVE Same
    BY <1>1 DEF PendingMsgs
  <1>2. ASSUME NEW p \in Producers, InAddTail(p) PROVE Abstract!Next
    BY <1>2, RefinePut DEF Abstract!Next
  <1>3. ASSUME NEW c \in Consumers, OutAddHead(c) PROVE Abstract!Next
    <2>1. /\ Len(out) < Len(enq) /\ cLen[c] = Len(enq[Len(out) + 1].msg)
          /\ UNCHANGED <<uiTail, mem, enq>>
          /\ uiHead' = AddOffset(uiHead, NodeSize(Len(enq[Len(out) + 1].msg)))
      BY <1>3 DEF IInv, ReadInv, OutAddHead
    <2>2. out' = Append(out, Outcome(enq[Len(out) + 1].msg))
      BY <1>3, OutGives
    <2> QED BY <2>1, <2>2, RefineGet DEF Abstract!Next
  <1>4. ASSUME NEW c \in Consumers, ReleaseMsg(c) PROVE Abstract!Next
    <2>1. /\ Len(out) < Len(enq)
          /\ UNCHANGED <<uiTail, mem, enq>>
          /\ uiHead' = AddOffset(uiHead, NodeSize(Len(enq[Len(out) + 1].msg)))
          /\ out' = Append(out, Outcome(enq[Len(out) + 1].msg))
      BY <1>4, PeekGives
    <2> QED BY <2>1, RefineGet DEF Abstract!Next
  <1>5. ASSUME NEW p \in Producers,
               \/ InQueue(p) \/ InLockErr(p) \/ InLock(p) \/ InReject(p) \/ InAccept(p)
               \/ InCopy(p) \/ InUnlock(p)
        PROVE  Same
    BY <1>1, <1>5 DEF InQueue, InLockErr, InLock, InReject, InAccept, InCopy, InUnlock,
                      ring, hist
  <1>6. ASSUME NEW c \in Consumers,
               \/ OutLock(c) \/ OutEmpty(c) \/ OutLen(c) \/ OutCopy(c)
               \/ OutUnlock(c) \/ MsgPeek(c) \/ PeekRead(c)
        PROVE  Same
    BY <1>1, <1>6 DEF OutLock, OutEmpty, OutLen, OutCopy, OutUnlock, MsgPeek, PeekRead,
                      ring, hist
  <1>7. ASSUME NEW i \in Inspectors, AllLockIn(i) \/ AllLockErr(i) \/ AllStep(i) PROVE Same
    BY <1>1, <1>7 DEF AllStep, AllLockIn, AllLockErr, AllLockOut, AllUnlock, ring, hist
  <1>8. ASSUME NEW p \in Procs, Crash(p) PROVE Same
    BY <1>1, <1>8 DEF Crash, ring, hist
  <1>9. ASSUME UNCHANGED vars PROVE Same
    BY <1>1, <1>9 DEF vars, ring, hist
  <1> HIDE DEF Same
  <1>10. Abstract!Next \/ Same
    BY <1>2, <1>3, <1>4, <1>5, <1>6, <1>7, <1>8, <1>9
       DEF Next, InStep, OutStep, PeekStep
  <1> QED BY <1>10 DEF Same

\* Every behaviour of the byte ring, with its two locks, its bytewise copies and
\* its deaths, is a behaviour of the atomic bounded queue of packets.
THEOREM RingImplementsQueue == Spec => RingIsPacketQueue
  <1>1. Init => Abstract!Init
    BY QueueAssumption DEF Init, Abstract!Init, PendingMsgs, UsedSpace
  <1>2. IInv /\ IInv' /\ [Next]_vars
           => [Abstract!Next]_<<PendingMsgs, UsedSpace(uiHead, uiTail), out>>
    BY RefineStep
  <1> QED BY <1>1, <1>2, Inductive, PTL DEF Spec, Abstract!Spec, RingIsPacketQueue
=============================================================================
