-------------------------- MODULE FixedsizeMemPool --------------------------
(***************************************************************************)
(* The pool of equal blocks under CMemPool and CTimerPool: a ring of free  *)
(* block numbers and a bit per block, mem_pool/fixedsize_mem_pool.h.  A    *)
(* pool is a record; the operations are operators on it.                   *)
(***************************************************************************)
EXTENDS Integers, FiniteSets, Sequences

\* Init with iClearFlag: m_piFreeList[i] = i, iFreeTail on the last entry.
PoolInit(n) ==
  [num  |-> n, used |-> {}, cnt |-> 0, head |-> 0, tail |-> n - 1,
   list |-> [i \in 0..(n - 1) |-> i]]

\* AllocateNode returns NULL.
PoolFull(p) == (p.head + 1) % p.num = p.tail

FreeNode(p) == p.list[p.head]

AllocateNode(p) ==
  [p EXCEPT !.used = @ \cup {FreeNode(p)}, !.cnt = @ + 1, !.head = (@ + 1) % p.num]

\* ReleaseNode: nothing happens to a block that is not in use.
ReleaseNode(p, i) ==
  IF i \notin p.used THEN p
  ELSE [p EXCEPT !.list[p.tail] = i, !.used = @ \ {i}, !.cnt = @ - 1, !.tail = (@ + 1) % p.num]

\* ReleaseNode for the blocks of s, one after the other.
ReleaseNodes(p, s) ==
  LET freed[i \in 0..Len(s)] == IF i = 0 THEN p ELSE ReleaseNode(freed[i - 1], s[i])
  IN freed[Len(s)]

\* Verify: the entries between head and tail, the bits and the count agree.
PoolVerify(p) ==
  /\ \A i \in DOMAIN p.list : p.list[i] < p.num
  /\ p.num - (((p.tail + p.num - p.head) % p.num) + 1) = p.cnt
  /\ Cardinality(p.used) = p.cnt
=============================================================================
