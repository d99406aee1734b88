------------------------------ MODULE MemPool ------------------------------
(***************************************************************************)
(* CMemPool: maps in shared memory, each a chain of blocks of a pool       *)
(* (mem_pool/mem_pool.h).  The handle of a map is the number of its first  *)
(* block; callers keep the handles and choose a map with InitWithHandle.   *)
(* The class takes no locks, so operations do not overlap.                 *)
(***************************************************************************)
EXTENDS FixedsizeMemPool, Sequences, SequencesExt

CONSTANTS
  BlockNum,     \* blocks of the pool
  BlockDataNum, \* MAP_BLOCK_DATA_NUM
  Keys          \* keys a caller may insert

ASSUME MemPoolAssumption == BlockNum \in Nat \ {0} /\ BlockDataNum \in Nat \ {0}

VARIABLES
  mpPool,    \* m_objFMP
  mpNext,    \* iNextHandle of each block, -1 at the end of a chain
  mpKeys,    \* astKey[0 .. iUsedDataNum - 1] of each block
  mpHandle,  \* m_iMapHandle, -1 after ReleaseMap
  mpMaps     \* history: handle -> what was inserted into the map, in order

poolVars == <<mpPool, mpNext, mpKeys, mpHandle, mpMaps>>

MapBlocks == 0..(BlockNum - 1)

MemPoolInit ==
  /\ mpPool = PoolInit(BlockNum)
  /\ mpNext = [b \in MapBlocks |-> 0]     \* memset
  /\ mpKeys = [b \in MapBlocks |-> <<>>]
  /\ mpHandle = -1
  /\ mpMaps = <<>>

\* The blocks from b on, in the order in which the loops visit them.
Chain(b) ==
  LET steps[n \in 0..BlockNum] ==
        IF n = 0 THEN <<b>>
        ELSE LET s == steps[n - 1]
             IN IF mpNext[Last(s)] = -1 THEN s ELSE Append(s, mpNext[Last(s)])
  IN steps[BlockNum]

\* GetAllNode: what the chain of handle h holds.
GetAllNode(h) == FlattenSeq([i \in DOMAIN Chain(h) |-> mpKeys[Chain(h)[i]]])

NewMap ==
  /\ ~PoolFull(mpPool)
  /\ LET b == FreeNode(mpPool)
     IN /\ mpNext' = [mpNext EXCEPT ![b] = -1]
        /\ mpKeys' = [mpKeys EXCEPT ![b] = <<>>]
        /\ mpHandle' = b
        /\ mpMaps' = [h \in DOMAIN mpMaps \cup {b} |-> IF h = b THEN <<>> ELSE mpMaps[h]]
  /\ mpPool' = AllocateNode(mpPool)

InitWithHandle(h) ==
  /\ h \in DOMAIN mpMaps
  /\ mpHandle' = h
  /\ UNCHANGED <<mpPool, mpNext, mpKeys, mpMaps>>

\* As the next definition, but the new block keeps its old iNextHandle.
InsertNodeOldNext(k) ==
  /\ mpHandle # -1 /\ ~Contains(GetAllNode(mpHandle), k)
  /\ LET last == Last(Chain(mpHandle))
         b    == FreeNode(mpPool)
     IN \/ /\ Len(mpKeys[last]) < BlockDataNum
           /\ mpKeys' = [mpKeys EXCEPT ![last] = Append(@, k)]
           /\ UNCHANGED <<mpPool, mpNext>>
        \/ /\ Len(mpKeys[last]) = BlockDataNum /\ ~PoolFull(mpPool)
           /\ mpPool' = AllocateNode(mpPool)
           /\ mpNext' = [mpNext EXCEPT ![last] = b]
           /\ mpKeys' = [mpKeys EXCEPT ![b] = <<k>>]
  /\ mpMaps' = [mpMaps EXCEPT ![mpHandle] = Append(@, k)]
  /\ UNCHANGED mpHandle

\* InsertNode: refused if the key is there; a full last block gets a successor,
\* for which there may be no space.
InsertNode(k) ==
  /\ mpHandle # -1 /\ ~Contains(GetAllNode(mpHandle), k)
  /\ LET last == Last(Chain(mpHandle))
         b    == FreeNode(mpPool)
     IN \/ /\ Len(mpKeys[last]) < BlockDataNum
           /\ mpKeys' = [mpKeys EXCEPT ![last] = Append(@, k)]
           /\ UNCHANGED <<mpPool, mpNext>>
        \/ /\ Len(mpKeys[last]) = BlockDataNum /\ ~PoolFull(mpPool)
           /\ mpPool' = AllocateNode(mpPool)
           /\ mpNext' = [mpNext EXCEPT ![last] = b, ![b] = -1]
           /\ mpKeys' = [mpKeys EXCEPT ![b] = <<k>>]
  /\ mpMaps' = [mpMaps EXCEPT ![mpHandle] = Append(@, k)]
  /\ UNCHANGED mpHandle

\* ReleaseMap: the blocks go back in the order of the chain.
ReleaseMap ==
  /\ mpHandle # -1
  /\ mpPool' = ReleaseNodes(mpPool, Chain(mpHandle))
  /\ mpMaps' = [h \in DOMAIN mpMaps \ {mpHandle} |-> mpMaps[h]]
  /\ mpHandle' = -1
  /\ UNCHANGED <<mpNext, mpKeys>>

MemPoolNext ==
  \/ NewMap \/ ReleaseMap
  \/ \E h \in MapBlocks : InitWithHandle(h)
  \/ \E k \in Keys : InsertNode(k)

MemPoolSpec == MemPoolInit /\ [][MemPoolNext]_poolVars

-----------------------------------------------------------------------------
\* Each map holds what was inserted into it since NewMap, in that order and
\* nothing else; no block belongs to two maps, every block in use belongs to
\* one, and Verify accepts the pool: however often blocks have gone round the
\* ring of free numbers, which runs at its limit and keeps old contents.
MapsApart ==
  /\ PoolVerify(mpPool)
  /\ \A h \in DOMAIN mpMaps : GetAllNode(h) = mpMaps[h]
  /\ \A h, g \in DOMAIN mpMaps : h # g => ToSet(Chain(h)) \cap ToSet(Chain(g)) = {}
  /\ mpPool.used = UNION {ToSet(Chain(h)) : h \in DOMAIN mpMaps}
=============================================================================
