--------------------------- MODULE HashListProofs ---------------------------
(***************************************************************************)
(* Proofs about the user table, for every number of indexes, nodes, users, *)
(* processes and deaths: its lists stay proper lists whatever happens.     *)
(*                                                                         *)
(* Linked is not inductive.  IInv adds who holds which lock where          *)
(* (LockInv), how the table comes into being (BootInv), and where the      *)
(* local pointers of a process stand (WalkInv): a search stands on the     *)
(* chain it has locked, the node of an Insert or Remove half way is on no  *)
(* list at all.  LinkInv is Linked in the form the proof works with.       *)
(*                                                                         *)
(* Three more properties rest on IInv.  What Verify finds by walking and   *)
(* adding is turned into cardinalities by induction on the position and on *)
(* the index (LengthIs, SumIs).  CountInv says how far a count may be from *)
(* its chain and SweepInv how far a sweep has come.  LossInv keeps the     *)
(* balance of nodes: one is missing for every death at most, and one while *)
(* the holder of the head lock has it in hand.                             *)
(***************************************************************************)
EXTENDS HashList, NumberLemmas, SequenceTheorems, FiniteSetTheorems, TLAPS

Inserting == {"take", "fill", "link", "count"}
Removing == {"uncount", "recycle", "relink", "push"}
UnderUserLock == {"search", "sweep", "write", "unlock"} \cup Inserting \cup Removing
UnderHeadLock == {"user", "unhead"} \cup Inserting \cup Removing
WholeOps == {"Insert", "Remove"}

\* Who holds which lock, and which call may be at which place.
ProcLock(p) ==
    /\ pc[p] \in UnderUserLock => userLock[Slot(call[p])] = p
    /\ pc[p] \in UnderHeadLock => headLock = p
    /\ pc[p] \in {"search", "unlock"} /\ call[p].op \in WholeOps => headLock = p
    /\ pc[p] \in {"user"} \cup UnderUserLock =>
         /\ call[p].op # "none"
         /\ call[p].op = "Check" => call[p].key \in Index
         /\ call[p].op # "Check" => call[p].key \in Keys
    /\ pc[p] = "user" => call[p].op \in WholeOps
    /\ pc[p] = "search" => call[p].op # "Check"
    /\ pc[p] \in Inserting => call[p].op = "Insert"
    /\ pc[p] \in Removing => call[p].op = "Remove"
    /\ pc[p] = "write" => call[p].op = "Update"
    /\ pc[p] = "sweep" => call[p].op = "Check" /\ ret[p] \in SUBSET (Keys \cup {0})
    /\ pc[p] \in {"down", "dead", "clear", "clearnodes", "verify", "idle", "user", "unhead"} =>
         last[p] = 0
    /\ pc[p] \in {"write"} \cup Inserting \cup Removing => ip[p] \in Nodes
    /\ call[p].op \in {"Insert", "Update"} => call[p].data \in Data

LockInv == \A p \in Procs : ProcLock(p)

\* The list that starts at pointer h and goes on by nx is s.
ListOf(h, s, nx) ==
    /\ h = IF Len(s) = 0 THEN 0 ELSE s[1]
    /\ \A j \in 1 .. Len(s) : nx[s[j]] = IF j = Len(s) THEN 0 ELSE s[j + 1]

\* A node on no list.
Loose(n) ==
    /\ n \in Nodes
    /\ n \notin Elems(freeq)
    /\ \A i \in Index : n \notin Elems(chain[i])

\* The user of the call is not on its chain.
Fresh(p) == \A n \in Elems(chain[Slot(call[p])]) : key[n] # call[p].key

\* A search stands on the j-th node of its chain and has passed other users.
At(p, j) ==
    LET s == chain[Slot(call[p])]
    IN  /\ ip[p] = s[j]
        /\ last[p] = IF j = 1 THEN 0 ELSE s[j - 1]
        /\ \A l \in 1 .. (j - 1) : key[s[l]] # call[p].key

\* Where the local pointer of a process stands.
ProcWalk(p) ==
    /\ pc[p] = "search" =>
         IF ip[p] = 0 THEN Fresh(p)
         ELSE \E j \in 1 .. Len(chain[Slot(call[p])]) : At(p, j)
    /\ pc[p] = "take" => freeq # <<>> /\ ip[p] = freeq[1]
    /\ pc[p] \in {"take", "fill", "link"} => Fresh(p)
    /\ pc[p] \in {"fill", "link"} \cup Removing => Loose(ip[p])
    /\ pc[p] = "link" => /\ key[ip[p]] = call[p].key
                         /\ next[ip[p]] = list[Slot(call[p])]
    /\ pc[p] = "push" => next[ip[p]] = free

WalkInv == \A p \in Procs : ProcWalk(p)

\* How the table comes into being: one process sets it up, the others wait.
BootInv ==
    /\ ~magic => ~formed /\ \A p \in Procs : pc[p] = "down"
    /\ ~formed =>
         /\ used = 0
         /\ \A i \in Index : num[i] = 0 /\ chain[i] = <<>>
         /\ \A p \in Procs : /\ pc[p] \in {"down", "clear", "verify"}
                             /\ pc[p] = "verify" => seen[p].used = 0 /\ seen[p].sum = 1
    /\ \A p \in Procs : pc[p] \in {"clear", "clearnodes"} =>
                          \A q \in Procs \ {p} : pc[q] = "down"
    /\ \A p \in Procs : pc[p] = "clear" => ~formed
    /\ \A p \in Procs : pc[p] = "clearnodes" =>
                          free = 1 /\ \A i \in Index : chain[i] = <<>>

\* Linked, with the lists by their positions.  A user sits on the chain of its
\* own index, so that no node is on two chains.
LinkInv ==
    formed =>
      /\ ListOf(free, freeq, next) /\ Injective(freeq)
      /\ \A i \in Index :
           /\ ListOf(list[i], chain[i], next)
           /\ Injective(chain[i])
           /\ \A n \in Elems(chain[i]) :
                n \notin Elems(freeq) /\ key[n] \in Keys /\ Hash(key[n]) = i
           /\ \A n1, n2 \in Elems(chain[i]) : key[n1] = key[n2] => n1 = n2

IInv == TypeOK /\ LockInv /\ BootInv /\ WalkInv /\ LinkInv

(***************************************************************************)
(* Lists, for any pointers nx.                                             *)
(***************************************************************************)

\* Without drops one element and keeps the order of the others.
LEMMA WithoutIs ==
    ASSUME NEW s \in Seq(Nodes), NEW j \in 1 .. Len(s)
    PROVE  /\ Without(s, j) \in Seq(Nodes)
           /\ Len(Without(s, j)) = Len(s) - 1
           /\ \A l \in 1 .. (Len(s) - 1) :
                Without(s, j)[l] = IF l < j THEN s[l] ELSE s[l + 1]
  <1> DEFINE a == SubSeq(s, 1, j - 1)
             b == SubSeq(s, j + 1, Len(s))
  <1>1. /\ a \in Seq(Nodes) /\ Len(a) = j - 1
        /\ \A l \in 1 .. (j - 1) : a[l] = s[l]
    BY SubSeqProperties
  <1>2. /\ b \in Seq(Nodes) /\ Len(b) = Len(s) - j
        /\ \A l \in 1 .. (Len(s) - j) : b[l] = s[j + l]
    <2>1. CASE j = Len(s)
      BY <2>1, SubSeqProperties
    <2>2. CASE j < Len(s)
      BY <2>2, SubSeqProperties
    <2> QED BY <2>1, <2>2
  <1>3. Without(s, j) = a \o b
    BY DEF Without
  <1> HIDE DEF a, b
  <1>4. /\ a \o b \in Seq(Nodes) /\ Len(a \o b) = Len(s) - 1
        /\ \A l \in 1 .. (Len(s) - 1) :
             (a \o b)[l] = IF l <= j - 1 THEN a[l] ELSE b[l - (j - 1)]
    <2>1. /\ a \o b \in Seq(Nodes) /\ Len(a \o b) = Len(a) + Len(b)
          /\ \A l \in 1 .. (Len(a) + Len(b)) :
               (a \o b)[l] = IF l <= Len(a) THEN a[l] ELSE b[l - Len(a)]
      BY <1>1, <1>2, ConcatProperties
    <2>2. Len(a) = j - 1 /\ Len(a) + Len(b) = Len(s) - 1
      BY <1>1, <1>2
    <2> HIDE <1>1, <1>2
    <2> QED BY <2>1, <2>2, Zenon
  <1>5. ASSUME NEW l \in 1 .. (Len(s) - 1)
        PROVE  (a \o b)[l] = IF l < j THEN s[l] ELSE s[l + 1]
    <2>1. CASE l < j
      BY <2>1, <1>1, <1>4
    <2>2. CASE ~(l < j)
      <3>1. l - (j - 1) \in 1 .. (Len(s) - j)
        BY <2>2
      <3>2. b[l - (j - 1)] = s[j + (l - (j - 1))]
        BY <3>1, <1>2
      <3>3. j + (l - (j - 1)) = l + 1
        OBVIOUS
      <3>4. (a \o b)[l] = b[l - (j - 1)]
        BY <2>2, <1>4
      <3> QED BY <2>2, <3>2, <3>3, <3>4, Zenon
    <2> QED BY <2>1, <2>2, Zenon
  <1> QED BY <1>3, <1>4, <1>5

\* A node put in front.
LEMMA PushIs ==
    ASSUME NEW s \in Seq(Nodes), NEW n \in Nodes
    PROVE  /\ <<n>> \o s \in Seq(Nodes)
           /\ Len(<<n>> \o s) = Len(s) + 1
           /\ (<<n>> \o s)[1] = n
           /\ \A l \in 2 .. (Len(s) + 1) : (<<n>> \o s)[l] = s[l - 1]
           /\ Elems(<<n>> \o s) = Elems(s) \cup {n}
  <1>1. <<n>> \in Seq(Nodes) /\ Len(<<n>>) = 1 /\ <<n>>[1] = n
    OBVIOUS
  <1>2. /\ <<n>> \o s \in Seq(Nodes)
        /\ Len(<<n>> \o s) = Len(s) + 1
        /\ (<<n>> \o s)[1] = n
        /\ \A l \in 2 .. (Len(s) + 1) : (<<n>> \o s)[l] = s[l - 1]
    BY <1>1, ConcatProperties
  <1>3. ASSUME NEW l \in 1 .. Len(s) PROVE s[l] \in Elems(<<n>> \o s)
    <2>1. l + 1 \in 2 .. (Len(s) + 1) /\ (l + 1) - 1 = l
      OBVIOUS
    <2>2. (<<n>> \o s)[l + 1] = s[l]
      BY <2>1, <1>2
    <2>3. l + 1 \in 1 .. Len(<<n>> \o s)
      BY <1>2
    <2> HIDE <1>2
    <2> QED BY <2>2, <2>3, Zenon DEF Elems
  <1>4. n \in Elems(<<n>> \o s)
    BY <1>2 DEF Elems
  <1>5. ASSUME NEW l \in 1 .. (Len(s) + 1)
        PROVE  (<<n>> \o s)[l] \in Elems(s) \cup {n}
    <2>1. CASE l = 1
      BY <2>1, <1>2
    <2>2. CASE l # 1
      <3>1. l - 1 \in 1 .. Len(s) /\ (<<n>> \o s)[l] = s[l - 1]
        BY <2>2, <1>2
      <3> QED BY <3>1 DEF Elems
    <2> QED BY <2>1, <2>2
  <1> QED BY <1>2, <1>3, <1>4, <1>5 DEF Elems

\* The first node taken away.
LEMMA TailIs ==
    ASSUME NEW s \in Seq(Nodes), s # <<>>
    PROVE  /\ Tail(s) \in Seq(Nodes)
           /\ Len(Tail(s)) = Len(s) - 1 /\ Len(s) \in Nat \ {0}
           /\ \A l \in 1 .. (Len(s) - 1) : Tail(s)[l] = s[l + 1]
  BY HeadTailProperties, LenProperties

\* Pointers of nodes off the list do not matter.
LEMMA ListFrame ==
    ASSUME NEW s \in Seq(Nodes), NEW h, NEW nx, NEW ny, ListOf(h, s, nx),
           \A n \in Elems(s) : ny[n] = nx[n]
    PROVE  ListOf(h, s, ny)
  <1>1. \A j \in 1 .. Len(s) : s[j] \in Elems(s)
    BY DEF Elems
  <1> QED BY <1>1 DEF ListOf

\* A node that points to the head makes a longer list.
LEMMA ListPush ==
    ASSUME NEW s \in Seq(Nodes), NEW h, NEW nx, NEW n \in Nodes,
           ListOf(h, s, nx), nx[n] = h
    PROVE  ListOf(n, <<n>> \o s, nx)
  <1> DEFINE t == <<n>> \o s
  <1>1. /\ Len(t) = Len(s) + 1 /\ t[1] = n /\ Len(s) \in Nat
        /\ \A l \in 2 .. (Len(s) + 1) : t[l] = s[l - 1]
    BY PushIs
  <1> HIDE DEF t
  <1>2. ASSUME NEW j \in 1 .. Len(t)
        PROVE  nx[t[j]] = IF j = Len(t) THEN 0 ELSE t[j + 1]
    <2>1. CASE j = 1
      <3>1. CASE Len(s) = 0
        BY <2>1, <3>1, <1>1 DEF ListOf
      <3>2. CASE Len(s) # 0
        <4>1. t[2] = s[1]
          BY <3>2, <1>1
        <4> QED BY <2>1, <3>2, <4>1, <1>1 DEF ListOf
      <3> QED BY <3>1, <3>2
    <2>2. CASE j # 1
      <3>1. j - 1 \in 1 .. Len(s) /\ t[j] = s[j - 1]
        BY <2>2, <1>1
      <3>2. nx[s[j - 1]] = IF j - 1 = Len(s) THEN 0 ELSE s[(j - 1) + 1]
        BY <3>1 DEF ListOf
      <3>3. CASE j = Len(t)
        BY <3>1, <3>2, <3>3, <1>1
      <3>4. CASE j # Len(t)
        <4>1. t[j + 1] = s[(j + 1) - 1] /\ (j + 1) - 1 = (j - 1) + 1 /\ j - 1 # Len(s)
          BY <3>4, <2>2, <1>1
        <4> QED BY <3>1, <3>2, <3>4, <4>1
      <3> QED BY <3>3, <3>4
    <2> QED BY <2>1, <2>2
  <1> QED BY <1>1, <1>2 DEF ListOf, t

\* Without its first node a list begins at the second.
LEMMA ListTail ==
    ASSUME NEW s \in Seq(Nodes), NEW h, NEW nx, ListOf(h, s, nx), s # <<>>
    PROVE  ListOf(nx[s[1]], Tail(s), nx)
  <1> DEFINE t == Tail(s)
  <1>1. /\ Len(t) = Len(s) - 1 /\ Len(s) \in Nat \ {0}
        /\ \A l \in 1 .. (Len(s) - 1) : t[l] = s[l + 1]
    BY TailIs
  <1> HIDE DEF t
  <1>2. ASSUME NEW j \in 1 .. Len(t)
        PROVE  nx[t[j]] = IF j = Len(t) THEN 0 ELSE t[j + 1]
    <2>1. t[j] = s[j + 1] /\ j + 1 \in 1 .. Len(s)
      BY <1>1
    <2>2. nx[s[j + 1]] = IF j + 1 = Len(s) THEN 0 ELSE s[(j + 1) + 1]
      BY <2>1 DEF ListOf
    <2>3. CASE j = Len(t)
      BY <2>1, <2>2, <2>3, <1>1
    <2>4. CASE j # Len(t)
      <3>1. t[j + 1] = s[(j + 1) + 1] /\ j + 1 # Len(s)
        BY <2>4, <1>1
      <3> QED BY <2>1, <2>2, <2>4, <3>1
    <2> QED BY <2>3, <2>4
  <1>3. nx[s[1]] = IF Len(t) = 0 THEN 0 ELSE t[1]
    BY <1>1 DEF ListOf
  <1> QED BY <1>2, <1>3 DEF ListOf, t

\* The predecessor of a node takes over its pointer, or the head does.
LEMMA ListUnlink ==
    ASSUME NEW s \in Seq(Nodes), NEW h, NEW nx \in [Nodes -> Pointers],
           NEW j \in 1 .. Len(s), ListOf(h, s, nx), Injective(s)
    PROVE  /\ j = 1 => ListOf(nx[s[j]], Without(s, j), nx)
           /\ j # 1 => ListOf(h, Without(s, j), [nx EXCEPT ![s[j - 1]] = nx[s[j]]])
  <1> DEFINE t == Without(s, j)
  <1>1. /\ Len(t) = Len(s) - 1 /\ Len(s) \in Nat \ {0}
        /\ \A l \in 1 .. (Len(s) - 1) : t[l] = IF l < j THEN s[l] ELSE s[l + 1]
    BY WithoutIs
  <1>2. \A l \in 1 .. Len(s) : nx[s[l]] = IF l = Len(s) THEN 0 ELSE s[l + 1]
    BY DEF ListOf
  <1>3. \A l \in 1 .. Len(s) : s[l] \in Nodes
    OBVIOUS
  <1> HIDE DEF t
  <1>4. ASSUME j = 1 PROVE ListOf(nx[s[j]], t, nx)
    <2>1. ASSUME NEW l \in 1 .. Len(t)
          PROVE  nx[t[l]] = IF l = Len(t) THEN 0 ELSE t[l + 1]
      <3>1. t[l] = s[l + 1] /\ l + 1 \in 1 .. Len(s)
        BY <1>1, <1>4
      <3>2. nx[s[l + 1]] = IF l + 1 = Len(s) THEN 0 ELSE s[(l + 1) + 1]
        BY <3>1, <1>2
      <3>3. CASE l = Len(t)
        BY <3>1, <3>2, <3>3, <1>1
      <3>4. CASE l # Len(t)
        <4>1. t[l + 1] = s[(l + 1) + 1] /\ l + 1 # Len(s)
          BY <3>4, <1>1, <1>4
        <4> QED BY <3>1, <3>2, <3>4, <4>1
      <3> QED BY <3>3, <3>4
    <2>2. nx[s[j]] = IF Len(t) = 0 THEN 0 ELSE t[1]
      BY <1>1, <1>2, <1>4
    <2> QED BY <2>1, <2>2 DEF ListOf
  <1>5. ASSUME j # 1 PROVE ListOf(h, t, [nx EXCEPT ![s[j - 1]] = nx[s[j]]])
    <2> DEFINE ny == [nx EXCEPT ![s[j - 1]] = nx[s[j]]]
    <2>1. j - 1 \in 1 .. Len(s) /\ s[j - 1] \in Nodes
      BY <1>5, <1>3
    <2>2. ny[s[j - 1]] = nx[s[j]]
      BY <2>1
    <2>3. ASSUME NEW l \in 1 .. Len(s), l # j - 1 PROVE ny[s[l]] = nx[s[l]]
      BY <2>1, <2>3, <1>3 DEF Injective
    <2> HIDE DEF ny
    <2>4. ASSUME NEW l \in 1 .. Len(t)
          PROVE  ny[t[l]] = IF l = Len(t) THEN 0 ELSE t[l + 1]
      <3>1. CASE l < j - 1
        <4>1. /\ t[l] = s[l] /\ t[l + 1] = s[l + 1] /\ l \in 1 .. Len(s)
              /\ l # Len(t) /\ l # Len(s) /\ l # j - 1
          BY <3>1, <1>1
        <4> QED BY <4>1, <1>2, <2>3
      <3>2. CASE l = j - 1
        <4>1. t[l] = s[j - 1] /\ nx[s[j]] = IF j = Len(s) THEN 0 ELSE s[j + 1]
          BY <3>2, <1>1, <1>2
        <4>2. CASE l = Len(t)
          BY <3>2, <4>1, <4>2, <2>2, <1>1
        <4>3. CASE l # Len(t)
          <5>1. t[l + 1] = s[j + 1] /\ j # Len(s)
            BY <3>2, <4>3, <1>1
          <5> QED BY <3>2, <4>1, <4>3, <5>1, <2>2
        <4> QED BY <4>2, <4>3
      <3>3. CASE l > j - 1
        <4>1. t[l] = s[l + 1] /\ l + 1 \in 1 .. Len(s) /\ l + 1 # j - 1
          BY <3>3, <1>1
        <4>2. ny[t[l]] = IF l + 1 = Len(s) THEN 0 ELSE s[(l + 1) + 1]
          BY <4>1, <1>2, <2>3
        <4>3. CASE l = Len(t)
          BY <4>2, <4>3, <1>1
        <4>4. CASE l # Len(t)
          <5>1. t[l + 1] = s[(l + 1) + 1] /\ l + 1 # Len(s)
            BY <3>3, <4>4, <1>1
          <5> QED BY <4>2, <4>4, <5>1
        <4> QED BY <4>3, <4>4
      <3> QED BY <3>1, <3>2, <3>3, <1>1
    <2>5. h = IF Len(t) = 0 THEN 0 ELSE t[1]
      BY <1>1, <1>5 DEF ListOf
    <2> QED BY <2>4, <2>5 DEF ListOf, ny
  <1> QED BY <1>4, <1>5 DEF t

\* What is left of a list is on the list, and the node taken off is not.
LEMMA LeftOver ==
    ASSUME NEW s \in Seq(Nodes), Injective(s)
    PROVE  /\ \A j \in 1 .. Len(s) : /\ Elems(Without(s, j)) = Elems(s) \ {s[j]}
                                     /\ Injective(Without(s, j))
           /\ s # <<>> => /\ Elems(Tail(s)) = Elems(s) \ {s[1]}
                          /\ Injective(Tail(s))
  <1>1. ASSUME NEW j \in 1 .. Len(s)
        PROVE  Elems(Without(s, j)) = Elems(s) \ {s[j]} /\ Injective(Without(s, j))
    <2> DEFINE t == Without(s, j)
    <2>1. /\ Len(t) = Len(s) - 1 /\ Len(s) \in Nat
          /\ \A l \in 1 .. (Len(s) - 1) : t[l] = IF l < j THEN s[l] ELSE s[l + 1]
      BY WithoutIs
    <2> HIDE DEF t
    <2>2. ASSUME NEW l \in 1 .. Len(t) PROVE t[l] \in Elems(s) \ {s[j]}
      <3>1. PICK k \in 1 .. Len(s) : t[l] = s[k] /\ k # j
        BY <2>1
      <3> QED BY <3>1 DEF Elems, Injective
    <2>3. ASSUME NEW k \in 1 .. Len(s), k # j PROVE s[k] \in Elems(t)
      <3>1. CASE k < j
        <4>1. k \in 1 .. Len(t) /\ t[k] = s[k]
          BY <3>1, <2>1
        <4> QED BY <4>1 DEF Elems
      <3>2. CASE k > j
        <4>1. k - 1 \in 1 .. Len(t) /\ t[k - 1] = s[(k - 1) + 1] /\ (k - 1) + 1 = k
          BY <3>2, <2>1
        <4> QED BY <4>1, Zenon DEF Elems
      <3> QED BY <2>3, <3>1, <3>2
    <2>4. Elems(t) = Elems(s) \ {s[j]}
      BY <2>2, <2>3 DEF Elems
    <2>5. Injective(t)
      BY <2>1 DEF Injective
    <2> QED BY <2>4, <2>5 DEF t
  <1>2. ASSUME s # <<>>
        PROVE  Elems(Tail(s)) = Elems(s) \ {s[1]} /\ Injective(Tail(s))
    <2> DEFINE t == Tail(s)
    <2>1. /\ Len(t) = Len(s) - 1 /\ Len(s) \in Nat \ {0}
          /\ \A l \in 1 .. (Len(s) - 1) : t[l] = s[l + 1]
      BY <1>2, TailIs
    <2> HIDE DEF t
    <2>2. ASSUME NEW l \in 1 .. Len(t) PROVE t[l] \in Elems(s) \ {s[1]}
      <3>1. PICK k \in 1 .. Len(s) : t[l] = s[k] /\ k # 1
        BY <2>1
      <3>2. 1 \in 1 .. Len(s)
        BY <2>1
      <3> QED BY <3>1, <3>2 DEF Elems, Injective
    <2>3. ASSUME NEW k \in 1 .. Len(s), k # 1 PROVE s[k] \in Elems(t)
      <3>1. k - 1 \in 1 .. Len(t) /\ t[k - 1] = s[(k - 1) + 1] /\ (k - 1) + 1 = k
        BY <2>3, <2>1
      <3> QED BY <3>1, Zenon DEF Elems
    <2>4. Elems(t) = Elems(s) \ {s[1]}
      BY <2>2, <2>3 DEF Elems
    <2>5. Injective(t)
      BY <2>1 DEF Injective
    <2> QED BY <2>4, <2>5 DEF t
  <1> QED BY <1>1, <1>2

\* A new node in front leaves every node on the list once.
LEMMA InjectivePush ==
    ASSUME NEW s \in Seq(Nodes), NEW n \in Nodes, Injective(s), n \notin Elems(s)
    PROVE  Injective(<<n>> \o s)
  <1> DEFINE t == <<n>> \o s
  <1>1. /\ Len(t) = Len(s) + 1 /\ t[1] = n /\ Len(s) \in Nat
        /\ \A l \in 2 .. (Len(s) + 1) : t[l] = s[l - 1]
    BY PushIs
  <1>2. \A l \in 1 .. Len(s) : s[l] # n
    BY DEF Elems
  <1> HIDE DEF t
  <1>3. ASSUME NEW j \in 1 .. Len(t), NEW l \in 1 .. Len(t), t[j] = t[l]
        PROVE  j = l
    <2>1. CASE j = 1
      <3>1. l # 1 => l - 1 \in 1 .. Len(s) /\ t[l] = s[l - 1]
        BY <1>1
      <3> QED BY <2>1, <3>1, <1>1, <1>2, <1>3
    <2>2. CASE l = 1
      <3>1. j # 1 => j - 1 \in 1 .. Len(s) /\ t[j] = s[j - 1]
        BY <1>1
      <3> QED BY <2>2, <3>1, <1>1, <1>2, <1>3
    <2>3. CASE j # 1 /\ l # 1
      <3>1. /\ j - 1 \in 1 .. Len(s) /\ t[j] = s[j - 1]
            /\ l - 1 \in 1 .. Len(s) /\ t[l] = s[l - 1]
        BY <2>3, <1>1
      <3>2. j - 1 = l - 1
        BY <3>1, <1>3 DEF Injective
      <3> QED BY <3>2, <1>1
    <2> QED BY <2>1, <2>2, <2>3
  <1> QED BY <1>3 DEF Injective, t

\* A key has an index.
LEMMA HashType ==
    ASSUME NEW k \in Keys
    PROVE  Hash(k) \in Index
  BY SizeAssumption, SMT DEF Hash, Index

\* The slot of a well-formed call is an index.
LEMMA SlotType ==
    ASSUME NEW p \in Procs, ProcLock(p), pc[p] \in {"user"} \cup UnderUserLock
    PROVE  Slot(call[p]) \in Index
  BY HashType DEF ProcLock, Slot

\* A process that forgets its call has locals of the right types.
LEMMA ForgetType ==
    ASSUME TypeOK, NEW p \in Procs, Forget(p)
    PROVE  /\ call' \in [Procs -> [op : Ops, key : Keys \cup Index \cup {0}, data : Values]]
           /\ ip' \in [Procs -> Pointers] /\ last' \in [Procs -> Pointers]
           /\ ret' \in [Procs -> Values \cup {None} \cup SUBSET (Keys \cup {0})]
           /\ seen' \in [Procs -> [idx : 0 .. IndexNum, used : Int, sum : Int]]
  <1>1. NoCall \in [op : Ops, key : Keys \cup Index \cup {0}, data : Values]
    BY DEF NoCall, Ops, Values
  <1>2. NoSeen \in [idx : 0 .. IndexNum, used : Int, sum : Int]
    BY SizeAssumption DEF NoSeen
  <1>3. 0 \in Pointers
    BY SizeAssumption DEF Pointers
  <1> QED BY <1>1, <1>2, <1>3 DEF TypeOK, Forget

\* Types are kept by every step.
LEMMA TypeStep ==
    ASSUME TypeOK, LockInv, WalkInv, [Next]_vars
    PROVE  TypeOK'
  <1> USE SizeAssumption
  <1>0. ASSUME NEW p \in Procs
        PROVE  /\ pc[p] \in {"user"} \cup UnderUserLock => Slot(call[p]) \in Index
               /\ pc[p] \in {"write"} \cup Inserting \cup Removing => ip[p] \in Nodes
               /\ ip[p] # 0 => ip[p] \in Nodes
    <2>1. ProcLock(p)
      BY DEF LockInv
    <2>2. pc[p] \in {"user"} \cup UnderUserLock => Slot(call[p]) \in Index
      BY <2>1, SlotType
    <2>3. ip[p] # 0 => ip[p] \in Nodes
      BY DEF TypeOK, Pointers, Nodes
    <2> QED BY <2>1, <2>2, <2>3 DEF ProcLock
  <1>1. ASSUME UNCHANGED vars PROVE TypeOK'
    BY <1>1 DEF TypeOK, vars, counts, links, records, locks, locals, ghosts, faults
  <1>2. ASSUME NEW p \in Procs, Start(p) PROVE TypeOK'
    <2> USE DEF TypeOK, counts, links, records, locks, locals, ghosts, faults, Goto
    <2>1. CASE StartFirst(p)
      BY <2>1 DEF StartFirst, Places, MidChange
    <2>2. CASE StartAgain(p)
      BY <2>2 DEF StartAgain, Places
    <2>2a. CASE AddEntity(p)
      BY <2>2a DEF AddEntity, Places
    <2>3. CASE ClearHead(p)
      <3>1. 1 \in Nodes /\ 0 \in Pointers /\ 1 \in Pointers /\ 0 \in Index
        BY DEF Nodes, Pointers, Index
      <3>2. <<1>> \in Seq(Nodes)
        BY <3>1
      <3>3. /\ hashVal' \in [Index -> Index] /\ num' \in [Index -> Int]
            /\ list' \in [Index -> Pointers] /\ next' \in [Nodes -> Pointers]
            /\ key' \in [Nodes -> Keys \cup {0}] /\ data' \in [Nodes -> Values]
        BY <2>3, <3>1 DEF ClearHead, Values
      <3>4. /\ used' \in Int /\ used' <= DataNum /\ free' \in Pointers
            /\ freeq' \in Seq(Nodes) /\ formed' \in BOOLEAN
        BY <2>3, <3>1, <3>2 DEF ClearHead
      <3>5. pc' \in [Procs -> Places]
        BY <2>3 DEF ClearHead, Places, MidChange
      <3> QED BY <2>3, <3>3, <3>4, <3>5 DEF ClearHead
    <2>4. CASE ClearNodes(p)
      <3>1. next' \in [Nodes -> Pointers]
        BY <2>4 DEF ClearNodes, Nodes, Pointers
      <3>2. freeq' \in Seq(Nodes)
        BY <2>4, ElementOfSeq DEF ClearNodes, Nodes
      <3>3. seen' \in [Procs -> [idx : 0 .. IndexNum, used : Int, sum : Int]]
        BY <2>4 DEF ClearNodes
      <3>4. pc' \in [Procs -> Places]
        BY <2>4 DEF ClearNodes, Places
      <3> QED BY <2>4, <3>1, <3>2, <3>3, <3>4 DEF ClearNodes
    <2>5. CASE VerifyIndex(p)
      <3>1. seen[p].idx \in Index
        BY <2>5 DEF VerifyIndex, Index
      <3>2. Length(list[seen[p].idx]) \in Int
        BY <2>5, <3>1 DEF VerifyIndex, VerifyIndexOK
      <3>3. /\ seen[p].idx + 1 \in 0 .. IndexNum
            /\ seen[p].used \in Int
            /\ seen[p].sum + Length(list[seen[p].idx]) \in Int
        BY <2>5, <3>1, <3>2 DEF VerifyIndex
      <3>4. seen' \in [Procs -> [idx : 0 .. IndexNum, used : Int, sum : Int]]
        BY <2>5, <3>3 DEF VerifyIndex
      <3> QED BY <2>5, <3>4 DEF VerifyIndex
    <2>6. CASE VerifyDone(p)
      BY <2>6 DEF VerifyDone, Places, NoSeen
    <2>7. CASE VerifyFails(p)
      BY <2>7 DEF VerifyFails, Places, NoSeen
    <2> QED BY <1>2, <2>1, <2>2, <2>2a, <2>3, <2>4, <2>5, <2>6, <2>7 DEF Start
  <1>3. ASSUME NEW p \in Procs, Call(p) PROVE TypeOK'
    <2> USE DEF TypeOK, counts, links, records, locks, locals, ghosts, faults, Goto
    <2>1. CASE InsertUserInfo(p)
      <3>1. PICK k \in Keys, d \in Data :
              BeginWithHead(p, [op |-> "Insert", key |-> k, data |-> d])
        BY <2>1 DEF InsertUserInfo
      <3> DEFINE c == [op |-> "Insert", key |-> k, data |-> d]
      <3>2. c \in [op : Ops, key : Keys \cup Index \cup {0}, data : Values]
        BY DEF Ops, Values
      <3> HIDE DEF c
      <3>3. BeginWithHead(p, c)
        BY <3>1 DEF c
      <3>4. pc' \in [Procs -> Places]
        BY <3>3 DEF BeginWithHead, Places
      <3>5. call' \in [Procs -> [op : Ops, key : Keys \cup Index \cup {0}, data : Values]]
        BY <3>2, <3>3 DEF BeginWithHead
      <3> QED BY <3>3, <3>4, <3>5 DEF BeginWithHead
    <2>2. CASE RemoveUserInfoWhenInValid(p)
      <3>1. PICK k \in Keys :
              BeginWithHead(p, [op |-> "Remove", key |-> k, data |-> NoData])
        BY <2>2 DEF RemoveUserInfoWhenInValid
      <3> DEFINE c == [op |-> "Remove", key |-> k, data |-> NoData]
      <3>2. c \in [op : Ops, key : Keys \cup Index \cup {0}, data : Values]
        BY DEF Ops, Values
      <3> HIDE DEF c
      <3>3. BeginWithHead(p, c)
        BY <3>1 DEF c
      <3>4. pc' \in [Procs -> Places]
        BY <3>3 DEF BeginWithHead, Places
      <3>5. call' \in [Procs -> [op : Ops, key : Keys \cup Index \cup {0}, data : Values]]
        BY <3>2, <3>3 DEF BeginWithHead
      <3> QED BY <3>3, <3>4, <3>5 DEF BeginWithHead
    <2>3. CASE AddFriendReq(p)
      <3>1. PICK k \in Keys, d \in Data :
              BeginWithUser(p, [op |-> "Update", key |-> k, data |-> d])
        BY <2>3 DEF AddFriendReq
      <3> DEFINE c == [op |-> "Update", key |-> k, data |-> d]
      <3>2. c \in [op : Ops, key : Keys \cup Index \cup {0}, data : Values]
        BY DEF Ops, Values
      <3>3. Slot(c) \in Index
        BY HashType DEF Slot
      <3> HIDE DEF c
      <3>4. BeginWithUser(p, c)
        BY <3>1 DEF c
      <3>5. userLock' \in [Index -> Procs \cup {None}] /\ ip' \in [Procs -> Pointers]
        BY <3>3, <3>4 DEF BeginWithUser, LockUser
      <3>6. pc' \in [Procs -> Places]
        BY <3>4 DEF BeginWithUser, LockUser, Places
      <3>7. call' \in [Procs -> [op : Ops, key : Keys \cup Index \cup {0}, data : Values]]
        BY <3>2, <3>4 DEF BeginWithUser
      <3> QED BY <3>4, <3>5, <3>6, <3>7 DEF BeginWithUser, LockUser
    <2>4. CASE GetUserInfo(p)
      <3>1. PICK k \in Keys :
              BeginWithUser(p, [op |-> "Get", key |-> k, data |-> NoData])
        BY <2>4 DEF GetUserInfo
      <3> DEFINE c == [op |-> "Get", key |-> k, data |-> NoData]
      <3>2. c \in [op : Ops, key : Keys \cup Index \cup {0}, data : Values]
        BY DEF Ops, Values
      <3>3. Slot(c) \in Index
        BY HashType DEF Slot
      <3> HIDE DEF c
      <3>4. BeginWithUser(p, c)
        BY <3>1 DEF c
      <3>5. userLock' \in [Index -> Procs \cup {None}] /\ ip' \in [Procs -> Pointers]
        BY <3>3, <3>4 DEF BeginWithUser, LockUser
      <3>6. pc' \in [Procs -> Places]
        BY <3>4 DEF BeginWithUser, LockUser, Places
      <3>7. call' \in [Procs -> [op : Ops, key : Keys \cup Index \cup {0}, data : Values]]
        BY <3>2, <3>4 DEF BeginWithUser
      <3> QED BY <3>4, <3>5, <3>6, <3>7 DEF BeginWithUser, LockUser
    <2>5. CASE CheckUserIsValid(p)
      <3>1. pc' \in [Procs -> Places]
        BY <2>5 DEF CheckUserIsValid, Places
      <3>2. call' \in [Procs -> [op : Ops, key : Keys \cup Index \cup {0}, data : Values]]
        BY <2>5 DEF CheckUserIsValid, Ops, Values
      <3>3. userLock' \in [Index -> Procs \cup {None}] /\ ip' \in [Procs -> Pointers]
        BY <2>5 DEF CheckUserIsValid
      <3>4. ret' \in [Procs -> Values \cup {None} \cup SUBSET (Keys \cup {0})]
        BY <2>5 DEF CheckUserIsValid
      <3> QED BY <2>5, <3>1, <3>2, <3>3, <3>4 DEF CheckUserIsValid
    <2> QED BY <1>3, <2>1, <2>2, <2>3, <2>4, <2>5 DEF Call
  <1>4. ASSUME NEW p \in Procs, Lookup(p) PROVE TypeOK'
    <2> USE DEF TypeOK, counts, links, records, locks, locals, ghosts, faults, Goto
    <2>1. CASE LockUserAfterHead(p)
      <3>1. Slot(call[p]) \in Index
        BY <2>1, <1>0 DEF LockUserAfterHead
      <3>2. userLock' \in [Index -> Procs \cup {None}] /\ ip' \in [Procs -> Pointers]
        BY <2>1, <3>1 DEF LockUserAfterHead, LockUser
      <3>3. pc' \in [Procs -> Places]
        BY <2>1 DEF LockUserAfterHead, LockUser, Places
      <3> QED BY <2>1, <3>2, <3>3 DEF LockUserAfterHead, LockUser
    <2>2. CASE SweepNext(p)
      <3>1. ip[p] \in Nodes
        BY <2>2, <1>0 DEF SweepNext
      <3>2. ip' \in [Procs -> Pointers]
        BY <2>2, <3>1 DEF SweepNext
      <3>3. ret' \in [Procs -> Values \cup {None} \cup SUBSET (Keys \cup {0})]
        <4>1. ret[p] \cup {key[ip[p]]} \in SUBSET (Keys \cup {0})
          BY <2>2, <3>1 DEF SweepNext, LockInv, ProcLock
        <4> QED BY <2>2, <4>1 DEF SweepNext
      <3> QED BY <2>2, <3>2, <3>3 DEF SweepNext
    <2>3. CASE SweepEnd(p)
      BY <2>3 DEF SweepEnd, Places
    <2>4. CASE SearchNext(p)
      <3>1. ip[p] \in Nodes
        BY <2>4, <1>0 DEF SearchNext
      <3>2. ip' \in [Procs -> Pointers] /\ last' \in [Procs -> Pointers]
        BY <2>4, <3>1 DEF SearchNext
      <3> QED BY <2>4, <3>2 DEF SearchNext
    <2>5. CASE Nothing(p)
      BY <2>5 DEF Nothing, Places
    <2>6. CASE Get(p)
      <3>1. ret' \in [Procs -> Values \cup {None} \cup SUBSET (Keys \cup {0})]
        BY <2>6, <1>0 DEF Get, Values
      <3>2. pc' \in [Procs -> Places]
        BY <2>6 DEF Get, Places
      <3> QED BY <2>6, <3>1, <3>2 DEF Get
    <2> QED BY <1>4, <2>1, <2>2, <2>3, <2>4, <2>5, <2>6 DEF Lookup
  <1>5. ASSUME NEW p \in Procs, Change(p) PROVE TypeOK'
    <2> USE DEF TypeOK, counts, links, records, locks, locals, ghosts, faults, Goto
    <2>1. CASE UpdateFirst(p)
      <3>1. ip[p] \in Nodes
        BY <2>1, <1>0 DEF UpdateFirst, Found
      <3>2. data' \in [Nodes -> Values]
        BY <2>1, <3>1 DEF UpdateFirst, Values
      <3>3. pc' \in [Procs -> Places]
        BY <2>1, <3>1 DEF UpdateFirst, Places, MidChange
      <3> QED BY <2>1, <3>2, <3>3 DEF UpdateFirst
    <2>2. CASE UpdateRest(p)
      <3>1. ip[p] \in Nodes
        BY <2>2, <1>0 DEF UpdateRest, Inserting, Removing, UnderUserLock
      <3>2. data' \in [Nodes -> Values]
        BY <2>2, <3>1 DEF UpdateRest
      <3>3. pc' \in [Procs -> Places]
        BY <2>2, <3>1 DEF UpdateRest, Places, MidChange
      <3> QED BY <2>2, <3>2, <3>3 DEF UpdateRest
    <2>3. CASE NoSpace(p)
      BY <2>3 DEF NoSpace, Places
    <2>4. CASE GetFreeNode(p)
      BY <2>4 DEF GetFreeNode, Exhausted, Places, MidChange
    <2>5. CASE TakeFree(p)
      <3>1. ip[p] \in Nodes
        BY <2>5, <1>0 DEF TakeFree, Inserting, Removing, UnderUserLock
      <3>2. free' \in Pointers
        BY <2>5, <3>1 DEF TakeFree
      <3>3. freeq' \in Seq(Nodes)
        BY <2>5, <3>1, TailIs DEF TakeFree, WalkInv, ProcWalk
      <3>4. pc' \in [Procs -> Places]
        BY <2>5, <3>1 DEF TakeFree, Places, MidChange
      <3> QED BY <2>5, <3>2, <3>3, <3>4 DEF TakeFree
    <2>6. CASE FillNode(p)
      <3>1. ip[p] \in Nodes /\ Slot(call[p]) \in Index
        BY <2>6, <1>0 DEF FillNode, Inserting, Removing, UnderUserLock
      <3>2. data' \in [Nodes -> Values]
        BY <2>6, <3>1 DEF FillNode
      <3>3. next' \in [Nodes -> Pointers]
        BY <2>6, <3>1 DEF FillNode
      <3>4. call[p].key \in Keys
        BY <2>6, <3>1 DEF FillNode, LockInv, ProcLock, Inserting, Removing, UnderUserLock
      <3>5. key' \in [Nodes -> Keys \cup {0}]
        BY <2>6, <3>1, <3>4 DEF FillNode
      <3>6. pc' \in [Procs -> Places]
        BY <2>6, <3>1 DEF FillNode, Places, MidChange
      <3> QED BY <2>6, <3>2, <3>3, <3>4, <3>5, <3>6 DEF FillNode
    <2>7. CASE LinkNode(p)
      <3>1. ip[p] \in Nodes /\ Slot(call[p]) \in Index
        BY <2>7, <1>0 DEF LinkNode, Inserting, Removing, UnderUserLock
      <3>2. ip[p] \in Pointers
        BY <2>7, <3>1 DEF Nodes, Pointers
      <3>3. list' \in [Index -> Pointers]
        BY <2>7, <3>1, <3>2 DEF LinkNode
      <3>4. <<ip[p]>> \o chain[Slot(call[p])] \in Seq(Nodes)
        BY <2>7, <3>1, PushIs DEF LinkNode
      <3>5. chain' \in [Index -> Seq(Nodes)]
        BY <2>7, <3>1, <3>4 DEF LinkNode
      <3>6. pc' \in [Procs -> Places]
        BY <2>7, <3>1 DEF LinkNode, Places, MidChange
      <3> QED BY <2>7, <3>2, <3>3, <3>4, <3>5, <3>6 DEF LinkNode
    <2>8. CASE CountNode(p)
      <3>1. Slot(call[p]) \in Index
        BY <2>8, <1>0 DEF CountNode, Inserting, Removing, UnderUserLock
      <3>2. num' \in [Index -> Int]
        BY <2>8, <3>1 DEF CountNode
      <3>3. pc' \in [Procs -> Places]
        BY <2>8, <3>1 DEF CountNode, Places, MidChange
      <3> QED BY <2>8, <3>2, <3>3 DEF CountNode
    <2>9. CASE Unlink(p)
      <3>1. ip[p] \in Nodes /\ Slot(call[p]) \in Index
        BY <2>9, <1>0 DEF Unlink, Found, UnderUserLock
      <3>2. next[ip[p]] \in Pointers
        BY <3>1
      <3>3. last[p] # 0 => last[p] \in Nodes
        BY DEF Nodes, Pointers
      <3>4. list' \in [Index -> Pointers] /\ next' \in [Nodes -> Pointers]
        <4>1. CASE last[p] = 0
          <5>1. list' = [list EXCEPT ![Slot(call[p])] = next[ip[p]]] /\ next' = next
            BY <2>9, <4>1 DEF Unlink
          <5> QED BY <5>1, <3>1, <3>2
        <4>2. CASE last[p] # 0
          <5>1. next' = [next EXCEPT ![last[p]] = next[ip[p]]] /\ list' = list
            BY <2>9, <4>2 DEF Unlink
          <5> QED BY <5>1, <4>2, <3>2, <3>3
        <4> QED BY <4>1, <4>2
      <3>5. \A j \in 1 .. Len(chain[Slot(call[p])]) :
              Without(chain[Slot(call[p])], j) \in Seq(Nodes)
        BY <2>9, <3>1, WithoutIs DEF Unlink
      <3>6. chain' \in [Index -> Seq(Nodes)]
        BY <2>9, <3>1, <3>5 DEF Unlink
      <3>7. pc' \in [Procs -> Places]
        BY <2>9, <3>1 DEF Unlink, Places, MidChange
      <3> QED BY <2>9, <3>2, <3>3, <3>4, <3>5, <3>6, <3>7 DEF Unlink
    <2>10. CASE UncountNode(p)
      <3>1. Slot(call[p]) \in Index
        BY <2>10, <1>0 DEF UncountNode, Inserting, Removing, UnderUserLock
      <3>2. num' \in [Index -> Int]
        BY <2>10, <3>1 DEF UncountNode
      <3>3. pc' \in [Procs -> Places]
        BY <2>10, <3>1 DEF UncountNode, Places, MidChange
      <3> QED BY <2>10, <3>2, <3>3 DEF UncountNode
    <2>11. CASE RecycleNode(p)
      BY <2>11 DEF RecycleNode, Places, MidChange
    <2>12. CASE RelinkNode(p)
      <3>1. ip[p] \in Nodes
        BY <2>12, <1>0 DEF RelinkNode, Inserting, Removing, UnderUserLock
      <3>2. next' \in [Nodes -> Pointers]
        BY <2>12, <3>1 DEF RelinkNode
      <3>3. pc' \in [Procs -> Places]
        BY <2>12, <3>1 DEF RelinkNode, Places, MidChange
      <3> QED BY <2>12, <3>2, <3>3 DEF RelinkNode
    <2>13. CASE PushFree(p)
      <3>1. ip[p] \in Nodes
        BY <2>13, <1>0 DEF PushFree, Inserting, Removing, UnderUserLock
      <3>2. free' \in Pointers
        BY <2>13, <3>1 DEF PushFree, Nodes, Pointers
      <3>3. freeq' \in Seq(Nodes)
        BY <2>13, <3>1, PushIs DEF PushFree
      <3>4. pc' \in [Procs -> Places]
        BY <2>13, <3>1 DEF PushFree, Places, MidChange
      <3> QED BY <2>13, <3>2, <3>3, <3>4 DEF PushFree
    <2> QED BY <1>5, <2>1, <2>2, <2>3, <2>4, <2>5, <2>6, <2>7,
               <2>8, <2>9, <2>10, <2>11, <2>12, <2>13
            DEF Change
  <1>6. ASSUME NEW p \in Procs, Unlock(p) PROVE TypeOK'
    <2> USE DEF TypeOK, counts, links, records, locks, locals, ghosts, faults, Goto
    <2>1. CASE UnlockUser(p)
      <3>1. /\ call' \in [Procs -> [op : Ops, key : Keys \cup Index \cup {0}, data : Values]]
            /\ ip' \in [Procs -> Pointers] /\ last' \in [Procs -> Pointers]
            /\ ret' \in [Procs -> Values \cup {None} \cup SUBSET (Keys \cup {0})]
            /\ seen' \in [Procs -> [idx : 0 .. IndexNum, used : Int, sum : Int]]
        BY <2>1, ForgetType DEF UnlockUser
      <3>2. Slot(call[p]) \in Index
        BY <2>1, <1>0 DEF UnlockUser, UnderUserLock
      <3>3. userLock' \in [Index -> Procs \cup {None}]
        BY <2>1, <3>2 DEF UnlockUser
      <3>4. pc' \in [Procs -> Places]
        BY <2>1 DEF UnlockUser, Places
      <3> QED BY <2>1, <3>1, <3>3, <3>4 DEF UnlockUser
    <2>2. CASE UnlockHead(p)
      BY <2>2 DEF UnlockHead, Places
    <2> QED BY <1>6, <2>1, <2>2 DEF Unlock
  <1>7. ASSUME NEW p \in Procs, Die(p) PROVE TypeOK'
    <2> USE DEF TypeOK, counts, links, records, locks, locals, ghosts, faults, Goto
    <2>1. /\ call' \in [Procs -> [op : Ops, key : Keys \cup Index \cup {0}, data : Values]]
          /\ ip' \in [Procs -> Pointers] /\ last' \in [Procs -> Pointers]
          /\ ret' \in [Procs -> Values \cup {None} \cup SUBSET (Keys \cup {0})]
          /\ seen' \in [Procs -> [idx : 0 .. IndexNum, used : Int, sum : Int]]
      BY <1>7, ForgetType DEF Die
    <2>2. pc' \in [Procs -> Places]
      BY <1>7 DEF Die, Places
    <2>3. pc[p] = "count" => Slot(call[p]) \in Index
      BY <1>0 DEF UnderUserLock, Inserting
    <2>4. deaths' \in 0 .. MaxDeaths /\ short' \in SUBSET Index
      BY <1>7, <2>3 DEF Die
    <2>5. broken' \in BOOLEAN
      BY <1>7 DEF Die
    <2>6. headLock' \in Procs \cup {None} /\ userLock' \in [Index -> Procs \cup {None}]
      BY <1>7 DEF Die
    <2> QED BY <1>7, <2>1, <2>2, <2>4, <2>5, <2>6 DEF Die
  <1> QED BY <1>1, <1>2, <1>3, <1>4, <1>5, <1>6, <1>7 DEF Next

(***************************************************************************)
(* Locks.                                                                  *)
(***************************************************************************)
Step(p) == Start(p) \/ Call(p) \/ Lookup(p) \/ Change(p) \/ Unlock(p) \/ Die(p)

\* A step that leaves the locals of q alone and takes no lock from it.
Keeps(q) ==
    /\ pc'[q] = pc[q] /\ call'[q] = call[q] /\ ip'[q] = ip[q]
    /\ last'[q] = last[q] /\ ret'[q] = ret[q] /\ seen'[q] = seen[q]
    /\ headLock = q => headLock' = q
    /\ \A i \in Index : userLock[i] = q => userLock'[i] = q

\* No process touches the locals or the locks of another one.
LEMMA OthersKeep ==
    ASSUME TypeOK, LockInv, NEW p \in Procs, NEW q \in Procs, q # p, Step(p)
    PROVE  Keeps(q)
  <1> USE DEF TypeOK, counts, links, records, locks, locals, ghosts, faults, Goto, Keeps
  <1>0. q # None /\ ProcLock(p)
    BY ValueAssumption DEF LockInv
  <1>1. CASE Start(p)
    <2>1. CASE StartFirst(p)
      BY <2>1 DEF StartFirst
    <2>2. CASE StartAgain(p)
      BY <2>2 DEF StartAgain
    <2>2a. CASE AddEntity(p)
      BY <2>2a DEF AddEntity
    <2>3. CASE ClearHead(p)
      BY <2>3 DEF ClearHead
    <2>4. CASE ClearNodes(p)
      BY <2>4 DEF ClearNodes
    <2>5. CASE VerifyIndex(p)
      BY <2>5 DEF VerifyIndex
    <2>6. CASE VerifyDone(p)
      BY <2>6 DEF VerifyDone
    <2>7. CASE VerifyFails(p)
      BY <2>7 DEF VerifyFails
    <2> QED BY <1>1, <2>1, <2>2, <2>2a, <2>3, <2>4, <2>5, <2>6, <2>7 DEF Start
  <1>2. CASE Call(p)
    <2>1. CASE InsertUserInfo(p)
      BY <2>1, <1>0 DEF InsertUserInfo, BeginWithHead
    <2>2. CASE RemoveUserInfoWhenInValid(p)
      BY <2>2, <1>0 DEF RemoveUserInfoWhenInValid, BeginWithHead
    <2>3. CASE AddFriendReq(p)
      BY <2>3, <1>0 DEF AddFriendReq, BeginWithUser, LockUser
    <2>4. CASE GetUserInfo(p)
      BY <2>4, <1>0 DEF GetUserInfo, BeginWithUser, LockUser
    <2>5. CASE CheckUserIsValid(p)
      BY <2>5, <1>0 DEF CheckUserIsValid
    <2> QED BY <1>2, <2>1, <2>2, <2>3, <2>4, <2>5 DEF Call
  <1>3. CASE Lookup(p)
    <2>1. CASE LockUserAfterHead(p)
      BY <2>1, <1>0 DEF LockUserAfterHead, LockUser
    <2>2. CASE SweepNext(p)
      BY <2>2 DEF SweepNext
    <2>3. CASE SweepEnd(p)
      BY <2>3 DEF SweepEnd
    <2>4. CASE SearchNext(p)
      BY <2>4 DEF SearchNext
    <2>5. CASE Nothing(p)
      BY <2>5 DEF Nothing
    <2>6. CASE Get(p)
      BY <2>6 DEF Get
    <2> QED BY <1>3, <2>1, <2>2, <2>3, <2>4, <2>5, <2>6 DEF Lookup
  <1>4. CASE Change(p)
    <2>1. CASE UpdateFirst(p)
      BY <2>1 DEF UpdateFirst
    <2>2. CASE UpdateRest(p)
      BY <2>2 DEF UpdateRest
    <2>3. CASE NoSpace(p)
      BY <2>3 DEF NoSpace
    <2>4. CASE GetFreeNode(p)
      BY <2>4 DEF GetFreeNode
    <2>5. CASE TakeFree(p)
      BY <2>5 DEF TakeFree
    <2>6. CASE FillNode(p)
      BY <2>6 DEF FillNode
    <2>7. CASE LinkNode(p)
      BY <2>7 DEF LinkNode
    <2>8. CASE CountNode(p)
      BY <2>8 DEF CountNode
    <2>9. CASE Unlink(p)
      BY <2>9 DEF Unlink
    <2>10. CASE UncountNode(p)
      BY <2>10 DEF UncountNode
    <2>11. CASE RecycleNode(p)
      BY <2>11 DEF RecycleNode
    <2>12. CASE RelinkNode(p)
      BY <2>12 DEF RelinkNode
    <2>13. CASE PushFree(p)
      BY <2>13 DEF PushFree
    <2> QED BY <1>4, <2>1, <2>2, <2>3, <2>4, <2>5, <2>6, <2>7,
               <2>8, <2>9, <2>10, <2>11, <2>12, <2>13
            DEF Change
  <1>5. CASE Unlock(p)
    <2>1. CASE UnlockUser(p)
      BY <2>1, <1>0 DEF UnlockUser, Forget, ProcLock, UnderUserLock, UnderHeadLock
    <2>2. CASE UnlockHead(p)
      BY <2>2, <1>0 DEF UnlockHead, ProcLock, UnderUserLock, UnderHeadLock
    <2> QED BY <1>5, <2>1, <2>2 DEF Unlock
  <1>6. CASE Die(p)
    BY <1>6 DEF Die, Forget
  <1> QED BY <1>1, <1>2, <1>3, <1>4, <1>5, <1>6 DEF Step

\* What a process knows of its locks stays true while others run.
LEMMA LockFrame ==
    ASSUME TypeOK, NEW q \in Procs, ProcLock(q), Keeps(q)
    PROVE  ProcLock(q)'
  <1>1. pc[q] \in UnderUserLock => userLock'[Slot(call[q])] = q
    <2>1. ASSUME pc[q] \in UnderUserLock PROVE userLock'[Slot(call[q])] = q
      <3>1. Slot(call[q]) \in Index
        BY <2>1, SlotType
      <3> QED BY <2>1, <3>1 DEF Keeps, ProcLock
    <2> QED BY <2>1
  <1> QED BY <1>1 DEF Keeps, ProcLock, Slot

\* Every process has the locks its place calls for.
LEMMA LockOwn ==
    ASSUME TypeOK, LockInv, NEW p \in Procs, Step(p)
    PROVE  ProcLock(p)'
  <1> USE DEF TypeOK, counts, links, records, locks, locals, ghosts, faults, Goto,
              UnderUserLock, UnderHeadLock, WholeOps, Inserting, Removing
  <1>0. /\ ProcLock(p)
        /\ ip[p] # 0 => ip[p] \in Nodes
    BY DEF LockInv, Pointers, Nodes
  <1>1. CASE Start(p)
    <2>1. CASE StartFirst(p)
      BY <1>0, <2>1 DEF StartFirst, ProcLock, Slot
    <2>2. CASE StartAgain(p)
      BY <1>0, <2>2 DEF StartAgain, ProcLock, Slot
    <2>2a. CASE AddEntity(p)
      BY <1>0, <2>2a DEF AddEntity, ProcLock, Slot
    <2>3. CASE ClearHead(p)
      BY <1>0, <2>3 DEF ClearHead, ProcLock, Slot
    <2>4. CASE ClearNodes(p)
      BY <1>0, <2>4 DEF ClearNodes, ProcLock, Slot
    <2>5. CASE VerifyIndex(p)
      BY <1>0, <2>5 DEF VerifyIndex, ProcLock, Slot
    <2>6. CASE VerifyDone(p)
      BY <1>0, <2>6 DEF VerifyDone, ProcLock, Slot
    <2>7. CASE VerifyFails(p)
      BY <1>0, <2>7 DEF VerifyFails, ProcLock, Slot
    <2> QED BY <1>1, <2>1, <2>2, <2>2a, <2>3, <2>4, <2>5, <2>6, <2>7 DEF Start
  <1>2. CASE Call(p)
    <2>1. CASE InsertUserInfo(p)
      BY <1>0, <2>1 DEF InsertUserInfo, BeginWithHead, ProcLock, Slot
    <2>2. CASE RemoveUserInfoWhenInValid(p)
      BY <1>0, <2>2 DEF RemoveUserInfoWhenInValid, BeginWithHead, ProcLock, Slot
    <2>3. CASE AddFriendReq(p)
      BY <1>0, <2>3, HashType DEF AddFriendReq, BeginWithUser, LockUser, ProcLock, Slot
    <2>4. CASE GetUserInfo(p)
      BY <1>0, <2>4, HashType DEF GetUserInfo, BeginWithUser, LockUser, ProcLock, Slot
    <2>5. CASE CheckUserIsValid(p)
      BY <1>0, <2>5, HashType DEF CheckUserIsValid, ProcLock, Slot
    <2> QED BY <1>2, <2>1, <2>2, <2>3, <2>4, <2>5 DEF Call
  <1>3. CASE Lookup(p)
    <2>1. CASE LockUserAfterHead(p)
      BY <1>0, <2>1, SlotType DEF LockUserAfterHead, LockUser, ProcLock, Slot
    <2>2. CASE SweepNext(p)
      BY <1>0, <2>2 DEF SweepNext, ProcLock, Slot
    <2>3. CASE SweepEnd(p)
      BY <1>0, <2>3 DEF SweepEnd, ProcLock, Slot
    <2>4. CASE SearchNext(p)
      BY <1>0, <2>4 DEF SearchNext, ProcLock, Slot
    <2>5. CASE Nothing(p)
      BY <1>0, <2>5 DEF Nothing, Found, Missing, ProcLock, Slot
    <2>6. CASE Get(p)
      BY <1>0, <2>6 DEF Get, Found, Missing, ProcLock, Slot
    <2> QED BY <1>3, <2>1, <2>2, <2>3, <2>4, <2>5, <2>6 DEF Lookup
  <1>4. CASE Change(p)
    <2>1. CASE UpdateFirst(p)
      BY <1>0, <2>1 DEF UpdateFirst, Found, ProcLock, Slot
    <2>2. CASE UpdateRest(p)
      BY <1>0, <2>2 DEF UpdateRest, ProcLock, Slot
    <2>3. CASE NoSpace(p)
      BY <1>0, <2>3 DEF NoSpace, Missing, ProcLock, Slot
    <2>4. CASE GetFreeNode(p)
      BY <1>0, <2>4 DEF GetFreeNode, Missing, Exhausted, Pointers, Nodes, ProcLock, Slot
    <2>5. CASE TakeFree(p)
      BY <1>0, <2>5 DEF TakeFree, ProcLock, Slot
    <2>6. CASE FillNode(p)
      BY <1>0, <2>6 DEF FillNode, ProcLock, Slot
    <2>7. CASE LinkNode(p)
      BY <1>0, <2>7 DEF LinkNode, ProcLock, Slot
    <2>8. CASE CountNode(p)
      BY <1>0, <2>8 DEF CountNode, ProcLock, Slot
    <2>9. CASE Unlink(p)
      BY <1>0, <2>9 DEF Unlink, Found, ProcLock, Slot
    <2>10. CASE UncountNode(p)
      BY <1>0, <2>10 DEF UncountNode, ProcLock, Slot
    <2>11. CASE RecycleNode(p)
      BY <1>0, <2>11 DEF RecycleNode, ProcLock, Slot
    <2>12. CASE RelinkNode(p)
      BY <1>0, <2>12 DEF RelinkNode, ProcLock, Slot
    <2>13. CASE PushFree(p)
      BY <1>0, <2>13 DEF PushFree, ProcLock, Slot
    <2> QED BY <1>4, <2>1, <2>2, <2>3, <2>4, <2>5, <2>6, <2>7,
               <2>8, <2>9, <2>10, <2>11, <2>12, <2>13
            DEF Change
  <1>5. CASE Unlock(p)
    <2>1. CASE UnlockUser(p)
      BY <1>0, <2>1 DEF UnlockUser, Forget, NoCall, ProcLock, Slot
    <2>2. CASE UnlockHead(p)
      BY <1>0, <2>2 DEF UnlockHead, ProcLock, Slot
    <2> QED BY <1>5, <2>1, <2>2 DEF Unlock
  <1>6. CASE Die(p)
    BY <1>0, <1>6 DEF Die, Forget, NoCall, ProcLock
  <1> QED BY <1>1, <1>2, <1>3, <1>4, <1>5, <1>6 DEF Step

\* The locks are kept by every step.
LEMMA LockStep ==
    ASSUME TypeOK, LockInv, NEW p \in Procs, Step(p)
    PROVE  LockInv'
  <1> SUFFICES ASSUME NEW q \in Procs PROVE ProcLock(q)'
    BY DEF LockInv
  <1>1. CASE q = p
    BY <1>1, LockOwn
  <1>2. CASE q # p
    <2>1. Keeps(q)
      BY <1>2, OthersKeep
    <2> QED BY <2>1, LockFrame DEF LockInv
  <1> QED BY <1>1, <1>2

(***************************************************************************)
(* The table comes into being.                                             *)
(***************************************************************************)

\* Once a process is in a call, the table is set up for good.
LEMMA BootFrame ==
    ASSUME TypeOK, BootInv, NEW p \in Procs,
           pc[p] \notin {"down", "clear", "clearnodes", "verify"},
           pc'[p] \notin {"clear", "clearnodes"},
           \A q \in Procs : q # p => pc'[q] = pc[q],
           magic' = magic, formed' = formed
    PROVE  BootInv'
  <1>1. magic /\ formed
    BY DEF BootInv, TypeOK
  <1>2. \A q \in Procs : pc[q] \notin {"clear", "clearnodes"}
    BY DEF BootInv
  <1>3. \A q \in Procs : pc'[q] \notin {"clear", "clearnodes"}
    BY <1>2
  <1> QED BY <1>1, <1>3 DEF BootInv

\* The set-up of the table is kept by every step.
LEMMA BootStep ==
    ASSUME TypeOK, BootInv, NEW p \in Procs, Step(p)
    PROVE  BootInv'
  <1> USE DEF counts, links, records, locks, locals, ghosts, faults, Goto
  <1>1. CASE Start(p)
    <2> USE DEF BootInv, TypeOK
    <2>1. CASE StartFirst(p)
      BY <2>1 DEF StartFirst
    <2>2. CASE StartAgain(p)
      BY <2>2 DEF StartAgain, Starting
    <2>2a. CASE AddEntity(p)
      BY <2>2a DEF AddEntity, Starting
    <2>3. CASE ClearHead(p)
      BY <2>3 DEF ClearHead
    <2>4. CASE ClearNodes(p)
      BY <2>4 DEF ClearNodes
    <2>5. CASE VerifyIndex(p)
      <3>1. seen[p].idx \in Index
        BY <2>5, SizeAssumption DEF VerifyIndex, Index
      <3>2. ~formed => Length(list[seen[p].idx]) = 0
        BY <2>5, <3>1 DEF VerifyIndex, VerifyIndexOK
      <3>3. ~formed => pc'[p] = "verify" /\ seen'[p].used = 0 /\ seen'[p].sum = 1
        BY <2>5, <3>2 DEF VerifyIndex
      <3>4. \A q \in Procs : q # p => seen'[q] = seen[q]
        BY <2>5 DEF VerifyIndex
      <3>5. UNCHANGED <<magic, formed, used, num, chain, free, pc>>
        BY <2>5 DEF VerifyIndex
      <3> QED BY <3>3, <3>4, <3>5
    <2>6. CASE VerifyDone(p)
      BY <2>6 DEF VerifyDone
    <2>7. CASE VerifyFails(p)
      BY <2>7 DEF VerifyFails
    <2> QED BY <1>1, <2>1, <2>2, <2>2a, <2>3, <2>4, <2>5, <2>6, <2>7 DEF Start
  <1>2. CASE Call(p)
    <2>0. SUFFICES /\ pc[p] \notin {"down", "clear", "clearnodes", "verify"}
                   /\ pc'[p] \notin {"clear", "clearnodes"}
                   /\ \A q \in Procs : q # p => pc'[q] = pc[q]
                   /\ magic' = magic /\ formed' = formed
      BY BootFrame
    <2> USE DEF TypeOK
    <2>1. CASE InsertUserInfo(p)
      BY <2>1 DEF InsertUserInfo, BeginWithHead
    <2>2. CASE RemoveUserInfoWhenInValid(p)
      BY <2>2 DEF RemoveUserInfoWhenInValid, BeginWithHead
    <2>3. CASE AddFriendReq(p)
      BY <2>3 DEF AddFriendReq, BeginWithUser, LockUser
    <2>4. CASE GetUserInfo(p)
      BY <2>4 DEF GetUserInfo, BeginWithUser, LockUser
    <2>5. CASE CheckUserIsValid(p)
      BY <2>5 DEF CheckUserIsValid
    <2> QED BY <1>2, <2>1, <2>2, <2>3, <2>4, <2>5 DEF Call
  <1>3. CASE Lookup(p)
    <2>0. SUFFICES /\ pc[p] \notin {"down", "clear", "clearnodes", "verify"}
                   /\ pc'[p] \notin {"clear", "clearnodes"}
                   /\ \A q \in Procs : q # p => pc'[q] = pc[q]
                   /\ magic' = magic /\ formed' = formed
      BY BootFrame
    <2> USE DEF TypeOK
    <2>1. CASE LockUserAfterHead(p)
      BY <2>1 DEF LockUserAfterHead, LockUser
    <2>2. CASE SweepNext(p)
      BY <2>2 DEF SweepNext
    <2>3. CASE SweepEnd(p)
      BY <2>3 DEF SweepEnd
    <2>4. CASE SearchNext(p)
      BY <2>4 DEF SearchNext
    <2>5. CASE Nothing(p)
      BY <2>5 DEF Nothing, Found, Missing
    <2>6. CASE Get(p)
      BY <2>6 DEF Get, Found, Missing
    <2> QED BY <1>3, <2>1, <2>2, <2>3, <2>4, <2>5, <2>6 DEF Lookup
  <1>4. CASE Change(p)
    <2>0. SUFFICES /\ pc[p] \notin {"down", "clear", "clearnodes", "verify"}
                   /\ pc'[p] \notin {"clear", "clearnodes"}
                   /\ \A q \in Procs : q # p => pc'[q] = pc[q]
                   /\ magic' = magic /\ formed' = formed
      BY BootFrame
    <2> USE DEF TypeOK
    <2>1. CASE UpdateFirst(p)
      BY <2>1 DEF UpdateFirst, Found
    <2>2. CASE UpdateRest(p)
      BY <2>2 DEF UpdateRest
    <2>3. CASE NoSpace(p)
      BY <2>3 DEF NoSpace, Missing
    <2>4. CASE GetFreeNode(p)
      BY <2>4 DEF GetFreeNode, Missing
    <2>5. CASE TakeFree(p)
      BY <2>5 DEF TakeFree
    <2>6. CASE FillNode(p)
      BY <2>6 DEF FillNode
    <2>7. CASE LinkNode(p)
      BY <2>7 DEF LinkNode
    <2>8. CASE CountNode(p)
      BY <2>8 DEF CountNode
    <2>9. CASE Unlink(p)
      BY <2>9 DEF Unlink, Found
    <2>10. CASE UncountNode(p)
      BY <2>10 DEF UncountNode
    <2>11. CASE RecycleNode(p)
      BY <2>11 DEF RecycleNode
    <2>12. CASE RelinkNode(p)
      BY <2>12 DEF RelinkNode
    <2>13. CASE PushFree(p)
      BY <2>13 DEF PushFree
    <2> QED BY <1>4, <2>1, <2>2, <2>3, <2>4, <2>5, <2>6, <2>7,
               <2>8, <2>9, <2>10, <2>11, <2>12, <2>13
            DEF Change
  <1>5. CASE Unlock(p)
    <2>0. SUFFICES /\ pc[p] \notin {"down", "clear", "clearnodes", "verify"}
                   /\ pc'[p] \notin {"clear", "clearnodes"}
                   /\ \A q \in Procs : q # p => pc'[q] = pc[q]
                   /\ magic' = magic /\ formed' = formed
      BY BootFrame
    <2> USE DEF TypeOK
    <2>1. CASE UnlockUser(p)
      BY <2>1 DEF UnlockUser
    <2>2. CASE UnlockHead(p)
      BY <2>2 DEF UnlockHead
    <2> QED BY <1>5, <2>1, <2>2 DEF Unlock
  <1>6. CASE Die(p)
    <2>1. UNCHANGED <<magic, formed, used, num, chain, free>>
      BY <1>6 DEF Die
    <2>2. pc'[p] = "down" \/ (pc'[p] = "dead" /\ ~Starting(p) /\ pc[p] # "down")
      BY <1>6 DEF Die, TypeOK
    <2>3. \A q \in Procs : q # p => pc'[q] = pc[q] /\ seen'[q] = seen[q]
      BY <1>6 DEF Die, Forget, TypeOK
    <2>4. CASE pc'[p] = "down"
      BY <2>1, <2>3, <2>4 DEF BootInv
    <2>5. CASE pc'[p] = "dead" /\ ~Starting(p) /\ pc[p] # "down"
      BY <2>1, <2>3, <2>5, BootFrame DEF Starting
    <2> QED BY <2>2, <2>4, <2>5
  <1> QED BY <1>1, <1>2, <1>3, <1>4, <1>5, <1>6 DEF Step

(***************************************************************************)
(* The walks.                                                              *)
(***************************************************************************)
Structure == <<free, list, next, key, chain, freeq>>

\* A step that changes the lists is made with both locks held, and outside the
\* locked chain it leaves the keys on the chains alone.
Guarded(p) ==
    \/ UNCHANGED Structure
    \/ /\ headLock = p
       /\ pc[p] \in UnderUserLock
       /\ \A i \in Index \ {Slot(call[p])} :
            /\ chain'[i] = chain[i]
            /\ \A n \in Elems(chain[i]) : key'[n] = key[n]

\* Guarded steps do not disturb the walks of others.
LEMMA WalkFrame ==
    ASSUME TypeOK, LockInv, WalkInv, NEW p \in Procs, NEW q \in Procs, q # p,
           Keeps(q), Guarded(p)
    PROVE  ProcWalk(q)'
  <1>0. ProcWalk(q) /\ ProcLock(q) /\ ProcLock(p)
    BY DEF WalkInv, LockInv
  <1>1. CASE UNCHANGED Structure
    BY <1>0, <1>1 DEF ProcWalk, Keeps, Structure, Loose, Fresh, At, Slot
  <1>2. CASE ~UNCHANGED Structure
    <2>1. headLock # q
      BY <1>2 DEF Guarded
    <2>2. pc'[q] \notin Inserting \cup Removing
      BY <1>0, <2>1 DEF Keeps, ProcLock, UnderHeadLock
    <2>3. ASSUME pc[q] = "search"
          PROVE  IF ip'[q] = 0 THEN Fresh(q)'
                 ELSE \E j \in 1 .. Len(chain'[Slot(call'[q])]) : At(q, j)'
      <3> DEFINE i == Slot(call[q])
      <3>1. i \in Index
        BY <1>0, <2>3, SlotType DEF UnderUserLock
      <3>2. i # Slot(call[p])
        BY <1>0, <1>2, <2>3 DEF Guarded, ProcLock, UnderUserLock
      <3>3. chain'[i] = chain[i] /\ \A n \in Elems(chain[i]) : key'[n] = key[n]
        BY <1>2, <3>1, <3>2 DEF Guarded
      <3>4. call'[q] = call[q] /\ ip'[q] = ip[q] /\ last'[q] = last[q]
        BY DEF Keeps
      <3>5. CASE ip[q] = 0
        BY <1>0, <2>3, <3>3, <3>4, <3>5 DEF ProcWalk, Fresh
      <3>6. CASE ip[q] # 0
        <4>1. PICK j \in 1 .. Len(chain[i]) : At(q, j)
          BY <1>0, <2>3, <3>6 DEF ProcWalk
        <4>2. chain[i] \in Seq(Nodes)
          BY <3>1 DEF TypeOK
        <4>3. \A l \in 1 .. (j - 1) : key'[chain[i][l]] = key[chain[i][l]]
          BY <3>3, <4>2 DEF Elems
        <4>4. At(q, j)'
          BY <3>3, <3>4, <4>1, <4>3 DEF At
        <4> QED BY <3>3, <3>4, <3>6, <4>4
      <3> QED BY <3>5, <3>6
    <2> QED BY <2>2, <2>3 DEF Keeps, ProcWalk, Inserting, Removing
  <1> QED BY <1>1, <1>2

\* No node is on two chains.
LEMMA OneChain ==
    ASSUME LinkInv, formed, NEW i \in Index, NEW k \in Index,
           NEW n \in Elems(chain[i]), n \in Elems(chain[k])
    PROVE  i = k
  BY DEF LinkInv

\* A process in a call finds the table set up.
LEMMA FormedFor ==
    ASSUME BootInv, NEW p \in Procs, pc[p] \notin {"down", "clear", "verify"}
    PROVE  formed
  BY DEF BootInv

\* A search begins at the head of its chain.
LEMMA WalkBegin ==
    ASSUME TypeOK, LinkInv, formed, NEW p \in Procs, NEW i \in Index,
           UNCHANGED Structure, Slot(call'[p]) = i, ip'[p] = list[i], last'[p] = 0,
           pc'[p] = "search"
    PROVE  ProcWalk(p)'
  <1> DEFINE s == chain[i]
  <1>1. s \in Seq(Nodes) /\ list[i] = IF Len(s) = 0 THEN 0 ELSE s[1]
    BY DEF TypeOK, LinkInv, ListOf
  <1>2. chain'[Slot(call'[p])] = s
    BY DEF Structure
  <1>3. CASE Len(s) = 0
    <2>1. Fresh(p)' /\ ip'[p] = 0
      BY <1>1, <1>2, <1>3 DEF Fresh, Elems
    <2> QED BY <2>1 DEF ProcWalk, Removing
  <1>4. CASE Len(s) # 0
    <2>1. 1 \in 1 .. Len(s) /\ s[1] \in Nodes
      BY <1>1, <1>4
    <2>2. At(p, 1)'
      BY <1>1, <1>2, <1>4 DEF At
    <2>3. ip'[p] # 0
      BY <1>1, <1>4, <2>1 DEF Nodes
    <2> QED BY <1>2, <2>1, <2>2, <2>3 DEF ProcWalk, Removing
  <1> QED BY <1>3, <1>4

\* A search goes on to the next node of its chain.
LEMMA WalkOn ==
    ASSUME TypeOK, LockInv, WalkInv, LinkInv, formed, NEW p \in Procs, SearchNext(p)
    PROVE  ProcWalk(p)'
  <1> DEFINE i == Slot(call[p])
             s == chain[i]
  <1>0. ProcLock(p) /\ ProcWalk(p) /\ pc[p] = "search" /\ ip[p] # 0
    BY DEF LockInv, WalkInv, SearchNext
  <1>1. i \in Index /\ s \in Seq(Nodes)
    BY <1>0, SlotType DEF UnderUserLock, TypeOK
  <1>2. PICK j \in 1 .. Len(s) : At(p, j)
    BY <1>0 DEF ProcWalk
  <1>3. ip[p] = s[j] /\ key[s[j]] # call[p].key
        /\ \A l \in 1 .. (j - 1) : key[s[l]] # call[p].key
    BY <1>2 DEF At, SearchNext
  <1>4. next[s[j]] = IF j = Len(s) THEN 0 ELSE s[j + 1]
    BY <1>1, <1>2 DEF LinkInv, ListOf
  <1>5. /\ pc'[p] = "search" /\ call'[p] = call[p] /\ chain' = chain /\ key' = key
        /\ ip'[p] = next[s[j]] /\ last'[p] = s[j]
    BY <1>0, <1>3 DEF SearchNext, TypeOK, links, records, ghosts
  <1>6. \A l \in 1 .. j : key[s[l]] # call[p].key
    BY <1>1, <1>3
  <1>7. chain'[Slot(call'[p])] = s
    BY <1>5
  <1> HIDE DEF s
  <1>8. CASE j = Len(s)
    <2>1. Fresh(p)' /\ ip'[p] = 0
      BY <1>4, <1>5, <1>6, <1>7, <1>8 DEF Fresh, Elems
    <2> QED BY <1>5, <2>1 DEF ProcWalk, Removing
  <1>9. CASE j # Len(s)
    <2>1. j + 1 \in 1 .. Len(s) /\ s[j + 1] \in Nodes /\ (j + 1) - 1 = j /\ j + 1 # 1
      BY <1>1, <1>9
    <2>2. ip'[p] = s[j + 1] /\ ip'[p] # 0
      BY <1>4, <1>5, <1>9, <2>1 DEF Nodes
    <2>3. At(p, j + 1)'
      BY <1>5, <1>6, <1>7, <2>1, <2>2 DEF At
    <2> QED BY <1>5, <1>7, <2>1, <2>2, <2>3 DEF ProcWalk, Removing
  <1> QED BY <1>8, <1>9

(***************************************************************************)
(* The steps that change the lists.                                        *)
(***************************************************************************)

\* What a process half way through an Insert or Remove can rely on.
LEMMA Midway ==
    ASSUME TypeOK, LockInv, WalkInv, BootInv, NEW p \in Procs,
           pc[p] \in Inserting \cup Removing
    PROVE  /\ formed /\ headLock = p /\ pc[p] \in UnderUserLock
           /\ Slot(call[p]) \in Index /\ ip[p] \in Nodes
           /\ ProcWalk(p) /\ ProcLock(p)
  <1>1. ProcLock(p) /\ ProcWalk(p)
    BY DEF LockInv, WalkInv
  <1>2. pc[p] \notin {"down", "clear", "verify"} /\ pc[p] \in UnderUserLock
    BY DEF Inserting, Removing, UnderUserLock
  <1>3. formed
    BY <1>2, FormedFor
  <1>4. Slot(call[p]) \in Index
    BY <1>1, <1>2, SlotType
  <1> QED BY <1>1, <1>2, <1>3, <1>4 DEF ProcLock, UnderHeadLock

\* Pointers and keys of a node on no list do not matter.
LEMMA LooseWrite ==
    ASSUME TypeOK, LinkInv, formed, NEW n, Loose(n), formed' = formed,
           UNCHANGED <<free, freeq, list, chain>>,
           \A m \in Nodes \ {n} : next'[m] = next[m] /\ key'[m] = key[m]
    PROVE  LinkInv'
  <1>1. ASSUME NEW m, m \in Elems(freeq) \/ \E i \in Index : m \in Elems(chain[i])
        PROVE  next'[m] = next[m] /\ key'[m] = key[m]
    <2>1. m \in Nodes /\ m # n
      BY <1>1 DEF TypeOK, Loose, Elems
    <2> QED BY <2>1
  <1>2. ListOf(free', freeq', next')
    <2>1. freeq \in Seq(Nodes) /\ ListOf(free, freeq, next)
      BY DEF TypeOK, LinkInv
    <2>2. ListOf(free, freeq, next')
      BY <1>1, <2>1, ListFrame
    <2> QED BY <2>2
  <1>3. ASSUME NEW i \in Index PROVE ListOf(list'[i], chain'[i], next')
    <2>1. chain[i] \in Seq(Nodes) /\ ListOf(list[i], chain[i], next)
      BY DEF TypeOK, LinkInv
    <2>2. ListOf(list[i], chain[i], next')
      BY <1>1, <2>1, ListFrame
    <2> QED BY <2>2
  <1>4. ASSUME NEW i \in Index
        PROVE  /\ Injective(chain'[i])
               /\ \A m \in Elems(chain'[i]) :
                    m \notin Elems(freeq') /\ key'[m] \in Keys /\ Hash(key'[m]) = i
               /\ \A n1, n2 \in Elems(chain'[i]) : key'[n1] = key'[n2] => n1 = n2
    <2>1. chain'[i] = chain[i] /\ freeq' = freeq
      OBVIOUS
    <2>2. \A m \in Elems(chain[i]) : key'[m] = key[m]
      BY <1>1
    <2> QED BY <2>1, <2>2 DEF LinkInv
  <1> QED BY <1>2, <1>3, <1>4 DEF LinkInv

\* TakeFree moves the first free node off the free list.
LEMMA TakeStep ==
    ASSUME TypeOK, LockInv, WalkInv, BootInv, LinkInv, NEW p \in Procs, TakeFree(p)
    PROVE  LinkInv' /\ ProcWalk(p)' /\ Guarded(p)
  <1>0. pc[p] = "take" /\ pc[p] \in Inserting \cup Removing
    BY DEF TakeFree, Inserting
  <1>1. /\ formed /\ headLock = p /\ pc[p] \in UnderUserLock /\ ip[p] \in Nodes
        /\ Slot(call[p]) \in Index /\ ProcWalk(p)
    BY <1>0, Midway
  <1>2. /\ freeq \in Seq(Nodes) /\ freeq # <<>> /\ ip[p] = freeq[1]
        /\ ListOf(free, freeq, next) /\ Injective(freeq)
    BY <1>0, <1>1 DEF TypeOK, ProcWalk, LinkInv
  <1>3. /\ free' = next[freeq[1]] /\ freeq' = Tail(freeq)
        /\ UNCHANGED <<list, next, key, chain, formed, call, ip>> /\ pc'[p] = "fill"
    BY <1>2 DEF TakeFree, Goto, TypeOK, records, locals
  <1>4. ListOf(free', freeq', next')
    BY <1>2, <1>3, ListTail
  <1>5. Elems(freeq') = Elems(freeq) \ {ip[p]} /\ Injective(freeq')
    BY <1>2, <1>3, LeftOver
  <1>6. LinkInv'
    BY <1>1, <1>3, <1>4, <1>5 DEF LinkInv
  <1>7. Loose(ip[p])'
    <2>1. ip[p] \in Elems(freeq)
      <3>1. 1 \in 1 .. Len(freeq)
        BY <1>2, TailIs
      <3> QED BY <1>2, <3>1 DEF Elems
    <2>2. \A i \in Index : ip[p] \notin Elems(chain[i])
      BY <1>1, <2>1 DEF LinkInv
    <2> QED BY <1>1, <1>3, <1>5, <2>2 DEF Loose
  <1>8. Fresh(p)'
    BY <1>0, <1>1, <1>3 DEF ProcWalk, Fresh
  <1>9. ProcWalk(p)'
    BY <1>3, <1>7, <1>8 DEF ProcWalk, Removing
  <1>10. Guarded(p)
    BY <1>1, <1>3 DEF Guarded
  <1> QED BY <1>6, <1>9, <1>10

\* FillNode writes a node that is on no list.
LEMMA FillStep ==
    ASSUME TypeOK, LockInv, WalkInv, BootInv, LinkInv, NEW p \in Procs, FillNode(p)
    PROVE  LinkInv' /\ ProcWalk(p)' /\ Guarded(p)
  <1>0. pc[p] = "fill" /\ pc[p] \in Inserting \cup Removing
    BY DEF FillNode, Inserting
  <1>1. /\ formed /\ headLock = p /\ pc[p] \in UnderUserLock /\ ip[p] \in Nodes
        /\ Slot(call[p]) \in Index /\ ProcWalk(p)
    BY <1>0, Midway
  <1>2. Loose(ip[p]) /\ Fresh(p)
    BY <1>0, <1>1 DEF ProcWalk
  <1>3. /\ UNCHANGED <<free, freeq, list, chain, formed, call, ip>> /\ pc'[p] = "link"
        /\ key'[ip[p]] = call[p].key /\ next'[ip[p]] = list[Slot(call[p])]
        /\ \A m \in Nodes \ {ip[p]} : next'[m] = next[m] /\ key'[m] = key[m]
    BY <1>1 DEF FillNode, Goto, TypeOK, locals, ghosts
  <1>4. LinkInv'
    BY <1>1, <1>2, <1>3, LooseWrite
  <1>5. \A i \in Index : \A n \in Elems(chain[i]) : n \in Nodes \ {ip[p]}
    BY <1>2 DEF Loose, Elems, TypeOK
  <1>6. Loose(ip[p])' /\ Fresh(p)'
    BY <1>1, <1>2, <1>3, <1>5 DEF Loose, Fresh
  <1>7. ProcWalk(p)'
    BY <1>3, <1>6 DEF ProcWalk, Removing
  <1>8. Guarded(p)
    BY <1>1, <1>3, <1>5 DEF Guarded
  <1> QED BY <1>4, <1>7, <1>8

\* RelinkNode points a node that is on no list to the free list.
LEMMA RelinkStep ==
    ASSUME TypeOK, LockInv, WalkInv, BootInv, LinkInv, NEW p \in Procs, RelinkNode(p)
    PROVE  LinkInv' /\ ProcWalk(p)' /\ Guarded(p)
  <1>0. pc[p] = "relink" /\ pc[p] \in Inserting \cup Removing
    BY DEF RelinkNode, Removing
  <1>1. /\ formed /\ headLock = p /\ pc[p] \in UnderUserLock /\ ip[p] \in Nodes
        /\ ProcWalk(p)
    BY <1>0, Midway
  <1>2. Loose(ip[p])
    BY <1>0, <1>1 DEF ProcWalk, Removing
  <1>3. /\ UNCHANGED <<free, freeq, list, chain, key, formed, call, ip>>
        /\ pc'[p] = "push" /\ next'[ip[p]] = free
        /\ \A m \in Nodes \ {ip[p]} : next'[m] = next[m] /\ key'[m] = key[m]
    BY <1>1 DEF RelinkNode, Goto, TypeOK, locals, ghosts, records
  <1>4. LinkInv'
    BY <1>1, <1>2, <1>3, LooseWrite
  <1>5. ProcWalk(p)'
    BY <1>2, <1>3 DEF ProcWalk, Loose
  <1>6. Guarded(p)
    BY <1>1, <1>3 DEF Guarded
  <1> QED BY <1>4, <1>5, <1>6

\* PushFree puts a node that is on no list on the free list.
LEMMA PushStep ==
    ASSUME TypeOK, LockInv, WalkInv, BootInv, LinkInv, NEW p \in Procs, PushFree(p)
    PROVE  LinkInv' /\ ProcWalk(p)' /\ Guarded(p)
  <1>0. pc[p] = "push" /\ pc[p] \in Inserting \cup Removing
    BY DEF PushFree, Removing
  <1>1. /\ formed /\ headLock = p /\ pc[p] \in UnderUserLock /\ ip[p] \in Nodes
        /\ ProcWalk(p)
    BY <1>0, Midway
  <1>2. Loose(ip[p]) /\ next[ip[p]] = free
    BY <1>0, <1>1 DEF ProcWalk, Removing
  <1>3. /\ UNCHANGED <<list, next, chain, key, formed>> /\ pc'[p] = "unlock"
        /\ free' = ip[p] /\ freeq' = <<ip[p]>> \o freeq
    BY <1>1 DEF PushFree, Goto, TypeOK, records
  <1>4. freeq \in Seq(Nodes) /\ ListOf(free, freeq, next) /\ Injective(freeq)
    BY <1>1 DEF TypeOK, LinkInv
  <1>5. ListOf(free', freeq', next')
    BY <1>1, <1>2, <1>3, <1>4, ListPush
  <1>6. Injective(freeq') /\ Elems(freeq') = Elems(freeq) \cup {ip[p]}
    BY <1>1, <1>2, <1>3, <1>4, InjectivePush, PushIs DEF Loose
  <1>7. LinkInv'
    BY <1>1, <1>2, <1>3, <1>5, <1>6 DEF LinkInv, Loose
  <1>8. ProcWalk(p)'
    BY <1>3 DEF ProcWalk, Removing
  <1>9. Guarded(p)
    BY <1>1, <1>3 DEF Guarded
  <1> QED BY <1>7, <1>8, <1>9

\* LinkNode puts the filled node in front of its chain.
LEMMA LinkStep ==
    ASSUME TypeOK, LockInv, WalkInv, BootInv, LinkInv, NEW p \in Procs, LinkNode(p)
    PROVE  LinkInv' /\ ProcWalk(p)' /\ Guarded(p)
  <1> DEFINE i0 == Slot(call[p])
             n == ip[p]
             s == chain[i0]
  <1>0. pc[p] = "link" /\ pc[p] \in Inserting \cup Removing
    BY DEF LinkNode, Inserting
  <1>1. /\ formed /\ headLock = p /\ pc[p] \in UnderUserLock /\ n \in Nodes
        /\ i0 \in Index /\ ProcWalk(p) /\ ProcLock(p)
    BY <1>0, Midway
  <1>2. Loose(n) /\ Fresh(p) /\ key[n] = call[p].key /\ next[n] = list[i0]
    BY <1>0, <1>1 DEF ProcWalk
  <1>3. call[p].key \in Keys /\ Hash(call[p].key) = i0
    BY <1>0, <1>1 DEF ProcLock, Slot, Inserting, UnderUserLock
  <1>4. /\ UNCHANGED <<free, freeq, next, key, formed>> /\ pc'[p] = "count"
        /\ list'[i0] = n /\ chain'[i0] = <<n>> \o s
        /\ \A i \in Index \ {i0} : list'[i] = list[i] /\ chain'[i] = chain[i]
    BY <1>1 DEF LinkNode, Goto, TypeOK, records
  <1>5. s \in Seq(Nodes) /\ ListOf(list[i0], s, next) /\ Injective(s)
    BY <1>1 DEF TypeOK, LinkInv
  <1>6. n \notin Elems(s) /\ n \notin Elems(freeq)
    BY <1>1, <1>2 DEF Loose
  <1>7. /\ Elems(<<n>> \o s) = Elems(s) \cup {n} /\ Injective(<<n>> \o s)
        /\ ListOf(n, <<n>> \o s, next)
    BY <1>1, <1>2, <1>5, <1>6, PushIs, InjectivePush, ListPush
  <1>8. \A m \in Elems(s) :
          m \notin Elems(freeq) /\ key[m] \in Keys /\ Hash(key[m]) = i0
    BY <1>1 DEF LinkInv
  <1>9. \A m1, m2 \in Elems(s) : key[m1] = key[m2] => m1 = m2
    BY <1>1 DEF LinkInv
  <1>10. \A m \in Elems(s) : key[m] # key[n]
    BY <1>2 DEF Fresh
  <1> HIDE DEF n, s, i0
  <1>11. ASSUME NEW i \in Index
         PROVE  /\ ListOf(list'[i], chain'[i], next')
                /\ Injective(chain'[i])
                /\ \A m \in Elems(chain'[i]) :
                     m \notin Elems(freeq') /\ key'[m] \in Keys /\ Hash(key'[m]) = i
                /\ \A m1, m2 \in Elems(chain'[i]) : key'[m1] = key'[m2] => m1 = m2
    <2>1. CASE i = i0
      <3>1. /\ list'[i] = n /\ chain'[i] = <<n>> \o s
            /\ next' = next /\ key' = key /\ freeq' = freeq
        BY <1>4, <2>1
      <3>2. Elems(chain'[i]) = Elems(s) \cup {n} /\ Injective(chain'[i])
        BY <1>7, <3>1
      <3>3. ListOf(list'[i], chain'[i], next')
        BY <1>7, <3>1
      <3>4. \A m \in Elems(chain'[i]) :
              m \notin Elems(freeq') /\ key'[m] \in Keys /\ Hash(key'[m]) = i
        BY <1>2, <1>3, <1>6, <1>8, <2>1, <3>1, <3>2
      <3>5. \A m1, m2 \in Elems(chain'[i]) : key'[m1] = key'[m2] => m1 = m2
        BY <1>9, <1>10, <3>1, <3>2
      <3> QED BY <3>2, <3>3, <3>4, <3>5
    <2>2. CASE i # i0
      <3>1. /\ list'[i] = list[i] /\ chain'[i] = chain[i]
            /\ next' = next /\ key' = key /\ freeq' = freeq
        BY <1>4, <2>2
      <3> QED BY <1>1, <3>1 DEF LinkInv
    <2> QED BY <2>1, <2>2
  <1>12. ListOf(free', freeq', next') /\ Injective(freeq')
    BY <1>1, <1>4 DEF LinkInv
  <1>13. LinkInv'
    BY <1>11, <1>12 DEF LinkInv
  <1>14. ProcWalk(p)'
    BY <1>4 DEF ProcWalk, Removing
  <1>15. Guarded(p)
    BY <1>1, <1>4 DEF Guarded, i0
  <1> QED BY <1>13, <1>14, <1>15

\* Unlink takes a node off its chain.
LEMMA UnlinkStep ==
    ASSUME TypeOK, LockInv, WalkInv, BootInv, LinkInv, NEW p \in Procs, Unlink(p)
    PROVE  LinkInv' /\ ProcWalk(p)' /\ Guarded(p)
  <1> DEFINE i0 == Slot(call[p])
             s == chain[i0]
  <1>0. pc[p] = "search" /\ ip[p] # 0 /\ call[p].op = "Remove"
    BY DEF Unlink, Found
  <1>1. ProcWalk(p) /\ ProcLock(p) /\ formed
    BY <1>0, FormedFor DEF WalkInv, LockInv
  <1>2. headLock = p /\ pc[p] \in UnderUserLock /\ i0 \in Index
    BY <1>0, <1>1, SlotType DEF ProcLock, UnderUserLock, WholeOps
  <1>3. s \in Seq(Nodes) /\ ListOf(list[i0], s, next) /\ Injective(s)
    BY <1>1, <1>2 DEF TypeOK, LinkInv
  <1>4. PICK j \in 1 .. Len(s) : At(p, j)
    BY <1>0, <1>1 DEF ProcWalk
  <1>5. /\ ip[p] = s[j] /\ last[p] = IF j = 1 THEN 0 ELSE s[j - 1]
        /\ s[j] \in Nodes /\ (j # 1 => j - 1 \in 1 .. Len(s) /\ s[j - 1] \in Nodes)
    BY <1>3, <1>4 DEF At
  <1>6. /\ chain' = [chain EXCEPT ![i0] = Without(s, j)]
        /\ UNCHANGED <<free, freeq, key, formed, ip>> /\ pc'[p] = "uncount"
    <2>1. PICK l \in 1 .. Len(s) :
            s[l] = ip[p] /\ chain' = [chain EXCEPT ![i0] = Without(s, l)]
      BY DEF Unlink
    <2>2. l = j
      BY <1>3, <1>5, <2>1 DEF Injective
    <2> QED BY <2>1, <2>2 DEF Unlink, Goto, TypeOK, records, locals
  <1>7. /\ j = 1 => /\ list' = [list EXCEPT ![i0] = next[s[j]]] /\ next' = next
        /\ j # 1 => /\ list' = list /\ next' = [next EXCEPT ![s[j - 1]] = next[s[j]]]
    <2>1. j = 1 <=> last[p] = 0
      BY <1>5 DEF Nodes
    <2> QED BY <1>5, <2>1 DEF Unlink
  <1>8. chain'[i0] = Without(s, j) /\ \A i \in Index \ {i0} : chain'[i] = chain[i]
    BY <1>2, <1>6 DEF TypeOK
  <1>9. Elems(Without(s, j)) = Elems(s) \ {s[j]} /\ Injective(Without(s, j))
    BY <1>3, <1>4, LeftOver
  <1>10. s[j] \in Elems(s) /\ (j # 1 => s[j - 1] \in Elems(s))
    BY <1>5 DEF Elems
  <1>11. ListOf(list'[i0], Without(s, j), next')
    <2>1. next \in [Nodes -> Pointers] /\ list \in [Index -> Pointers]
      BY DEF TypeOK
    <2>2. /\ j = 1 => ListOf(next[s[j]], Without(s, j), next)
          /\ j # 1 => ListOf(list[i0], Without(s, j),
                             [next EXCEPT ![s[j - 1]] = next[s[j]]])
      BY <1>3, <1>4, <2>1, ListUnlink
    <2>3. CASE j = 1
      BY <1>2, <1>7, <2>1, <2>2, <2>3
    <2>4. CASE j # 1
      BY <1>7, <2>2, <2>4
    <2> QED BY <2>3, <2>4
  <1>12. \A m \in Nodes : m \notin Elems(s) => next'[m] = next[m]
    BY <1>7, <1>10 DEF TypeOK
  <1>13. \A i \in Index \ {i0} : list'[i] = list[i]
    BY <1>2, <1>7 DEF TypeOK
  <1>14. \A m \in Elems(s) :
           m \notin Elems(freeq) /\ key[m] \in Keys /\ Hash(key[m]) = i0
    BY <1>1, <1>2 DEF LinkInv
  <1>15. \A m1, m2 \in Elems(s) : key[m1] = key[m2] => m1 = m2
    BY <1>1, <1>2 DEF LinkInv
  <1>16. ASSUME NEW i \in Index \ {i0}, NEW m \in Elems(chain[i])
         PROVE  m \in Nodes /\ m \notin Elems(s)
    <2>1. m \in Nodes
      BY DEF TypeOK, Elems
    <2> QED BY <1>1, <1>2, <2>1, OneChain
  <1> HIDE DEF s, i0
  <1>17. ASSUME NEW i \in Index
         PROVE  /\ ListOf(list'[i], chain'[i], next')
                /\ Injective(chain'[i])
                /\ \A m \in Elems(chain'[i]) :
                     m \notin Elems(freeq') /\ key'[m] \in Keys /\ Hash(key'[m]) = i
                /\ \A m1, m2 \in Elems(chain'[i]) : key'[m1] = key'[m2] => m1 = m2
    <2>1. CASE i = i0
      BY <1>6, <1>8, <1>9, <1>11, <1>14, <1>15, <2>1
    <2>2. CASE i # i0
      <3>1. /\ list'[i] = list[i] /\ chain'[i] = chain[i]
            /\ key' = key /\ freeq' = freeq
        BY <1>6, <1>8, <1>13, <2>2
      <3>2. chain[i] \in Seq(Nodes) /\ ListOf(list[i], chain[i], next)
        BY <1>1 DEF TypeOK, LinkInv
      <3>3. \A m \in Elems(chain[i]) : next'[m] = next[m]
        BY <1>12, <1>16, <2>2
      <3>4. ListOf(list[i], chain[i], next')
        BY <3>2, <3>3, ListFrame
      <3> QED BY <1>1, <3>1, <3>4 DEF LinkInv
    <2> QED BY <2>1, <2>2
  <1>18. ListOf(free', freeq', next') /\ Injective(freeq')
    <2>1. freeq \in Seq(Nodes) /\ ListOf(free, freeq, next) /\ Injective(freeq)
      BY <1>1 DEF TypeOK, LinkInv
    <2>2. \A m \in Elems(freeq) : m \in Nodes /\ m \notin Elems(s)
      BY <1>14, <2>1 DEF Elems
    <2>3. ListOf(free, freeq, next')
      BY <1>12, <2>1, <2>2, ListFrame
    <2> QED BY <1>6, <2>1, <2>3
  <1>19. LinkInv'
    BY <1>17, <1>18 DEF LinkInv
  <1>20. Loose(ip[p])'
    <2>1. s[j] \notin Elems(freeq')
      BY <1>6, <1>10, <1>14
    <2>2. ASSUME NEW i \in Index PROVE s[j] \notin Elems(chain'[i])
      <3>1. CASE i = i0
        BY <1>8, <1>9, <3>1
      <3>2. CASE i # i0
        <4>1. chain'[i] = chain[i]
          BY <1>8, <3>2
        <4> QED BY <1>10, <1>16, <3>2, <4>1
      <3> QED BY <3>1, <3>2
    <2> QED BY <1>5, <1>6, <2>1, <2>2 DEF Loose
  <1>21. ProcWalk(p)'
    BY <1>6, <1>20 DEF ProcWalk, Removing
  <1>22. Guarded(p)
    BY <1>2, <1>6, <1>8 DEF Guarded, i0
  <1> QED BY <1>19, <1>21, <1>22

\* Clear sets up empty chains and a free list of one node.
LEMMA ClearHeadStep ==
    ASSUME TypeOK, BootInv, NEW p \in Procs, ClearHead(p)
    PROVE  LinkInv'
  <1>1. /\ free' = 1 /\ freeq' = <<1>> /\ next' = [n \in Nodes |-> 0]
        /\ list' = [i \in Index |-> 0] /\ chain' = chain
    BY DEF ClearHead
  <1>2. \A i \in Index : chain'[i] = <<>> /\ list'[i] = 0
    BY <1>1 DEF BootInv, ClearHead
  <1>3. 1 \in Nodes /\ Len(<<1>>) = 1 /\ <<1>>[1] = 1
    BY SizeAssumption DEF Nodes
  <1>4. ListOf(free', freeq', next') /\ Injective(freeq')
    BY <1>1, <1>3 DEF ListOf, Injective
  <1>5. ASSUME NEW i \in Index
        PROVE  /\ ListOf(list'[i], chain'[i], next') /\ Injective(chain'[i])
               /\ Elems(chain'[i]) = {}
    BY <1>2 DEF ListOf, Injective, Elems
  <1> QED BY <1>4, <1>5 DEF LinkInv

\* ... and then every node is on the free list.
LEMMA ClearNodesStep ==
    ASSUME TypeOK, BootInv, LinkInv, NEW p \in Procs, ClearNodes(p)
    PROVE  LinkInv'
  <1>0. formed
    BY FormedFor DEF ClearNodes
  <1>1. /\ free' = 1 /\ freeq' = [n \in Nodes |-> n]
        /\ next' = [n \in Nodes |-> IF n = DataNum - 1 THEN 0 ELSE n + 1]
        /\ list' = list /\ chain' = chain
    BY DEF ClearNodes, BootInv
  <1>2. \A i \in Index : chain'[i] = <<>> /\ list'[i] = 0
    <2>1. \A i \in Index : chain[i] = <<>> /\ ListOf(list[i], chain[i], next)
      BY <1>0 DEF BootInv, ClearNodes, LinkInv
    <2>2. \A i \in Index : list[i] = 0
      BY <2>1 DEF ListOf
    <2> QED BY <1>1, <2>1, <2>2
  <1>3. freeq' \in Seq(Nodes) /\ Len(freeq') = DataNum - 1
    BY <1>1, SizeAssumption DEF Nodes
  <1>4. \A n \in 1 .. (DataNum - 1) : freeq'[n] = n
    BY <1>1 DEF Nodes
  <1>5. ListOf(free', freeq', next') /\ Injective(freeq')
    BY <1>1, <1>3, <1>4, SizeAssumption DEF ListOf, Injective, Nodes
  <1>6. ASSUME NEW i \in Index
        PROVE  /\ ListOf(list'[i], chain'[i], next') /\ Injective(chain'[i])
               /\ Elems(chain'[i]) = {}
    BY <1>2 DEF ListOf, Injective, Elems
  <1> QED BY <1>5, <1>6 DEF LinkInv

(***************************************************************************)
(* All steps.                                                              *)
(***************************************************************************)

\* Places at which a process has no claim on the lists.
LEMMA NoClaim ==
    ASSUME NEW p \in Procs,
           pc'[p] \notin {"search", "take", "fill", "link"} \cup Removing
    PROVE  ProcWalk(p)'
  BY DEF ProcWalk, Removing

\* A guarded step needs to be looked at for its own process only.
LEMMA WalkStep ==
    ASSUME TypeOK, LockInv, WalkInv, NEW p \in Procs, Step(p), Guarded(p), ProcWalk(p)'
    PROVE  WalkInv'
  <1> SUFFICES ASSUME NEW q \in Procs, q # p PROVE ProcWalk(q)'
    BY DEF WalkInv
  <1>1. Keeps(q)
    BY OthersKeep
  <1> QED BY <1>1, WalkFrame

\* Steps that leave the lists alone.
LEMMA QuietStep ==
    ASSUME TypeOK, LockInv, WalkInv, LinkInv, NEW p \in Procs, Step(p),
           UNCHANGED Structure, formed' = formed, ProcWalk(p)'
    PROVE  WalkInv' /\ LinkInv'
  <1>1. WalkInv'
    BY WalkStep DEF Guarded
  <1>2. LinkInv'
    BY DEF LinkInv, Structure
  <1> QED BY <1>1, <1>2

\* GetFreeNode finds the first node of the free list.
LEMMA GetFreeOwn ==
    ASSUME TypeOK, LockInv, WalkInv, LinkInv, BootInv, NEW p \in Procs, GetFreeNode(p)
    PROVE  ProcWalk(p)'
  <1>1. ProcWalk(p) /\ formed /\ pc[p] = "search" /\ ip[p] = 0
    BY FormedFor DEF GetFreeNode, Missing, WalkInv
  <1>2. free # 0
    BY DEF GetFreeNode, Exhausted
  <1>3. freeq # <<>> /\ free = freeq[1]
    BY <1>1, <1>2 DEF LinkInv, ListOf
  <1>4. /\ pc'[p] = "take" /\ ip'[p] = free
        /\ UNCHANGED <<freeq, chain, key, call>>
    BY DEF GetFreeNode, Goto, TypeOK, records, ghosts
  <1>5. Fresh(p)'
    BY <1>1, <1>4 DEF ProcWalk, Fresh
  <1> QED BY <1>3, <1>4, <1>5 DEF ProcWalk, Removing

\* A call without the head lock begins its search.
LEMMA BeginOwn ==
    ASSUME TypeOK, LockInv, LinkInv, BootInv, NEW p \in Procs, NEW c,
           Slot(c) \in Index, BeginWithUser(p, c)
    PROVE  ProcWalk(p)'
  <1>1. pc[p] = "idle" /\ formed /\ last[p] = 0
    BY FormedFor DEF BeginWithUser, LockInv, ProcLock
  <1>2. /\ call'[p] = c /\ ip'[p] = list[Slot(c)] /\ last'[p] = 0
        /\ pc'[p] = "search" /\ UNCHANGED Structure
    BY <1>1 DEF BeginWithUser, LockUser, Goto, TypeOK, Structure, links, records, ghosts
  <1>3. Slot(call'[p]) = Slot(c)
    BY <1>2
  <1> QED BY <1>1, <1>2, <1>3, WalkBegin

\* The walks and the lists are kept by every step.
LEMMA WalkLinkStep ==
    ASSUME TypeOK, LockInv, WalkInv, LinkInv, BootInv, NEW p \in Procs, Step(p)
    PROVE  WalkInv' /\ LinkInv'
  <1>1. CASE Start(p)
    <2> USE DEF counts, links, records, locks, locals, ghosts, faults, Goto, Structure, TypeOK
    <2>1. CASE StartFirst(p)
      <3>1. UNCHANGED Structure /\ formed' = formed
            /\ pc'[p] \notin {"search", "take", "fill", "link"} \cup Removing
        BY <2>1 DEF StartFirst, Removing
      <3> QED BY <3>1, NoClaim, QuietStep
    <2>2. CASE StartAgain(p)
      <3>1. UNCHANGED Structure /\ formed' = formed
            /\ pc'[p] \notin {"search", "take", "fill", "link"} \cup Removing
        BY <2>2 DEF StartAgain, Removing
      <3> QED BY <3>1, NoClaim, QuietStep
    <2>2a. CASE AddEntity(p)
      <3>1. UNCHANGED Structure /\ formed' = formed
            /\ pc'[p] \notin {"search", "take", "fill", "link"} \cup Removing
        BY <2>2a DEF AddEntity, Removing
      <3> QED BY <3>1, NoClaim, QuietStep
    <2>3. CASE ClearHead(p)
      <3>1. LinkInv'
        BY <2>3, ClearHeadStep
      <3>2. \A q \in Procs : pc'[q] \in {"down", "clearnodes", "verify"}
        BY <2>3 DEF ClearHead, BootInv
      <3>3. WalkInv'
        BY <3>2, NoClaim DEF WalkInv, Removing
      <3> QED BY <3>1, <3>3
    <2>4. CASE ClearNodes(p)
      <3>1. LinkInv'
        BY <2>4, ClearNodesStep
      <3>2. \A q \in Procs : pc'[q] \in {"down", "clearnodes", "verify"}
        BY <2>4 DEF ClearNodes, BootInv
      <3>3. WalkInv'
        BY <3>2, NoClaim DEF WalkInv, Removing
      <3> QED BY <3>1, <3>3
    <2>5. CASE VerifyIndex(p)
      <3>1. UNCHANGED Structure /\ formed' = formed
            /\ pc'[p] \notin {"search", "take", "fill", "link"} \cup Removing
        BY <2>5 DEF VerifyIndex, Removing
      <3> QED BY <3>1, NoClaim, QuietStep
    <2>6. CASE VerifyDone(p)
      <3>1. UNCHANGED Structure /\ formed' = formed
            /\ pc'[p] \notin {"search", "take", "fill", "link"} \cup Removing
        BY <2>6 DEF VerifyDone, Removing
      <3> QED BY <3>1, NoClaim, QuietStep
    <2>7. CASE VerifyFails(p)
      <3>1. UNCHANGED Structure /\ formed' = formed
            /\ pc'[p] \notin {"search", "take", "fill", "link"} \cup Removing
        BY <2>7 DEF VerifyFails, Removing
      <3> QED BY <3>1, NoClaim, QuietStep
    <2> QED BY <1>1, <2>1, <2>2, <2>2a, <2>3, <2>4, <2>5, <2>6, <2>7 DEF Start
  <1>2. CASE Call(p)
    <2> USE DEF counts, links, records, locks, locals, ghosts, faults, Goto, Structure, TypeOK
    <2>1. CASE InsertUserInfo(p)
      <3>1. UNCHANGED Structure /\ formed' = formed
            /\ pc'[p] \notin {"search", "take", "fill", "link"} \cup Removing
        BY <2>1 DEF InsertUserInfo, BeginWithHead, Removing
      <3> QED BY <3>1, NoClaim, QuietStep
    <2>2. CASE RemoveUserInfoWhenInValid(p)
      <3>1. UNCHANGED Structure /\ formed' = formed
            /\ pc'[p] \notin {"search", "take", "fill", "link"} \cup Removing
        BY <2>2 DEF RemoveUserInfoWhenInValid, BeginWithHead, Removing
      <3> QED BY <3>1, NoClaim, QuietStep
    <2>3. CASE AddFriendReq(p)
      <3>1. UNCHANGED Structure /\ formed' = formed
        BY <2>3 DEF AddFriendReq, BeginWithUser, LockUser
      <3>2. PICK k \in Keys, d \in Data :
              BeginWithUser(p, [op |-> "Update", key |-> k, data |-> d])
        BY <2>3 DEF AddFriendReq
      <3>3. Slot([op |-> "Update", key |-> k, data |-> d]) \in Index
        BY HashType DEF Slot
      <3>4. ProcWalk(p)'
        BY <3>2, <3>3, BeginOwn
      <3> QED BY <3>1, <3>4, QuietStep
    <2>4. CASE GetUserInfo(p)
      <3>1. UNCHANGED Structure /\ formed' = formed
        BY <2>4 DEF GetUserInfo, BeginWithUser, LockUser
      <3>2. PICK k \in Keys :
              BeginWithUser(p, [op |-> "Get", key |-> k, data |-> NoData])
        BY <2>4 DEF GetUserInfo
      <3>3. Slot([op |-> "Get", key |-> k, data |-> NoData]) \in Index
        BY HashType DEF Slot
      <3>4. ProcWalk(p)'
        BY <3>2, <3>3, BeginOwn
      <3> QED BY <3>1, <3>4, QuietStep
    <2>5. CASE CheckUserIsValid(p)
      <3>1. UNCHANGED Structure /\ formed' = formed
            /\ pc'[p] \notin {"search", "take", "fill", "link"} \cup Removing
        BY <2>5 DEF CheckUserIsValid, Removing
      <3> QED BY <3>1, NoClaim, QuietStep
    <2> QED BY <1>2, <2>1, <2>2, <2>3, <2>4, <2>5 DEF Call
  <1>3. CASE Lookup(p)
    <2> USE DEF counts, links, records, locks, locals, ghosts, faults, Goto, Structure, TypeOK
    <2>1. CASE LockUserAfterHead(p)
      <3>1. UNCHANGED Structure /\ formed' = formed
        BY <2>1 DEF LockUserAfterHead, LockUser
      <3>2. pc[p] = "user" /\ formed /\ last[p] = 0 /\ ProcLock(p)
        BY <2>1, FormedFor DEF LockUserAfterHead, LockInv, ProcLock
      <3>3. Slot(call[p]) \in Index
        BY <3>2, SlotType
      <3>4. /\ call'[p] = call[p] /\ ip'[p] = list[Slot(call[p])] /\ last'[p] = 0
            /\ pc'[p] = "search"
        BY <2>1, <3>2 DEF LockUserAfterHead, LockUser
      <3>5. ProcWalk(p)'
        BY <3>1, <3>2, <3>3, <3>4, WalkBegin
      <3> QED BY <3>1, <3>5, QuietStep
    <2>2. CASE SweepNext(p)
      <3>1. UNCHANGED Structure /\ formed' = formed
            /\ pc'[p] \notin {"search", "take", "fill", "link"} \cup Removing
        BY <2>2 DEF SweepNext, Removing
      <3> QED BY <3>1, NoClaim, QuietStep
    <2>3. CASE SweepEnd(p)
      <3>1. UNCHANGED Structure /\ formed' = formed
            /\ pc'[p] \notin {"search", "take", "fill", "link"} \cup Removing
        BY <2>3 DEF SweepEnd, Removing
      <3> QED BY <3>1, NoClaim, QuietStep
    <2>4. CASE SearchNext(p)
      <3>1. UNCHANGED Structure /\ formed' = formed
        BY <2>4 DEF SearchNext
      <3>2. ProcWalk(p)'
        BY <2>4, WalkOn, FormedFor DEF SearchNext
      <3> QED BY <3>1, <3>2, QuietStep
    <2>5. CASE Nothing(p)
      <3>1. UNCHANGED Structure /\ formed' = formed
            /\ pc'[p] \notin {"search", "take", "fill", "link"} \cup Removing
        BY <2>5 DEF Nothing, Found, Missing, Removing
      <3> QED BY <3>1, NoClaim, QuietStep
    <2>6. CASE Get(p)
      <3>1. UNCHANGED Structure /\ formed' = formed
            /\ pc'[p] \notin {"search", "take", "fill", "link"} \cup Removing
        BY <2>6 DEF Get, Found, Missing, Removing
      <3> QED BY <3>1, NoClaim, QuietStep
    <2> QED BY <1>3, <2>1, <2>2, <2>3, <2>4, <2>5, <2>6 DEF Lookup
  <1>4. CASE Change(p)
    <2> USE DEF counts, links, records, locks, locals, ghosts, faults, Goto, Structure, TypeOK
    <2>1. CASE UpdateFirst(p)
      <3>1. UNCHANGED Structure /\ formed' = formed
            /\ pc'[p] \notin {"search", "take", "fill", "link"} \cup Removing
        BY <2>1 DEF UpdateFirst, Found, Removing
      <3> QED BY <3>1, NoClaim, QuietStep
    <2>2. CASE UpdateRest(p)
      <3>1. UNCHANGED Structure /\ formed' = formed
            /\ pc'[p] \notin {"search", "take", "fill", "link"} \cup Removing
        BY <2>2 DEF UpdateRest, Removing
      <3> QED BY <3>1, NoClaim, QuietStep
    <2>3. CASE NoSpace(p)
      <3>1. UNCHANGED Structure /\ formed' = formed
            /\ pc'[p] \notin {"search", "take", "fill", "link"} \cup Removing
        BY <2>3 DEF NoSpace, Missing, Removing
      <3> QED BY <3>1, NoClaim, QuietStep
    <2>4. CASE GetFreeNode(p)
      <3>1. UNCHANGED Structure /\ formed' = formed
        BY <2>4 DEF GetFreeNode
      <3>2. ProcWalk(p)'
        BY <2>4, GetFreeOwn
      <3> QED BY <3>1, <3>2, QuietStep
    <2>5. CASE TakeFree(p)
      BY <2>5, TakeStep, WalkStep
    <2>6. CASE FillNode(p)
      BY <2>6, FillStep, WalkStep
    <2>7. CASE LinkNode(p)
      BY <2>7, LinkStep, WalkStep
    <2>8. CASE CountNode(p)
      <3>1. UNCHANGED Structure /\ formed' = formed
            /\ pc'[p] \notin {"search", "take", "fill", "link"} \cup Removing
        BY <2>8 DEF CountNode, Removing
      <3> QED BY <3>1, NoClaim, QuietStep
    <2>9. CASE Unlink(p)
      BY <2>9, UnlinkStep, WalkStep
    <2>10. CASE UncountNode(p)
      <3>1. UNCHANGED Structure /\ formed' = formed /\ ip' = ip
            /\ pc[p] \in Removing /\ pc'[p] \in {"recycle", "relink"}
        BY <2>10 DEF UncountNode, Removing
      <3>2. Loose(ip[p])
        BY <3>1 DEF WalkInv, ProcWalk
      <3>3. Loose(ip[p])'
        BY <3>1, <3>2 DEF Loose
      <3>4. ProcWalk(p)'
        BY <3>1, <3>3 DEF ProcWalk, Removing
      <3> QED BY <3>1, <3>4, QuietStep
    <2>11. CASE RecycleNode(p)
      <3>1. UNCHANGED Structure /\ formed' = formed /\ ip' = ip
            /\ pc[p] \in Removing /\ pc'[p] \in {"recycle", "relink"}
        BY <2>11 DEF RecycleNode, Removing
      <3>2. Loose(ip[p])
        BY <3>1 DEF WalkInv, ProcWalk
      <3>3. Loose(ip[p])'
        BY <3>1, <3>2 DEF Loose
      <3>4. ProcWalk(p)'
        BY <3>1, <3>3 DEF ProcWalk, Removing
      <3> QED BY <3>1, <3>4, QuietStep
    <2>12. CASE RelinkNode(p)
      BY <2>12, RelinkStep, WalkStep
    <2>13. CASE PushFree(p)
      BY <2>13, PushStep, WalkStep
    <2> QED BY <1>4, <2>1, <2>2, <2>3, <2>4, <2>5, <2>6, <2>7,
               <2>8, <2>9, <2>10, <2>11, <2>12, <2>13
            DEF Change
  <1>5. CASE Unlock(p)
    <2> USE DEF counts, links, records, locks, locals, ghosts, faults, Goto, Structure, TypeOK
    <2>1. CASE UnlockUser(p)
      <3>1. UNCHANGED Structure /\ formed' = formed
            /\ pc'[p] \notin {"search", "take", "fill", "link"} \cup Removing
        BY <2>1 DEF UnlockUser, Removing
      <3> QED BY <3>1, NoClaim, QuietStep
    <2>2. CASE UnlockHead(p)
      <3>1. UNCHANGED Structure /\ formed' = formed
            /\ pc'[p] \notin {"search", "take", "fill", "link"} \cup Removing
        BY <2>2 DEF UnlockHead, Removing
      <3> QED BY <3>1, NoClaim, QuietStep
    <2> QED BY <1>5, <2>1, <2>2 DEF Unlock
  <1>6. CASE Die(p)
    <2>1. UNCHANGED Structure /\ formed' = formed
          /\ pc'[p] \notin {"search", "take", "fill", "link"} \cup Removing
      BY <1>6 DEF Die, counts, links, records, locks, locals, ghosts, faults, Goto,
                  Structure, TypeOK, Removing
    <2> QED BY <2>1, NoClaim, QuietStep
  <1> QED BY <1>1, <1>2, <1>3, <1>4, <1>5, <1>6 DEF Step

\* Every step but the two of Clear is guarded.
LEMMA StepGuarded ==
    ASSUME IInv, NEW p \in Procs, Step(p), ~ClearHead(p), ~ClearNodes(p)
    PROVE  Guarded(p)
  <1> USE DEF counts, links, records, locks, locals, ghosts, faults, Goto, Structure, Guarded
  <1>1. CASE Start(p)
    <2>1. CASE StartFirst(p) \/ StartAgain(p) \/ AddEntity(p) \/ VerifyIndex(p) \/ VerifyDone(p)
               \/ VerifyFails(p)
      BY <2>1
      DEF StartFirst, StartAgain, AddEntity, VerifyIndex, VerifyDone, VerifyFails
    <2> QED BY <1>1, <2>1 DEF Start
  <1>2. CASE Call(p)
    <2>1. CASE InsertUserInfo(p) \/ RemoveUserInfoWhenInValid(p) \/ AddFriendReq(p)
               \/ GetUserInfo(p) \/ CheckUserIsValid(p)
      BY <2>1
      DEF InsertUserInfo, RemoveUserInfoWhenInValid, AddFriendReq, GetUserInfo,
          CheckUserIsValid, BeginWithHead, BeginWithUser, LockUser
    <2> QED BY <1>2, <2>1 DEF Call
  <1>3. CASE Lookup(p)
    <2>1. CASE LockUserAfterHead(p) \/ SweepNext(p) \/ SweepEnd(p) \/ SearchNext(p)
               \/ Nothing(p) \/ Get(p)
      BY <2>1
      DEF LockUserAfterHead, SweepNext, SweepEnd, SearchNext, Nothing, Get,
          LockUser
    <2> QED BY <1>3, <2>1 DEF Lookup
  <1>4. CASE Change(p)
    <2>1. CASE UpdateFirst(p) \/ UpdateRest(p) \/ NoSpace(p) \/ GetFreeNode(p)
               \/ CountNode(p) \/ UncountNode(p) \/ RecycleNode(p)
      BY <2>1
      DEF UpdateFirst, UpdateRest, NoSpace, GetFreeNode, CountNode, UncountNode,
          RecycleNode
    <2>2. CASE TakeFree(p)
      BY <2>2, TakeStep DEF IInv
    <2>3. CASE FillNode(p)
      BY <2>3, FillStep DEF IInv
    <2>4. CASE LinkNode(p)
      BY <2>4, LinkStep DEF IInv
    <2>5. CASE Unlink(p)
      BY <2>5, UnlinkStep DEF IInv
    <2>6. CASE RelinkNode(p)
      BY <2>6, RelinkStep DEF IInv
    <2>7. CASE PushFree(p)
      BY <2>7, PushStep DEF IInv
    <2> QED BY <1>4, <2>1, <2>2, <2>3, <2>4, <2>5, <2>6, <2>7 DEF Change
  <1>5. CASE Unlock(p)
    <2>1. CASE UnlockUser(p) \/ UnlockHead(p)
      BY <2>1
      DEF UnlockUser, UnlockHead
    <2> QED BY <1>5, <2>1 DEF Unlock
  <1>6. CASE Die(p)
    BY <1>6 DEF Die
  <1> QED BY <1>1, <1>2, <1>3, <1>4, <1>5, <1>6 DEF Step

(***************************************************************************)
(* Theorems.                                                               *)
(***************************************************************************)

\* A new segment satisfies the invariant.
LEMMA InitInv == Init => IInv
  <1> SUFFICES ASSUME Init PROVE IInv
    OBVIOUS
  <1> USE SizeAssumption
  <1>1. TypeOK
    <2>1. 0 \in Index /\ 0 \in Pointers /\ <<>> \in Seq(Nodes)
      BY DEF Index, Pointers
    <2>2. NoCall \in [op : Ops, key : Keys \cup Index \cup {0}, data : Values]
      BY DEF NoCall, Ops, Values
    <2>3. NoSeen \in [idx : 0 .. IndexNum, used : Int, sum : Int]
      BY DEF NoSeen
    <2>4. "down" \in Places /\ NoData \in Values
      BY DEF Places, Values
    <2>5. /\ magic \in BOOLEAN /\ formed \in BOOLEAN
          /\ broken \in BOOLEAN /\ refused \in BOOLEAN
      BY DEF Init
    <2>6. /\ used \in Int /\ used <= DataNum /\ deaths \in 0 .. MaxDeaths
          /\ num \in [Index -> Int] /\ short \in SUBSET Index
      BY DEF Init
    <2>7. /\ hashVal \in [Index -> Index] /\ free \in Pointers
          /\ list \in [Index -> Pointers] /\ next \in [Nodes -> Pointers]
          /\ key \in [Nodes -> Keys \cup {0}] /\ data \in [Nodes -> Values]
      BY <2>1, <2>4, Zenon DEF Init
    <2>8. /\ chain \in [Index -> Seq(Nodes)] /\ freeq \in Seq(Nodes)
          /\ headLock \in Procs \cup {None} /\ userLock \in [Index -> Procs \cup {None}]
      BY <2>1, Zenon DEF Init
    <2>9. /\ pc \in [Procs -> Places]
          /\ ip \in [Procs -> Pointers] /\ last \in [Procs -> Pointers]
      BY <2>1, <2>4, Zenon DEF Init
    <2>10. ret \in [Procs -> Values \cup {None} \cup SUBSET (Keys \cup {0})]
      BY Zenon DEF Init
    <2>11. /\ call \in [Procs -> [op : Ops, key : Keys \cup Index \cup {0}, data : Values]]
           /\ seen \in [Procs -> [idx : 0 .. IndexNum, used : Int, sum : Int]]
      BY <2>2, <2>3, Zenon DEF Init
    <2> QED BY <2>5, <2>6, <2>7, <2>8, <2>9, <2>10, <2>11, Zenon DEF TypeOK
  <1>2. LockInv
    BY DEF Init, LockInv, ProcLock, NoCall, UnderUserLock, UnderHeadLock, Inserting,
           Removing, WholeOps
  <1>3. BootInv
    BY DEF Init, BootInv
  <1>4. WalkInv
    BY DEF Init, WalkInv, ProcWalk, Removing
  <1>5. LinkInv
    BY DEF Init, LinkInv
  <1> QED BY <1>1, <1>2, <1>3, <1>4, <1>5 DEF IInv

\* Every step keeps the invariant.
LEMMA NextInv == IInv /\ [Next]_vars => IInv'
  <1> SUFFICES ASSUME IInv, [Next]_vars PROVE IInv'
    OBVIOUS
  <1>1. CASE UNCHANGED vars
    <2> USE <1>1 DEF vars, counts, links, records, locks, locals, ghosts, faults
    <2>1. TypeOK'
      BY DEF IInv, TypeOK
    <2>2. LockInv'
      BY DEF IInv, LockInv, ProcLock, Slot
    <2>3. BootInv'
      BY DEF IInv, BootInv
    <2>4. WalkInv'
      BY DEF IInv, WalkInv, ProcWalk, Loose, Fresh, At, Slot
    <2>5. LinkInv'
      BY DEF IInv, LinkInv
    <2> QED BY <2>1, <2>2, <2>3, <2>4, <2>5 DEF IInv
  <1>2. CASE Next
    <2>1. PICK p \in Procs : Step(p)
      BY <1>2 DEF Next, Step
    <2>2. TypeOK'
      BY TypeStep DEF IInv
    <2>3. LockInv'
      BY <2>1, LockStep DEF IInv
    <2>4. BootInv'
      BY <2>1, BootStep DEF IInv
    <2>5. WalkInv' /\ LinkInv'
      BY <2>1, WalkLinkStep DEF IInv
    <2> QED BY <2>2, <2>3, <2>4, <2>5 DEF IInv
  <1> QED BY <1>1, <1>2

\* The invariant says that the lists are proper.
LEMMA LinkedFromInv == IInv => Linked
  <1> SUFFICES ASSUME IInv, formed PROVE Linked
    BY DEF Linked
  <1>1. ASSUME NEW s \in Seq(Nodes), NEW h, ListOf(h, s, next) PROVE Spells(h, s)
    <2>1. CASE s = <<>>
      BY <1>1, <2>1 DEF ListOf, Spells
    <2>2. CASE s # <<>>
      <3>1. Len(s) \in Nat \ {0} /\ Len(s) \in 1 .. Len(s)
        BY <2>2, TailIs
      <3>2. h = s[1] /\ next[s[Len(s)]] = 0
        BY <1>1, <3>1 DEF ListOf
      <3>3. \A j \in 1 .. Len(s) - 1 : next[s[j]] = s[j + 1]
        BY <1>1, <3>1 DEF ListOf
      <3> QED BY <2>2, <3>2, <3>3 DEF Spells
    <2> QED BY <2>1, <2>2
  <1>2. Spells(free, freeq) /\ Injective(freeq)
    BY <1>1 DEF IInv, TypeOK, LinkInv
  <1>3. ASSUME NEW i \in Index
        PROVE  /\ Spells(list[i], chain[i])
               /\ Injective(chain[i])
               /\ Elems(chain[i]) \cap Elems(freeq) = {}
               /\ \A n \in Elems(chain[i]) : key[n] \in Keys /\ Hash(key[n]) = i
               /\ \A n1, n2 \in Elems(chain[i]) : key[n1] = key[n2] => n1 = n2
    <2>1. chain[i] \in Seq(Nodes) /\ LinkInv
      BY DEF IInv, TypeOK
    <2>2. Spells(list[i], chain[i])
      BY <1>1, <2>1 DEF LinkInv
    <2> QED BY <2>1, <2>2 DEF LinkInv
  <1>4. \A i, j \in Index : i # j => Elems(chain[i]) \cap Elems(chain[j]) = {}
    BY OneChain DEF IInv
  <1> QED BY <1>2, <1>3, <1>4 DEF Linked

\* Every field of the table keeps its type.
THEOREM TableTypes == Spec => []TypeOK
  <1>1. IInv => TypeOK
    BY DEF IInv
  <1> QED BY <1>1, InitInv, NextInv, PTL DEF Spec

\* Whatever the processes do and wherever they die, the chains and the free
\* list of the table (hash_list_nolock.h) are proper lists, no node is on two
\* of them, and every user is once on the chain of its index.
THEOREM ListsAlwaysProper == Spec => []Linked
  BY InitInv, NextInv, LinkedFromInv, PTL DEF Spec

(***************************************************************************)
(* Induction, by the least counterexample.                                 *)
(***************************************************************************)

(***************************************************************************)
(* Verify.                                                                 *)
(***************************************************************************)

\* A proper list has as many positions as nodes, and leaves room for node 0.
LEMMA ListCard ==
    ASSUME NEW s \in Seq(Nodes), Injective(s)
    PROVE  /\ IsFiniteSet(Elems(s)) /\ Cardinality(Elems(s)) = Len(s)
           /\ Len(s) \in Nat /\ Len(s) <= DataNum - 1
  <1>1. Len(s) \in Nat /\ s \in [1 .. Len(s) -> Nodes]
    BY LenProperties
  <1>2. IsFiniteSet(1 .. Len(s)) /\ Cardinality(1 .. Len(s)) = Len(s)
    BY <1>1, FS_Interval
  <1>3. s \in Surjection(1 .. Len(s), Elems(s))
    BY <1>1 DEF Surjection, Elems
  <1>4. s \in Injection(1 .. Len(s), Elems(s))
    BY <1>1, <1>3 DEF Surjection, Injection, IsInjective, Injective
  <1>5. IsFiniteSet(Elems(s)) /\ Cardinality(Elems(s)) = Len(s)
    BY <1>2, <1>3, <1>4, FS_Surjection
  <1>6. IsFiniteSet(Nodes) /\ Cardinality(Nodes) = DataNum - 1
    <2>1. 1 \in Int /\ DataNum - 1 \in Int /\ ~(1 > DataNum - 1)
      BY SizeAssumption
    <2> QED BY <2>1, FS_Interval DEF Nodes
  <1>7. Elems(s) \in SUBSET Nodes
    BY <1>1 DEF Elems
  <1>8. Cardinality(Elems(s)) <= DataNum - 1
    BY <1>6, <1>7, FS_Subset
  <1> QED BY <1>1, <1>5, <1>8

\* The walk along a proper list counts its nodes.
LEMMA LengthIs ==
    ASSUME NEW s \in Seq(Nodes), NEW h, ListOf(h, s, next), Injective(s)
    PROVE  Length(h) = Len(s)
  <1> DEFINE Walk(f) == [j \in 0 .. DataNum |->
                           IF j = 0 THEN h
                           ELSE IF f[j - 1] = 0 THEN 0 ELSE next[f[j - 1]]]
             g == [j \in 0 .. DataNum |-> IF j < Len(s) THEN s[j + 1] ELSE 0]
  <1>0. DataNum \in Nat /\ 0 \in 0 .. DataNum /\ Len(s) \in Nat /\ Len(s) <= DataNum - 1
    BY ListCard, SizeAssumption
  <1>1. \A j \in 1 .. Len(s) : s[j] # 0
    <2>1. \A j \in 1 .. Len(s) : s[j] \in Nodes
      OBVIOUS
    <2>2. 0 \notin Nodes
      BY SizeAssumption DEF Nodes
    <2> QED BY <2>1, <2>2
  <1>2. g[0] = h
    BY <1>0 DEF ListOf
  <1>3. ASSUME NEW j \in 1 .. DataNum
        PROVE  g[j] = IF g[j - 1] = 0 THEN 0 ELSE next[g[j - 1]]
    <2>1. j - 1 \in 0 .. DataNum /\ j \in 0 .. DataNum /\ (j - 1) + 1 = j
      BY <1>0
    <2>2. CASE j - 1 < Len(s)
      <3>1. j \in 1 .. Len(s) /\ g[j - 1] = s[j]
        BY <2>1, <2>2, <1>0
      <3>2. next[s[j]] = IF j = Len(s) THEN 0 ELSE s[j + 1]
        BY <3>1 DEF ListOf
      <3>3. g[j] = IF j < Len(s) THEN s[j + 1] ELSE 0
        BY <2>1
      <3> QED BY <3>1, <3>2, <3>3, <1>0, <1>1
    <2>3. CASE ~(j - 1 < Len(s))
      BY <2>1, <2>3, <1>0
    <2> QED BY <2>2, <2>3
  <1>4. \A j \in 0 .. DataNum : j = 0 \/ j \in 1 .. DataNum
    BY <1>0
  <1>g. g = [j \in 0 .. DataNum |-> g[j]]
    OBVIOUS
  <1>n. \A j \in 0 .. (DataNum - 1) : g[j] # 0 <=> j \in 0 .. (Len(s) - 1)
    BY <1>0, <1>1
  <1> HIDE DEF g
  <1>5. g = Walk(g)
    <2>1. \A j \in 0 .. DataNum : g[j] = Walk(g)[j]
      BY <1>2, <1>3, <1>4
    <2> QED BY <2>1, <1>g
  <1>6. ASSUME NEW f, f = Walk(f) PROVE f = g
    <2>1. f[0] = h /\ \A j \in 1 .. DataNum : f[j] = IF f[j - 1] = 0 THEN 0 ELSE next[f[j - 1]]
      BY <1>6, <1>0
    <2>2. PICK T : T = {j \in 0 .. DataNum : f[j] = g[j]}
      OBVIOUS
    <2>3. \A j \in 1 .. DataNum : j - 1 \in T => j \in T
      BY <2>1, <2>2, <1>3, <1>0
    <2>4. 0 \in T
      BY <2>1, <2>2, <1>2, <1>0
    <2>5. \A j \in 0 .. DataNum : f[j] = g[j]
      BY <2>2, <2>3, <2>4, <1>0, UpTo
    <2> QED BY <2>5, <1>6, <1>g
  <1> DEFINE R == CHOOSE f : f = Walk(f)
  <1>7. Length(h) = Cardinality({j \in 0 .. (DataNum - 1) : R[j] # 0})
    BY DEF Length
  <1>8. R = Walk(R)
    BY <1>5
  <1> HIDE DEF R
  <1>9. R = g
    BY <1>6, <1>8
  <1>10. {j \in 0 .. (DataNum - 1) : R[j] # 0} = 0 .. (Len(s) - 1)
    BY <1>9, <1>n, <1>0
  <1>11. Cardinality(0 .. (Len(s) - 1)) = Len(s)
    <2>1. PICK b \in Int : b = Len(s) - 1
      BY <1>0
    <2>2. Cardinality(0 .. b) = IF 0 > b THEN 0 ELSE b - 0 + 1
      BY FS_Interval
    <2> QED BY <2>1, <2>2, <1>0
  <1> QED BY <1>7, <1>10, <1>11

\* The nodes on the chains before index i.
Before(i) == UNION {Elems(chain[j]) : j \in 0 .. (i - 1)}

\* Sums of Verify: what grows by the length of each chain is their sum.
LEMMA SumIs ==
    ASSUME NEW G, G = [i \in 0 .. IndexNum |-> G[i]], G[0] = 1,
           \A i \in 1 .. IndexNum : G[i] = G[i - 1] + Length(list[i - 1]),
           Verify
    PROVE  G[IndexNum] = used
  <1> DEFINE Add(f) == [i \in 0 .. IndexNum |-> IF i = 0 THEN 1 ELSE f[i - 1] + Length(list[i - 1])]
             S == CHOOSE f : f = Add(f)
  <1>0. IndexNum \in Nat /\ 0 \in 0 .. IndexNum /\ IndexNum \in 0 .. IndexNum
        /\ \A i \in 0 .. IndexNum : i = 0 \/ i \in 1 .. IndexNum
    BY SizeAssumption
  <1>1. S[IndexNum] = used
    BY DEF Verify
  <1>2. G = Add(G)
    <2>1. \A i \in 0 .. IndexNum : G[i] = Add(G)[i]
      BY <1>0
    <2> QED BY <2>1
  <1>3. S = Add(S)
    BY <1>2
  <1> HIDE DEF S
  <1>4. S[0] = 1 /\ \A i \in 1 .. IndexNum : S[i] = S[i - 1] + Length(list[i - 1])
    BY <1>0, <1>3
  <1>5. PICK T : T = {i \in 0 .. IndexNum : S[i] = G[i]}
    OBVIOUS
  <1>6. 0 \in T
    BY <1>0, <1>4, <1>5
  <1>7. \A i \in 1 .. IndexNum : i - 1 \in T => i \in T
    BY <1>0, <1>4, <1>5, SMTT(30)
  <1>8. IndexNum \in T
    BY <1>0, <1>6, <1>7, UpTo
  <1> QED BY <1>1, <1>5, <1>8

\* The chains have no node in common.
LEMMA BeforeIs ==
    ASSUME IInv, formed
    PROVE  /\ Before(0) = {} /\ Before(IndexNum) = InChains
           /\ \A i \in 0 .. IndexNum : IsFiniteSet(Before(i)) /\ Cardinality(Before(i)) \in Nat
           /\ \A i \in 1 .. IndexNum : Cardinality(Before(i)) =
                                         Cardinality(Before(i - 1)) + Len(chain[i - 1])
  <1>0. IndexNum \in Nat /\ Index = 0 .. (IndexNum - 1)
    BY SizeAssumption DEF Index
  <1>1. Before(0) = {}
    BY DEF Before
  <1>2. Before(IndexNum) = InChains
    BY <1>0 DEF Before, InChains
  <1>3. \A i \in Index : chain[i] \in Seq(Nodes) /\ Injective(chain[i])
    BY DEF IInv, TypeOK, LinkInv
  <1>4. \A i \in Index : Elems(chain[i]) \subseteq Nodes
    <2> SUFFICES ASSUME NEW i \in Index PROVE Elems(chain[i]) \subseteq Nodes
      OBVIOUS
    <2> QED BY <1>3 DEF Elems
  <1>5. ASSUME NEW i \in 0 .. IndexNum PROVE IsFiniteSet(Before(i)) /\ Cardinality(Before(i)) \in Nat
    <2>1. \A j \in 0 .. (i - 1) : j \in Index
      BY <1>0
    <2>2. Before(i) \in SUBSET Nodes
      BY <2>1, <1>4 DEF Before
    <2>3. IsFiniteSet(Nodes)
      <3>1. DataNum - 1 \in Int
        BY SizeAssumption
      <3> QED BY <3>1, FS_Interval DEF Nodes
    <2> QED BY <2>2, <2>3, FS_Subset, FS_CardinalityType
  <1>6. ASSUME NEW i \in 1 .. IndexNum
        PROVE  Cardinality(Before(i)) = Cardinality(Before(i - 1)) + Len(chain[i - 1])
    <2>1. PICK k \in Index : k = i - 1
      BY <1>0
    <2>2. \A j \in 0 .. (i - 1) : j \in Index /\ (j = k \/ j \in 0 .. (k - 1))
      BY <1>0, <2>1
    <2>3. \A j \in 0 .. (k - 1) : j \in 0 .. (i - 1) /\ j # k
      BY <1>0, <2>1
    <2>4. Before(i) = Before(k) \cup Elems(chain[k])
      BY <2>1, <2>2, <2>3, <1>0 DEF Before
    <2>5. Before(k) \cap Elems(chain[k]) = {}
      <3> SUFFICES ASSUME NEW n \in Before(k), n \in Elems(chain[k]) PROVE FALSE
        OBVIOUS
      <3>1. PICK j \in 0 .. (k - 1) : n \in Elems(chain[j])
        BY DEF Before
      <3>2. j \in Index /\ j # k
        BY <3>1, <2>2, <2>3
      <3> QED BY <3>1, <3>2, OneChain DEF IInv
    <2>6. /\ IsFiniteSet(Elems(chain[k])) /\ Cardinality(Elems(chain[k])) = Len(chain[k])
          /\ Len(chain[k]) \in Nat
      BY <1>3, ListCard
    <2>7. IsFiniteSet(Before(k)) /\ Cardinality(Before(k)) \in Nat
      BY <2>1, <1>0, <1>5
    <2>8. Cardinality(Before(i)) = Cardinality(Before(k)) + Cardinality(Elems(chain[k])) - Cardinality({})
      BY <2>4, <2>5, <2>6, <2>7, FS_Union
    <2> QED BY <2>1, <2>6, <2>7, <2>8, FS_EmptySet
  <1> QED BY <1>1, <1>2, <1>5, <1>6

\* Verify believes only exact tables.
LEMMA VerifySoundFromInv == IInv => VerifySound
  <1> SUFFICES ASSUME IInv, Verify
               PROVE  /\ formed
                      /\ Nodes = InChains \cup Elems(freeq)
                      /\ used = 1 + Cardinality(InChains)
                      /\ \A i \in Index : num[i] = Len(chain[i])
    BY DEF VerifySound
  <1>0. IndexNum \in Nat /\ IndexNum \in 0 .. IndexNum /\ DataNum \in Nat /\ DataNum - 1 \in Nat
        /\ \A i \in 1 .. IndexNum : i - 1 \in Index /\ i - 1 \in 0 .. IndexNum /\ i \in 0 .. IndexNum
        /\ 0 \in 0 .. IndexNum
    BY SizeAssumption DEF Index
  <1>v. (\A i \in Index : Length(list[i]) = num[i]) /\ Length(free) + used = DataNum
    BY DEF Verify, VerifyIndexOK, VerifyFreeOK
  <1>1. formed
    <2> SUFFICES ASSUME ~formed PROVE FALSE
      OBVIOUS
    <2>1. used = 0 /\ \A i \in Index : num[i] = 0
      BY DEF IInv, BootInv
    <2>2. PICK G : G = [i \in 0 .. IndexNum |-> 1]
      OBVIOUS
    <2>3. /\ G = [i \in 0 .. IndexNum |-> G[i]] /\ G[0] = 1 /\ G[IndexNum] = 1
          /\ \A i \in 1 .. IndexNum : G[i] = G[i - 1] + Length(list[i - 1])
      BY <2>1, <2>2, <1>0, <1>v
    <2>4. G[IndexNum] = used
      BY <2>3, SumIs
    <2> QED BY <2>1, <2>3, <2>4
  <1>2. /\ freeq \in Seq(Nodes) /\ Injective(freeq) /\ ListOf(free, freeq, next)
        /\ \A i \in Index : /\ chain[i] \in Seq(Nodes) /\ Injective(chain[i])
                            /\ ListOf(list[i], chain[i], next)
                            /\ \A n \in Elems(chain[i]) : n \notin Elems(freeq)
    BY <1>1 DEF IInv, TypeOK, LinkInv
  <1>3. Length(free) = Len(freeq) /\ \A i \in Index : Length(list[i]) = Len(chain[i])
    BY <1>2, LengthIs
  <1>4. used = 1 + Cardinality(InChains)
    <2>1. PICK G : G = [i \in 0 .. IndexNum |-> 1 + Cardinality(Before(i))]
      OBVIOUS
    <2>2. \A i \in 0 .. IndexNum : Cardinality(Before(i)) \in Nat
      BY <1>1, BeforeIs
    <2>3. \A i \in 1 .. IndexNum : G[i] = G[i - 1] + Length(list[i - 1])
      <3> SUFFICES ASSUME NEW i \in 1 .. IndexNum PROVE G[i] = G[i - 1] + Length(list[i - 1])
        OBVIOUS
      <3>1. Cardinality(Before(i)) = Cardinality(Before(i - 1)) + Len(chain[i - 1])
        BY <1>1, BeforeIs
      <3>2. G[i] = 1 + Cardinality(Before(i)) /\ G[i - 1] = 1 + Cardinality(Before(i - 1))
        BY <2>1, <1>0
      <3>3. Length(list[i - 1]) = Len(chain[i - 1]) /\ Len(chain[i - 1]) \in Nat
        BY <1>0, <1>2, <1>3, LenProperties
      <3>4. Cardinality(Before(i - 1)) \in Nat
        BY <1>0, <2>2
      <3> QED BY <3>1, <3>2, <3>3, <3>4
    <2>4. G[0] = 1 /\ G[IndexNum] = 1 + Cardinality(InChains) /\ G = [i \in 0 .. IndexNum |-> G[i]]
      <3>1. Before(0) = {} /\ Before(IndexNum) = InChains /\ Cardinality({}) = 0
        BY <1>1, BeforeIs, FS_EmptySet
      <3>2. G[0] = 1 + Cardinality(Before(0)) /\ G[IndexNum] = 1 + Cardinality(Before(IndexNum))
        BY <2>1, <1>0
      <3>3. G = [i \in 0 .. IndexNum |-> G[i]]
        BY <2>1
      <3> QED BY <3>1, <3>2, <3>3
    <2>5. G[IndexNum] = used
      BY <2>3, <2>4, SumIs
    <2> QED BY <2>4, <2>5
  <1>5. Nodes = InChains \cup Elems(freeq)
    <2>1. IsFiniteSet(InChains) /\ Cardinality(InChains) \in Nat
      BY <1>0, <1>1, BeforeIs
    <2>2. /\ IsFiniteSet(Elems(freeq)) /\ Cardinality(Elems(freeq)) = Len(freeq)
          /\ Len(freeq) \in Nat
      BY <1>2, ListCard
    <2>3. InChains \cap Elems(freeq) = {}
      BY <1>2 DEF InChains
    <2>4. IsFiniteSet(Nodes) /\ Cardinality(Nodes) = DataNum - 1
      <3>1. 1 \in Int /\ DataNum - 1 \in Int /\ ~(1 > DataNum - 1)
        BY SizeAssumption
      <3> QED BY <3>1, FS_Interval DEF Nodes
    <2>5. Cardinality(InChains \cup Elems(freeq)) =
            Cardinality(InChains) + Cardinality(Elems(freeq)) - Cardinality({})
      BY <2>1, <2>2, <2>3, FS_Union
    <2>6. Cardinality(InChains \cup Elems(freeq)) = DataNum - 1
      BY <2>1, <2>2, <2>5, <1>0, <1>v, <1>3, <1>4, FS_EmptySet
    <2>7. InChains \cup Elems(freeq) \in SUBSET Nodes
      <3>1. Elems(freeq) \subseteq Nodes
        BY <1>2 DEF Elems
      <3>2. ASSUME NEW i \in Index PROVE Elems(chain[i]) \subseteq Nodes
        BY <1>2 DEF Elems
      <3> QED BY <3>1, <3>2 DEF InChains
    <2> QED BY <2>4, <2>6, <2>7, FS_Subset
  <1> QED BY <1>1, <1>v, <1>3, <1>4, <1>5

\* Memory that Verify accepts is exact, however many processes died in it, and
\* wherever: every node is on a list, and the counts are right.
THEOREM VerifyAlwaysSound == Spec => []VerifySound
  BY InitInv, NextInv, VerifySoundFromInv, PTL DEF Spec

(***************************************************************************)
(* The counts of the indexes, and sweeps.                                  *)
(***************************************************************************)

\* While no death before CountNode has left index i short, it counts at least
\* the nodes on its chain, but for the one that is being counted.
CountOK(i) ==
    /\ (\A p \in Procs : ~(pc[p] = "count" /\ Slot(call[p]) = i)) => num[i] >= Len(chain[i])
    /\ \A p \in Procs : pc[p] = "count" /\ Slot(call[p]) = i => num[i] + 1 >= Len(chain[i])
    /\ \A p \in Procs : pc[p] = "uncount" /\ Slot(call[p]) = i => num[i] - 1 >= Len(chain[i])

CountInv == \A i \in Index \ short : CountOK(i)

\* What the holder of the lock of an index knows of its count.
Counted(p, i) ==
    /\ pc[p] # "count" => num[i] >= Len(chain[i])
    /\ pc[p] = "count" => num[i] + 1 >= Len(chain[i])
    /\ pc[p] = "uncount" => num[i] - 1 >= Len(chain[i])

\* Only the holder of its lock counts at an index.
LEMMA CountMine ==
    ASSUME IInv, CountInv, NEW p \in Procs, pc[p] \in UnderUserLock,
           Slot(call[p]) \notin short
    PROVE  Counted(p, Slot(call[p]))
  <1> DEFINE i == Slot(call[p])
  <1>1. ProcLock(p) /\ i \in Index
    BY SlotType DEF IInv, LockInv
  <1>2. CountOK(i)
    BY <1>1 DEF CountInv
  <1>3. \A q \in Procs : pc[q] = "count" /\ Slot(call[q]) = i => q = p
    BY <1>1 DEF IInv, LockInv, ProcLock, UnderUserLock, Inserting
  <1> QED BY <1>1, <1>2, <1>3 DEF CountOK, Counted

\* A step that touches one index under its lock.
LEMMA CountLocal ==
    ASSUME IInv, CountInv, NEW p \in Procs, Step(p), pc[p] \in UnderUserLock,
           call'[p] = call[p], short' = short,
           \A i \in Index \ {Slot(call[p])} : num'[i] = num[i] /\ chain'[i] = chain[i],
           Slot(call[p]) \notin short => Counted(p, Slot(call[p]))'
    PROVE  CountInv'
  <1> DEFINE i0 == Slot(call[p])
  <1>0. ProcLock(p) /\ i0 \in Index
    BY SlotType DEF IInv, LockInv
  <1>1. \A q \in Procs : q # p => pc'[q] = pc[q] /\ call'[q] = call[q]
    BY OthersKeep DEF IInv, Keeps
  <1>2. \A q \in Procs : pc[q] \in {"count", "uncount"} /\ Slot(call[q]) = i0 => q = p
    BY <1>0 DEF IInv, LockInv, ProcLock, UnderUserLock, Inserting, Removing
  <1>3. ASSUME NEW i \in Index \ short' PROVE CountOK(i)'
    <2>1. CASE i = i0
      <3>1. Counted(p, i0)'
        BY <1>3, <2>1
      <3>2. \A q \in Procs : pc'[q] \in {"count", "uncount"} /\ Slot(call'[q]) = i => q = p
        BY <1>1, <1>2, <2>1
      <3>3. Slot(call'[p]) = i /\ Slot(call[p])' = i
        BY <2>1
      <3>4. \/ pc'[p] # "count" /\ num'[i] >= Len(chain'[i])
            \/ pc'[p] = "count"
        BY <3>1, <3>3, <2>1 DEF Counted
      <3>5. pc'[p] = "count" => num'[i] + 1 >= Len(chain'[i])
        BY <3>1, <3>3, <2>1 DEF Counted
      <3>6. pc'[p] = "uncount" => num'[i] - 1 >= Len(chain'[i])
        BY <3>1, <3>3, <2>1 DEF Counted
      <3> QED BY <3>2, <3>3, <3>4, <3>5, <3>6 DEF CountOK
    <2>2. CASE i # i0
      <3>1. CountOK(i) /\ num'[i] = num[i] /\ chain'[i] = chain[i]
        BY <1>3, <2>2 DEF CountInv
      <3>2. \A q \in Procs : Slot(call'[q]) = i => pc'[q] = pc[q] /\ call'[q] = call[q]
        BY <1>1, <2>2
      <3>3. \A q \in Procs : Slot(call[q]) = i => pc'[q] = pc[q] /\ call'[q] = call[q]
        BY <1>1, <2>2
      <3> QED BY <3>1, <3>2, <3>3 DEF CountOK
    <2> QED BY <2>1, <2>2
  <1> QED BY <1>3 DEF CountInv

\* Steps that have nothing to do with the counts.
Countless(p) ==
    /\ UNCHANGED <<num, chain, short>>
    /\ pc[p] # "count" /\ pc'[p] \notin {"count", "uncount"}

\* They leave the counts right.
LEMMA CountFrame ==
    ASSUME IInv, CountInv, NEW p \in Procs, Step(p), Countless(p)
    PROVE  CountInv'
  <1>1. \A q \in Procs : q # p => pc'[q] = pc[q] /\ call'[q] = call[q]
    BY OthersKeep DEF IInv, Keeps
  <1>2. ASSUME NEW i \in Index \ short' PROVE CountOK(i)'
    <2>1. CountOK(i) /\ num'[i] = num[i] /\ chain'[i] = chain[i]
      BY <1>2 DEF CountInv, Countless
    <2>2. \A q \in Procs : pc'[q] \in {"count", "uncount"} =>
                             q # p /\ pc'[q] = pc[q] /\ call'[q] = call[q]
      BY <1>1 DEF Countless
    <2>3. \A q \in Procs : pc[q] = "count" => pc'[q] = pc[q] /\ call'[q] = call[q]
      BY <1>1 DEF Countless
    <2> QED BY <2>1, <2>2, <2>3 DEF CountOK
  <1> QED BY <1>2 DEF CountInv

\* The steps that have to do with the counts are few.
LEMMA CountSteps ==
    ASSUME IInv, NEW p \in Procs, Step(p)
    PROVE  \/ Countless(p)
           \/ ClearHead(p) \/ LinkNode(p) \/ CountNode(p) \/ Unlink(p)
           \/ UncountNode(p) \/ Die(p)
  <1> USE DEF IInv, TypeOK, counts, links, records, locks, locals, ghosts, faults, Goto, Countless
  <1>1. CASE Start(p)
    <2>1. CASE StartFirst(p)
      BY <2>1 DEF StartFirst
    <2>2. CASE StartAgain(p)
      BY <2>2 DEF StartAgain
    <2>2a. CASE AddEntity(p)
      BY <2>2a DEF AddEntity
    <2>4. CASE ClearNodes(p)
      BY <2>4 DEF ClearNodes
    <2>5. CASE VerifyIndex(p)
      BY <2>5 DEF VerifyIndex
    <2>6. CASE VerifyDone(p)
      BY <2>6 DEF VerifyDone
    <2>7. CASE VerifyFails(p)
      BY <2>7 DEF VerifyFails
    <2> QED BY <1>1, <2>1, <2>2, <2>2a, <2>4, <2>5, <2>6, <2>7 DEF Start
  <1>2. CASE Call(p)
    <2>1. CASE InsertUserInfo(p)
      BY <2>1 DEF InsertUserInfo, BeginWithHead
    <2>2. CASE RemoveUserInfoWhenInValid(p)
      BY <2>2 DEF RemoveUserInfoWhenInValid, BeginWithHead
    <2>3. CASE AddFriendReq(p)
      BY <2>3 DEF AddFriendReq, BeginWithUser, LockUser
    <2>4. CASE GetUserInfo(p)
      BY <2>4 DEF GetUserInfo, BeginWithUser, LockUser
    <2>5. CASE CheckUserIsValid(p)
      BY <2>5 DEF CheckUserIsValid
    <2> QED BY <1>2, <2>1, <2>2, <2>3, <2>4, <2>5 DEF Call
  <1>3. CASE Lookup(p)
    <2>1. CASE LockUserAfterHead(p)
      BY <2>1 DEF LockUserAfterHead, LockUser
    <2>2. CASE SweepNext(p)
      BY <2>2 DEF SweepNext
    <2>3. CASE SweepEnd(p)
      BY <2>3 DEF SweepEnd
    <2>4. CASE SearchNext(p)
      BY <2>4 DEF SearchNext
    <2>5. CASE Nothing(p)
      BY <2>5 DEF Nothing, Found, Missing
    <2>6. CASE Get(p)
      BY <2>6 DEF Get, Found, Missing
    <2> QED BY <1>3, <2>1, <2>2, <2>3, <2>4, <2>5, <2>6 DEF Lookup
  <1>4. CASE Change(p)
    <2>1. CASE UpdateFirst(p)
      BY <2>1 DEF UpdateFirst, Found
    <2>2. CASE UpdateRest(p)
      BY <2>2 DEF UpdateRest
    <2>3. CASE NoSpace(p)
      BY <2>3 DEF NoSpace, Missing
    <2>4. CASE GetFreeNode(p)
      BY <2>4 DEF GetFreeNode, Missing
    <2>5. CASE TakeFree(p)
      BY <2>5 DEF TakeFree
    <2>6. CASE FillNode(p)
      BY <2>6 DEF FillNode
    <2>7. CASE RecycleNode(p)
      BY <2>7 DEF RecycleNode
    <2>8. CASE RelinkNode(p)
      BY <2>8 DEF RelinkNode
    <2>9. CASE PushFree(p)
      BY <2>9 DEF PushFree
    <2> QED BY <1>4, <2>1, <2>2, <2>3, <2>4, <2>5, <2>6, <2>7, <2>8, <2>9 DEF Change
  <1>5. CASE Unlock(p)
    <2>1. CASE UnlockUser(p)
      BY <2>1 DEF UnlockUser
    <2>2. CASE UnlockHead(p)
      BY <2>2 DEF UnlockHead
    <2> QED BY <1>5, <2>1, <2>2 DEF Unlock
  <1> QED BY <1>1, <1>2, <1>3, <1>4, <1>5 DEF Step

\* The node that a Remove unlinks is the one its search has found.
LEMMA UnlinkIs ==
    ASSUME IInv, NEW p \in Procs, Unlink(p)
    PROVE  /\ formed /\ pc[p] \in UnderUserLock /\ Slot(call[p]) \in Index /\ headLock = p
           /\ \E j \in 1 .. Len(chain[Slot(call[p])]) :
                /\ chain[Slot(call[p])][j] = ip[p]
                /\ chain' = [chain EXCEPT ![Slot(call[p])] = Without(chain[Slot(call[p])], j)]
  <1>0. pc[p] = "search" /\ call[p].op = "Remove"
    BY DEF Unlink, Found
  <1>1. ProcLock(p) /\ formed
    BY <1>0, FormedFor DEF IInv, LockInv
  <1>2. headLock = p /\ pc[p] \in UnderUserLock /\ Slot(call[p]) \in Index
    BY <1>0, <1>1, SlotType DEF ProcLock, UnderUserLock, WholeOps
  <1> QED BY <1>1, <1>2 DEF Unlink

\* The counts are kept by every step.
LEMMA CountStep ==
    ASSUME IInv, CountInv, NEW p \in Procs, Step(p)
    PROVE  CountInv'
  <1> DEFINE i0 == Slot(call[p])
  <1> USE DEF counts, links, records, locks, locals, ghosts, faults, Goto
  <1>t. TypeOK /\ ProcLock(p) /\ BootInv /\ \A i \in Index : chain[i] \in Seq(Nodes) /\ Len(chain[i]) \in Nat /\ num[i] \in Int
    BY DEF IInv, TypeOK, LockInv
  <1>1. CASE Countless(p)
    BY <1>1, CountFrame
  <1>2. CASE ClearHead(p)
    <2>1. \A i \in Index : chain'[i] = <<>> /\ num'[i] = 0
      BY <1>2, <1>t DEF ClearHead, BootInv
    <2>2. pc'[p] = "clearnodes" /\ \A q \in Procs \ {p} : pc'[q] = "down"
      BY <1>2, <1>t DEF ClearHead, BootInv, TypeOK
    <2>3. \A q \in Procs : pc'[q] \notin {"count", "uncount"}
      BY <2>2
    <2> QED BY <2>1, <2>3 DEF CountInv, CountOK
  <1>3. CASE LinkNode(p)
    <2>1. pc[p] = "link" /\ pc[p] \in UnderUserLock /\ i0 \in Index /\ ip[p] \in Nodes
      BY <1>3, <1>t, SlotType DEF LinkNode, ProcLock, UnderUserLock, Inserting
    <2>2. /\ num' = num /\ short' = short /\ call' = call /\ pc'[p] = "count"
          /\ chain' = [chain EXCEPT ![i0] = <<ip[p]>> \o chain[i0]]
      BY <1>3, <1>t DEF LinkNode, TypeOK
    <2>3. chain'[i0] = <<ip[p]>> \o chain[i0] /\ Len(<<ip[p]>> \o chain[i0]) = Len(chain[i0]) + 1
      BY <2>1, <2>2, <1>t, PushIs DEF TypeOK
    <2>4. i0 \notin short => num[i0] >= Len(chain[i0])
      BY <2>1, CountMine DEF Counted
    <2>5. i0 \notin short => Counted(p, i0)'
      BY <2>1, <2>2, <2>3, <2>4, <1>t DEF Counted
    <2>6. \A i \in Index \ {i0} : num'[i] = num[i] /\ chain'[i] = chain[i]
      BY <2>2, <1>t DEF TypeOK
    <2> QED BY <2>1, <2>2, <2>5, <2>6, CountLocal
  <1>4. CASE CountNode(p)
    <2>1. pc[p] = "count" /\ pc[p] \in UnderUserLock /\ i0 \in Index
      BY <1>4, <1>t, SlotType DEF CountNode, ProcLock, UnderUserLock, Inserting
    <2>2. /\ chain' = chain /\ short' = short /\ call' = call /\ pc'[p] = "unlock"
          /\ num' = [num EXCEPT ![i0] = num[i0] + 1]
      BY <1>4, <1>t DEF CountNode, TypeOK
    <2>3. num'[i0] = num[i0] + 1
      BY <2>1, <2>2, <1>t DEF TypeOK
    <2>4. i0 \notin short => num[i0] + 1 >= Len(chain[i0])
      BY <2>1, CountMine DEF Counted
    <2>5. i0 \notin short => Counted(p, i0)'
      BY <2>1, <2>2, <2>3, <2>4, <1>t DEF Counted
    <2>6. \A i \in Index \ {i0} : num'[i] = num[i] /\ chain'[i] = chain[i]
      BY <2>2, <1>t DEF TypeOK
    <2> QED BY <2>1, <2>2, <2>5, <2>6, CountLocal
  <1>5. CASE Unlink(p)
    <2>1. pc[p] = "search" /\ pc[p] \in UnderUserLock /\ i0 \in Index
      BY <1>5, UnlinkIs DEF Unlink, Found
    <2>2. num' = num /\ short' = short /\ call' = call /\ pc'[p] = "uncount"
      BY <1>5, <1>t DEF Unlink, TypeOK
    <2>3. PICK j \in 1 .. Len(chain[i0]) : chain' = [chain EXCEPT ![i0] = Without(chain[i0], j)]
      BY <1>5, UnlinkIs
    <2>4. chain'[i0] = Without(chain[i0], j) /\ Len(Without(chain[i0], j)) = Len(chain[i0]) - 1
      BY <2>1, <2>3, <1>t, WithoutIs DEF TypeOK
    <2>5. i0 \notin short => num[i0] >= Len(chain[i0])
      BY <2>1, CountMine DEF Counted
    <2>6. i0 \notin short => Counted(p, i0)'
      BY <2>1, <2>2, <2>4, <2>5, <1>t DEF Counted
    <2>7. \A i \in Index \ {i0} : num'[i] = num[i] /\ chain'[i] = chain[i]
      BY <2>2, <2>3, <1>t DEF TypeOK
    <2> QED BY <2>1, <2>2, <2>6, <2>7, CountLocal
  <1>6. CASE UncountNode(p)
    <2>1. pc[p] = "uncount" /\ pc[p] \in UnderUserLock /\ i0 \in Index
      BY <1>6, <1>t, SlotType DEF UncountNode, ProcLock, UnderUserLock, Removing
    <2>2. /\ chain' = chain /\ short' = short /\ call' = call /\ pc'[p] = "recycle"
          /\ num' = [num EXCEPT ![i0] = num[i0] - 1]
      BY <1>6, <1>t DEF UncountNode, TypeOK
    <2>3. num'[i0] = num[i0] - 1
      BY <2>1, <2>2, <1>t DEF TypeOK
    <2>4. i0 \notin short => num[i0] - 1 >= Len(chain[i0])
      BY <2>1, CountMine DEF Counted
    <2>5. i0 \notin short => Counted(p, i0)'
      BY <2>1, <2>2, <2>3, <2>4, <1>t DEF Counted
    <2>6. \A i \in Index \ {i0} : num'[i] = num[i] /\ chain'[i] = chain[i]
      BY <2>2, <1>t DEF TypeOK
    <2> QED BY <2>1, <2>2, <2>5, <2>6, CountLocal
  <1>7. CASE Die(p)
    <2>1. /\ num' = num /\ chain' = chain /\ pc'[p] \in {"down", "dead"}
          /\ short' = IF pc[p] = "count" THEN short \cup {i0} ELSE short
      BY <1>7, <1>t DEF Die, TypeOK
    <2>2. \A q \in Procs : q # p => pc'[q] = pc[q] /\ call'[q] = call[q]
      BY OthersKeep DEF IInv, Keeps
    <2>3. ASSUME NEW i \in Index \ short' PROVE CountOK(i)'
      <3>1. CountOK(i) /\ num'[i] = num[i] /\ chain'[i] = chain[i] /\ ~(pc[p] = "count" /\ i0 = i)
        BY <2>1, <2>3 DEF CountInv
      <3>2. \A q \in Procs : pc'[q] \in {"count", "uncount"} =>
                               q # p /\ pc'[q] = pc[q] /\ call'[q] = call[q]
        BY <2>1, <2>2
      <3>3. \A q \in Procs : pc[q] = "count" /\ Slot(call[q]) = i =>
                               pc'[q] = pc[q] /\ call'[q] = call[q]
        BY <2>2, <3>1
      <3> QED BY <3>1, <3>2, <3>3 DEF CountOK
    <2> QED BY <2>3 DEF CountInv
  <1> QED BY <1>1, <1>2, <1>3, <1>4, <1>5, <1>6, <1>7, CountSteps

\* A sweep has reported the users before the node it stands on, and in the end
\* all of them.
SweepAt(p, j) ==
    LET s == chain[call[p].key]
    IN  /\ ip[p] = IF j > Len(s) THEN 0 ELSE s[j]
        /\ ret[p] = {key[s[l]] : l \in 1 .. (j - 1)}

ProcSweep(p) ==
    /\ pc[p] = "sweep" =>
         \E j \in 1 .. (Len(chain[call[p].key]) + 1) : SweepAt(p, j)
    /\ pc[p] = "unlock" /\ call[p].op = "Check" /\ call[p].key \notin short =>
         ret[p] = {key[n] : n \in Elems(chain[call[p].key])}

SweepInv == \A p \in Procs : ProcSweep(p)

\* A sweep holds the lock of its index, and so nobody else changes its chain.
LEMMA SweepFrame ==
    ASSUME IInv, NEW p \in Procs, NEW q \in Procs, q # p, Step(p), ProcSweep(q),
           short \subseteq short'
    PROVE  ProcSweep(q)'
  <1>1. Keeps(q)
    BY OthersKeep DEF IInv
  <1>2. CASE ClearHead(p) \/ ClearNodes(p)
    <2>1. pc[q] = "down"
      BY <1>2 DEF IInv, BootInv, ClearHead, ClearNodes
    <2> QED BY <1>1, <2>1 DEF Keeps, ProcSweep
  <1>3. CASE ~ClearHead(p) /\ ~ClearNodes(p)
    <2>1. Guarded(p)
      BY <1>3, StepGuarded
    <2> SUFFICES ASSUME pc[q] = "sweep" \/ (pc[q] = "unlock" /\ call[q].op = "Check")
                 PROVE  ProcSweep(q)'
      BY <1>1 DEF ProcSweep, Keeps
    <2> DEFINE i == call[q].key
    <2>2. ProcLock(q) /\ ProcLock(p)
      BY DEF IInv, LockInv
    <2>3. i \in Index /\ userLock[i] = q
      BY <2>2 DEF ProcLock, UnderUserLock, Slot
    <2>4. chain[i] \in Seq(Nodes) /\ Len(chain[i]) \in Nat
      BY <2>3 DEF IInv, TypeOK
    <2>5. chain'[i] = chain[i] /\ \A n \in Elems(chain[i]) : key'[n] = key[n]
      <3>1. CASE UNCHANGED Structure
        BY <3>1 DEF Structure
      <3>2. CASE ~UNCHANGED Structure
        <4>1. i # Slot(call[p])
          BY <2>1, <2>2, <2>3, <3>2 DEF Guarded, ProcLock
        <4> QED BY <2>1, <2>3, <3>2, <4>1 DEF Guarded
      <3> QED BY <3>1, <3>2
    <2>6. /\ pc'[q] = pc[q] /\ call'[q] = call[q] /\ ip'[q] = ip[q] /\ ret'[q] = ret[q]
      BY <1>1 DEF Keeps
    <2>7. ASSUME pc[q] = "sweep"
          PROVE  \E j \in 1 .. (Len(chain'[i]) + 1) : SweepAt(q, j)'
      <3>1. PICK j \in 1 .. (Len(chain[i]) + 1) : SweepAt(q, j)
        BY <2>7 DEF ProcSweep
      <3>2. \A l \in 1 .. (j - 1) : chain[i][l] \in Elems(chain[i])
        BY <2>4 DEF Elems
      <3>3. {key'[chain[i][l]] : l \in 1 .. (j - 1)} = {key[chain[i][l]] : l \in 1 .. (j - 1)}
        BY <2>5, <3>2
      <3>4. SweepAt(q, j)'
        <4>1. chain'[call'[q].key] = chain[i]
          BY <2>5, <2>6
        <4>2. ip'[q] = IF j > Len(chain[i]) THEN 0 ELSE chain[i][j]
          BY <2>6, <3>1 DEF SweepAt
        <4>3. ret'[q] = {key'[chain[i][l]] : l \in 1 .. (j - 1)}
          BY <2>6, <3>1, <3>3 DEF SweepAt
        <4> QED BY <4>1, <4>2, <4>3, Zenon DEF SweepAt
      <3> QED BY <2>5, <3>4
    <2>8. ASSUME pc[q] = "unlock", call[q].op = "Check", i \notin short'
          PROVE  ret'[q] = {key'[n] : n \in Elems(chain'[i])}
      <3>1. ret[q] = {key[n] : n \in Elems(chain[i])}
        BY <2>8 DEF ProcSweep
      <3>2. {key'[n] : n \in Elems(chain[i])} = {key[n] : n \in Elems(chain[i])}
        BY <2>5
      <3> QED BY <2>5, <2>6, <3>1, <3>2
    <2> QED BY <2>6, <2>7, <2>8 DEF ProcSweep
  <1> QED BY <1>2, <1>3

\* Only sweeps end as sweeps.
LEMMA SweepSteps ==
    ASSUME IInv, NEW p \in Procs, Step(p)
    PROVE  \/ pc'[p] # "sweep" /\ (pc'[p] = "unlock" => call'[p].op # "Check")
           \/ CheckUserIsValid(p) \/ SweepNext(p) \/ SweepEnd(p)
  <1> USE DEF IInv, TypeOK, counts, links, records, locks, locals, ghosts, faults, Goto
  <1>0. ProcLock(p)
    BY DEF LockInv
  <1>1. CASE Start(p)
    <2>1. CASE StartFirst(p)
      BY <2>1 DEF StartFirst
    <2>2. CASE StartAgain(p)
      BY <2>2 DEF StartAgain
    <2>2a. CASE AddEntity(p)
      BY <2>2a DEF AddEntity
    <2>3. CASE ClearHead(p)
      BY <2>3 DEF ClearHead
    <2>4. CASE ClearNodes(p)
      BY <2>4 DEF ClearNodes
    <2>5. CASE VerifyIndex(p)
      BY <2>5 DEF VerifyIndex
    <2>6. CASE VerifyDone(p)
      BY <2>6 DEF VerifyDone
    <2>7. CASE VerifyFails(p)
      BY <2>7 DEF VerifyFails
    <2> QED BY <1>1, <2>1, <2>2, <2>2a, <2>3, <2>4, <2>5, <2>6, <2>7 DEF Start
  <1>2. CASE Call(p)
    <2>1. CASE InsertUserInfo(p)
      BY <2>1 DEF InsertUserInfo, BeginWithHead
    <2>2. CASE RemoveUserInfoWhenInValid(p)
      BY <2>2 DEF RemoveUserInfoWhenInValid, BeginWithHead
    <2>3. CASE AddFriendReq(p)
      BY <2>3 DEF AddFriendReq, BeginWithUser, LockUser
    <2>4. CASE GetUserInfo(p)
      BY <2>4 DEF GetUserInfo, BeginWithUser, LockUser
    <2> QED BY <1>2, <2>1, <2>2, <2>3, <2>4 DEF Call
  <1>3. CASE Lookup(p)
    <2>1. CASE LockUserAfterHead(p)
      BY <2>1 DEF LockUserAfterHead, LockUser
    <2>4. CASE SearchNext(p)
      BY <2>4 DEF SearchNext
    <2>5. CASE Nothing(p)
      BY <2>5 DEF Nothing, Found, Missing
    <2>6. CASE Get(p)
      BY <2>6 DEF Get, Found, Missing
    <2> QED BY <1>3, <2>1, <2>4, <2>5, <2>6 DEF Lookup
  <1>4. CASE Change(p)
    <2>1. CASE UpdateFirst(p)
      BY <2>1 DEF UpdateFirst
    <2>2. CASE UpdateRest(p)
      BY <2>2, <1>0 DEF UpdateRest, ProcLock
    <2>3. CASE NoSpace(p)
      BY <2>3 DEF NoSpace, Missing
    <2>4. CASE GetFreeNode(p)
      BY <2>4 DEF GetFreeNode
    <2>5. CASE TakeFree(p)
      BY <2>5 DEF TakeFree
    <2>6. CASE FillNode(p)
      BY <2>6 DEF FillNode
    <2>7. CASE LinkNode(p)
      BY <2>7 DEF LinkNode
    <2>8. CASE CountNode(p)
      BY <2>8, <1>0 DEF CountNode, ProcLock, Inserting
    <2>9. CASE Unlink(p)
      BY <2>9 DEF Unlink
    <2>10. CASE UncountNode(p)
      BY <2>10 DEF UncountNode
    <2>11. CASE RecycleNode(p)
      BY <2>11 DEF RecycleNode
    <2>12. CASE RelinkNode(p)
      BY <2>12 DEF RelinkNode
    <2>13. CASE PushFree(p)
      BY <2>13, <1>0 DEF PushFree, ProcLock, Removing
    <2> QED BY <1>4, <2>1, <2>2, <2>3, <2>4, <2>5, <2>6, <2>7,
               <2>8, <2>9, <2>10, <2>11, <2>12, <2>13
            DEF Change
  <1>5. CASE Unlock(p)
    <2>1. CASE UnlockUser(p)
      BY <2>1 DEF UnlockUser
    <2>2. CASE UnlockHead(p)
      BY <2>2 DEF UnlockHead
    <2> QED BY <1>5, <2>1, <2>2 DEF Unlock
  <1>6. CASE Die(p)
    BY <1>6 DEF Die
  <1> QED BY <1>1, <1>2, <1>3, <1>4, <1>5, <1>6 DEF Step

\* Sweeps are kept by every step.
LEMMA SweepStep ==
    ASSUME IInv, CountInv, SweepInv, NEW p \in Procs, Step(p)
    PROVE  SweepInv'
  <1> USE DEF counts, links, records, locks, locals, ghosts, faults, Goto
  <1>t. TypeOK /\ ProcLock(p) /\ ProcSweep(p)
    BY DEF IInv, LockInv, SweepInv
  <1>s. short \subseteq short'
    <2>1. CASE Die(p)
      BY <2>1 DEF Die
    <2>2. CASE ~Die(p)
      <3>1. Countless(p) => short' = short
        BY DEF Countless
      <3>2. ClearHead(p) \/ LinkNode(p) \/ CountNode(p) \/ Unlink(p) \/ UncountNode(p) => short' = short
        BY DEF ClearHead, LinkNode, CountNode, Unlink, UncountNode
      <3> QED BY <2>2, <3>1, <3>2, CountSteps
    <2> QED BY <2>1, <2>2
  <1>1. ASSUME NEW q \in Procs, q # p PROVE ProcSweep(q)'
    BY <1>1, <1>s, SweepFrame DEF SweepInv
  <1>2. ProcSweep(p)'
    <2>1. CASE pc'[p] # "sweep" /\ (pc'[p] = "unlock" => call'[p].op # "Check")
      BY <2>1 DEF ProcSweep
    <2>2. CASE CheckUserIsValid(p)
      <3>1. PICK i \in Index :
              /\ pc[p] = "idle" /\ userLock[i] = None
              /\ call' = [call EXCEPT ![p] = [op |-> "Check", key |-> i, data |-> NoData]]
              /\ ret' = [ret EXCEPT ![p] = {}]
              /\ ip' = [ip EXCEPT ![p] = list[i]]
              /\ pc' = [pc EXCEPT ![p] = IF num[i] > 0 THEN "sweep" ELSE "unlock"]
        BY <2>2 DEF CheckUserIsValid
      <3>2. /\ call'[p].key = i /\ call'[p].op = "Check" /\ ret'[p] = {} /\ ip'[p] = list[i]
            /\ pc'[p] = IF num[i] > 0 THEN "sweep" ELSE "unlock"
        BY <3>1, <1>t DEF TypeOK
      <3>3. UNCHANGED <<chain, key, num, short>>
        BY <2>2 DEF CheckUserIsValid
      <3>4. formed
        BY <3>1, FormedFor DEF IInv
      <3>5. /\ chain[i] \in Seq(Nodes) /\ Len(chain[i]) \in Nat /\ num[i] \in Int
            /\ list[i] = IF Len(chain[i]) = 0 THEN 0 ELSE chain[i][1]
        BY <3>1, <3>4 DEF IInv, TypeOK, LinkInv, ListOf
      <3>6. SweepAt(p, 1)'
        <4>1. ip'[p] = IF 1 > Len(chain'[i]) THEN 0 ELSE chain'[i][1]
          BY <3>2, <3>3, <3>5
        <4>2. {key'[chain'[i][l]] : l \in 1 .. (1 - 1)} = {}
          OBVIOUS
        <4> QED BY <4>1, <4>2, <3>2 DEF SweepAt
      <3>7. ASSUME pc'[p] = "unlock", i \notin short PROVE ret'[p] = {key'[n] : n \in Elems(chain'[i])}
        <4>1. num[i] <= 0
          BY <3>2, <3>5, <3>7
        <4>2. \A q \in Procs : ~(pc[q] = "count" /\ Slot(call[q]) = i)
          BY <3>1, ValueAssumption DEF IInv, LockInv, ProcLock, UnderUserLock, Inserting
        <4>3. num[i] >= Len(chain[i])
          BY <3>1, <3>7, <4>2 DEF CountInv, CountOK
        <4>4. Len(chain[i]) = 0
          BY <4>1, <4>3, <3>5
        <4>5. Elems(chain'[i]) = {}
          BY <3>3, <4>4 DEF Elems
        <4> QED BY <3>2, <4>5
      <3>8. 1 \in 1 .. (Len(chain'[i]) + 1)
        BY <3>3, <3>5
      <3> QED BY <3>2, <3>3, <3>6, <3>7, <3>8 DEF ProcSweep
    <2>3. CASE SweepNext(p)
      <3> DEFINE i == call[p].key
                 s == chain[i]
      <3>1. /\ pc[p] = "sweep" /\ ip[p] # 0 /\ ret'[p] = ret[p] \cup {key[ip[p]]}
            /\ ip'[p] = next[ip[p]] /\ UNCHANGED <<chain, key, pc, call>>
        BY <2>3, <1>t DEF SweepNext, TypeOK
      <3>2. formed
        BY <3>1, FormedFor DEF IInv
      <3>3. i \in Index
        BY <3>1, <1>t DEF ProcLock, UnderUserLock
      <3>4. s \in Seq(Nodes) /\ Len(s) \in Nat /\ ListOf(list[i], s, next)
        BY <3>2, <3>3 DEF IInv, TypeOK, LinkInv
      <3>5. PICK j \in 1 .. (Len(s) + 1) : SweepAt(p, j)
        BY <3>1, <1>t DEF ProcSweep
      <3>6. j \in 1 .. Len(s) /\ ip[p] = s[j]
        BY <3>1, <3>4, <3>5 DEF SweepAt
      <3>7. next[s[j]] = IF j = Len(s) THEN 0 ELSE s[j + 1]
        BY <3>4, <3>6 DEF ListOf
      <3> HIDE DEF s
      <3>8. ret'[p] = {key[s[l]] : l \in 1 .. ((j + 1) - 1)}
        <4>1. ret[p] = {key[s[l]] : l \in 1 .. (j - 1)}
          BY <3>5 DEF SweepAt, s
        <4>2. \A l : l \in 1 .. ((j + 1) - 1) <=> l \in 1 .. (j - 1) \/ l = j
          BY <3>4, <3>6
        <4>3. ret'[p] = ret[p] \cup {key[s[j]]}
          BY <3>1, <3>6
        <4> HIDE <3>5, <3>6, <3>7
        <4> QED BY <4>1, <4>2, <4>3
      <3>9. ip'[p] = IF j + 1 > Len(s) THEN 0 ELSE s[j + 1]
        BY <3>1, <3>4, <3>6, <3>7
      <3>10. chain'[call'[p].key] = s /\ key' = key /\ pc'[p] = "sweep"
        BY <3>1 DEF s
      <3>11. SweepAt(p, j + 1)'
        BY <3>8, <3>9, <3>10 DEF SweepAt, s
      <3>12. j + 1 \in 1 .. (Len(s) + 1)
        BY <3>4, <3>6
      <3> QED BY <3>10, <3>11, <3>12 DEF ProcSweep
    <2>4. CASE SweepEnd(p)
      <3> DEFINE i == call[p].key
                 s == chain[i]
      <3>1. /\ pc[p] = "sweep" /\ ip[p] = 0 /\ pc'[p] = "unlock"
            /\ UNCHANGED <<chain, key, call, ret>>
        BY <2>4, <1>t DEF SweepEnd, TypeOK
      <3>2. i \in Index
        BY <3>1, <1>t DEF ProcLock, UnderUserLock
      <3>3. s \in Seq(Nodes) /\ Len(s) \in Nat
        BY <3>2 DEF IInv, TypeOK
      <3>4. PICK j \in 1 .. (Len(s) + 1) : SweepAt(p, j)
        BY <3>1, <1>t DEF ProcSweep
      <3>5. j = Len(s) + 1
        <4>1. 0 \notin Nodes
          BY SizeAssumption DEF Nodes
        <4>2. ASSUME j # Len(s) + 1 PROVE FALSE
          <5>1. j \in 1 .. Len(s) /\ ~(j > Len(s))
            BY <3>3, <3>4, <4>2
          <5>2. s[j] \in Nodes
            BY <3>3, <5>1
          <5> QED BY <3>1, <3>4, <4>1, <5>1, <5>2 DEF SweepAt
        <4> QED BY <4>2
      <3>6. ret[p] = {key[s[l]] : l \in 1 .. Len(s)}
        <4>1. j - 1 = Len(s)
          BY <3>3, <3>5
        <4> QED BY <3>4, <4>1 DEF SweepAt
      <3>7. ret[p] = {key[n] : n \in Elems(s)}
        BY <3>6 DEF Elems
      <3> QED BY <3>1, <3>7 DEF ProcSweep
    <2> QED BY <2>1, <2>2, <2>3, <2>4, SweepSteps
  <1> QED BY <1>1, <1>2 DEF SweepInv

(***************************************************************************)
(* What deaths cost.                                                       *)
(***************************************************************************)

\* Where the node of a call is on no list, and where it is counted without
\* being on a chain.
OffList == {"fill", "link", "uncount", "recycle", "relink", "push"}
OffChain == {"take", "fill", "link", "uncount", "recycle"}

Busy(S) == IF \E p \in Procs : pc[p] \in S THEN 1 ELSE 0

\* Nodes on no list, and nodes counted but on no chain: one for every death at
\* most, and the one that is under way.
Fair ==
    /\ DataNum - 1 - Cardinality(InChains) - Len(freeq) <= deaths + Busy(OffList)
    /\ used - 1 - Cardinality(InChains) <= deaths + Busy(OffChain)

\* Clear has not got to its end.
HalfClear ==
    /\ freeq = <<1>> /\ used = 1
    /\ \A i \in Index : chain[i] = <<>>
    /\ \A p \in Procs : /\ pc[p] \in {"down", "clearnodes", "verify"}
                        /\ pc[p] = "verify" => seen[p].used = 1

LossInv == formed => HalfClear \/ (Fair /\ \A p \in Procs : pc[p] # "clearnodes")

\* The numbers the balance is made of.
LEMMA LossTypes ==
    ASSUME IInv, formed
    PROVE  /\ IsFiniteSet(InChains) /\ Cardinality(InChains) \in Nat
           /\ Len(freeq) \in Nat /\ used \in Int /\ deaths \in Nat
           /\ DataNum \in Nat
  <1>1. IndexNum \in 0 .. IndexNum
    BY SizeAssumption
  <1>2. IsFiniteSet(InChains) /\ Cardinality(InChains) \in Nat
    BY <1>1, BeforeIs
  <1> QED BY <1>2, SizeAssumption, LenProperties DEF IInv, TypeOK

\* How far a process is from the balance of the lists and of the counts.
Off(p, S) == IF pc[p] \in S THEN 1 ELSE 0

\* The holder of the head lock is the only one with a node under way.
LEMMA BusyIs ==
    ASSUME IInv, NEW p \in Procs, headLock = p, Step(p), NEW S,
           S \subseteq Inserting \cup Removing
    PROVE  Busy(S) = Off(p, S) /\ Busy(S)' = Off(p, S)'
  <1>1. \A q \in Procs : q # p => pc[q] \notin S
    BY DEF IInv, LockInv, ProcLock, UnderHeadLock
  <1>2. \A q \in Procs : q # p => pc'[q] = pc[q]
    BY OthersKeep DEF IInv, Keeps
  <1>3. \A q \in Procs : q # p => pc'[q] \notin S
    BY <1>1, <1>2
  <1>4. Busy(S) = Off(p, S)
    BY <1>1 DEF Busy, Off
  <1>5. Busy(S)' = Off(p, S)'
    BY <1>3 DEF Busy, Off
  <1> QED BY <1>4, <1>5

\* What a step under the head lock does to the balance: what it moves off the
\* lists and the chains is the node it has under way.
Moves(p) ==
    /\ Cardinality(InChains)' \in Int /\ Len(freeq') \in Int /\ used' \in Int
    /\ Off(p, OffList) + (Cardinality(InChains) - Cardinality(InChains)')
         + (Len(freeq) - Len(freeq')) <= Off(p, OffList)'
    /\ Off(p, OffChain) + (Cardinality(InChains) - Cardinality(InChains)')
         + (used' - used) <= Off(p, OffChain)'

\* Such a step keeps the balance.
LEMMA FairMove ==
    ASSUME IInv, formed, Fair, NEW p \in Procs, headLock = p, Step(p), deaths' = deaths, Moves(p)
    PROVE  Fair'
  <1>1. OffList \subseteq Inserting \cup Removing /\ OffChain \subseteq Inserting \cup Removing
    BY DEF OffList, OffChain, Inserting, Removing
  <1>2. /\ Busy(OffList) = Off(p, OffList) /\ Busy(OffList)' = Off(p, OffList)'
        /\ Busy(OffChain) = Off(p, OffChain) /\ Busy(OffChain)' = Off(p, OffChain)'
    BY <1>1, BusyIs
  <1>3. PICK a \in Int, a1 \in Int, b \in Int, b1 \in Int :
          /\ a = Off(p, OffList) /\ a1 = Off(p, OffList)'
          /\ b = Off(p, OffChain) /\ b1 = Off(p, OffChain)'
    BY DEF Off
  <1>4. PICK c \in Int, f \in Int, u \in Int, d \in Int, N \in Int :
          /\ c = Cardinality(InChains) /\ f = Len(freeq) /\ u = used
          /\ d = deaths /\ N = DataNum
    BY LossTypes
  <1>5. PICK c1 \in Int, f1 \in Int, u1 \in Int :
          c1 = Cardinality(InChains)' /\ f1 = Len(freeq') /\ u1 = used'
    BY DEF Moves
  <1>6. N - 1 - c - f <= d + a /\ u - 1 - c <= d + b
    BY <1>2, <1>3, <1>4 DEF Fair
  <1>7. a + (c - c1) + (f - f1) <= a1 /\ b + (c - c1) + (u1 - u) <= b1
    BY <1>3, <1>4, <1>5 DEF Moves
  <1>8. N - 1 - c1 - f1 <= d + a1 /\ u1 - 1 - c1 <= d + b1
    BY <1>6, <1>7
  <1> QED BY <1>2, <1>3, <1>4, <1>5, <1>8 DEF Fair

\* Steps that have nothing to do with the balance.
Lossless(p) ==
    /\ UNCHANGED <<chain, freeq, used, deaths, formed>>
    /\ pc'[p] # "clearnodes"
    /\ pc[p] \in OffList <=> pc'[p] \in OffList
    /\ pc[p] \in OffChain <=> pc'[p] \in OffChain

\* They keep it.
LEMMA FairFrame ==
    ASSUME IInv, Fair, NEW p \in Procs, Step(p), Lossless(p)
    PROVE  Fair'
  <1>1. \A q \in Procs : q # p => pc'[q] = pc[q]
    BY OthersKeep DEF IInv, Keeps
  <1>2. Busy(OffList)' = Busy(OffList) /\ Busy(OffChain)' = Busy(OffChain)
    BY <1>1 DEF Busy, Lossless
  <1>3. InChains' = InChains
    BY DEF InChains, Lossless
  <1> QED BY <1>2, <1>3 DEF Fair, Lossless

\* The steps that have to do with the balance.
LEMMA LossSteps ==
    ASSUME IInv, NEW p \in Procs, Step(p)
    PROVE  \/ Lossless(p)
           \/ ClearHead(p) \/ ClearNodes(p) \/ GetFreeNode(p) \/ TakeFree(p) \/ LinkNode(p)
           \/ Unlink(p) \/ RecycleNode(p) \/ PushFree(p) \/ Die(p)
  <1> USE DEF IInv, TypeOK, counts, links, records, locks, locals, ghosts, faults, Goto,
              Lossless, OffList, OffChain
  <1>1. CASE Start(p)
    <2>1. CASE StartFirst(p)
      BY <2>1 DEF StartFirst
    <2>2. CASE StartAgain(p)
      BY <2>2 DEF StartAgain
    <2>2a. CASE AddEntity(p)
      BY <2>2a DEF AddEntity
    <2>5. CASE VerifyIndex(p)
      BY <2>5 DEF VerifyIndex
    <2>6. CASE VerifyDone(p)
      BY <2>6 DEF VerifyDone
    <2>7. CASE VerifyFails(p)
      BY <2>7 DEF VerifyFails
    <2> QED BY <1>1, <2>1, <2>2, <2>2a, <2>5, <2>6, <2>7 DEF Start
  <1>2. CASE Call(p)
    <2>1. CASE InsertUserInfo(p)
      BY <2>1 DEF InsertUserInfo, BeginWithHead
    <2>2. CASE RemoveUserInfoWhenInValid(p)
      BY <2>2 DEF RemoveUserInfoWhenInValid, BeginWithHead
    <2>3. CASE AddFriendReq(p)
      BY <2>3 DEF AddFriendReq, BeginWithUser, LockUser
    <2>4. CASE GetUserInfo(p)
      BY <2>4 DEF GetUserInfo, BeginWithUser, LockUser
    <2>5. CASE CheckUserIsValid(p)
      BY <2>5 DEF CheckUserIsValid
    <2> QED BY <1>2, <2>1, <2>2, <2>3, <2>4, <2>5 DEF Call
  <1>3. CASE Lookup(p)
    <2>1. CASE LockUserAfterHead(p)
      BY <2>1 DEF LockUserAfterHead, LockUser
    <2>2. CASE SweepNext(p)
      BY <2>2 DEF SweepNext
    <2>3. CASE SweepEnd(p)
      BY <2>3 DEF SweepEnd
    <2>4. CASE SearchNext(p)
      BY <2>4 DEF SearchNext
    <2>5. CASE Nothing(p)
      BY <2>5 DEF Nothing, Found, Missing
    <2>6. CASE Get(p)
      BY <2>6 DEF Get, Found, Missing
    <2> QED BY <1>3, <2>1, <2>2, <2>3, <2>4, <2>5, <2>6 DEF Lookup
  <1>4. CASE Change(p)
    <2>1. CASE UpdateFirst(p)
      BY <2>1 DEF UpdateFirst, Found
    <2>2. CASE UpdateRest(p)
      BY <2>2 DEF UpdateRest
    <2>3. CASE NoSpace(p)
      BY <2>3 DEF NoSpace, Missing
    <2>4. CASE FillNode(p)
      BY <2>4 DEF FillNode
    <2>5. CASE CountNode(p)
      BY <2>5 DEF CountNode
    <2>6. CASE UncountNode(p)
      BY <2>6 DEF UncountNode
    <2>7. CASE RelinkNode(p)
      BY <2>7 DEF RelinkNode
    <2> QED BY <1>4, <2>1, <2>2, <2>3, <2>4, <2>5, <2>6, <2>7 DEF Change
  <1>5. CASE Unlock(p)
    <2>1. CASE UnlockUser(p)
      BY <2>1 DEF UnlockUser
    <2>2. CASE UnlockHead(p)
      BY <2>2 DEF UnlockHead
    <2> QED BY <1>5, <2>1, <2>2 DEF Unlock
  <1> QED BY <1>1, <1>2, <1>3, <1>4, <1>5 DEF Step

\* The balance is kept once the table is in use.
LEMMA FairStep ==
    ASSUME IInv, formed, Fair, \A q \in Procs : pc[q] # "clearnodes", NEW p \in Procs, Step(p)
    PROVE  Fair' /\ \A q \in Procs : pc'[q] # "clearnodes"
  <1> USE DEF counts, links, records, locks, locals, ghosts, faults, Goto
  <1>t. TypeOK /\ ProcLock(p) /\ ProcWalk(p)
    BY DEF IInv, LockInv, WalkInv
  <1>k. \A q \in Procs : q # p => pc'[q] = pc[q]
    BY OthersKeep DEF IInv, Keeps
  <1>n. /\ IsFiniteSet(InChains) /\ Cardinality(InChains) \in Nat /\ Len(freeq) \in Nat
        /\ used \in Int /\ deaths \in Nat /\ DataNum \in Nat
    BY LossTypes
  <1>m. ASSUME pc[p] \in Inserting \cup Removing
        PROVE  headLock = p /\ Slot(call[p]) \in Index /\ ip[p] \in Nodes
    BY <1>m, Midway DEF IInv
  <1>1. CASE Lossless(p)
    BY <1>1, <1>k, FairFrame DEF Lossless
  <1>2. ~ClearHead(p) /\ ~ClearNodes(p)
    BY DEF ClearHead, ClearNodes, IInv, BootInv
  <1>3. CASE GetFreeNode(p)
    <2>1. headLock = p
      BY <1>3, <1>t DEF GetFreeNode, Missing, ProcLock, WholeOps
    <2>2. /\ chain' = chain /\ freeq' = freeq /\ used' = used + 1 /\ deaths' = deaths
          /\ pc[p] = "search" /\ pc'[p] = "take"
      BY <1>3, <1>t DEF GetFreeNode, Missing, TypeOK
    <2>3. InChains' = InChains
      BY <2>2 DEF InChains
    <2>4. Off(p, OffList) = 0 /\ Off(p, OffList)' = 0 /\ Off(p, OffChain) = 0 /\ Off(p, OffChain)' = 1
      BY <2>2 DEF Off, OffList, OffChain
    <2>5. Moves(p)
      BY <2>2, <2>3, <2>4, <1>n DEF Moves
    <2>6. Fair'
      BY <2>1, <2>2, <2>5, FairMove
    <2> QED BY <2>2, <2>6, <1>k
  <1>4. CASE TakeFree(p)
    <2>1. pc[p] = "take" /\ headLock = p /\ freeq # <<>> /\ freeq \in Seq(Nodes)
      BY <1>4, <1>t, <1>m DEF TakeFree, Inserting, ProcWalk, TypeOK
    <2>2. /\ chain' = chain /\ freeq' = Tail(freeq) /\ used' = used /\ deaths' = deaths
          /\ pc'[p] = "fill"
      BY <1>4, <1>t DEF TakeFree, TypeOK
    <2>3. InChains' = InChains
      BY <2>2 DEF InChains
    <2>4. Len(Tail(freeq)) = Len(freeq) - 1
      BY <2>1, TailIs
    <2>5. Off(p, OffList) = 0 /\ Off(p, OffList)' = 1 /\ Off(p, OffChain) = 1 /\ Off(p, OffChain)' = 1
      BY <2>1, <2>2 DEF Off, OffList, OffChain
    <2>6. Moves(p)
      BY <2>2, <2>3, <2>4, <2>5, <1>n DEF Moves
    <2>7. Fair'
      BY <2>1, <2>2, <2>6, FairMove
    <2> QED BY <2>2, <2>7, <1>k
  <1>5. CASE LinkNode(p)
    <2> DEFINE i0 == Slot(call[p])
    <2>1. pc[p] = "link" /\ headLock = p /\ i0 \in Index /\ ip[p] \in Nodes /\ Loose(ip[p])
      BY <1>5, <1>t, <1>m DEF LinkNode, Inserting, ProcWalk
    <2>2. /\ chain' = [chain EXCEPT ![i0] = <<ip[p]>> \o chain[i0]]
          /\ freeq' = freeq /\ used' = used /\ deaths' = deaths /\ pc'[p] = "count"
      BY <1>5, <1>t DEF LinkNode, TypeOK
    <2>3. InChains' = InChains \cup {ip[p]} /\ ip[p] \notin InChains
      <3>1. chain[i0] \in Seq(Nodes)
        BY <2>1, <1>t DEF TypeOK
      <3>2. Elems(<<ip[p]>> \o chain[i0]) = Elems(chain[i0]) \cup {ip[p]}
        BY <2>1, <3>1, PushIs
      <3>3. \A i \in Index : Elems(chain'[i]) = IF i = i0 THEN Elems(chain[i]) \cup {ip[p]} ELSE Elems(chain[i])
        BY <2>1, <2>2, <3>2, <1>t DEF TypeOK
      <3>4. ip[p] \notin InChains
        BY <2>1 DEF Loose, InChains
      <3>5. InChains' = UNION {Elems(chain'[i]) : i \in Index}
        BY DEF InChains
      <3> QED BY <2>1, <3>3, <3>4, <3>5 DEF InChains
    <2>4. Cardinality(InChains \cup {ip[p]}) = Cardinality(InChains) + 1
      BY <2>3, <1>n, FS_AddElement
    <2>5. Off(p, OffList) = 1 /\ Off(p, OffList)' = 0 /\ Off(p, OffChain) = 1 /\ Off(p, OffChain)' = 0
      BY <2>1, <2>2 DEF Off, OffList, OffChain
    <2>6. Moves(p)
      BY <2>2, <2>3, <2>4, <2>5, <1>n DEF Moves
    <2>7. Fair'
      BY <2>1, <2>2, <2>6, FairMove
    <2> QED BY <2>2, <2>7, <1>k
  <1>6. CASE Unlink(p)
    <2> DEFINE i0 == Slot(call[p])
    <2>1. pc[p] = "search" /\ headLock = p /\ i0 \in Index
      BY <1>6, UnlinkIs DEF Unlink, Found
    <2>2. freeq' = freeq /\ used' = used /\ deaths' = deaths /\ pc'[p] = "uncount"
      BY <1>6, <1>t DEF Unlink, TypeOK
    <2>3. PICK j \in 1 .. Len(chain[i0]) :
            chain[i0][j] = ip[p] /\ chain' = [chain EXCEPT ![i0] = Without(chain[i0], j)]
      BY <1>6, UnlinkIs
    <2>4. InChains' = InChains \ {ip[p]} /\ ip[p] \in InChains
      <3>1. chain[i0] \in Seq(Nodes) /\ Injective(chain[i0])
        BY <2>1 DEF IInv, LinkInv, TypeOK
      <3>2. Elems(Without(chain[i0], j)) = Elems(chain[i0]) \ {ip[p]}
        BY <2>3, <3>1, LeftOver
      <3>3. ip[p] \in Elems(chain[i0])
        BY <2>3 DEF Elems
      <3>4. \A i \in Index : i # i0 => ip[p] \notin Elems(chain[i])
        BY <2>1, <3>3, OneChain DEF IInv
      <3>5. \A i \in Index : Elems(chain'[i]) = Elems(chain[i]) \ {ip[p]}
        BY <2>1, <2>3, <3>2, <3>4, <1>t DEF TypeOK
      <3>6. InChains' = UNION {Elems(chain'[i]) : i \in Index}
        BY DEF InChains
      <3>7. ip[p] \in InChains
        BY <2>1, <3>3 DEF InChains
      <3> HIDE DEF i0
      <3>8. \A n : n \in InChains' <=> n \in InChains /\ n # ip[p]
        BY <3>5, <3>6 DEF InChains
      <3> QED BY <3>7, <3>8
    <2>5. Cardinality(InChains \ {ip[p]}) = Cardinality(InChains) - 1
      BY <2>4, <1>n, FS_RemoveElement
    <2>6. Off(p, OffList) = 0 /\ Off(p, OffList)' = 1 /\ Off(p, OffChain) = 0 /\ Off(p, OffChain)' = 1
      BY <2>1, <2>2 DEF Off, OffList, OffChain
    <2>7. Moves(p)
      BY <2>2, <2>4, <2>5, <2>6, <1>n DEF Moves
    <2>8. Fair'
      BY <2>1, <2>2, <2>7, FairMove
    <2> QED BY <2>2, <2>8, <1>k
  <1>7. CASE RecycleNode(p)
    <2>1. pc[p] = "recycle" /\ headLock = p
      BY <1>7, <1>m DEF RecycleNode, Removing
    <2>2. /\ chain' = chain /\ freeq' = freeq /\ used' = used - 1 /\ deaths' = deaths
          /\ pc'[p] = "relink"
      BY <1>7, <1>t DEF RecycleNode, TypeOK
    <2>3. InChains' = InChains
      BY <2>2 DEF InChains
    <2>4. Off(p, OffList) = 1 /\ Off(p, OffList)' = 1 /\ Off(p, OffChain) = 1 /\ Off(p, OffChain)' = 0
      BY <2>1, <2>2 DEF Off, OffList, OffChain
    <2>5. Moves(p)
      BY <2>2, <2>3, <2>4, <1>n DEF Moves
    <2>6. Fair'
      BY <2>1, <2>2, <2>5, FairMove
    <2> QED BY <2>2, <2>6, <1>k
  <1>8. CASE PushFree(p)
    <2>1. pc[p] = "push" /\ headLock = p /\ ip[p] \in Nodes /\ freeq \in Seq(Nodes)
      BY <1>8, <1>m, <1>t DEF PushFree, Removing, TypeOK
    <2>2. /\ chain' = chain /\ freeq' = <<ip[p]>> \o freeq /\ used' = used /\ deaths' = deaths
          /\ pc'[p] = "unlock"
      BY <1>8, <1>t DEF PushFree, TypeOK
    <2>3. InChains' = InChains
      BY <2>2 DEF InChains
    <2>4. Len(<<ip[p]>> \o freeq) = Len(freeq) + 1
      BY <2>1, PushIs
    <2>5. Off(p, OffList) = 1 /\ Off(p, OffList)' = 0 /\ Off(p, OffChain) = 0 /\ Off(p, OffChain)' = 0
      BY <2>1, <2>2 DEF Off, OffList, OffChain
    <2>6. Moves(p)
      BY <2>2, <2>3, <2>4, <2>5, <1>n DEF Moves
    <2>7. Fair'
      BY <2>1, <2>2, <2>6, FairMove
    <2> QED BY <2>2, <2>7, <1>k
  <1>9. CASE Die(p)
    <2>1. UNCHANGED <<chain, freeq, used>> /\ deaths' = deaths + 1 /\ pc'[p] \in {"down", "dead"}
      BY <1>9, <1>t DEF Die, TypeOK
    <2>2. InChains' = InChains
      BY <2>1 DEF InChains
    <2>3. /\ Busy(OffList) \in {0, 1} /\ Busy(OffList)' \in {0, 1}
          /\ Busy(OffChain) \in {0, 1} /\ Busy(OffChain)' \in {0, 1}
      BY DEF Busy
    <2>4. /\ DataNum - 1 - Cardinality(InChains) - Len(freeq) <= deaths + Busy(OffList)
          /\ used - 1 - Cardinality(InChains) <= deaths + Busy(OffChain)
      BY DEF Fair
    <2>5. /\ DataNum - 1 - Cardinality(InChains) - Len(freeq) <= (deaths + 1) + Busy(OffList)'
          /\ used - 1 - Cardinality(InChains) <= (deaths + 1) + Busy(OffChain)'
      BY <2>3, <2>4, <1>n
    <2>6. Fair'
      BY <2>1, <2>2, <2>5 DEF Fair
    <2> QED BY <2>1, <2>6, <1>k
  <1> QED BY <1>1, <1>2, <1>3, <1>4, <1>5, <1>6, <1>7, <1>8, <1>9, LossSteps

\* A table that Clear has not finished is finished, or stays as it is: Verify
\* lets nobody use it.
LEMMA HalfStep ==
    ASSUME IInv, formed, HalfClear, NEW p \in Procs, Step(p)
    PROVE  HalfClear' \/ (Fair' /\ \A q \in Procs : pc'[q] # "clearnodes")
  <1> USE DEF counts, links, records, locks, locals, ghosts, faults, Goto
  <1>t. TypeOK /\ BootInv /\ magic /\ deaths \in Nat /\ DataNum \in Nat /\ DataNum >= 2
    BY SizeAssumption DEF IInv, TypeOK, BootInv
  <1>k. \A q \in Procs : q # p => pc'[q] = pc[q] /\ seen'[q] = seen[q]
    BY OthersKeep DEF IInv, Keeps
  <1>h. /\ freeq = <<1>> /\ used = 1 /\ \A i \in Index : chain[i] = <<>>
        /\ \A q \in Procs : /\ pc[q] \in {"down", "clearnodes", "verify"}
                            /\ pc[q] = "verify" => seen[q].used = 1
    BY DEF HalfClear
  <1>f. ASSUME chain' = chain, used' = 1, Len(freeq') = DataNum - 1, deaths' = deaths
        PROVE  Fair'
    <2>1. InChains' = {}
      BY <1>f, <1>h DEF InChains, Elems
    <2>2. Cardinality(InChains)' = 0
      BY <2>1, FS_EmptySet
    <2>3. Busy(OffList)' \in {0, 1} /\ Busy(OffChain)' \in {0, 1}
      BY DEF Busy
    <2> QED BY <1>f, <1>t, <2>2, <2>3 DEF Fair
  <1>1. CASE StartAgain(p) \/ VerifyIndex(p) \/ VerifyFails(p) \/ Die(p)
    <2>1. /\ UNCHANGED <<freeq, used, chain>> /\ pc'[p] \in {"down", "verify"}
          /\ pc'[p] = "verify" => seen'[p].used = 1
      <3>1. CASE StartAgain(p)
        BY <3>1, <1>h, <1>t DEF StartAgain, TypeOK
      <3>2. CASE VerifyIndex(p)
        BY <3>2, <1>h, <1>t DEF VerifyIndex, TypeOK
      <3>3. CASE VerifyFails(p)
        BY <3>3, <1>h, <1>t DEF VerifyFails, TypeOK
      <3>4. CASE Die(p)
        BY <3>4, <1>h, <1>t DEF Die, Starting, TypeOK
      <3> QED BY <1>1, <3>1, <3>2, <3>3, <3>4
    <2> QED BY <2>1, <1>h, <1>k DEF HalfClear
  <1>2. CASE ClearNodes(p)
    <2>1. /\ chain' = chain /\ used' = 1 /\ deaths' = deaths /\ freeq' = [n \in Nodes |-> n]
          /\ pc[p] = "clearnodes" /\ pc'[p] = "verify"
      BY <1>2, <1>h, <1>t DEF ClearNodes, TypeOK
    <2>2. Len(freeq') = DataNum - 1
      BY <2>1, <1>t DEF Nodes
    <2>3. \A q \in Procs : pc'[q] # "clearnodes"
      BY <2>1, <1>t, <1>k DEF BootInv
    <2> QED BY <2>1, <2>2, <2>3, <1>f
  <1>3. CASE VerifyDone(p)
    <2>1. /\ chain' = chain /\ used' = 1 /\ deaths' = deaths /\ freeq' = freeq
          /\ pc[p] = "verify" /\ pc'[p] = "idle"
      BY <1>3, <1>h, <1>t DEF VerifyDone, TypeOK
    <2>2. Length(free) + 1 = DataNum
      BY <1>3, <2>1, <1>h DEF VerifyDone, VerifyFreeOK
    <2>3. Length(free) = Len(freeq)
      BY LengthIs DEF IInv, TypeOK, LinkInv
    <2>4. Len(freeq) \in Nat
      BY <1>t, LenProperties DEF TypeOK
    <2>5. Len(freeq') = DataNum - 1
      BY <2>1, <2>2, <2>3, <2>4, <1>t
    <2>6. \A q \in Procs : pc'[q] # "clearnodes"
      BY <2>1, <1>t, <1>k DEF BootInv
    <2> QED BY <2>1, <2>5, <2>6, <1>f
  <1>4. ~StartFirst(p) /\ ~ClearHead(p) /\ ~AddEntity(p)
    BY <1>h, <1>t DEF StartFirst, ClearHead, AddEntity
  <1>5. ~Call(p) /\ ~Unlock(p)
    BY <1>h DEF Call, Unlock, InsertUserInfo, RemoveUserInfoWhenInValid, AddFriendReq, GetUserInfo,
                CheckUserIsValid, BeginWithHead, BeginWithUser, UnlockUser, UnlockHead
  <1>6. ~Lookup(p)
    BY <1>h DEF Lookup, LockUserAfterHead, SweepNext, SweepEnd, SearchNext, Nothing, Get, Found, Missing
  <1>7. ~Change(p)
    BY <1>h DEF Change, UpdateFirst, UpdateRest, NoSpace, GetFreeNode, TakeFree, FillNode, LinkNode,
                CountNode, Unlink, UncountNode, RecycleNode, RelinkNode, PushFree, Found, Missing
  <1> QED BY <1>1, <1>2, <1>3, <1>4, <1>5, <1>6, <1>7 DEF Step, Start

\* The balance is kept by every step.
LEMMA LossStep ==
    ASSUME IInv, LossInv, NEW p \in Procs, Step(p)
    PROVE  LossInv'
  <1> USE DEF counts, links, records, locks, locals, ghosts, faults, Goto
  <1>1. CASE formed
    <2>1. CASE HalfClear
      BY <1>1, <2>1, HalfStep DEF LossInv
    <2>2. CASE Fair /\ \A q \in Procs : pc[q] # "clearnodes"
      BY <1>1, <2>2, FairStep DEF LossInv
    <2> QED BY <1>1, <2>1, <2>2 DEF LossInv
  <1>2. CASE ~formed
    <2>1. CASE ClearHead(p)
      <3>1. /\ freeq' = <<1>> /\ used' = 1 /\ chain' = chain /\ pc'[p] = "clearnodes"
            /\ pc[p] = "clear"
        BY <2>1 DEF ClearHead, IInv, TypeOK
      <3>2. \A q \in Procs : q # p => pc'[q] = "down"
        BY <3>1, OthersKeep DEF IInv, BootInv, Keeps
      <3>3. \A i \in Index : chain'[i] = <<>>
        BY <1>2, <3>1 DEF IInv, BootInv
      <3>4. HalfClear'
        BY <3>1, <3>2, <3>3 DEF HalfClear
      <3> QED BY <3>4 DEF LossInv
    <2>2. CASE ~ClearHead(p)
      <3>1. pc[p] \in {"down", "clear", "verify"}
        BY <1>2 DEF IInv, BootInv
      <3>2. formed' = formed
        <4>1. CASE Lossless(p)
          BY <4>1 DEF Lossless
        <4>2. CASE ~Lossless(p)
          BY <2>2, <3>1, <4>2, LossSteps
             DEF ClearNodes, GetFreeNode, TakeFree, LinkNode, Unlink, RecycleNode, PushFree, Die,
                 Found, Missing
        <4> QED BY <4>1, <4>2
      <3> QED BY <1>2, <3>2 DEF LossInv
    <2> QED BY <2>1, <2>2
  <1> QED BY <1>1, <1>2

(***************************************************************************)
(* What the counts, the sweeps and the balance come to.                    *)
(***************************************************************************)

\* The counts, the sweeps and the balance along every behaviour.
FullInv == IInv /\ CountInv /\ SweepInv /\ LossInv

\* A new segment satisfies them.
LEMMA InitFull == Init => FullInv
  <1> SUFFICES ASSUME Init PROVE FullInv
    OBVIOUS
  <1>1. CountInv
    BY DEF Init, CountInv, CountOK
  <1>2. SweepInv
    BY DEF Init, SweepInv, ProcSweep
  <1>3. LossInv
    BY DEF Init, LossInv
  <1> QED BY <1>1, <1>2, <1>3, InitInv DEF FullInv

\* Every step keeps them.
LEMMA NextFull == FullInv /\ [Next]_vars => FullInv'
  <1> SUFFICES ASSUME FullInv, [Next]_vars PROVE FullInv'
    OBVIOUS
  <1>0. IInv'
    BY NextInv DEF FullInv
  <1>1. CASE UNCHANGED vars
    <2> USE <1>1 DEF vars, counts, links, records, locks, locals, ghosts, faults, FullInv
    <2>1. CountInv'
      BY DEF CountInv, CountOK, Slot
    <2>2. SweepInv'
      <3>1. ASSUME NEW p \in Procs PROVE ProcSweep(p)'
        <4>1. ProcSweep(p)
          BY DEF SweepInv
        <4>2. UNCHANGED <<chain, key, pc, call, ip, ret, short>>
          OBVIOUS
        <4>3. ASSUME NEW j, SweepAt(p, j) PROVE SweepAt(p, j)'
          BY <4>2, <4>3 DEF SweepAt
        <4> QED BY <4>1, <4>2, <4>3 DEF ProcSweep
      <3> QED BY <3>1 DEF SweepInv
    <2>3. LossInv'
      BY DEF LossInv, HalfClear, Fair, Busy, InChains
    <2> QED BY <1>0, <2>1, <2>2, <2>3
  <1>2. CASE Next
    <2>1. PICK p \in Procs : Step(p)
      BY <1>2 DEF Next, Step
    <2>2. CountInv'
      BY <2>1, CountStep DEF FullInv
    <2>3. SweepInv'
      BY <2>1, SweepStep DEF FullInv
    <2>4. LossInv'
      BY <2>1, LossStep DEF FullInv
    <2> QED BY <1>0, <2>2, <2>3, <2>4 DEF FullInv
  <1> QED BY <1>1, <1>2

\* CheckUserIsValid, in a table in which no process died between the link and
\* iDataNodeNum++ of an Insert into that index, reports exactly the users of
\* the index, whatever else happens to the table meanwhile.
THEOREM SweepAlwaysComplete == Spec => []SweepComplete
  <1>1. FullInv => SweepComplete
    BY DEF FullInv, SweepInv, ProcSweep, SweepComplete
  <1> QED BY <1>1, InitFull, NextFull, PTL DEF Spec

\* A table in use and at rest lacks one node at most for every death.
LEMMA DeathCosts == FullInv => DeathCostsOneNode
  <1> SUFFICES ASSUME FullInv, InUse, \A p \in Procs : pc[p] \notin MidChange
               PROVE  DataNum - 1 - Cardinality(InChains) - Available <= deaths
    BY DEF DeathCostsOneNode
  <1>1. formed /\ ~HalfClear
    BY FormedFor DEF InUse, FullInv, IInv, HalfClear
  <1>2. Fair
    BY <1>1 DEF FullInv, LossInv
  <1>3. Busy(OffList) = 0 /\ Busy(OffChain) = 0
    BY DEF Busy, OffList, OffChain, MidChange
  <1>4. PICK c \in Int, f \in Int, u \in Int, d \in Int, N \in Int :
          /\ c = Cardinality(InChains) /\ f = Len(freeq) /\ u = used
          /\ d = deaths /\ N = DataNum
    BY <1>1, LossTypes DEF FullInv
  <1>5. N - 1 - c - f <= d + 0 /\ u - 1 - c <= d + 0
    BY <1>2, <1>3, <1>4 DEF Fair
  <1>6. Available = IF f < N - u THEN f ELSE N - u
    BY <1>4 DEF Available
  <1>7. N - 1 - c - (IF f < N - u THEN f ELSE N - u) <= d
    BY <1>5
  <1> QED BY <1>4, <1>6, <1>7

\* Every death costs the table at most one node, wherever it happened, and a
\* table nobody died in can be filled to the last one.
THEOREM DeathCostsAlways == Spec => []DeathCostsOneNode
  BY DeathCosts, InitFull, NextFull, PTL DEF Spec

-----------------------------------------------------------------------------
(***************************************************************************)
(* The user table is a map: every behaviour of HashList, with its records, *)
(* locks and deaths, is one of UserMap.                                    *)
(*                                                                         *)
(* To the invariant above comes what is known of the records: a node on a  *)
(* chain has a record, the node an Update writes is the user's own and     *)
(* stays on the chain, and a lookup has no answer before it ends.          *)
(***************************************************************************)

\* What a process knows of the record it is at, and of its answer.
ProcRec(p) ==
    /\ pc[p] = "write" => /\ ip[p] \in Elems(chain[Slot(call[p])])
                          /\ key[ip[p]] = call[p].key
                          /\ data[ip[p]] = Torn
    /\ pc[p] = "link" => data[ip[p]] = call[p].data
    /\ pc[p] \in {"down", "dead", "clear", "clearnodes", "verify", "idle", "unhead"} =>
         call[p].op = "none"
    /\ call[p].op # "Check" /\ ~(pc[p] = "unlock" /\ call[p].op = "Get") =>
         ret[p] = None

RecInv ==
    /\ \A p \in Procs : ProcRec(p)
    /\ \A i \in Index : \A n \in Elems(chain[i]) : data[n] \in Data \cup {Torn}

(***************************************************************************)
(* Reading records off chains ch with keys ky and records da.              *)
(***************************************************************************)
Has(ch, ky, k, n) == n \in Elems(ch[Hash(k)]) /\ ky[n] = k

RecordIn(ch, ky, da, k) ==
    IF \E n \in Elems(ch[Hash(k)]) : ky[n] = k
      THEN da[CHOOSE n \in Elems(ch[Hash(k)]) : ky[n] = k]
      ELSE NoData

Unique(ch, ky) ==
    \A k \in Keys : \A n1, n2 : Has(ch, ky, k, n1) /\ Has(ch, ky, k, n2) => n1 = n2

\* The record of a user is that of its node.
LEMMA RecordHas ==
    ASSUME NEW ch, NEW ky, NEW da, NEW k \in Keys, NEW n,
           Has(ch, ky, k, n), Unique(ch, ky)
    PROVE  RecordIn(ch, ky, da, k) = da[n]
  <1> DEFINE c == CHOOSE x \in Elems(ch[Hash(k)]) : ky[x] = k
  <1>1. \E x \in Elems(ch[Hash(k)]) : ky[x] = k
    BY DEF Has
  <1>2. Has(ch, ky, k, c)
    BY <1>1, Zenon DEF Has
  <1>3. c = n
    BY <1>2, Zenon DEF Unique
  <1> QED BY <1>1, <1>3, Zenon DEF RecordIn

\* A user without a node has no record.
LEMMA RecordMissing ==
    ASSUME NEW ch, NEW ky, NEW da, NEW k \in Keys, \A n : ~Has(ch, ky, k, n)
    PROVE  RecordIn(ch, ky, da, k) = NoData
  BY Zenon DEF RecordIn, Has

\* The record of a user depends on its own node only.
LEMMA RecordFrame ==
    ASSUME NEW ch, NEW ky, NEW da, NEW ch2, NEW ky2, NEW da2, NEW k \in Keys,
           Unique(ch, ky), Unique(ch2, ky2),
           \A n : Has(ch, ky, k, n) <=> Has(ch2, ky2, k, n),
           \A n : Has(ch, ky, k, n) => da2[n] = da[n]
    PROVE  RecordIn(ch2, ky2, da2, k) = RecordIn(ch, ky, da, k)
  <1>1. CASE \E n : Has(ch, ky, k, n)
    <2>1. PICK n : Has(ch, ky, k, n)
      BY <1>1
    <2>2. RecordIn(ch, ky, da, k) = da[n]
      BY <2>1, RecordHas
    <2>3. RecordIn(ch2, ky2, da2, k) = da2[n]
      BY <2>1, RecordHas
    <2> QED BY <2>1, <2>2, <2>3
  <1>2. CASE \A n : ~Has(ch, ky, k, n)
    BY <1>2, RecordMissing
  <1> QED BY <1>1, <1>2

\* Record reads the present chains, and the next ones.
LEMMA RecordNow ==
    ASSUME NEW k \in Keys
    PROVE  /\ Record(k) = RecordIn(chain, key, data, k)
           /\ Record(k)' = RecordIn(chain', key', data', k)
  BY Zenon DEF Record, RecordIn

\* A user is at most once in the table.
LEMMA UniqueNow == IInv => Unique(chain, key)
  <1> SUFFICES ASSUME IInv, NEW k \in Keys, NEW n1, NEW n2,
                      Has(chain, key, k, n1), Has(chain, key, k, n2)
               PROVE  n1 = n2
    BY DEF Unique
  <1>1. Hash(k) \in Index
    BY HashType
  <1>2. CASE formed
    BY <1>1, <1>2 DEF IInv, LinkInv, Has
  <1>3. CASE ~formed
    <2>1. chain[Hash(k)] = <<>>
      BY <1>1, <1>3 DEF IInv, BootInv
    <2> QED BY <2>1 DEF Has, Elems
  <1> QED BY <1>2, <1>3

\* The same in the next state.
LEMMA UniqueThen == IInv' => Unique(chain', key')
  <1> SUFFICES ASSUME IInv', NEW k \in Keys, NEW n1, NEW n2,
                      Has(chain', key', k, n1), Has(chain', key', k, n2)
               PROVE  n1 = n2
    BY DEF Unique
  <1>1. Hash(k) \in Index
    BY HashType
  <1>2. CASE formed'
    BY <1>1, <1>2 DEF IInv, LinkInv, Has
  <1>3. CASE ~formed'
    <2>1. chain'[Hash(k)] = <<>>
      BY <1>1, <1>3 DEF IInv, BootInv
    <2> QED BY <2>1 DEF Has, Elems
  <1> QED BY <1>2, <1>3

(***************************************************************************)
(* The invariant of the records.                                           *)
(***************************************************************************)

\* A record is written under the lock of its chain, or in a node on no list.
DataGuarded(p) ==
    \/ data' = data
    \/ \E n \in Nodes :
         /\ \A m \in Nodes \ {n} : data'[m] = data[m]
         /\ \/ Loose(n) /\ headLock = p
            \/ n \in Elems(chain[Slot(call[p])]) /\ pc[p] \in UnderUserLock

\* The node that a search has found is on its chain.
LEMMA FoundOnChain ==
    ASSUME IInv, NEW p \in Procs, NEW op, Found(p, op)
    PROVE  /\ formed /\ Slot(call[p]) \in Index /\ pc[p] \in UnderUserLock
           /\ ip[p] \in Nodes /\ ip[p] \in Elems(chain[Slot(call[p])])
           /\ key[ip[p]] = call[p].key
           /\ op \notin {"Check", "none"} =>
                call[p].key \in Keys /\ Slot(call[p]) = Hash(call[p].key)
  <1> DEFINE s == chain[Slot(call[p])]
  <1>0. pc[p] = "search" /\ call[p].op = op /\ ip[p] # 0 /\ key[ip[p]] = call[p].key
    BY DEF Found
  <1>1. ProcWalk(p) /\ ProcLock(p) /\ formed
    BY <1>0, FormedFor DEF IInv, WalkInv, LockInv
  <1>2. Slot(call[p]) \in Index /\ pc[p] \in UnderUserLock
    BY <1>0, <1>1, SlotType DEF UnderUserLock
  <1>3. s \in Seq(Nodes)
    BY <1>2 DEF IInv, TypeOK
  <1>4. PICK j \in 1 .. Len(s) : At(p, j)
    BY <1>0, <1>1 DEF ProcWalk
  <1>5. ip[p] = s[j]
    BY <1>4 DEF At
  <1>6. ip[p] \in Elems(s) /\ ip[p] \in Nodes
    BY <1>3, <1>4, <1>5 DEF Elems
  <1>7. op \notin {"Check", "none"} =>
          call[p].key \in Keys /\ Slot(call[p]) = Hash(call[p].key)
    BY <1>0, <1>1, <1>2 DEF ProcLock, Slot
  <1> QED BY <1>0, <1>1, <1>2, <1>6, <1>7

\* An Update half way is at the node of its user.
LEMMA WriteOnChain ==
    ASSUME IInv, RecInv, NEW p \in Procs, pc[p] = "write"
    PROVE  /\ formed /\ Slot(call[p]) \in Index /\ pc[p] \in UnderUserLock
           /\ ip[p] \in Nodes /\ ip[p] \in Elems(chain[Slot(call[p])])
           /\ key[ip[p]] = call[p].key /\ data[ip[p]] = Torn
           /\ call[p].key \in Keys /\ Slot(call[p]) = Hash(call[p].key)
           /\ call[p].data \in Data
  <1>1. ProcRec(p) /\ ProcLock(p) /\ formed
    BY FormedFor DEF IInv, RecInv, LockInv
  <1>2. Slot(call[p]) \in Index /\ pc[p] \in UnderUserLock
    BY <1>1, SlotType DEF UnderUserLock
  <1> QED BY <1>1, <1>2 DEF ProcRec, ProcLock, Slot

\* Every step but the set-up writes records that way only.
LEMMA StepDataGuarded ==
    ASSUME IInv, RecInv, NEW p \in Procs, Step(p), ~ClearHead(p)
    PROVE  DataGuarded(p)
  <1>1. CASE FillNode(p)
    <2>0. pc[p] = "fill" /\ pc[p] \in Inserting \cup Removing
      BY <1>1 DEF FillNode, Inserting
    <2>1. headLock = p /\ ip[p] \in Nodes /\ ProcWalk(p)
      BY <2>0, Midway DEF IInv
    <2>2. Loose(ip[p])
      BY <2>0, <2>1 DEF ProcWalk
    <2>3. \A m \in Nodes \ {ip[p]} : data'[m] = data[m]
      BY <1>1, <2>1 DEF FillNode, IInv, TypeOK
    <2> QED BY <2>1, <2>2, <2>3 DEF DataGuarded
  <1>2. CASE UpdateFirst(p)
    <2>1. /\ ip[p] \in Nodes /\ ip[p] \in Elems(chain[Slot(call[p])])
          /\ pc[p] \in UnderUserLock
      BY <1>2, FoundOnChain DEF UpdateFirst
    <2>2. \A m \in Nodes \ {ip[p]} : data'[m] = data[m]
      BY <1>2, <2>1 DEF UpdateFirst, IInv, TypeOK
    <2> QED BY <2>1, <2>2 DEF DataGuarded
  <1>3. CASE UpdateRest(p)
    <2>1. /\ ip[p] \in Nodes /\ ip[p] \in Elems(chain[Slot(call[p])])
          /\ pc[p] \in UnderUserLock
      BY <1>3, WriteOnChain DEF UpdateRest
    <2>2. \A m \in Nodes \ {ip[p]} : data'[m] = data[m]
      BY <1>3, <2>1 DEF UpdateRest, IInv, TypeOK
    <2> QED BY <2>1, <2>2 DEF DataGuarded
  <1>4. CASE ~FillNode(p) /\ ~UpdateFirst(p) /\ ~UpdateRest(p)
    <2>1. data' = data
      <3> USE DEF counts, links, records, locks, locals, ghosts, faults, Goto
      <3>1. CASE Start(p)
        BY <1>4, <3>1
        DEF Start, StartFirst, StartAgain, AddEntity, ClearNodes, VerifyIndex, VerifyDone,
            VerifyFails
      <3>2. CASE Call(p)
        BY <1>4, <3>2
        DEF Call, InsertUserInfo, RemoveUserInfoWhenInValid, AddFriendReq,
            GetUserInfo, CheckUserIsValid, BeginWithHead, BeginWithUser, LockUser
      <3>3. CASE Lookup(p)
        BY <1>4, <3>3
        DEF Lookup, LockUserAfterHead, SweepNext, SweepEnd, SearchNext, Nothing,
            Get, LockUser
      <3>4. CASE Change(p)
        BY <1>4, <3>4
        DEF Change, NoSpace, GetFreeNode, TakeFree, LinkNode, CountNode, Unlink,
            UncountNode, RecycleNode, RelinkNode, PushFree
      <3>5. CASE Unlock(p)
        BY <1>4, <3>5
        DEF Unlock, UnlockUser, UnlockHead
      <3>6. CASE Die(p)
        BY <3>6 DEF Die
      <3> QED BY <3>1, <3>2, <3>3, <3>4, <3>5, <3>6 DEF Step
    <2> QED BY <2>1 DEF DataGuarded
  <1> QED BY <1>1, <1>2, <1>3, <1>4

\* What a process knows of its record stays true while others run.
LEMMA RecFrame ==
    ASSUME IInv, RecInv, NEW p \in Procs, NEW q \in Procs, q # p,
           Keeps(q), Guarded(p), DataGuarded(p)
    PROVE  ProcRec(q)'
  <1>0. ProcRec(q) /\ ProcLock(q) /\ ProcLock(p) /\ ProcWalk(q)
    BY DEF IInv, RecInv, LockInv, WalkInv
  <1>1. /\ pc'[q] = pc[q] /\ call'[q] = call[q] /\ ip'[q] = ip[q] /\ ret'[q] = ret[q]
    BY DEF Keeps
  <1>2. ASSUME pc[q] = "write"
        PROVE  /\ ip[q] \in Elems(chain'[Slot(call[q])])
               /\ key'[ip[q]] = call[q].key
               /\ data'[ip[q]] = Torn
    <2> DEFINE i == Slot(call[q])
    <2>1. /\ formed /\ i \in Index /\ ip[q] \in Nodes /\ ip[q] \in Elems(chain[i])
          /\ key[ip[q]] = call[q].key /\ data[ip[q]] = Torn /\ pc[q] \in UnderUserLock
      BY <1>2, WriteOnChain
    <2>2. pc[p] \in UnderUserLock => i # Slot(call[p]) /\ Slot(call[p]) \in Index
      BY <1>0, <2>1, SlotType DEF ProcLock
    <2>3. chain'[i] = chain[i] /\ key'[ip[q]] = key[ip[q]]
      <3>1. CASE UNCHANGED Structure
        BY <3>1 DEF Structure
      <3>2. CASE ~UNCHANGED Structure
        BY <2>1, <2>2, <3>2 DEF Guarded
      <3> QED BY <3>1, <3>2
    <2>4. data'[ip[q]] = data[ip[q]]
      <3>1. CASE data' = data
        BY <3>1
      <3>2. CASE data' # data
        <4>1. PICK n \in Nodes :
                /\ \A m \in Nodes \ {n} : data'[m] = data[m]
                /\ \/ Loose(n) /\ headLock = p
                   \/ n \in Elems(chain[Slot(call[p])]) /\ pc[p] \in UnderUserLock
          BY <3>2 DEF DataGuarded
        <4>2. n # ip[q]
          <5>1. CASE Loose(n)
            BY <2>1, <5>1 DEF Loose
          <5>2. CASE n \in Elems(chain[Slot(call[p])]) /\ pc[p] \in UnderUserLock
            BY <2>1, <2>2, <5>2, OneChain DEF IInv
          <5> QED BY <4>1, <5>1, <5>2
        <4> QED BY <2>1, <4>1, <4>2
      <3> QED BY <3>1, <3>2
    <2> QED BY <2>1, <2>3, <2>4
  <1>3. ASSUME pc[q] = "link" PROVE data'[ip[q]] = data[ip[q]]
    <2>1. headLock = q /\ Loose(ip[q]) /\ ip[q] \in Nodes
      BY <1>0, <1>3 DEF ProcLock, ProcWalk, UnderHeadLock, Inserting, Loose
    <2>2. CASE data' = data
      BY <2>2
    <2>3. CASE data' # data
      <3>1. PICK n \in Nodes :
              /\ \A m \in Nodes \ {n} : data'[m] = data[m]
              /\ n \in Elems(chain[Slot(call[p])]) /\ pc[p] \in UnderUserLock
        BY <2>1, <2>3 DEF DataGuarded
      <3>2. Slot(call[p]) \in Index
        BY <1>0, <3>1, SlotType
      <3>3. n # ip[q]
        BY <2>1, <3>1, <3>2 DEF Loose
      <3> QED BY <2>1, <3>1, <3>3
    <2> QED BY <2>2, <2>3
  <1> QED BY <1>0, <1>1, <1>2, <1>3 DEF ProcRec

\* Every process knows its own record.
LEMMA RecOwn ==
    ASSUME IInv, RecInv, NEW p \in Procs, Step(p)
    PROVE  ProcRec(p)'
  <1> USE DEF counts, links, records, locks, locals, ghosts, faults, Goto
  <1>0. TypeOK /\ ProcRec(p) /\ ProcLock(p)
    BY DEF IInv, RecInv, LockInv
  <1> USE DEF TypeOK
  <1>1. CASE Start(p)
    <2>1. CASE StartFirst(p)
      BY <1>0, <2>1 DEF StartFirst, ProcRec
    <2>2. CASE StartAgain(p)
      BY <1>0, <2>2 DEF StartAgain, ProcRec
    <2>2a. CASE AddEntity(p)
      BY <1>0, <2>2a DEF AddEntity, ProcRec
    <2>3. CASE ClearHead(p)
      BY <1>0, <2>3 DEF ClearHead, ProcRec
    <2>4. CASE ClearNodes(p)
      BY <1>0, <2>4 DEF ClearNodes, ProcRec
    <2>5. CASE VerifyIndex(p)
      BY <1>0, <2>5 DEF VerifyIndex, ProcRec
    <2>6. CASE VerifyDone(p)
      BY <1>0, <2>6 DEF VerifyDone, ProcRec
    <2>7. CASE VerifyFails(p)
      BY <1>0, <2>7 DEF VerifyFails, ProcRec
    <2> QED BY <1>1, <2>1, <2>2, <2>2a, <2>3, <2>4, <2>5, <2>6, <2>7 DEF Start
  <1>2. CASE Call(p)
    <2>1. CASE InsertUserInfo(p)
      BY <1>0, <2>1 DEF InsertUserInfo, BeginWithHead, ProcRec
    <2>2. CASE RemoveUserInfoWhenInValid(p)
      BY <1>0, <2>2 DEF RemoveUserInfoWhenInValid, BeginWithHead, ProcRec
    <2>3. CASE AddFriendReq(p)
      BY <1>0, <2>3 DEF AddFriendReq, BeginWithUser, LockUser, ProcRec
    <2>4. CASE GetUserInfo(p)
      BY <1>0, <2>4 DEF GetUserInfo, BeginWithUser, LockUser, ProcRec
    <2>5. CASE CheckUserIsValid(p)
      BY <1>0, <2>5 DEF CheckUserIsValid, ProcRec
    <2> QED BY <1>2, <2>1, <2>2, <2>3, <2>4, <2>5 DEF Call
  <1>3. CASE Lookup(p)
    <2>1. CASE LockUserAfterHead(p)
      BY <1>0, <2>1 DEF LockUserAfterHead, LockUser, ProcRec
    <2>2. CASE SweepNext(p)
      BY <1>0, <2>2 DEF SweepNext, ProcLock, Inserting, Removing, ProcRec
    <2>3. CASE SweepEnd(p)
      BY <1>0, <2>3 DEF SweepEnd, ProcLock, Inserting, Removing, ProcRec
    <2>4. CASE SearchNext(p)
      BY <1>0, <2>4 DEF SearchNext, ProcRec
    <2>5. CASE Nothing(p)
      BY <1>0, <2>5 DEF Nothing, Found, Missing, ProcRec
    <2>6. CASE Get(p)
      BY <1>0, <2>6 DEF Get, Found, Missing, ProcRec
    <2> QED BY <1>3, <2>1, <2>2, <2>3, <2>4, <2>5, <2>6 DEF Lookup
  <1>4. CASE Change(p)
    <2>1. CASE UpdateFirst(p)
      BY <1>0, <2>1, FoundOnChain DEF UpdateFirst, Found, ProcRec
    <2>2. CASE UpdateRest(p)
      BY <1>0, <2>2 DEF UpdateRest, ProcLock, Inserting, Removing, ProcRec
    <2>3. CASE NoSpace(p)
      BY <1>0, <2>3 DEF NoSpace, Missing, ProcRec
    <2>4. CASE GetFreeNode(p)
      BY <1>0, <2>4 DEF GetFreeNode, Missing, ProcRec
    <2>5. CASE TakeFree(p)
      BY <1>0, <2>5 DEF TakeFree, ProcLock, Inserting, Removing, ProcRec
    <2>6. CASE FillNode(p)
      BY <1>0, <2>6 DEF FillNode, ProcLock, Inserting, ProcRec
    <2>7. CASE LinkNode(p)
      BY <1>0, <2>7 DEF LinkNode, ProcLock, Inserting, Removing, ProcRec
    <2>8. CASE CountNode(p)
      BY <1>0, <2>8 DEF CountNode, ProcLock, Inserting, Removing, ProcRec
    <2>9. CASE Unlink(p)
      BY <1>0, <2>9 DEF Unlink, Found, ProcRec
    <2>10. CASE UncountNode(p)
      BY <1>0, <2>10 DEF UncountNode, ProcLock, Inserting, Removing, ProcRec
    <2>11. CASE RecycleNode(p)
      BY <1>0, <2>11 DEF RecycleNode, ProcLock, Inserting, Removing, ProcRec
    <2>12. CASE RelinkNode(p)
      BY <1>0, <2>12 DEF RelinkNode, ProcLock, Inserting, Removing, ProcRec
    <2>13. CASE PushFree(p)
      BY <1>0, <2>13 DEF PushFree, ProcLock, Inserting, Removing, ProcRec
    <2> QED BY <1>4, <2>1, <2>2, <2>3, <2>4, <2>5, <2>6, <2>7,
               <2>8, <2>9, <2>10, <2>11, <2>12, <2>13
            DEF Change
  <1>5. CASE Unlock(p)
    <2>1. CASE UnlockUser(p)
      BY <1>0, <2>1 DEF UnlockUser, Forget, NoCall, ProcRec
    <2>2. CASE UnlockHead(p)
      BY <1>0, <2>2 DEF UnlockHead, ProcRec
    <2> QED BY <1>5, <2>1, <2>2 DEF Unlock
  <1>6. CASE Die(p)
    BY <1>0, <1>6 DEF Die, Forget, NoCall, ProcRec
  <1> QED BY <1>1, <1>2, <1>3, <1>4, <1>5, <1>6 DEF Step

\* The steps that write keys, records or chains.
Writing(p) == ClearHead(p) \/ FillNode(p) \/ UpdateFirst(p) \/ UpdateRest(p)
                \/ LinkNode(p) \/ Unlink(p)

\* All other steps leave keys, records and chains alone.
LEMMA StillRecords ==
    ASSUME NEW p \in Procs, Step(p), ~Writing(p)
    PROVE  UNCHANGED <<chain, key, data>>
  <1> USE DEF counts, links, records, locks, locals, ghosts, faults, Goto, Writing
  <1>1. CASE Start(p)
    BY <1>1 DEF Start, StartFirst, StartAgain, AddEntity, ClearNodes, VerifyIndex, VerifyDone,
        VerifyFails
  <1>2. CASE Call(p)
    BY <1>2 DEF Call, InsertUserInfo, RemoveUserInfoWhenInValid, AddFriendReq, GetUserInfo,
        CheckUserIsValid, BeginWithHead, BeginWithUser, LockUser
  <1>3. CASE Lookup(p)
    BY <1>3 DEF Lookup, LockUserAfterHead, SweepNext, SweepEnd, SearchNext, Nothing, Get,
        LockUser
  <1>4. CASE Change(p)
    BY <1>4 DEF Change, NoSpace, GetFreeNode, TakeFree, CountNode, UncountNode,
        RecycleNode, RelinkNode, PushFree
  <1>5. CASE Unlock(p)
    BY <1>5 DEF Unlock, UnlockUser, UnlockHead
  <1>6. CASE Die(p)
    BY <1>6 DEF Die
  <1> QED BY <1>1, <1>2, <1>3, <1>4, <1>5, <1>6 DEF Step

\* The invariant of the records is kept.
LEMMA RecStep ==
    ASSUME IInv, RecInv, NEW p \in Procs, Step(p)
    PROVE  RecInv'
  <1>1. ASSUME NEW q \in Procs PROVE ProcRec(q)'
    <2>1. CASE q = p
      BY <2>1, RecOwn
    <2>2. CASE q # p
      <3>1. Keeps(q)
        BY <2>2, OthersKeep DEF IInv
      <3>2. CASE ClearHead(p) \/ ClearNodes(p)
        <4>1. pc[q] = "down" /\ ProcRec(q)
          BY <2>2, <3>2 DEF IInv, BootInv, RecInv, ClearHead, ClearNodes
        <4> QED BY <3>1, <4>1 DEF Keeps, ProcRec
      <3>3. CASE ~ClearHead(p) /\ ~ClearNodes(p)
        BY <2>2, <3>1, <3>3, StepGuarded, StepDataGuarded, RecFrame
      <3> QED BY <3>2, <3>3
    <2> QED BY <2>1, <2>2
  <1>2. ASSUME NEW i \in Index, NEW n \in Elems(chain'[i])
        PROVE  data'[n] \in Data \cup {Torn}
    <2>0. \A j \in Index : \A m \in Elems(chain[j]) : data[m] \in Data \cup {Torn}
      BY DEF RecInv
    <2>1. CASE ClearHead(p)
      <3>1. chain'[i] = <<>>
        BY <2>1 DEF ClearHead, IInv, BootInv
      <3> QED BY <3>1 DEF Elems
    <2>2. CASE FillNode(p)
      <3>1. pc[p] = "fill" /\ chain' = chain /\ data' = [data EXCEPT ![ip[p]] = call[p].data]
        BY <2>2 DEF FillNode, ghosts
      <3>2. Loose(ip[p])
        BY <3>1 DEF IInv, WalkInv, ProcWalk
      <3>3. n # ip[p] /\ n \in Nodes
        BY <3>1, <3>2 DEF Loose, Elems, IInv, TypeOK
      <3> QED BY <2>0, <3>1, <3>3 DEF IInv, TypeOK
    <2>3. CASE UpdateFirst(p)
      <3>1. chain' = chain /\ data' = [data EXCEPT ![ip[p]] = Torn]
        BY <2>3 DEF UpdateFirst, ghosts
      <3>2. n \in Nodes
        BY <3>1 DEF Elems, IInv, TypeOK
      <3> QED BY <2>0, <3>1, <3>2 DEF IInv, TypeOK
    <2>4. CASE UpdateRest(p)
      <3>1. chain' = chain /\ data' = [data EXCEPT ![ip[p]] = call[p].data]
        BY <2>4 DEF UpdateRest, ghosts
      <3>2. n \in Nodes /\ call[p].data \in Data
        BY <2>4, <3>1, WriteOnChain, SMTT(30) DEF UpdateRest, Elems, IInv, TypeOK
      <3> QED BY <2>0, <3>1, <3>2 DEF IInv, TypeOK
    <2>5. CASE LinkNode(p)
      <3> DEFINE i0 == Slot(call[p])
      <3>0. pc[p] = "link" /\ pc[p] \in Inserting \cup Removing
        BY <2>5 DEF LinkNode, Inserting
      <3>1. i0 \in Index /\ ip[p] \in Nodes /\ ProcLock(p) /\ ProcRec(p)
        BY <3>0, Midway DEF IInv, RecInv
      <3>2. data[ip[p]] \in Data
        BY <3>0, <3>1 DEF ProcRec, ProcLock, Inserting
      <3>3. data' = data /\ chain' = [chain EXCEPT ![i0] = <<ip[p]>> \o chain[i0]]
        BY <2>5 DEF LinkNode, records
      <3>4. chain[i0] \in Seq(Nodes)
        BY <3>1 DEF IInv, TypeOK
      <3>5. Elems(<<ip[p]>> \o chain[i0]) = Elems(chain[i0]) \cup {ip[p]}
        BY <3>1, <3>4, PushIs
      <3>6. CASE i = i0
        <4>1. n \in Elems(chain[i0]) \cup {ip[p]}
          BY <3>1, <3>3, <3>5, <3>6 DEF IInv, TypeOK
        <4> QED BY <2>0, <3>1, <3>2, <3>3, <4>1
      <3>7. CASE i # i0
        BY <2>0, <3>3, <3>7 DEF IInv, TypeOK
      <3> QED BY <3>6, <3>7
    <2>6. CASE Unlink(p)
      <3> DEFINE i0 == Slot(call[p])
      <3>1. formed /\ i0 \in Index
        BY <2>6, FoundOnChain DEF Unlink
      <3>2. PICK j \in 1 .. Len(chain[i0]) :
              chain' = [chain EXCEPT ![i0] = Without(chain[i0], j)]
        BY <2>6 DEF Unlink
      <3>3. chain[i0] \in Seq(Nodes) /\ Injective(chain[i0])
        BY <3>1 DEF IInv, TypeOK, LinkInv
      <3>4. Elems(Without(chain[i0], j)) \subseteq Elems(chain[i0])
        BY <3>3, LeftOver
      <3>5. n \in Elems(chain[i])
        BY <3>1, <3>2, <3>4 DEF IInv, TypeOK
      <3>6. data' = data
        BY <2>6 DEF Unlink, records
      <3> QED BY <2>0, <3>5, <3>6
    <2>7. CASE ~Writing(p)
      BY <2>0, <2>7, StillRecords
    <2> QED BY <2>1, <2>2, <2>3, <2>4, <2>5, <2>6, <2>7 DEF Writing
  <1> QED BY <1>1, <1>2 DEF RecInv

(***************************************************************************)
(* The refinement.                                                         *)
(***************************************************************************)

\* One process changes its answer at a time.
LEMMA AnswersAre ==
    ASSUME IInv, NEW p \in Procs, Step(p)
    PROVE  Answers' = [Answers EXCEPT ![p] = Answer(p)']
  <1>1. ASSUME NEW q \in Procs, q # p PROVE Answer(q)' = Answer(q)
    <2>1. Keeps(q)
      BY <1>1, OthersKeep DEF IInv
    <2> QED BY <2>1 DEF Keeps, Answer
  <1>2. \A q \in Procs : Answer(q)' = IF q = p THEN Answer(p)' ELSE Answer(q)
    BY <1>1
  <1> QED BY <1>2, Zenon DEF Answers

\* Only the end of a lookup and the end of a call change the answer.
LEMMA AnswerKept ==
    ASSUME IInv, RecInv, NEW p \in Procs, Step(p), ~Get(p), ~UnlockUser(p), ~Die(p)
    PROVE  Answers' = Answers
  <1> USE DEF counts, links, records, locks, locals, ghosts, faults, Goto
  <1>0. TypeOK /\ ProcRec(p) /\ ProcLock(p)
    BY DEF IInv, RecInv, LockInv
  <1>1. Answer(p)' = Answer(p)
    <2> USE DEF TypeOK, Answer
    <2>1. CASE Start(p)
      BY <1>0, <2>1 DEF Start, StartFirst, StartAgain, AddEntity, ClearHead, ClearNodes, VerifyIndex,
          VerifyDone, VerifyFails
    <2>2. CASE Call(p)
      <3>1. pc[p] = "idle" /\ Answer(p) = None /\ ret[p] = None
        BY <1>0, <2>2 DEF Call, InsertUserInfo, RemoveUserInfoWhenInValid, AddFriendReq,
            GetUserInfo,
            CheckUserIsValid, BeginWithHead, BeginWithUser, LockUser, ProcRec
      <3>2. CASE CheckUserIsValid(p)
        BY <1>0, <3>1, <3>2 DEF CheckUserIsValid
      <3>3. CASE ~CheckUserIsValid(p)
        <4>1. ret' = ret
          BY <2>2, <3>3 DEF Call, InsertUserInfo, RemoveUserInfoWhenInValid, AddFriendReq,
                            GetUserInfo, BeginWithHead, BeginWithUser, LockUser
        <4> QED BY <3>1, <4>1
      <3> QED BY <3>2, <3>3
    <2>3. CASE Lookup(p)
      BY <1>0, <2>3 DEF Lookup, LockUserAfterHead, SweepNext, SweepEnd, SearchNext, Nothing,
          LockUser, ProcLock
    <2>4. CASE Change(p)
      BY <1>0, <2>4 DEF Change, UpdateFirst, UpdateRest, NoSpace, GetFreeNode, TakeFree,
          FillNode, LinkNode, CountNode, Unlink, UncountNode, RecycleNode,
          RelinkNode, PushFree
    <2>5. CASE Unlock(p)
      BY <1>0, <2>5 DEF Unlock, UnlockHead
    <2> QED BY <2>1, <2>2, <2>3, <2>4, <2>5 DEF Step
  <1>2. Answers' = [Answers EXCEPT ![p] = Answer(p)]
    BY <1>1, AnswersAre, Zenon
  <1> QED BY <1>2, Zenon DEF Answers

\* The record of one user changes.
LEMMA MapBecomes ==
    ASSUME NEW k0 \in Keys, NEW d, Record(k0)' = d,
           \A k \in Keys \ {k0} : Record(k)' = Record(k)
    PROVE  TableMap' = [TableMap EXCEPT ![k0] = d]
  <1>1. \A k \in Keys : Record(k)' = IF k = k0 THEN d ELSE Record(k)
    OBVIOUS
  <1> QED BY <1>1, Zenon DEF TableMap

\* No record changes.
LEMMA MapStays ==
    ASSUME \A k \in Keys : Record(k)' = Record(k)
    PROVE  TableMap' = TableMap
  BY Zenon DEF TableMap

\* The end of a lookup answers with the record of the moment.
LEMMA RefineGet ==
    ASSUME IInv, IInv', RecInv, NEW p \in Procs, Step(p), Get(p)
    PROVE  Table!Next
  <1> DEFINE k == call[p].key
  <1>0. TypeOK /\ ProcRec(p) /\ ProcLock(p) /\ ProcWalk(p)
    BY DEF IInv, RecInv, LockInv, WalkInv
  <1>1. pc[p] = "search" /\ call[p].op = "Get"
    BY DEF Get, Found, Missing
  <1>2. k \in Keys /\ Slot(call[p]) = Hash(k) /\ Answer(p) = None
    BY <1>0, <1>1 DEF ProcLock, ProcRec, UnderUserLock, Slot, Answer
  <1>3. /\ UNCHANGED <<chain, key, data>> /\ call'[p] = call[p]
        /\ ret'[p] = IF ip[p] = 0 THEN NoData ELSE data[ip[p]]
    BY <1>0 DEF Get, TypeOK, records, ghosts
  <1>4. Record(k) = IF ip[p] = 0 THEN NoData ELSE data[ip[p]]
    <2>1. CASE ip[p] = 0
      <3>1. \A n : ~Has(chain, key, k, n)
        BY <1>0, <1>1, <1>2, <2>1 DEF ProcWalk, Fresh, Has
      <3> QED BY <1>2, <2>1, <3>1, RecordMissing, RecordNow
    <2>2. CASE ip[p] # 0
      <3>1. Found(p, "Get")
        BY <2>2 DEF Get, Missing
      <3>2. Has(chain, key, k, ip[p])
        BY <1>2, <3>1, FoundOnChain DEF Has
      <3>3. RecordIn(chain, key, data, k) = data[ip[p]]
        BY <1>2, <3>2, RecordHas, UniqueNow
      <3> QED BY <1>2, <2>2, <3>3, RecordNow
    <2> QED BY <2>1, <2>2
  <1>5. Answer(p)' = Record(k)
    BY <1>1, <1>3, <1>4 DEF Answer
  <1>6. Record(k) = TableMap[k] /\ Answers[p] = None
    BY <1>2, Zenon DEF TableMap, Answers
  <1>7. Answers' = [Answers EXCEPT ![p] = TableMap[k]]
    BY <1>5, <1>6, AnswersAre, Zenon
  <1>8. TableMap' = TableMap
    BY <1>3 DEF TableMap, Record
  <1>9. Table!Get(p, k)
    BY <1>6, <1>7, <1>8 DEF Table!Get
  <1> QED BY <1>2, <1>9 DEF Table!Next

\* The end of a call, and a death, take the answer away.
LEMMA RefineReturn ==
    ASSUME IInv, RecInv, NEW p \in Procs, Step(p), UnlockUser(p) \/ Die(p)
    PROVE  Table!Next \/ UNCHANGED <<TableMap, Answers>>
  <1>1. UNCHANGED <<chain, key, data>> /\ call'[p].op = "none"
    BY DEF UnlockUser, Die, Forget, NoCall, IInv, TypeOK, records, ghosts
  <1>2. TableMap' = TableMap
    BY <1>1 DEF TableMap, Record
  <1>3. Answer(p)' = None
    BY <1>1 DEF Answer
  <1>4. Answers' = [Answers EXCEPT ![p] = None]
    BY <1>3, AnswersAre, Zenon
  <1>5. CASE Answers[p] = None
    <2>1. Answers' = Answers
      BY <1>4, <1>5, Zenon DEF Answers
    <2> QED BY <1>2, <2>1
  <1>6. CASE Answers[p] # None
    <2>1. Table!Return(p)
      BY <1>2, <1>4, <1>6 DEF Table!Return
    <2> QED BY <2>1 DEF Table!Next
  <1> QED BY <1>5, <1>6

\* The first store of an Update tears the record, the last completes it.
LEMMA RefineUpdate ==
    ASSUME IInv, IInv', RecInv, NEW p \in Procs, Step(p), UpdateFirst(p) \/ UpdateRest(p)
    PROVE  Table!Next
  <1>0. PICK k, n : k = call[p].key /\ n = ip[p]
    OBVIOUS
  <1>1. /\ k \in Keys /\ n \in Nodes /\ Has(chain, key, k, n)
        /\ UpdateRest(p) => data[n] = Torn /\ call[p].data \in Data
    <2>1. CASE UpdateFirst(p)
      <3>1. Found(p, "Update") /\ ~UpdateRest(p)
        BY <2>1 DEF UpdateFirst, Found, UpdateRest
      <3> QED BY <1>0, <3>1, FoundOnChain DEF Has
    <2>2. CASE UpdateRest(p)
      BY <1>0, <2>2, WriteOnChain DEF UpdateRest, Has
    <2> QED BY <2>1, <2>2
  <1>2. data[n] # NoData
    <2>1. Hash(k) \in Index
      BY <1>1, HashType
    <2> QED BY <1>1, <2>1, ValueAssumption DEF RecInv, Has
  <1>3. PICK d : /\ data' = [data EXCEPT ![n] = d]
                 /\ \/ UpdateFirst(p) /\ d = Torn
                    \/ UpdateRest(p) /\ d = call[p].data
    BY <1>0 DEF UpdateFirst, UpdateRest
  <1>4. chain' = chain /\ key' = key
    BY DEF UpdateFirst, UpdateRest, ghosts
  <1>5. /\ Unique(chain, key) /\ Unique(chain', key')
    BY UniqueNow, UniqueThen
  <1>6. data'[n] = d /\ \A m : m # n => data'[m] = data[m]
    <2>1. data \in [Nodes -> Values]
      BY DEF IInv, TypeOK
    <2>2. data'[n] = d
      BY <1>1, <1>3, <2>1
    <2>3. ASSUME NEW m, m # n PROVE data'[m] = data[m]
      BY <1>3, <2>3
    <2> QED BY <2>2, <2>3
  <1>7. Record(k) = data[n]
    BY <1>1, <1>5, RecordHas, RecordNow
  <1>8. Record(k)' = d
    <2>1. RecordIn(chain', key', data', k) = data'[n]
      BY <1>1, <1>4, <1>5, RecordHas
    <2> QED BY <1>1, <1>6, <2>1, RecordNow
  <1>9. ASSUME NEW k1 \in Keys, k1 # k PROVE Record(k1)' = Record(k1)
    <2>1. \A m : Has(chain, key, k1, m) => data'[m] = data[m]
      BY <1>1, <1>6, <1>9 DEF Has
    <2>2. RecordIn(chain', key', data', k1) = RecordIn(chain, key, data, k1)
      BY <1>4, <1>5, <2>1, RecordFrame
    <2> QED BY <2>2, RecordNow
  <1>10. TableMap' = [TableMap EXCEPT ![k] = d]
    BY <1>1, <1>8, <1>9, MapBecomes
  <1>11. Answers' = Answers
    <2>1. pc'[p] \notin {"down", "dead"} /\ ~Die(p)
      BY DEF UpdateFirst, UpdateRest, Die, Goto, IInv, TypeOK
    <2>2. ~Get(p) /\ ~UnlockUser(p)
      BY DEF UpdateFirst, UpdateRest, Found, Missing, Get, UnlockUser
    <2> QED BY <2>1, <2>2, AnswerKept
  <1>12. TableMap[k] = data[n]
    BY <1>1, <1>7, Zenon DEF TableMap
  <1>13. CASE UpdateFirst(p) /\ d = Torn
    <2>1. Table!Tear(k)
      BY <1>2, <1>10, <1>11, <1>12, <1>13 DEF Table!Tear, Table!Becomes
    <2> QED BY <1>1, <2>1 DEF Table!Next
  <1>14. CASE UpdateRest(p) /\ d = call[p].data
    <2>1. Table!Write(k, d) /\ d \in Data
      BY <1>1, <1>10, <1>11, <1>12, <1>14 DEF Table!Write, Table!Becomes
    <2> QED BY <1>1, <2>1 DEF Table!Next
  <1> QED BY <1>3, <1>13, <1>14

\* The store that links a node is the Insert.
LEMMA RefineInsert ==
    ASSUME IInv, IInv', RecInv, NEW p \in Procs, Step(p), LinkNode(p)
    PROVE  Table!Next
  <1>0. PICK k, n, d, i0 : k = call[p].key /\ n = ip[p] /\ d = call[p].data
                           /\ i0 = Slot(call[p])
    OBVIOUS
  <1>1. pc[p] = "link" /\ pc[p] \in Inserting \cup Removing
    BY DEF LinkNode, Inserting
  <1>2. /\ i0 \in Index /\ n \in Nodes /\ ProcLock(p) /\ ProcRec(p) /\ ProcWalk(p)
    BY <1>0, <1>1, Midway DEF IInv, RecInv
  <1>3. k \in Keys /\ Hash(k) = i0 /\ d \in Data /\ data[n] = d /\ key[n] = k
    BY <1>0, <1>1, <1>2 DEF ProcLock, ProcRec, ProcWalk, Slot, Inserting, UnderUserLock
  <1>4. \A m : ~Has(chain, key, k, m)
    BY <1>0, <1>1, <1>2, <1>3 DEF ProcWalk, Fresh, Has
  <1>5. /\ chain'[i0] = <<n>> \o chain[i0] /\ key' = key /\ data' = data
        /\ \A i \in Index \ {i0} : chain'[i] = chain[i]
    BY <1>0, <1>2 DEF LinkNode, records, IInv, TypeOK
  <1>6. Elems(chain'[i0]) = Elems(chain[i0]) \cup {n}
    <2>1. chain[i0] \in Seq(Nodes)
      BY <1>2 DEF IInv, TypeOK
    <2>2. Elems(<<n>> \o chain[i0]) = Elems(chain[i0]) \cup {n}
      BY <1>2, <2>1, PushIs
    <2> QED BY <1>5, <2>2
  <1>7. /\ Unique(chain, key) /\ Unique(chain', key')
    BY UniqueNow, UniqueThen
  <1>8. Record(k) = NoData
    BY <1>3, <1>4, RecordMissing, RecordNow
  <1>9. Record(k)' = d
    <2>1. Has(chain', key', k, n)
      BY <1>3, <1>5, <1>6 DEF Has
    <2>2. RecordIn(chain', key', data', k) = data'[n]
      BY <1>3, <1>7, <2>1, RecordHas
    <2> QED BY <1>3, <1>5, <2>2, RecordNow
  <1>10. ASSUME NEW k1 \in Keys, k1 # k PROVE Record(k1)' = Record(k1)
    <2>1. Hash(k1) \in Index
      BY HashType
    <2>2. ASSUME NEW m PROVE Has(chain, key, k1, m) <=> Has(chain', key', k1, m)
      <3>1. CASE Hash(k1) = i0
        BY <1>3, <1>5, <1>6, <1>10, <3>1 DEF Has
      <3>2. CASE Hash(k1) # i0
        BY <1>5, <2>1, <3>2 DEF Has
      <3> QED BY <3>1, <3>2
    <2>3. RecordIn(chain', key', data', k1) = RecordIn(chain, key, data, k1)
      BY <1>5, <1>7, <2>2, RecordFrame
    <2> QED BY <2>3, RecordNow
  <1>11. TableMap' = [TableMap EXCEPT ![k] = d]
    BY <1>3, <1>9, <1>10, MapBecomes
  <1>12. Answers' = Answers
    <2>1. pc'[p] \notin {"down", "dead"} /\ ~Die(p)
      BY DEF LinkNode, Die, Goto, IInv, TypeOK
    <2>2. ~Get(p) /\ ~UnlockUser(p)
      BY <1>1 DEF Found, Missing, Get, UnlockUser
    <2> QED BY <2>1, <2>2, AnswerKept
  <1>13. TableMap[k] = NoData
    BY <1>3, <1>8, Zenon DEF TableMap
  <1>14. Table!Insert(k, d)
    BY <1>11, <1>12, <1>13 DEF Table!Insert, Table!Becomes
  <1> QED BY <1>3, <1>14 DEF Table!Next

\* The store that unlinks a node is the Remove.
LEMMA RefineRemove ==
    ASSUME IInv, IInv', RecInv, NEW p \in Procs, Step(p), Unlink(p)
    PROVE  Table!Next
  <1>0. PICK k, n, i0 : k = call[p].key /\ n = ip[p] /\ i0 = Slot(call[p])
    OBVIOUS
  <1>1. pc[p] = "search" /\ call[p].op = "Remove" /\ Found(p, "Remove")
    BY DEF Unlink, Found
  <1>2. /\ formed /\ i0 \in Index /\ n \in Nodes /\ n \in Elems(chain[i0])
        /\ key[n] = k /\ k \in Keys /\ i0 = Hash(k)
    BY <1>0, <1>1, FoundOnChain
  <1>3. PICK j \in 1 .. Len(chain[i0]) :
          chain[i0][j] = n /\ chain' = [chain EXCEPT ![i0] = Without(chain[i0], j)]
    BY <1>0 DEF Unlink
  <1>4. chain[i0] \in Seq(Nodes) /\ Injective(chain[i0])
    BY <1>2 DEF IInv, TypeOK, LinkInv
  <1>5. Elems(Without(chain[i0], j)) = Elems(chain[i0]) \ {n}
    BY <1>3, <1>4, LeftOver
  <1>6. /\ Elems(chain'[i0]) = Elems(chain[i0]) \ {n} /\ key' = key /\ data' = data
        /\ \A i \in Index \ {i0} : chain'[i] = chain[i]
    <2>1. chain'[i0] = Without(chain[i0], j)
      BY <1>2, <1>3 DEF IInv, TypeOK
    <2>2. \A i \in Index \ {i0} : chain'[i] = chain[i]
      BY <1>3 DEF IInv, TypeOK
    <2>3. key' = key /\ data' = data
      BY DEF Unlink, records
    <2> QED BY <1>5, <2>1, <2>2, <2>3
  <1>7. /\ Unique(chain, key) /\ Unique(chain', key')
    BY UniqueNow, UniqueThen
  <1>8. Has(chain, key, k, n)
    BY <1>2 DEF Has
  <1>9. Record(k) = data[n] /\ data[n] # NoData
    <2>1. Record(k) = data[n]
      BY <1>2, <1>7, <1>8, RecordHas, RecordNow
    <2>2. data[n] \in Data \cup {Torn}
      BY <1>2 DEF RecInv
    <2> QED BY <2>1, <2>2, ValueAssumption
  <1>10. Record(k)' = NoData
    <2>1. ASSUME NEW m PROVE ~Has(chain', key', k, m)
      <3>1. Has(chain', key', k, m) => Has(chain, key, k, m) /\ m # n
        BY <1>2, <1>6 DEF Has
      <3> QED BY <1>2, <1>7, <1>8, <3>1 DEF Unique
    <2>2. RecordIn(chain', key', data', k) = NoData
      BY <1>2, <2>1, RecordMissing
    <2> QED BY <1>2, <2>2, RecordNow
  <1>11. ASSUME NEW k1 \in Keys, k1 # k PROVE Record(k1)' = Record(k1)
    <2>1. Hash(k1) \in Index
      BY HashType
    <2>2. ASSUME NEW m PROVE Has(chain, key, k1, m) <=> Has(chain', key', k1, m)
      <3>1. CASE Hash(k1) = i0
        BY <1>2, <1>6, <1>11, <3>1 DEF Has
      <3>2. CASE Hash(k1) # i0
        BY <1>6, <2>1, <3>2 DEF Has
      <3> QED BY <3>1, <3>2
    <2>3. RecordIn(chain', key', data', k1) = RecordIn(chain, key, data, k1)
      BY <1>6, <1>7, <2>2, RecordFrame
    <2> QED BY <2>3, RecordNow
  <1>12. TableMap' = [TableMap EXCEPT ![k] = NoData]
    BY <1>2, <1>10, <1>11, MapBecomes
  <1>13. Answers' = Answers
    <2>1. pc'[p] \notin {"down", "dead"} /\ ~Die(p)
      BY DEF Unlink, Die, Goto, IInv, TypeOK
    <2>2. ~Get(p) /\ ~UnlockUser(p)
      BY <1>1 DEF Found, Missing, Get, UnlockUser
    <2> QED BY <2>1, <2>2, AnswerKept
  <1>14. TableMap[k] # NoData
    BY <1>2, <1>9, Zenon DEF TableMap
  <1>15. Table!Remove(k)
    BY <1>12, <1>13, <1>14 DEF Table!Remove, Table!Becomes
  <1> QED BY <1>2, <1>15 DEF Table!Next

\* Filling a node that is on no list, and setting up empty chains, change no
\* record.
LEMMA RefineHidden ==
    ASSUME IInv, IInv', RecInv, NEW p \in Procs, Step(p), FillNode(p) \/ ClearHead(p)
    PROVE  UNCHANGED <<TableMap, Answers>>
  <1>1. chain' = chain
    BY DEF FillNode, ClearHead, ghosts
  <1>2. ASSUME NEW k \in Keys, NEW m, m \in Elems(chain[Hash(k)])
        PROVE  key'[m] = key[m] /\ data'[m] = data[m]
    <2>0. Hash(k) \in Index
      BY HashType
    <2>1. CASE FillNode(p)
      <3>1. Loose(ip[p])
        BY <2>1 DEF FillNode, IInv, WalkInv, ProcWalk
      <3>2. m # ip[p]
        BY <1>2, <2>0, <3>1 DEF Loose
      <3> QED BY <2>1, <3>2 DEF FillNode
    <2>2. CASE ClearHead(p)
      <3>1. chain[Hash(k)] = <<>>
        BY <2>0, <2>2 DEF ClearHead, IInv, BootInv
      <3> QED BY <1>2, <3>1 DEF Elems
    <2> QED BY <2>1, <2>2
  <1>3. ASSUME NEW k \in Keys PROVE Record(k)' = Record(k)
    <2>1. \A m : Has(chain, key, k, m) <=> Has(chain', key', k, m)
      BY <1>1, <1>2 DEF Has
    <2>2. \A m : Has(chain, key, k, m) => data'[m] = data[m]
      BY <1>2 DEF Has
    <2>3. Unique(chain, key) /\ Unique(chain', key')
      BY UniqueNow, UniqueThen
    <2>4. RecordIn(chain', key', data', k) = RecordIn(chain, key, data, k)
      BY <2>1, <2>2, <2>3, RecordFrame
    <2> QED BY <2>4, RecordNow
  <1>4. TableMap' = TableMap
    BY <1>3, MapStays
  <1>5. Answers' = Answers
    <2>1. pc'[p] \notin {"down", "dead"} /\ ~Die(p)
      BY DEF FillNode, ClearHead, Die, Goto, IInv, TypeOK
    <2>2. ~Get(p) /\ ~UnlockUser(p)
      BY DEF FillNode, ClearHead, Found, Missing, Get, UnlockUser
    <2> QED BY <2>1, <2>2, AnswerKept
  <1> QED BY <1>4, <1>5

\* Every step is a step of the map or a stutter.
LEMMA RefineStep ==
    ASSUME IInv, IInv', RecInv, [Next]_vars
    PROVE  [Table!Next]_<<TableMap, Answers>>
  <1>1. CASE UNCHANGED vars
    BY <1>1 DEF vars, counts, links, records, locks, locals, ghosts, faults, TableMap,
                Answers, Record, Answer
  <1>2. CASE Next
    <2>1. PICK p \in Procs : Step(p)
      BY <1>2 DEF Next, Step
    <2>2. CASE Get(p)
      BY <2>1, <2>2, RefineGet
    <2>3. CASE UnlockUser(p) \/ Die(p)
      BY <2>1, <2>3, RefineReturn
    <2>4. CASE UpdateFirst(p) \/ UpdateRest(p)
      BY <2>1, <2>4, RefineUpdate
    <2>5. CASE LinkNode(p)
      BY <2>1, <2>5, RefineInsert
    <2>6. CASE Unlink(p)
      BY <2>1, <2>6, RefineRemove
    <2>7. CASE FillNode(p) \/ ClearHead(p)
      BY <2>1, <2>7, RefineHidden
    <2>8. CASE ~Writing(p) /\ ~Get(p) /\ ~UnlockUser(p) /\ ~Die(p)
      <3>1. UNCHANGED <<chain, key, data>>
        BY <2>1, <2>8, StillRecords
      <3>2. TableMap' = TableMap
        BY <3>1 DEF TableMap, Record
      <3>3. Answers' = Answers
        BY <2>1, <2>8, AnswerKept
      <3> QED BY <3>2, <3>3
    <2> QED BY <2>2, <2>3, <2>4, <2>5, <2>6, <2>7, <2>8 DEF Writing
  <1> QED BY <1>1, <1>2

\* A new segment has no records and no answers.
LEMMA InitRec == Init => RecInv /\ Table!Init
  <1> SUFFICES ASSUME Init PROVE RecInv /\ Table!Init
    OBVIOUS
  <1>1. RecInv
    BY DEF Init, RecInv, ProcRec, NoCall, Elems
  <1>2. ASSUME NEW k \in Keys PROVE Record(k) = NoData
    <2>1. chain[Hash(k)] = <<>>
      BY HashType DEF Init
    <2>2. \A n : ~Has(chain, key, k, n)
      BY <2>1 DEF Has, Elems
    <2> QED BY <2>2, RecordMissing, RecordNow
  <1>3. \A p \in Procs : Answer(p) = None
    BY DEF Init, Answer, NoCall
  <1>4. TableMap = [k \in Keys |-> NoData]
    BY <1>2, Zenon DEF TableMap
  <1>5. Answers = [p \in Procs |-> None]
    BY <1>3, Zenon DEF Answers
  <1> QED BY <1>1, <1>4, <1>5 DEF Table!Init

\* Every step keeps the invariant of the records.
LEMMA NextRec == IInv /\ RecInv /\ [Next]_vars => RecInv'
  <1> SUFFICES ASSUME IInv, RecInv, [Next]_vars PROVE RecInv'
    OBVIOUS
  <1>1. CASE UNCHANGED vars
    BY <1>1 DEF vars, counts, links, records, locks, locals, ghosts, faults, RecInv,
                ProcRec, Slot
  <1>2. CASE Next
    <2>1. PICK p \in Procs : Step(p)
      BY <1>2 DEF Next, Step
    <2> QED BY <2>1, RecStep
  <1> QED BY <1>1, <1>2

\* Under its record locks (CUserShmApi) the table is a map: users are inserted,
\* changed and removed one at a time, in one store each but for the record
\* itself, and lookups see the map of the moment, whoever dies when.
THEOREM TableImplementsMap == Spec => TableIsMap
  <1>1. IInv /\ IInv' /\ RecInv /\ [Next]_vars => [Table!Next]_<<TableMap, Answers>>
    BY RefineStep
  <1> QED BY <1>1, InitInv, NextInv, InitRec, NextRec, PTL
          DEF Spec, Table!Spec, Table!vars, TableIsMap
================================================================================
