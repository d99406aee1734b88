------------------------------ MODULE HashList ------------------------------
(***************************************************************************)
(* The user table in shared memory: the chained hash list of               *)
(* mmlib/hash_list/hash_list_nolock.h under the record locks that          *)
(* user/user_shm_api.cpp takes around it.  The processes (user, loaders,   *)
(* writers) run the calls of CUserShmApi concurrently and may die between  *)
(* any two stores; the kernel then drops their locks and the others go on  *)
(* with the memory as it is.  A server that is started again runs Init,    *)
(* which verifies the memory; a loader or writer is forked again by its    *)
(* parent, whose Init it shares, and verifies nothing.                     *)
(*                                                                         *)
(* One action is one store to the shared memory, with the loads before it. *)
(* A store whose effect no other process can see before the next one (the  *)
(* fields of a node that is in no list yet) shares the action of the next. *)
(* Stores reach memory in program order, as on x86.                        *)
(***************************************************************************)
EXTENDS Integers, Sequences, FiniteSets

CONSTANTS User,       \* the user server
          Loaders,    \* loader processes, which insert what they read from the database
          Writers,    \* writer processes, which look records up
          Keys,       \* user ids
          Data,       \* records
          IndexNum,   \* iIndexNodeNum
          DataNum,    \* iTotalDataNodeNum, node 0 included
          MaxDeaths,  \* bound on the deaths of processes
          NoData,     \* what an absent user has
          Torn,       \* a record written half
          None        \* no process, no answer

Procs == {User} \cup Loaders \cup Writers

ASSUME SizeAssumption == /\ IndexNum \in Nat \ {0}
                         /\ DataNum \in Nat \ {0, 1}
                         /\ Keys \subseteq Nat \ {0}
                         /\ MaxDeaths \in Nat
ASSUME ValueAssumption == /\ NoData \notin Data
                          /\ Torn \notin Data
                          /\ NoData # Torn
                          /\ None \notin Procs \cup Data \cup {NoData, Torn}

Index == 0 .. (IndexNum - 1)
Nodes == 1 .. (DataNum - 1)
Pointers == 0 .. (DataNum - 1)

Hash(k) == k % IndexNum

VARIABLES
    \* the shared memory
    magic,      \* UserMemHead.Magic is set
    hashVal,    \* iHashVal of every index node
    used,       \* iUsedDataNodeNum, the unused node 0 counted
    free,       \* ipFreeDataNodeList
    num,        \* iDataNodeNum of every index node
    list,       \* ipDataNodeList of every index node
    key,        \* KeyVal of every data node
    next,       \* ipNextDataNode of every data node
    data,       \* Data of every data node
    \* the record locks, by their holder
    headLock, userLock,
    \* the processes: where they are, their call and their local variables
    pc, call, ip, last, ret, seen,
    \* histories: the nodes of every chain and of the free list in order, and
    \* whether the head has been set up; the deaths, the indexes whose count
    \* a death has left too small, whether somebody died within a change; and
    \* whether a start was refused though nobody had
    chain, freeq, formed, deaths, short, broken, refused

counts == <<hashVal, used, num>>
links == <<free, list, next>>
records == <<key, data>>
locks == <<headLock, userLock>>
locals == <<call, ip, last, ret, seen>>
ghosts == <<chain, freeq, formed>>
faults == <<deaths, short, broken, refused>>
vars == <<magic, counts, links, records, locks, pc, locals, ghosts, faults>>

NoCall == [op |-> "none", key |-> 0, data |-> NoData]
NoSeen == [idx |-> 0, used |-> 0, sum |-> 0]

Elems(s) == {s[j] : j \in 1 .. Len(s)}
Without(s, j) == SubSeq(s, 1, j - 1) \o SubSeq(s, j + 1, Len(s))

\* A new segment is all zeros, and no process runs.
Init ==
    /\ magic = FALSE
    /\ hashVal = [i \in Index |-> 0]
    /\ used = 0
    /\ free = 0
    /\ num = [i \in Index |-> 0]
    /\ list = [i \in Index |-> 0]
    /\ key = [n \in Nodes |-> 0]
    /\ next = [n \in Nodes |-> 0]
    /\ data = [n \in Nodes |-> NoData]
    /\ headLock = None
    /\ userLock = [i \in Index |-> None]
    /\ pc = [p \in Procs |-> "down"]
    /\ call = [p \in Procs |-> NoCall]
    /\ ip = [p \in Procs |-> 0]
    /\ last = [p \in Procs |-> 0]
    /\ ret = [p \in Procs |-> None]
    /\ seen = [p \in Procs |-> NoSeen]
    /\ chain = [i \in Index |-> <<>>]
    /\ freeq = <<>>
    /\ formed = FALSE
    /\ deaths = 0
    /\ short = {}
    /\ broken = FALSE
    /\ refused = FALSE

Goto(p, place) == pc' = [pc EXCEPT ![p] = place]

(***************************************************************************)
(* CUserShmApi::Init.  It takes LOCK_ALL on a lock file that is only       *)
(* opened at its end, so that the lock call fails and is ignored: Init     *)
(* runs without a lock.  server.sh starts one process after the other.     *)
(***************************************************************************)
Starting(p) == pc[p] \in {"clear", "clearnodes", "verify"}

StartFirst(p) ==
    /\ pc[p] = "down"
    /\ \A q \in Procs : ~Starting(q)
    /\ ~magic
    /\ magic' = TRUE
    /\ Goto(p, "clear")
    /\ UNCHANGED <<counts, links, records, locks, locals, ghosts, faults>>

\* The user server, or a loader or writer with the parent that forks it.
StartAgain(p) ==
    /\ pc[p] \in {"down", "dead"}
    /\ \A q \in Procs : ~Starting(q)
    /\ magic
    /\ Goto(p, "verify")
    /\ seen' = [seen EXCEPT ![p] = [idx |-> 0, used |-> used, sum |-> 1]]
    /\ UNCHANGED <<magic, counts, links, records, locks, call, ip, last, ret,
                   ghosts, faults>>

\* CProcessManager::AddEntity: another child in the place of a dead one, which
\* goes on where Init had brought its parent.
AddEntity(p) ==
    /\ pc[p] = "dead"
    /\ Goto(p, "idle")
    /\ UNCHANGED <<magic, counts, links, records, locks, locals, ghosts, faults>>

\* Clear: the memory is wiped, the head and the index are set up, ...
ClearHead(p) ==
    /\ pc[p] = "clear"
    /\ hashVal' = [i \in Index |-> i]
    /\ used' = 1
    /\ free' = 1
    /\ num' = [i \in Index |-> 0]
    /\ list' = [i \in Index |-> 0]
    /\ next' = [n \in Nodes |-> 0]
    /\ key' = [n \in Nodes |-> 0]
    /\ data' = [n \in Nodes |-> NoData]
    /\ freeq' = <<1>>
    /\ formed' = TRUE
    /\ Goto(p, "clearnodes")
    /\ UNCHANGED <<magic, locks, locals, chain, faults>>

\* ... and every node but 0 is put on the free list.  Verify follows.
ClearNodes(p) ==
    /\ pc[p] = "clearnodes"
    /\ next' = [n \in Nodes |-> IF n = DataNum - 1 THEN 0 ELSE n + 1]
    /\ freeq' = [n \in Nodes |-> n]
    /\ Goto(p, "verify")
    /\ seen' = [seen EXCEPT ![p] = [idx |-> 0, used |-> used, sum |-> 1]]
    /\ UNCHANGED <<magic, counts, free, list, records, locks, call, ip, last,
                   ret, chain, formed, faults>>

\* The number of nodes on the list that starts at n, counted by walking along
\* it (DataNum for a cycle, on which the code would not return).
Length(n) ==
    LET Reach[j \in 0 .. DataNum] ==
            IF j = 0 THEN n
            ELSE IF Reach[j - 1] = 0 THEN 0 ELSE next[Reach[j - 1]]
    IN  Cardinality({j \in 0 .. (DataNum - 1) : Reach[j] # 0})

VerifyIndexOK(i) == hashVal[i] = i /\ Length(list[i]) = num[i]
VerifyFreeSkipped(u) == u <= DataNum
VerifyFreeOK(u) == Length(free) + u = DataNum

\* Verify, chain after chain and then the free list, against the used count
\* it read at first.
VerifyIndex(p) ==
    /\ pc[p] = "verify"
    /\ seen[p].idx < IndexNum
    /\ VerifyIndexOK(seen[p].idx)
    /\ seen' = [seen EXCEPT ![p] = [idx |-> @.idx + 1, used |-> @.used,
                                    sum |-> @.sum + Length(list[@.idx])]]
    /\ UNCHANGED <<magic, counts, links, records, locks, pc, call, ip, last,
                   ret, ghosts, faults>>

VerifyDone(p) ==
    /\ pc[p] = "verify"
    /\ seen[p].idx = IndexNum
    /\ seen[p].sum = seen[p].used
    /\ VerifyFreeOK(seen[p].used)
    /\ Goto(p, "idle")
    /\ seen' = [seen EXCEPT ![p] = NoSeen]
    /\ UNCHANGED <<magic, counts, links, records, locks, call, ip, last, ret,
                   ghosts, faults>>

\* Init returns -1 and the process exits.
VerifyFails(p) ==
    /\ pc[p] = "verify"
    /\ IF seen[p].idx < IndexNum
         THEN ~VerifyIndexOK(seen[p].idx)
         ELSE ~(seen[p].sum = seen[p].used /\ VerifyFreeOK(seen[p].used))
    /\ Goto(p, "down")
    /\ seen' = [seen EXCEPT ![p] = NoSeen]
    /\ refused' = (refused \/ ~broken)
    /\ UNCHANGED <<magic, counts, links, records, locks, call, ip, last, ret,
                   ghosts, deaths, short, broken>>

(***************************************************************************)
(* The calls of CUserShmApi and the processes that make them.  A call      *)
(* that waits for its first lock has done nothing yet: it begins when it   *)
(* gets that lock.                                                         *)
(***************************************************************************)
Slot(c) == IF c.op = "Check" THEN c.key ELSE Hash(c.key)

\* LOCK_HASHLIST_HEAD
BeginWithHead(p, c) ==
    /\ pc[p] = "idle"
    /\ headLock = None
    /\ headLock' = p
    /\ call' = [call EXCEPT ![p] = c]
    /\ Goto(p, "user")
    /\ UNCHANGED <<magic, counts, links, records, userLock, ip, last, ret, seen,
                   ghosts, faults>>

InsertUserInfo(p) == \E k \in Keys, d \in Data :
    /\ p \in {User} \cup Loaders
    /\ BeginWithHead(p, [op |-> "Insert", key |-> k, data |-> d])
RemoveUserInfoWhenInValid(p) == \E k \in Keys :
    /\ p = User
    /\ BeginWithHead(p, [op |-> "Remove", key |-> k, data |-> NoData])

LockUserNoWait(p, c) ==
    /\ userLock' = [userLock EXCEPT ![Slot(c)] = p]
    /\ ip' = [ip EXCEPT ![p] = list[Slot(c)]]
    /\ Goto(p, "search")
    /\ UNCHANGED <<magic, counts, links, records, headLock, last, ret, seen,
                   ghosts, faults>>

\* LOCK_USER; the search begins at the first node of the chain.
LockUser(p, c) ==
    /\ userLock[Slot(c)] = None
    /\ userLock' = [userLock EXCEPT ![Slot(c)] = p]
    /\ ip' = [ip EXCEPT ![p] = list[Slot(c)]]
    /\ Goto(p, "search")
    /\ UNCHANGED <<magic, counts, links, records, headLock, last, ret, seen,
                   ghosts, faults>>

LockUserAfterHead(p) ==
    /\ pc[p] = "user"
    /\ LockUser(p, call[p])
    /\ UNCHANGED call

BeginWithUser(p, c) ==
    /\ pc[p] = "idle"
    /\ LockUser(p, c)
    /\ call' = [call EXCEPT ![p] = c]

AddFriendReq(p) == \E k \in Keys, d \in Data :
    /\ p = User
    /\ BeginWithUser(p, [op |-> "Update", key |-> k, data |-> d])
GetUserInfo(p) == \E k \in Keys :
    /\ p \in {User} \cup Writers
    /\ BeginWithUser(p, [op |-> "Get", key |-> k, data |-> NoData])

CheckUserOffByOne(p) == \E i \in Index :
    /\ p = User
    /\ pc[p] = "idle"
    /\ userLock[i] = None
    /\ userLock' = [userLock EXCEPT ![i] = p]
    /\ call' = [call EXCEPT ![p] = [op |-> "Check", key |-> i, data |-> NoData]]
    /\ ret' = [ret EXCEPT ![p] = {}]
    /\ ip' = [ip EXCEPT ![p] = list[i]]
    /\ Goto(p, IF num[i] > 1 THEN "sweep" ELSE "unlock")
    /\ UNCHANGED <<magic, counts, links, records, headLock, last, seen, ghosts,
                   faults>>

\* LOCK_INDEX; ProcessAll only walks a chain that counts at least one node.
\* m_CheckUserPos goes round the indexes; here a sweep is of any index.
CheckUserIsValid(p) == \E i \in Index :
    /\ p = User
    /\ pc[p] = "idle"
    /\ userLock[i] = None
    /\ userLock' = [userLock EXCEPT ![i] = p]
    /\ call' = [call EXCEPT ![p] = [op |-> "Check", key |-> i, data |-> NoData]]
    /\ ret' = [ret EXCEPT ![p] = {}]
    /\ ip' = [ip EXCEPT ![p] = list[i]]
    /\ Goto(p, IF num[i] > 0 THEN "sweep" ELSE "unlock")
    /\ UNCHANGED <<magic, counts, links, records, headLock, last, seen, ghosts,
                   faults>>

SweepNext(p) ==
    /\ pc[p] = "sweep"
    /\ ip[p] # 0
    /\ ret' = [ret EXCEPT ![p] = @ \cup {key[ip[p]]}]
    /\ ip' = [ip EXCEPT ![p] = next[ip[p]]]
    /\ UNCHANGED <<magic, counts, links, records, locks, pc, call, last, seen,
                   ghosts, faults>>

SweepEnd(p) ==
    /\ pc[p] = "sweep"
    /\ ip[p] = 0
    /\ Goto(p, "unlock")
    /\ UNCHANGED <<magic, counts, links, records, locks, locals, ghosts, faults>>

(***************************************************************************)
(* The walk along the chain that every operation begins with.              *)
(***************************************************************************)
SearchNext(p) ==
    /\ pc[p] = "search"
    /\ ip[p] # 0
    /\ key[ip[p]] # call[p].key
    /\ last' = [last EXCEPT ![p] = ip[p]]
    /\ ip' = [ip EXCEPT ![p] = next[ip[p]]]
    /\ UNCHANGED <<magic, counts, links, records, locks, pc, call, ret, seen,
                   ghosts, faults>>

Found(p, op) == /\ pc[p] = "search"
                /\ call[p].op = op
                /\ ip[p] # 0
                /\ key[ip[p]] = call[p].key
Missing(p, op) == /\ pc[p] = "search"
                  /\ call[p].op = op
                  /\ ip[p] = 0

\* Insert: the user exists already; Remove: the user is active again (or was
\* removed by another process), Update: the user is gone.  No store is made.
Nothing(p) ==
    /\ \/ Found(p, "Insert")
       \/ Found(p, "Remove") \/ Missing(p, "Remove")
       \/ Missing(p, "Update")
    /\ Goto(p, "unlock")
    /\ UNCHANGED <<magic, counts, links, records, locks, locals, ghosts, faults>>

Get(p) ==
    /\ Found(p, "Get") \/ Missing(p, "Get")
    /\ ret' = [ret EXCEPT ![p] = IF ip[p] = 0 THEN NoData ELSE data[ip[p]]]
    /\ Goto(p, "unlock")
    /\ UNCHANGED <<magic, counts, links, records, locks, call, ip, last, seen,
                   ghosts, faults>>

\* A record is written in place, in more than one store.
UpdateFirst(p) ==
    /\ Found(p, "Update")
    /\ data' = [data EXCEPT ![ip[p]] = Torn]
    /\ Goto(p, "write")
    /\ UNCHANGED <<magic, counts, links, key, locks, locals, ghosts, faults>>

UpdateRest(p) ==
    /\ pc[p] = "write"
    /\ data' = [data EXCEPT ![ip[p]] = call[p].data]
    /\ Goto(p, "unlock")
    /\ UNCHANGED <<magic, counts, links, key, locks, locals, ghosts, faults>>

(***************************************************************************)
(* Insert of a new user.                                                   *)
(***************************************************************************)
ExhaustedByList == free <= 0
Exhausted == DataNum - used <= 0 \/ free <= 0

NoSpace(p) ==
    /\ Missing(p, "Insert")
    /\ Exhausted
    /\ Goto(p, "unlock")
    /\ UNCHANGED <<magic, counts, links, records, locks, locals, ghosts, faults>>

\* GetFreeNode counts the node first, ...
GetFreeNode(p) ==
    /\ Missing(p, "Insert")
    /\ ~Exhausted
    /\ ip' = [ip EXCEPT ![p] = free]
    /\ used' = used + 1
    /\ Goto(p, "take")
    /\ UNCHANGED <<magic, hashVal, num, links, records, locks, call, last, ret, seen,
                   ghosts, faults>>

\* ... and takes it off the free list.
TakeFree(p) ==
    /\ pc[p] = "take"
    /\ free' = next[ip[p]]
    /\ freeq' = Tail(freeq)
    /\ Goto(p, "fill")
    /\ UNCHANGED <<magic, counts, list, next, records, locks, locals, chain, formed,
                   faults>>

FillNode(p) ==
    /\ pc[p] = "fill"
    /\ key' = [key EXCEPT ![ip[p]] = call[p].key]
    /\ next' = [next EXCEPT ![ip[p]] = list[Slot(call[p])]]
    /\ data' = [data EXCEPT ![ip[p]] = call[p].data]
    /\ Goto(p, "link")
    /\ UNCHANGED <<magic, counts, free, list, locks, locals, ghosts, faults>>

LinkNode(p) ==
    /\ pc[p] = "link"
    /\ list' = [list EXCEPT ![Slot(call[p])] = ip[p]]
    /\ chain' = [chain EXCEPT ![Slot(call[p])] = <<ip[p]>> \o @]
    /\ Goto(p, "count")
    /\ UNCHANGED <<magic, counts, free, next, records, locks, locals, freeq, formed,
                   faults>>

CountNode(p) ==
    /\ pc[p] = "count"
    /\ num' = [num EXCEPT ![Slot(call[p])] = @ + 1]
    /\ Goto(p, "unlock")
    /\ UNCHANGED <<magic, hashVal, used, links, records, locks, locals, ghosts, faults>>

(***************************************************************************)
(* Remove of a user that has not been active for USER_INVALID_TIME.        *)
(***************************************************************************)
UnlinkFirst(p) ==
    /\ Found(p, "Remove")
    /\ list' = [list EXCEPT ![Slot(call[p])] = next[ip[p]]]
    /\ \E j \in 1 .. Len(chain[Slot(call[p])]) :
         /\ chain[Slot(call[p])][j] = ip[p]
         /\ chain' = [chain EXCEPT ![Slot(call[p])] = Without(@, j)]
    /\ Goto(p, "uncount")
    /\ UNCHANGED <<magic, counts, free, next, records, locks, locals, freeq, formed,
                   faults>>

Unlink(p) ==
    /\ Found(p, "Remove")
    /\ IF last[p] = 0
         THEN list' = [list EXCEPT ![Slot(call[p])] = next[ip[p]]] /\ UNCHANGED next
         ELSE next' = [next EXCEPT ![last[p]] = next[ip[p]]] /\ UNCHANGED list
    /\ \E j \in 1 .. Len(chain[Slot(call[p])]) :
         /\ chain[Slot(call[p])][j] = ip[p]
         /\ chain' = [chain EXCEPT ![Slot(call[p])] = Without(@, j)]
    /\ Goto(p, "uncount")
    /\ UNCHANGED <<magic, counts, free, records, locks, locals, freeq, formed, faults>>

UncountNode(p) ==
    /\ pc[p] = "uncount"
    /\ num' = [num EXCEPT ![Slot(call[p])] = @ - 1]
    /\ Goto(p, "recycle")
    /\ UNCHANGED <<magic, hashVal, used, links, records, locks, locals, ghosts, faults>>

RecycleUncounted(p) ==
    /\ pc[p] = "recycle"
    /\ Goto(p, "relink")
    /\ UNCHANGED <<magic, counts, links, records, locks, locals, ghosts, faults>>

RecycleNode(p) ==
    /\ pc[p] = "recycle"
    /\ used' = used - 1
    /\ Goto(p, "relink")
    /\ UNCHANGED <<magic, hashVal, num, links, records, locks, locals, ghosts, faults>>

RelinkNode(p) ==
    /\ pc[p] = "relink"
    /\ next' = [next EXCEPT ![ip[p]] = free]
    /\ Goto(p, "push")
    /\ UNCHANGED <<magic, counts, free, list, records, locks, locals, ghosts, faults>>

PushFree(p) ==
    /\ pc[p] = "push"
    /\ free' = ip[p]
    /\ freeq' = <<ip[p]>> \o freeq
    /\ Goto(p, "unlock")
    /\ UNCHANGED <<magic, counts, list, next, records, locks, locals, chain, formed,
                   faults>>

(***************************************************************************)
(* The destructors of the locks, the last one taken first.                 *)
(***************************************************************************)
Forget(p) ==
    /\ call' = [call EXCEPT ![p] = NoCall]
    /\ ip' = [ip EXCEPT ![p] = 0]
    /\ last' = [last EXCEPT ![p] = 0]
    /\ ret' = [ret EXCEPT ![p] = None]
    /\ seen' = [seen EXCEPT ![p] = NoSeen]

UnlockUser(p) ==
    /\ pc[p] = "unlock"
    /\ userLock' = [userLock EXCEPT ![Slot(call[p])] = None]
    /\ Goto(p, IF headLock = p THEN "unhead" ELSE "idle")
    /\ Forget(p)
    /\ UNCHANGED <<magic, counts, links, records, headLock, ghosts, faults>>

UnlockHead(p) ==
    /\ pc[p] = "unhead"
    /\ headLock' = None
    /\ Goto(p, "idle")
    /\ UNCHANGED <<magic, counts, links, records, userLock, locals, ghosts, faults>>

\* Places where the counts and the links do not agree.
MidChange == {"clear", "clearnodes", "take", "fill", "link", "count",
              "uncount", "recycle", "relink", "push"}

\* A process dies: the kernel drops its record locks, its stores remain.  A
\* child that its parent's Init had let in leaves the parent behind.
Die(p) ==
    /\ deaths < MaxDeaths
    /\ pc[p] \notin {"down", "dead"}
    /\ deaths' = deaths + 1
    /\ short' = IF pc[p] = "count" THEN short \cup {Slot(call[p])} ELSE short
    /\ broken' = (broken \/ pc[p] \in MidChange)
    /\ headLock' = IF headLock = p THEN None ELSE headLock
    /\ userLock' = [i \in Index |-> IF userLock[i] = p THEN None ELSE userLock[i]]
    /\ Goto(p, IF p = User \/ Starting(p) THEN "down" ELSE "dead")
    /\ Forget(p)
    /\ UNCHANGED <<magic, counts, links, records, ghosts, refused>>

Start(p) == StartFirst(p) \/ StartAgain(p) \/ AddEntity(p) \/ ClearHead(p) \/ ClearNodes(p)
              \/ VerifyIndex(p) \/ VerifyDone(p) \/ VerifyFails(p)
Call(p) == InsertUserInfo(p) \/ RemoveUserInfoWhenInValid(p) \/ AddFriendReq(p)
             \/ GetUserInfo(p) \/ CheckUserIsValid(p)
Lookup(p) == LockUserAfterHead(p) \/ SweepNext(p) \/ SweepEnd(p)
               \/ SearchNext(p) \/ Nothing(p) \/ Get(p)
Change(p) == UpdateFirst(p) \/ UpdateRest(p) \/ NoSpace(p) \/ GetFreeNode(p)
               \/ TakeFree(p) \/ FillNode(p) \/ LinkNode(p) \/ CountNode(p)
               \/ Unlink(p) \/ UncountNode(p) \/ RecycleNode(p) \/ RelinkNode(p)
               \/ PushFree(p)
Unlock(p) == UnlockUser(p) \/ UnlockHead(p)

Next == \E p \in Procs : Start(p) \/ Call(p) \/ Lookup(p) \/ Change(p) \/ Unlock(p)
                           \/ Die(p)

Spec == Init /\ [][Next]_vars

(***************************************************************************)
(* Properties.                                                             *)
(***************************************************************************)
Places == {"down", "dead", "verify", "idle", "user", "sweep", "search",
           "write", "unlock", "unhead"} \cup MidChange
Ops == {"none", "Insert", "Remove", "Update", "Get", "Check"}
Values == Data \cup {NoData, Torn}

\* Every field keeps its type: pointers name nodes, locks name processes.
TypeOK ==
    /\ magic \in BOOLEAN
    /\ hashVal \in [Index -> Index]
    /\ used \in Int /\ used <= DataNum
    /\ free \in Pointers
    /\ num \in [Index -> Int]
    /\ list \in [Index -> Pointers]
    /\ key \in [Nodes -> Keys \cup {0}]
    /\ next \in [Nodes -> Pointers]
    /\ data \in [Nodes -> Values]
    /\ headLock \in Procs \cup {None}
    /\ userLock \in [Index -> Procs \cup {None}]
    /\ pc \in [Procs -> Places]
    /\ call \in [Procs -> [op : Ops, key : Keys \cup Index \cup {0}, data : Values]]
    /\ ip \in [Procs -> Pointers]
    /\ last \in [Procs -> Pointers]
    /\ ret \in [Procs -> Values \cup {None} \cup SUBSET (Keys \cup {0})]
    /\ seen \in [Procs -> [idx : 0 .. IndexNum, used : Int, sum : Int]]
    /\ chain \in [Index -> Seq(Nodes)]
    /\ freeq \in Seq(Nodes)
    /\ formed \in BOOLEAN
    /\ deaths \in 0 .. MaxDeaths
    /\ short \in SUBSET Index
    /\ broken \in BOOLEAN
    /\ refused \in BOOLEAN

\* The list that starts at pointer h consists of the nodes of s, in order.
Spells(h, s) ==
    IF s = <<>> THEN h = 0
    ELSE /\ h = s[1]
         /\ next[s[Len(s)]] = 0
         /\ \A j \in 1 .. Len(s) - 1 : next[s[j]] = s[j + 1]

Injective(s) == \A j, l \in 1 .. Len(s) : s[j] = s[l] => j = l

\* At every moment, also after deaths between any two stores of Insert and
\* Remove and with the survivors going on, the chains and the free list are
\* proper lists, no node is on two of them, and every user is on the chain of
\* its own index and on it once.
Linked ==
    formed =>
      /\ Spells(free, freeq) /\ Injective(freeq)
      /\ \A i \in Index :
           /\ Spells(list[i], chain[i])
           /\ Injective(chain[i])
           /\ Elems(chain[i]) \cap Elems(freeq) = {}
           /\ \A n \in Elems(chain[i]) : key[n] \in Keys /\ Hash(key[n]) = i
           /\ \A n1, n2 \in Elems(chain[i]) : key[n1] = key[n2] => n1 = n2
      /\ \A i, j \in Index : i # j => Elems(chain[i]) \cap Elems(chain[j]) = {}

InChains == UNION {Elems(chain[i]) : i \in Index}

\* What Verify says of the memory as it is now.
Verify ==
    LET Sum[i \in 0 .. IndexNum] ==
            IF i = 0 THEN 1 ELSE Sum[i - 1] + Length(list[i - 1])
    IN  /\ \A i \in Index : VerifyIndexOK(i)
        /\ Sum[IndexNum] = used
        /\ VerifyFreeOK(used)

\* Verify can be believed: memory it accepts has every node in a chain or on
\* the free list and exact counts, whatever the deaths before.  The errors
\* that several deaths leave never cancel out.
VerifySound ==
    Verify => /\ formed
              /\ Nodes = InChains \cup Elems(freeq)
              /\ used = 1 + Cardinality(InChains)
              /\ \A i \in Index : num[i] = Len(chain[i])

\* Nodes an Insert can still get: GetFreeNode needs both a count below the
\* total and a node on the free list.
Available == IF Len(freeq) < DataNum - used THEN Len(freeq) ELSE DataNum - used

\* Some process has been let in by Verify.
InUse == \E p \in Procs : pc[p] \notin {"down", "clear", "clearnodes", "verify"}

\* A death costs the table one node at most, and a table nobody died in can be
\* filled to the last node: Insert reports E_HASH_LIST_NO_SPACE too early by at
\* most the number of deaths.  A death within Clear leaves all nodes but one
\* off the free list, and a table that Verify lets nobody use.
DeathCostsOneNode ==
    InUse /\ (\A p \in Procs : pc[p] \notin MidChange)
       => DataNum - 1 - Cardinality(InChains) - Available <= deaths

\* A sweep (CheckUserIsValid) reports every user of its index and nobody else,
\* unless a death before iDataNodeNum++ left the count of the index short.
SweepComplete ==
    \A p \in Procs :
       (pc[p] = "unlock" /\ call[p].op = "Check" /\ call[p].key \notin short)
          => ret[p] = {key[n] : n \in Elems(chain[call[p].key])}

\* The record of a user, read off the chain of its index.
Record(k) ==
    IF \E n \in Elems(chain[Hash(k)]) : key[n] = k
      THEN data[CHOOSE n \in Elems(chain[Hash(k)]) : key[n] = k]
      ELSE NoData

Answer(p) == IF call[p].op = "Get" THEN ret[p] ELSE None

TableMap == [k \in Keys |-> Record(k)]
Answers == [p \in Procs |-> Answer(p)]

Table == INSTANCE UserMap WITH m <- TableMap, answer <- Answers

\* Under the record locks the linked memory behaves as one map: a user is
\* inserted, changed or removed in one store, lookups see the map of the
\* moment, and no operation on a user, complete or cut short by a death,
\* touches another one.
TableIsMap == Table!Spec

\* filelock.h: the whole table is locked while a process sets itself up.  Then
\* a process is only refused when somebody died within a change.
StartAccepted == ~refused
=============================================================================
