------------------------------ MODULE UserMap ------------------------------
(***************************************************************************)
(* What the shared user table promises to the processes that use it: a map *)
(* from user ids to records that changes one user at a time, and lookups   *)
(* that return the record of the moment.  A record whose writer dies half  *)
(* way is Torn until it is written again.                                  *)
(***************************************************************************)
CONSTANTS Procs, Keys, Data, NoData, Torn, None

VARIABLES m,        \* the record of every user, NoData when there is none
          answer    \* what a lookup under way has found, None otherwise

vars == <<m, answer>>

Init ==
    /\ m = [k \in Keys |-> NoData]
    /\ answer = [p \in Procs |-> None]

\* The record of one user changes and nothing else.
Becomes(k, d) ==
    /\ m' = [m EXCEPT ![k] = d]
    /\ UNCHANGED answer

\* Insert only adds users that are not there.
Insert(k, d) ==
    /\ m[k] = NoData
    /\ Becomes(k, d)

\* Update first tears the record, then completes it.
Tear(k) ==
    /\ m[k] # NoData
    /\ Becomes(k, Torn)

Write(k, d) ==
    /\ m[k] = Torn
    /\ Becomes(k, d)

Remove(k) ==
    /\ m[k] # NoData
    /\ Becomes(k, NoData)

Get(p, k) ==
    /\ answer[p] = None
    /\ answer' = [answer EXCEPT ![p] = m[k]]
    /\ UNCHANGED m

Return(p) ==
    /\ answer[p] # None
    /\ answer' = [answer EXCEPT ![p] = None]
    /\ UNCHANGED m

Next ==
    \/ \E k \in Keys, d \in Data : Insert(k, d) \/ Write(k, d)
    \/ \E k \in Keys : Tear(k) \/ Remove(k)
    \/ \E p \in Procs : Return(p) \/ \E k \in Keys : Get(p, k)

Spec == Init /\ [][Next]_vars
=============================================================================
