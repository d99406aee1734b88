----------------------------- MODULE MCShmQueue -----------------------------
(***************************************************************************)
(* An instance of ShmQueue for TLC.  The consumer uses either OutQueue or  *)
(* the lock-free MsgPeek and ReleaseMsg; which, the initial state chooses. *)
(***************************************************************************)
EXTENDS ShmQueue

VARIABLE mode   \* "copy": OutQueue, "peek": MsgPeek and ReleaseMsg

\* Nodes of five and six bytes; InQueue refuses the empty packet, and OutQueue
\* skips the longest one, which does not fit its buffer.
MCMsgs == {<<>>, <<1>>, <<2, 3>>}

\* MsgPeek has no buffer to be too short for.
Pk == INSTANCE ShmQueue WITH Peekers <- Consumers,
                             Msgs <- {m \in Msgs : Len(m) <= BufLen}

mcVars == <<mode, vars>>
Copy == mode = "copy" /\ UNCHANGED mode
Peek == mode = "peek" /\ UNCHANGED mode

MCInit == mode \in {"copy", "peek"} /\ Init
MCNext == (Copy /\ Next) \/ (Peek /\ Pk!Next)

\* ShmQueue's Fairness, the consumer's by mode.
MCFairness ==
    /\ \A p \in Producers : /\ SF_mcVars(UNCHANGED mode /\ InLock(p))
                            /\ WF_mcVars(UNCHANGED mode /\ InStep(p))
    /\ \A c \in Consumers : /\ SF_mcVars(Copy /\ OutLock(c))
                            /\ WF_mcVars(Copy /\ OutStep(c))
                            /\ WF_mcVars(Peek /\ Pk!PeekStep(c))
    /\ \A i \in Inspectors : /\ SF_mcVars(UNCHANGED mode /\ AllLockOut(i))
                             /\ WF_mcVars(UNCHANGED mode /\ AllStep(i))

MCSpec == MCInit /\ [][MCNext]_mcVars /\ MCFairness
=============================================================================
