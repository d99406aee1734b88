---------------------------- MODULE PacketQueue ----------------------------
(***************************************************************************)
(* What mmlib/shm_queue promises to its users, without bytes, offsets or   *)
(* locks: a bounded first-in first-out queue of whole packets.  A packet   *)
(* costs its length plus the four bytes of its length field; one byte of   *)
(* the ring stays free.                                                    *)
(***************************************************************************)
EXTENDS Integers, Sequences

CONSTANTS
    Msgs,      \* the packets
    Capacity,  \* bytes the queue can hold
    BufLen,    \* the buffer the consumer offers
    Truncates  \* TRUE if packets longer than BufLen are skipped

VARIABLES
    queue, \* packets waiting, oldest first
    used,  \* bytes they occupy
    given  \* everything the consumer was given

Cost(m) == Len(m) + 4

Result(m) ==
    IF Truncates /\ Len(m) > BufLen THEN [ok |-> FALSE, data |-> <<>>]
                                    ELSE [ok |-> TRUE, data |-> m]

Init == queue = <<>> /\ used = 0 /\ given = <<>>

Put(m) ==
    /\ Len(m) > 0
    /\ used + Cost(m) <= Capacity
    /\ queue' = Append(queue, m)
    /\ used' = used + Cost(m)
    /\ UNCHANGED given

Get ==
    /\ queue # <<>>
    /\ given' = Append(given, Result(Head(queue)))
    /\ queue' = Tail(queue)
    /\ used' = used - Cost(Head(queue))

Next == Get \/ \E m \in Msgs : Put(m)

Spec == Init /\ [][Next]_<<queue, used, given>>
=============================================================================
