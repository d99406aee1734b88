----------------------------- MODULE MCBusRoute -----------------------------
(* Instances of BusRoute for TLC: the clusters and the group of conn servers *)
(* of busconf/bus.ini, with one server more.                                 *)
EXTENDS BusRoute, TLC

MCServers == {101, 102, 103}
MCClusterOf == (101 :> 1) @@ (102 :> 2) @@ (103 :> 1)
MCGroups == 100 :> <<101, 102, 103>>

Pkg(src, type, dst) == [src |-> src, type |-> type, dst |-> dst]

\* Unicast, to one of a group and to all of it, with the sender left out or not,
\* a destination nobody has, a state change, and traffic in both directions.
MCTraffic ==
    {Pkg(101, "TO_SRV", 102), Pkg(101, "TO_SRV", 999), Pkg(102, "TO_GRP_RND", 100),
     Pkg(101, "TO_GRP_RNDNOME", 100),
     Pkg(103, "TO_GRP_ALLNOME", 100), Pkg(103, "StateChange", 103)}

\* Two servers that talk to each other.
MCBothWays == {Pkg(101, "TO_SRV", 102), Pkg(102, "TO_SRV", 101)}
=============================================================================
