---------------------------- MODULE MCSwimMembership ----------------------------
(* Small swarms for SwimMembership. *)
EXTENDS SwimMembership

CONSTANTS b1, b2, b3

\* Two brokers that are each other's seed.
EachOther == [b \in Brokers |-> Brokers \ {b}]

\* b1 and b2 are each other's seed and b3 has b1 as seed: b1 can suspect b3 to b2,
\* and b2 can declare b3 dead to b1.
WatchedLeaf == [b \in Brokers |-> IF b = b1 THEN {b2} ELSE {b1}]
=============================================================================
