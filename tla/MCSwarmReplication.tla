--------------------------- MODULE MCSwarmReplication ---------------------------
(* Small swarms for SwarmReplication. *)
EXTENDS SwarmReplication

CONSTANTS b1, b2, b3

\* Every broker's peer store holds a record of every broker, its own included.
AllPeers == [b \in Brokers |-> Brokers]

\* No seeds configured: no broker pushes.
NoNeighbors == [b \in Brokers |-> <<>>]

\* Two brokers that have each other as seed.
EachOther == [b \in Brokers |-> IF b = b1 THEN <<b2>> ELSE <<b1>>]

\* b1 pulls from nobody, b2 from b1, and b3 from both: b2 relays to b3.
RelayPeers == [b \in Brokers |->
    IF b = b1 THEN {b1} ELSE IF b = b2 THEN {b1, b2} ELSE Brokers]
=============================================================================
