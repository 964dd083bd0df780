------------------------------ MODULE MCNetwork ------------------------------
(* A Network with an Endpoint and two Nodes that come and go.                 *)
EXTENDS NetworkConfiguration

MCTopology == [n \in Networks |-> "t1"]
==============================================================================
