------------------------------ MODULE MCAgents ------------------------------
(* Instances of Agents for TLC: all agents are on one host. *)
EXTENDS Agents

OneHost  == [a \in 1..N |-> 0]
TwoHosts == [a \in 1..N |-> (a + 1) % 2]
=============================================================================
