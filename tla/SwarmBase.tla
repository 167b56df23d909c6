------------------------------ MODULE SwarmBase ------------------------------
(* What the modules of the server and of the agent have in common: the       *)
(* agents, and the ids that name tests on both sides of the connection.      *)
EXTENDS Integers, FiniteSets

CONSTANTS Agents,    \* the agents
          MaxTests   \* bound: how many tests the server creates in a behaviour

ASSUME AgentsAssumption == IsFiniteSet(Agents)
ASSUME MaxTestsAssumption == MaxTests \in Nat \ {0}

Tests  == 1..MaxTests   \* the ids newID returns, in the order it returns them
NoTest == 0             \* the empty id
=============================================================================
