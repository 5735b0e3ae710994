-------------------------- MODULE MCAgentLifecycle --------------------------
(* AgentLifecycle on small instances: the cfg files give the constants.    *)
EXTENDS AgentLifecycle, TLC

\* Starts of agent-gui differ in nothing but their name.
Symmetry == Permutations(Instances)
=============================================================================
