------------------------------ MODULE MCRouter ------------------------------
(* Instances of Router for TLC. *)
EXTENDS Router, TLC

CONSTANT u1

\* Every token belongs to the first user
OneOwner == [t \in Tokens |-> u1]

PoolSymmetry ==
    Permutations(Conns) \union Permutations(AgentIds) \union Permutations(Sessions)
      \union Permutations(Browsers)

HubSymmetry ==
    Permutations(Conns) \union Permutations(AgentIds) \union Permutations(Fingerprints)
=============================================================================
