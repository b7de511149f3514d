------------------------------- MODULE MCRfc -------------------------------
EXTENDS Rfc, TLC

AgentSymmetry == Permutations(Agents)

=============================================================================
