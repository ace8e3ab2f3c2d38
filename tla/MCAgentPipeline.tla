-------------------------- MODULE MCAgentPipeline --------------------------
EXTENDS AgentPipeline, TLC

ContainerSymmetry == Permutations(Containers)
=============================================================================
