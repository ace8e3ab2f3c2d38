-------------------------- MODULE MCPodResolution --------------------------
EXTENDS PodResolution, TLC

PodSymmetry == Permutations(Pods)
=============================================================================
