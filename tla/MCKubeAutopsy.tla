--------------------------- MODULE MCKubeAutopsy ---------------------------
EXTENDS KubeAutopsy, TLC

ReportSymmetry == Permutations(Reports)
=============================================================================
