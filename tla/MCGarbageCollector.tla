------------------------- MODULE MCGarbageCollector -------------------------
EXTENDS GarbageCollector, TLC

ReportSymmetry == Permutations(Reports)
=============================================================================
