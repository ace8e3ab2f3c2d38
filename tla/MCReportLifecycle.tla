------------------------- MODULE MCReportLifecycle -------------------------
EXTENDS ReportLifecycle, TLC

ReportSymmetry == Permutations(Reports)
=============================================================================
