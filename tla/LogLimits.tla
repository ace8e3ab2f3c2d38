----------------------------- MODULE LogLimits -----------------------------
(***************************************************************************)
(* The limit that reading a log and cutting it to size have in common.     *)
(***************************************************************************)
EXTENDS Naturals, Sequences

CONSTANT maxLogLineBytes

ASSUME LimitsAssumption == maxLogLineBytes \in Nat

=============================================================================
