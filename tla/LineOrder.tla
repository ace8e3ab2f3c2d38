------------------------------ MODULE LineOrder ------------------------------
(***************************************************************************)
(* The log modules tell bytes, messages and lines apart by their positions *)
(* and put them in the order of these.                                     *)
(***************************************************************************)
EXTENDS Naturals, Sequences, FiniteSets

\* The numbers of a finite set, in order.
InOrder(S) ==
  [k \in 1..Cardinality(S) |->
     CHOOSE x \in S : Cardinality({y \in S : y < x}) = k - 1]

\* Four operators of SequencesExt, under their names. The whole of that module, in the
\* context of every step of a proof, slows the proofs several times over.
Contains(s, e) == \E i \in 1..Len(s) : s[i] = e

Last(s) == s[Len(s)]

Front(s) == SubSeq(s, 1, Len(s) - 1)

Suffixes(s) == {SubSeq(s, l, Len(s)) : l \in 1..Len(s)} \cup {<<>>}

=============================================================================
