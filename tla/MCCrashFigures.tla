--------------------------- MODULE MCCrashFigures ---------------------------
(***************************************************************************)
(* Small instance of CrashFigures. The names include one that is empty,    *)
(* one that sanitizes to another, and the literal text of "other".         *)
(***************************************************************************)
EXTENDS CrashFigures

MCPrintable == {"a", "b", "_", "other", "unknown"}
MCUnknown == <<"unknown">>
MCOverflow == <<"other">>

\* A victim whose every pointer is there, and the ways the probe may find less.
Whole ==
  [comm |-> <<"a">>, sig |-> TRUE, mm |-> TRUE, memcg |-> TRUE, counted |-> Counters,
   chain |-> 5, delta |-> [c \in Counters |-> 0]]

Bare ==
  [Whole EXCEPT !.comm = <<>>, !.sig = FALSE, !.mm = FALSE, !.memcg = FALSE, !.chain = 0]

TearingDown ==
  { [Whole EXCEPT !.comm = <<"ctl">>, !.counted = {}, !.delta[c] = -1] : c \in Counters }

MCVictims ==
  {Whole, Bare, [Whole EXCEPT !.comm = <<"b", "a">>, !.mm = FALSE]}
  \cup { [Whole EXCEPT !.comm = <<"b", "b">>, !.chain = 4, !.counted = {"anon"}],
         [Whole EXCEPT !.comm = <<"_">>, !.chain = 4, !.counted = {"file", "swap"}],
         [Whole EXCEPT !.comm = <<"other">>, !.chain = 4, !.counted = {"shmem", "swap"}] }
  \cup { [Whole EXCEPT !.comm = <<"unknown">>, !.sig = FALSE, !.delta["anon"] = 1] }
  \cup TearingDown
=============================================================================
