---------------------------- MODULE Accumulation ----------------------------
(***************************************************************************)
(* A fold whose intermediate results are values, so that TLC computes each *)
(* of them once.                                                           *)
(***************************************************************************)
EXTENDS Integers, Sequences

(* F of a value that is computed once. *)
Once(v, F(_)) == CHOOSE y \in {F(x) : x \in {v}} : TRUE

(* step applied along a sequence. *)
Accumulate(step(_, _), init, s) ==
  LET acc[i \in 0..Len(s)] ==
        IF i = 0 THEN init ELSE Once(acc[i - 1], LAMBDA a : step(a, s[i]))
  IN  acc[Len(s)]

=============================================================================
