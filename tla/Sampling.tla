------------------------------ MODULE Sampling ------------------------------
(***************************************************************************)
(* The sampling policy of the deep recorder (src/src/deep/sampling.rs):    *)
(* which calls of a function are written to its .dclog.                    *)
(*                                                                         *)
(* A policy is a record [mode, n, keep_last].  n is the N of `first:N' and *)
(* `firstlast:N', and first_n_always of `prob:'.  keep_last is read in     *)
(* mode "prob" only.  The random draw `rng.gen() < p' is a Boolean `coin'  *)
(* the caller chooses nondeterministically.                                *)
(***************************************************************************)
EXTENDS Naturals

Modes == {"all", "first", "firstlast", "prob"}

SamplePolicy == [mode : Modes, n : Nat, keep_last : BOOLEAN]

Samples == {"Record", "BufferAsLast", "Skip"}

\* SamplePolicy::keeps_last: a call that is not sampled may still be kept as
\* the last call of the run.
KeepsLast(p) == p.mode = "firstlast" \/ (p.mode = "prob" /\ p.keep_last)

\* The random number is drawn only past the first_n_always calls.
Draws(p, seq) == IF p.mode = "prob" /\ seq >= p.n THEN BOOLEAN ELSE {FALSE}

\* Mutant of Decide: the first n-1 calls instead of the first n.
DecideOneLess(p, seq, coin) ==
  IF p.mode = "all" \/ seq + 1 < p.n \/ (p.mode = "prob" /\ coin) THEN "Record"
  ELSE IF KeepsLast(p) THEN "BufferAsLast"
  ELSE "Skip"

\* Sampler::decide for the call numbered seq.
Decide(p, seq, coin) ==
  IF p.mode = "all" \/ seq < p.n \/ (p.mode = "prob" /\ coin) THEN "Record"
  ELSE IF KeepsLast(p) THEN "BufferAsLast"
  ELSE "Skip"
=============================================================================
