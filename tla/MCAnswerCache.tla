--------------------------- MODULE MCAnswerCache ---------------------------
(* AnswerCache on small sets.  Two stored values so that an overwritten    *)
(* answer shows, one value the predicate refuses, one error.               *)
EXTENDS AnswerCache, TLC

CONSTANTS v1, v2, bad

MCValues == {v1, v2, bad}
MCCacheable == {v1, v2}

(* Calls, keys and the two kept values are interchangeable.  Used by the   *)
(* safety configuration only: symmetry is not sound for liveness.          *)
Interchangeable ==
  Permutations(Calls) \cup Permutations(Keys) \cup Permutations(MCCacheable)
=============================================================================
