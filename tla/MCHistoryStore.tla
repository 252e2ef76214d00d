--------------------------- MODULE MCHistoryStore ---------------------------
(* Instances of HistoryStore for TLC: calls and identities are model values, *)
(* interchangeable within their kind where no liveness is checked.           *)
EXTENDS HistoryStore, TLC

Interchangeable ==
  Permutations(Reservers) \cup Permutations(Recorders) \cup Permutations(Markers)
    \cup Permutations(Identities)
=============================================================================
