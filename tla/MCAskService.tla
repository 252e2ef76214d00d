---------------------------- MODULE MCAskService ----------------------------
(* Instances of AskService for TLC. *)
EXTENDS AskService, TLC

Interchangeable == Permutations(Requests) \cup Permutations(Questions)
=============================================================================
