----------------------------- MODULE MCAgentLoop -----------------------------
(* Instances of AgentLoop for TLC. *)
EXTENDS AgentLoop, TLC

CONSTANTS s1, s2, s3
Texts3 == {s1, s2, s3}

\* A name the loop does not dispatch: TOOLS lists it and the loop has no branch.
Undispatched == {"validate_sql"}
=============================================================================
