------------------------------- MODULE Tokens -------------------------------
(* TokenUsage of api/llm/base.py: what provider calls cost, as the provider *)
(* counted it or as a local tokenizer did.                                  *)
EXTENDS Naturals

\* TokenUsage, with the two token counts as one.
TokenUsage == [tokens : Nat, calls : Nat, measured : BOOLEAN]
NoUsage == [tokens |-> 0, calls |-> 0, measured |-> FALSE]

IsZero(u) == u.calls = 0 /\ u.tokens = 0

\* TokenUsage.__add__, where a usage of no calls and no tokens adds nothing.
PlusWithoutIdentity(u, v) ==  \* faulty: the empty accumulator counts
  [tokens |-> u.tokens + v.tokens, calls |-> u.calls + v.calls,
   measured |-> u.measured /\ v.measured]

Plus(u, v) ==
  IF IsZero(v) THEN u
  ELSE IF IsZero(u) THEN v
  ELSE [tokens |-> u.tokens + v.tokens, calls |-> u.calls + v.calls,
        measured |-> u.measured /\ v.measured]

\* project_worst_case of api/llm/counting.py.
ProjectWorstCase(perCall, questions, maxCalls) == perCall * questions * maxCalls
=============================================================================
