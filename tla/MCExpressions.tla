---------------------------- MODULE MCExpressions ---------------------------
(***************************************************************************)
(* Expressions of up to three operators for the model-checking run.        *)
(***************************************************************************)
EXTENDS Expressions

Two(p, q) == {<<"a", p, "b", q, "c">>, <<"(", "a", p, "b", ")", q, "c">>,
              <<"SUB", "a", p, "NOT", "b", q, "c">>, <<"a", "EXP", "b", p, "c", q, "d">>,
              <<"a", p, "b", "?", "b", q, "c", ":", "d">>}
Sentences == UNION {Two(p, q) : p, q \in {"OR", "LT", "ADD", "SUB", "MUL"}}

=============================================================================
