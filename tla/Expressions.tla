---------------------------- MODULE Expressions -----------------------------
(***************************************************************************)
(* The rules for operators in src/src/parsing/parser.y (lines 188 to 256)  *)
(* as the shift-reduce automaton that Bison makes of them, with one token  *)
(* of lookahead.  Calls, lists, let and lambdas are left out.              *)
(*                                                                         *)
(* A tree is <<name>> for an operand, or an operator and its subtrees;     *)
(* parentheses leave no node in the syntax tree and are kept here as       *)
(* <<"()", tree>>.                                                         *)
(***************************************************************************)
EXTENDS Integers, SequencesExt

CONSTANT Inputs   \* the token sequences there are

VARIABLES tokens,   \* what the scanner will return
          stack     \* [sym, tree]: a token, or a nonterminal with its value

vars == <<tokens, stack>>

-----------------------------------------------------------------------------
Binop == {"OR", "AND", "EQ", "NEQ", "GT", "GE", "LT", "LE", "ADD", "SUB", "MUL", "DIV", "MOD"}
Operands == {"a", "b", "c", "d"}

\* The precedences that are declared, the loosest first.
Left == <<{"OR"}, {"AND"}, {"EQ", "NEQ"}, {"GT", "GE", "LT", "LE"}, {"ADD", "SUB"},
          {"MUL", "DIV", "MOD"}, {"EXP"}>>
Level(op) == CHOOSE n \in DOMAIN Left : op \in Left[n]

Lookahead == IF tokens = <<>> THEN "end" ELSE Head(tokens)
End(n) == SubSeq(stack, Len(stack) - n + 1, Len(stack))
Syms(s) == [i \in DOMAIN s |-> s[i].sym]
EndsWith(rhs) == Len(rhs) <= Len(stack) /\ Syms(End(Len(rhs))) = rhs
Tree(i, n) == End(n)[i].tree   \* $i in a rule with n symbols

Reduce(lhs, n, tree) ==
  /\ stack' = Append(SubSeq(stack, 1, Len(stack) - n), [sym |-> lhs, tree |-> tree])
  /\ UNCHANGED tokens

Binary == EndsWith(<<"binary", "binop", "unary">>)
Prefixed == \E op \in {"ADD", "SUB", "NOT"} : EndsWith(<<op, "unary">>)
Power == EndsWith(<<"call", "EXP", "unary">>)
Conditional == EndsWith(<<"binary", "?", "expr", ":", "expr">>)

\* An operator behind a complete operand is a binop; elsewhere it is a prefix.
ReduceBinop ==
  \E op \in Binop : /\ EndsWith(<<"binary", op>>)
                    /\ Reduce("binop", 1, <<op>>)

ReducePrimary ==
  \/ \E o \in Operands : EndsWith(<<o>>) /\ Reduce("primary", 1, <<o>>)
  \/ EndsWith(<<"(", "expr", ")">>) /\ Reduce("primary", 3, <<"()", Tree(2, 3)>>)

ReduceCall == EndsWith(<<"primary">>) /\ Reduce("call", 1, Tree(1, 1))

ReduceExponent ==
  \/ EndsWith(<<"call">>) /\ Lookahead # "EXP" /\ Reduce("exponent", 1, Tree(1, 1))
  \/ Power /\ Reduce("exponent", 3, <<"EXP", Tree(1, 3), Tree(3, 3)>>)

ReduceUnary ==
  \/ EndsWith(<<"exponent">>) /\ Reduce("unary", 1, Tree(1, 1))
  \/ EndsWith(<<"ADD", "unary">>) /\ Reduce("unary", 2, Tree(2, 2))
  \/ EndsWith(<<"SUB", "unary">>) /\ Reduce("unary", 2, <<"NEG", Tree(2, 2)>>)
  \/ EndsWith(<<"NOT", "unary">>) /\ Reduce("unary", 2, <<"NOT", Tree(2, 2)>>)

ReduceBinary ==
  \/ /\ EndsWith(<<"unary">>) /\ ~Binary /\ ~Prefixed /\ ~Power
     /\ Reduce("binary", 1, Tree(1, 1))
  \/ Binary /\ Reduce("binary", 3, Tree(2, 3) \o <<Tree(1, 3), Tree(3, 3)>>)

ReduceExpr ==
  \/ /\ EndsWith(<<"binary">>) /\ Lookahead \notin Binop \cup {"?"}
     /\ Reduce("expr", 1, Tree(1, 1))
  \/ Conditional /\ Reduce("expr", 5, <<"?", Tree(1, 5), Tree(3, 5), Tree(5, 5)>>)

ReduceAny == \/ ReduceBinop \/ ReducePrimary \/ ReduceCall \/ ReduceExponent
             \/ ReduceUnary \/ ReduceBinary \/ ReduceExpr

\* When no rule is complete, or the lookahead continues one.
Shift == /\ tokens # <<>>
         /\ ~ENABLED ReduceAny
         /\ stack' = Append(stack, [sym |-> Head(tokens), tree |-> <<>>])
         /\ tokens' = Tail(tokens)

Init == tokens \in Inputs /\ stack = <<>>
Next == ReduceAny \/ Shift
Spec == Init /\ [][Next]_vars

-----------------------------------------------------------------------------
Infix(t) == Len(t) = 3 /\ t[1] \in Binop

\* "We use bison's precedence feature for operators" (parser.y:220): an operand of
\* a binary operator that is itself one binds more tightly, or as tightly and
\* stands on the left.
Grouped(t) ==
  Infix(t) => /\ Infix(t[2]) => Level(t[2][1]) >= Level(t[1])
              /\ Infix(t[3]) => Level(t[3][1]) > Level(t[1])
PrecedenceDecides == \A i \in DOMAIN stack : Grouped(stack[i].tree)

=============================================================================
