------------------------------ MODULE MCCompiler ----------------------------
(***************************************************************************)
(* Translation units for the model-checking runs of Compiler.              *)
(***************************************************************************)
EXTENDS Compiler

N(v) == NumberNode(v)
X == IdentNode("x")
Y == IdentNode("y")
A == IdentNode("a")
B == IdentNode("b")
Fn == IdentNode("$fn")
Op(op, m, n) == BinaryOpNode(op, m, n)
Neg(m) == UnaryOpNode("NEG", m)
Apply(f, args) == CallNode(IdentNode(f), args)
Fun(name, args, body) == [name |-> name, args |-> args, body |-> body]
Let(x, e) == [ident |-> x, expr |-> e]

\* function foo(a, b) = a > 0 ? foo(a - 1, b + 2) : b;  (test/parser_test.cpp:60)
Foo == Fun("foo", <<"a", "b">>,
           IfExprNode(Op("GT", A, N(0)),
                      Apply("foo", <<Op("SUB", A, N(1)), Op("ADD", B, N(2))>>), B))
Minus == Fun("minus", <<"a", "x">>, Op("SUB", A, X))
Abs == Fun("abs", <<"a">>, Op("ADD", A, N(1)))
Choose(m, n) == IfExprNode(Op("LT", m, n), Op("MUL", m, N(3)), Op("SUB", n, m))

Bodies ==
  {Op("ADD", Op("MUL", X, N(10)), Y),
   Op("SUB", Fn, Neg(Op("ADD", N(2), N(3)))),
   Apply("foo", <<Op("ADD", N(1), N(1)), Neg(N(3))>>),
   Op("SUB", Apply("minus", <<X, Y>>), Apply("minus", <<Y, X>>)),
   Apply("minus", <<Choose(X, Y), Choose(N(1), N(2))>>),
   Op("SUB", Choose(X, Y), Choose(Y, X)),
   IfExprNode(Op("LT", Choose(X, Y), Choose(Y, X)), Neg(X), N(5)),
   IfExprNode(Op("AND", Op("LE", X, Y), Op("NEQ", X, Y)),
              Apply("abs", <<Neg(X)>>), Apply("sign", <<X>>)),
   IfExprNode(UnaryOpNode("NOT", Op("EQ", X, Y)), Neg(X), UndefNode),
   Apply("unknown", <<X>>), CallNode(Choose(X, Y), <<X>>), StringNode,
   ListExprNode(<<X, N(1)>>), LetNode(<<Op("MUL", N(2), N(4))>>, X),
   ListCompNode(Op("ADD", N(1), N(1)), N(1), X),
   ListCompCNode(Neg(N(1)), Op("LT", X, N(2)), Op("ADD", N(2), N(2)), N(1), Neg(N(3)))}

Entry(body) == Fun("main", <<>>, body)
Value(i) == Op("MUL", N(i), Neg(N(2)))
Assigns(xs) == [i \in DOMAIN xs |-> Let(xs[i], Value(i))]

Program(fs, xs) == [functions |-> fs, scopes |-> <<Assigns(xs)>>]

\* Every body, with main first or last and x below or above y; and a function
\* that is defined twice.
Programs ==
  UNION {{Program(<<Entry(b), Foo, Minus>>, <<"x", "y">>),
          Program(<<Minus, Abs, Foo, Entry(b)>>, <<"y", "x">>)} : b \in Bodies}
    \cup {Program(<<Fun("minus", <<"a">>, A), Foo, Minus, Entry(Apply("minus", <<X, Y>>))>>,
                  <<"x", "y", "x">>)}

\* Every way to assign x and y up to three times, in the file and in a module.
Assignments ==
  {[functions |-> <<Entry(Op("ADD", Op("MUL", X, N(10)), Y))>>,
    scopes |-> <<Assigns(xs), Assigns(Reverse(xs)) \o Assigns(<<"$fn">>)>>] :
     xs \in BoundedSeq({"x", "y"}, 3)}

\* b ? (c ? 1 : 2) : 3 and the like.
Nested ==
  {[functions |-> <<Entry(b)>>, scopes |-> <<Assigns(<<"x", "y">>)>>] :
     b \in {IfExprNode(Op("LT", X, Y), Choose(X, Y), N(1)),
            IfExprNode(Op("LT", X, Y), N(1), Choose(X, Y))}}

\* a = 1; b = 2; a = b + 1;  (test/parser_test.cpp:57), with the names x and y: what is
\* moved to the front refers to a name that is assigned behind it.
Successor == Op("ADD", Y, N(1))
Dependent ==
  {[functions |-> <<Foo, Entry(Apply("foo", <<Op("SUB", X, Y), Y>>))>>,
    scopes |-> <<<<Let("x", N(1)), Let("y", N(2)), Let("x", Successor)>>>>]}

AllUnits == Programs \cup Assignments \cup Dependent

\* The expressions in these units, before and after folding.
RECURSIVE Parts(_)
Parts(e) == {e} \cup UNION {Parts(e.kids[i]) : i \in DOMAIN e.kids}
Parsed == UNION {Parts(e) : e \in
            UNION {{u.functions[i].body : i \in DOMAIN u.functions} : u \in AllUnits \cup Nested}
              \cup {Value(i) : i \in 1..4} \cup {Successor, N(1), N(2)}}
AllExpr ==
  UNION {Parts(MappedOn(Parsed)[e]) \cup Parts(VisitedOn(Parsed)[e]) : e \in Parsed}
    \cup Parsed

\* Functions of one name have one number of parameters, but for those of minus that is
\* defined twice: the one that is called has two.
Parameters(name) == IF name \in {"foo", "minus"} THEN 2 ELSE 1

\* A call by name gives each parameter a value.
Supplied(e) == e.kind = "Call" =>
                 e.kids[1].kind = "Ident" /\ Len(e.kids) = Parameters(e.kids[1].name) + 1
OneBlockExpr ==
  {e \in AllExpr :
     \A k \in Parts(e) : k.kind \notin Unsupported \cup {"IfExpr"} /\ Supplied(k)}
TranslatableExpr ==
  {e \in AllExpr :
     \A k \in Parts(e) : /\ k.kind \notin Unsupported /\ Supplied(k)
                         /\ k.kind = "IfExpr" => {k.kids[2], k.kids[3]} \subseteq OneBlockExpr}

\* An expression has no loops, so the code of a function only jumps forward: it
\* repeats itself through calls alone ("simple direct translation",
\* bytecode_gen.h:41).
JumpsForward ==
  \A i \in DOMAIN listings : \A l \in DOMAIN listings[i].blocks :
    LET b == listings[i].blocks[l]
    IN \A target \in {b.jumpFalse, b.next} \ {None} : target > l - 1

=============================================================================
