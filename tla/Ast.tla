--------------------------------- MODULE Ast --------------------------------
(***************************************************************************)
(* The syntax tree that the passes over it share (src/src/ast.h and        *)
(* src/src/ast_visitor.cpp).  An expression is a node                      *)
(*   [kind, name, value, kids]                                             *)
(* where kids are its subexpressions in the order AstVisitor visits them,  *)
(* name is an identifier or an operator and value a number; the fields a   *)
(* kind does not have are "" and 0.  Numbers are integers.  A C-style list *)
(* comprehension has one variable.  Left out are source locations, the     *)
(* defaults of parameters, the names of arguments and bindings, and each.  *)
(*                                                                         *)
(* A translation unit is reduced to its functions and its scopes: scope 1  *)
(* holds the assignments of the file, the others those of the bodies of    *)
(* its modules, in the order ConstEvaluator meets them.                    *)
(***************************************************************************)
EXTENDS Integers, FiniteSets, SequencesExt

CONSTANTS Expr,   \* the expressions there are, with all their subexpressions
          Units   \* the translation units the host may hand over

VARIABLE unit     \* the translation unit the passes work on

-----------------------------------------------------------------------------
Leaf == {"Number", "String", "Undef", "Ident"}
\* Kinds that BytecodeGen has no visit of its own for.
Unsupported == {"List", "Range", "Index", "Let", "Lambda", "ListComp", "ListCompC"}
UnaryOp == {"NEG", "NOT"}
BinaryOp == {"ADD", "SUB", "MUL", "LT", "LE", "GT", "GE", "EQ", "NEQ", "AND", "OR"}

Node(kind, name, value, kids) ==
  [kind |-> kind, name |-> name, value |-> value, kids |-> kids]
NumberNode(v) == Node("Number", "", v, <<>>)
IdentNode(name) == Node("Ident", name, 0, <<>>)
UndefNode == Node("Undef", "", 0, <<>>)
StringNode == Node("String", "", 0, <<>>)
UnaryOpNode(op, operand) == Node("Unary", op, 0, <<operand>>)
BinaryOpNode(op, lhs, rhs) == Node("Binary", op, 0, <<lhs, rhs>>)
CallNode(fun, args) == Node("Call", "", 0, <<fun>> \o args)
IfExprNode(cond, ifthen, ifelse) == Node("IfExpr", "", 0, <<cond, ifthen, ifelse>>)
ListExprNode(elements) == Node("List", "", 0, elements)
LetNode(bindings, expr) == Node("Let", "", 0, Append(bindings, expr))
\* [for (i = list) if (cond) element]
ListCompNode(list, cond, element) == Node("ListComp", "", 0, <<list, cond, element>>)
\* [for (i = init; cond; i = update) if (when) element]
ListCompCNode(init, cond, update, when, element) ==
  Node("ListCompC", "", 0, <<init, cond, update, when, element>>)

IsNode(e) ==
  /\ e.name \in STRING /\ e.value \in Int /\ e.kids \in Seq(Expr)
  /\ \/ e.kind \in Leaf /\ e.kids = <<>>
     \/ e.kind = "Unary" /\ e.name \in UnaryOp /\ Len(e.kids) = 1
     \/ e.kind = "Binary" /\ e.name \in BinaryOp /\ Len(e.kids) = 2
     \/ e.kind = "Call" /\ Len(e.kids) >= 1
     \/ e.kind = "IfExpr" /\ Len(e.kids) = 3
     \/ e.kind \in Unsupported /\ (e.kind = "ListCompC" => Len(e.kids) >= 3)

ASSUME ExprAssumption == \A e \in Expr : IsNode(e)

\* The kids that are AssignNodes: the arguments of a call, bindings, iterators.
Assigned(e) == CASE e.kind = "Call" -> 2..Len(e.kids)
                 [] e.kind = "Let" -> 1..(Len(e.kids) - 1)
                 [] e.kind = "ListComp" -> {1}
                 [] e.kind = "ListCompC" -> {1, 3}
                 [] OTHER -> {}

\* The kids that AstVisitor visits: not the generators of a ListCompCNode.
Visited(e) == IF e.kind = "ListCompC" THEN 1..3 ELSE DOMAIN e.kids

\* ExprMap copies a node with its kids mapped; leaves are shared.
WithKids(e, kids) == [e EXCEPT !.kids = kids]

\* $fn and the like are IdentNodes whose name starts with a dollar sign.
ConfigVar == {"$fn", "$fa", "$t"}
isConfigVar(e) == e.name \in ConfigVar

AssignNode == [ident : STRING, expr : Expr]
FunctionDecl == [name : STRING, args : Seq(STRING), body : Expr]
TranslationUnit == [functions : Seq(FunctionDecl), scopes : Seq(Seq(AssignNode))]

\* What there is before the first unit.
NoUnit == [functions |-> <<>>, scopes |-> <<<<>>>>]

ASSUME UnitsAssumption ==
  \A u \in Units : u \in TranslationUnit /\ u.scopes # <<>>

=============================================================================
