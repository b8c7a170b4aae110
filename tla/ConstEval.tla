------------------------------ MODULE ConstEval -----------------------------
(***************************************************************************)
(* ConstEvaluator (src/src/codegen/const_eval.h): what it makes of an      *)
(* expression, as the functions MappedOn and VisitedOn, and what it does to a  *)
(* unit: fixAssignments on every scope, one action per turn of its loop,   *)
(* then the functions.                                                     *)
(*                                                                         *)
(* The folding of DIV, MOD and EXP is left out, as in Values: they differ  *)
(* in the number they compute.  variableLookup is left out: it is filled   *)
(* and never read.                                                         *)
(***************************************************************************)
EXTENDS Ast, Functions

VARIABLES parsed,        \* the unit as it was handed over (history)
          pass,          \* "idle", "fix": a scope is being fixed, or "done"
          scope, index,  \* the assignment the loop has reached
          localIndices   \* where each name of this scope was first seen

foldVars == <<unit, parsed, pass, scope, index, localIndices>>

-----------------------------------------------------------------------------
IsNumber(e) == e.kind = "Number"
AsNumber(b) == IF b THEN 1 ELSE 0

FoldedUnary(op, m) == IF op = "NEG" THEN -m ELSE AsNumber(m = 0)

FoldedBinary(op, m, n) ==
  CASE op = "ADD" -> m + n
    [] op = "SUB" -> m - n
    [] op = "MUL" -> m * n
    [] op = "LT" -> AsNumber(m < n)
    [] op = "LE" -> AsNumber(m <= n)
    [] op = "GT" -> AsNumber(m > n)
    [] op = "GE" -> AsNumber(m >= n)
    [] op = "EQ" -> AsNumber(m = n)
    [] op = "NEQ" -> AsNumber(m # n)
    [] op = "AND" -> AsNumber(m # 0 /\ n # 0)
    [] op = "OR" -> AsNumber(m # 0 \/ n # 0)

\* The node e becomes when its kids have been mapped.
Folded(e, kids) ==
  CASE e.kind = "Unary" /\ IsNumber(kids[1]) ->
         NumberNode(FoldedUnary(e.name, kids[1].value))
    [] e.kind = "Binary" /\ IsNumber(kids[1]) /\ IsNumber(kids[2]) ->
         NumberNode(FoldedBinary(e.name, kids[1].value, kids[2].value))
    [] e.kind = "IfExpr" /\ IsNumber(kids[1]) ->
         IF kids[1].value = 0 THEN kids[3] ELSE kids[2]
    [] OTHER -> WithKids(e, kids)

\* ExprMap::map with the overrides of ConstEvaluator, on the expressions of S.
MappedOn(S) ==
  LET map[e \in S] == Folded(e, [i \in DOMAIN e.kids |-> map[e.kids[i]]])
  IN map

\* What visit makes of the body of a function: only AssignNodes are mapped.
VisitedOn(S) ==
  LET visit[e \in S] ==
        WithKids(e, [i \in DOMAIN e.kids |->
                       CASE i \in Assigned(e) -> MappedOn(S)[e.kids[i]]
                         [] i \in Visited(e) \ Assigned(e) -> visit[e.kids[i]]
                         [] OTHER -> e.kids[i]])
  IN visit

mapped == MappedOn(Expr)
visited == VisitedOn(Expr)

-----------------------------------------------------------------------------
FoldInit == /\ unit = NoUnit /\ parsed = NoUnit /\ pass = "idle"
            /\ scope = 1 /\ index = 1 /\ localIndices = <<>>

NewScope(s) == scope' = s /\ index' = 1 /\ localIndices' = <<>>

FoldUnit(u) == /\ pass = "idle" /\ pass' = "fix"
               /\ unit' = u /\ parsed' = u /\ NewScope(1)

assignments == unit.scopes[scope]
Fixing == pass = "fix" /\ scope <= Len(unit.scopes)
AtAssignment == Fixing /\ index <= Len(assignments)
Known(i) == assignments[i].ident \in DOMAIN localIndices

OverwriteOnly(s, i, j) == [s EXCEPT ![j] = s[i]]

Overwrite(s, i, j) == RemoveAt([s EXCEPT ![j] = s[i]], i)

DuplicateSkips == /\ AtAssignment /\ Known(index)
                  /\ unit' = [unit EXCEPT !.scopes[scope] =
                                     Overwrite(@, index, localIndices[@[index].ident])]
                  /\ UNCHANGED <<parsed, pass, scope, localIndices>>
                  /\ index' = index + 1

\* A duplicate moves to where its name was first seen; the loop stays at index.
Duplicate == /\ AtAssignment /\ Known(index)
             /\ unit' = [unit EXCEPT !.scopes[scope] =
                           Overwrite(@, index, localIndices[@[index].ident])]
             /\ UNCHANGED <<parsed, pass, scope, index, localIndices>>

FirstSeen == /\ AtAssignment /\ ~Known(index)
             /\ LET here == assignments[index].ident
                IN localIndices' = [x \in DOMAIN localIndices \cup {here} |->
                                      IF x = here THEN index ELSE localIndices[x]]
             /\ index' = index + 1
             /\ UNCHANGED <<unit, parsed, pass, scope>>

\* The second loop of fixAssignments maps what is left.
Mapped(s) == [i \in DOMAIN s |-> [s[i] EXCEPT !.expr = mapped[@]]]

VisitAssignments ==
  /\ Fixing /\ index > Len(assignments)
  /\ unit' = [unit EXCEPT !.scopes[scope] = Mapped(@)]
  /\ NewScope(scope + 1)
  /\ UNCHANGED <<parsed, pass>>

\* visit(FunctionDecl) for each of fs.
VisitedBodies(fs) == [i \in DOMAIN fs |-> [fs[i] EXCEPT !.body = visited[@]]]

VisitFunctions ==
  /\ pass = "fix" /\ scope > Len(unit.scopes)
  /\ unit' = [unit EXCEPT !.functions = VisitedBodies(@)]
  /\ pass' = "done"
  /\ UNCHANGED <<parsed, scope, index, localIndices>>

FoldReturn == /\ pass = "done" /\ pass' = "idle"
              /\ UNCHANGED <<unit, parsed, scope, index, localIndices>>

FoldStep == Duplicate \/ FirstSeen \/ VisitAssignments \/ VisitFunctions
FoldNext == (\E u \in Units : FoldUnit(u)) \/ FoldStep \/ FoldReturn

FoldSpec == FoldInit /\ [][FoldNext]_foldVars

-----------------------------------------------------------------------------
FoldTypeOK ==
  /\ pass \in {"idle", "fix", "done"} /\ scope \in Nat \ {0} /\ index \in Nat \ {0}
  /\ parsed \in Units \cup {NoUnit} /\ Len(unit.scopes) = Len(parsed.scopes)

\* Assignment i of s is the last one of its name among the first n.
IsLast(s, i, n) == \A j \in (i + 1)..n : s[j].ident # s[i].ident

\* The first p assignments of a say what the first n of s say: they have every
\* name, each with its last value, and in the order in which the names occur first.
Fixes(a, p, s, n) ==
  /\ \A i \in 1..n : \E k \in 1..p : a[k].ident = s[i].ident
  /\ \A k \in 1..p : \E j \in 1..n : a[k] = s[j] /\ IsLast(s, j, n)
  /\ \A k \in 1..p : \A l \in (k + 1)..p :
       \E i \in 1..n : /\ s[i].ident = a[k].ident
                       /\ \A j \in 1..i : s[j].ident # a[l].ident

\* fixAssignments (const_eval.h:144) removes duplicates while it walks the
\* vector it removes them from.  What is left of a scope before the second loop:
\* each name once, with its last value, and in the order in which the names occur
\* first.
LastAssignmentWins ==
  (Fixing /\ index > Len(assignments)) =>
    LET s == parsed.scopes[scope]
    IN Fixes(assignments, Len(assignments), s, Len(s))

=============================================================================
