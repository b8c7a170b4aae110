----------------------------- MODULE MCEvaluator ----------------------------
(***************************************************************************)
(* Programs for the model-checking runs of Evaluator.                      *)
(***************************************************************************)
EXTENDS EvaluatorProperties

I(op, n) == [op |-> op, imm |-> n]
P(op) == [op |-> op]
Un(op) == [op |-> "BuiltinUnaryOp", unary |-> op]
Bin(op) == [op |-> "BinaryOp", binary |-> op]
Function(params, code) == [code |-> code, parameters |-> params]
Construction(fns, gs, h) == [functions |-> fns, globals |-> gs, heap |-> h]

\* Two globals: the list [5, 7] and the range [1 : 2 : 5].
Lists == [vec |-> <<3>>, range |-> (2 :> [begin |-> 1, step |-> 2, end |-> 5]),
          buf |-> (3 :> <<Num(5), Num(7)>>), next |-> 4]
ListGlobals == <<Vec(1), Rng(2)>>

-----------------------------------------------------------------------------
(* Every program of a few instructions. *)

Letters == {I("GetI", 0), I("SetI", 0), I("AddI", 1), I("JumpI", 2),
            I("JumpFalseI", 2), I("Iter", 2), I("GetGlobalI", 0),
            I("GetGlobalI", 1), I("SetGlobalI", 0), I("CallI", 1),
            I("TailCallI", 1), I("ConstNum", 0), I("ConstMisc", 1),
            P("Pop"), P("Dup"), P("Ret"), P("MakeRange"), P("MakeList"), P("Echo"),
            P("Unknown"), Un("LEN"), Un("NEG"), Bin("APPEND"), Bin("CONCAT"),
            Bin("INDEX"), Bin("EQ"), Bin("LT"), Bin("ADD")}

SmallEntries ==
  {<<Function(0, c), f>> :
     c \in BoundedSeq(Letters, 3),
     f \in {Function(0, <<I("GetI", 0), P("Ret")>>),
            Function(1, <<I("GetI", 0), P("Ret")>>),
            Function(2, <<I("GetI", 1), P("Ret")>>)}}

-----------------------------------------------------------------------------
(* Straight-line programs over one list, run twice: the second run sees the *)
(* globals the first one left.                                              *)

ListLetters == {I("GetGlobalI", 0), I("SetGlobalI", 0), I("GetI", 0), I("ConstNum", 1),
                P("Dup"), P("Pop"), Un("LEN"), Bin("APPEND"), Bin("CONCAT"),
                Bin("INDEX"), Bin("EQ")}

\* What an instruction adds to the operand stack.
Net(inst) == CASE inst.op \in {"GetI", "GetGlobalI", "ConstNum", "Dup"} -> 1
               [] inst.op \in {"SetI", "SetGlobalI", "Pop", "BinaryOp"} -> -1
               [] OTHER -> 0
Steps(c, n) == Cardinality({i \in DOMAIN c : Net(c[i]) = n})
Depth(c) == Steps(c, 1) - Steps(c, -1)

\* Only the last instruction may find the stack too small.
StraightPrograms ==
  {Construction(<<Function(0, <<I("GetGlobalI", 0)>> \o c \o <<P("Ret")>>)>>,
                ListGlobals, Lists) :
     c \in {c \in BoundedSeq(ListLetters, 4) :
            \A i \in 1..(Len(c) - 1) : Depth(SubSeq(c, 1, i)) >= 0}}

-----------------------------------------------------------------------------
(* Loops.  Loop(acc, source, body) is the loop that the comment of Iter       *)
(* (instructions.h:46) describes: accumulator, source, -1, then Iter around   *)
(* the body, which sees [accumulator, source, number, element].               *)

Loop(acc, source, body) ==
  <<acc, source, I("ConstNum", -1), I("Iter", Len(body) + 2)>> \o body
    \o <<I("JumpI", -Len(body) - 1), P("Ret")>>

SumUp == <<I("GetI", 0), Bin("ADD"), I("SetI", 0)>>
Collect == <<I("GetI", 0), I("GetI", 3), Bin("APPEND"), I("SetI", 0), P("Pop")>>
Replace == <<I("GetGlobalI", 0), I("GetI", 3), Bin("APPEND"), I("SetGlobalI", 0), P("Pop")>>
Search == <<I("ConstNum", 7), Bin("LT"), I("JumpFalseI", 2), P("Ret")>>
Nested == <<I("GetGlobalI", 0), I("ConstNum", -1), I("Iter", 5)>> \o SumUp
            \o <<I("JumpI", -4), P("Pop")>>
ViaCall == <<I("CallI", 1), Bin("ADD")>> \o SumUp

\* function twice(x) = x + x;
Twice == Function(1, <<I("GetI", 0), I("GetI", 0), Bin("ADD"), P("Ret")>>)

LoopPrograms ==
  {Construction(<<Function(0, Loop(acc, I("GetGlobalI", g), body)), Twice>>, ListGlobals, Lists) :
     acc \in {I("ConstNum", 0), I("GetGlobalI", 0), I("ConstMisc", 2)}, g \in {0, 1},
     body \in {<<P("Pop")>>, SumUp, Collect, Replace, Search, Nested, ViaCall}}

\* do d += 1 while (d <= n), as in test/evaluator_test.cpp:28-50.
Countdown(n) ==
  Function(0, <<I("ConstNum", n), I("ConstNum", 0), I("AddI", 1), P("Dup"),
                I("GetI", 0), Bin("GE"), I("JumpFalseI", -4), P("Ret")>>)

(* Calls: foo(a, b) = a <= 0 ? b : foo(a - 1, b + 2), with a tail call and   *)
(* without, as in test/evaluator_test.cpp:52-78.                             *)

Foo(call) ==
  Function(2, <<I("GetI", 0), P("Dup"), I("ConstNum", 0), Bin("GT"),
                I("JumpFalseI", IF call = "CallI" THEN 6 ELSE 5),
                I("AddI", -1), I("GetI", 1), I("AddI", 2), I(call, 1)>>
              \o (IF call = "CallI" THEN <<P("Ret")>> ELSE <<>>)
              \o <<I("GetI", 1), P("Ret")>>)
Entry(a) ==
  Function(0, <<I("ConstNum", a), I("ConstNum", 0), I("CallI", 1), P("Ret")>>)

FooPrograms == {Construction(<<Entry(a), Foo(call)>>, <<>>, EmptyHeap) :
                  a \in 0..3, call \in {"CallI", "TailCallI"}}

\* A call above a list that is not among its arguments.
ListBelowCall ==
  Function(0, <<I("GetGlobalI", 0), I("ConstNum", 3), I("CallI", 1), P("Pop"), Un("LEN"),
                P("Ret")>>)

Comparisons ==
  {Construction(<<Function(0, <<I("ConstNum", m), I("ConstNum", n), Bin("NEQ"), P("Ret")>>)>>,
                <<>>, EmptyHeap) : m \in 0..1, n \in 0..1}

TerminatingPrograms ==
  LoopPrograms \cup FooPrograms \cup Comparisons
    \cup {Construction(<<Countdown(n)>>, <<>>, EmptyHeap) : n \in 0..3}
    \cup {Construction(<<ListBelowCall, Twice>>, ListGlobals, Lists)}

CalleeLetters == {I("GetI", 0), I("GetI", 1), I("SetI", 0), I("SetI", 1), I("AddI", 1),
                  I("ConstNum", 2), P("Dup"), P("Pop"), P("Echo"), Bin("ADD"),
                  I("TailCallI", 2), I("CallI", 2)}
\* Callees of every shape that leave their caller's operands alone.
Callees == {Function(p, c \o <<P("Ret")>>) : p \in {1, 2},
              c \in {c \in BoundedSeq(CalleeLetters, 4) :
                     /\ c # <<>> /\ c[1].op = "GetI"
                     /\ \A i \in 1..Len(c) : Depth(SubSeq(c, 1, i)) >= 0}}

Negate == Function(1, <<I("GetI", 0), Un("NEG"), P("Ret")>>)

CallEntries ==
  {<<Function(0, <<I("ConstNum", 3), I("ConstNum", 4), I("ConstNum", 5),
                   I("CallI", 1), P("Ret")>>), f, Negate>> : f \in Callees}

\* In CallEntries, the entry function pushes constants and calls function 1: whatever the callee
\* does, what lies beneath its arguments is what the entry function has pushed
\* there, until the call returns and after it (CallI, TailCallI and Ret).
CallerUntouched ==
  LET entry == functions[1].code
      call  == CHOOSE i \in 1..Len(entry) : entry[i].op = "CallI"
      kept  == call - 1 - functions[2].parameters
  IN (/\ status = "running" /\ Len(functions) = 3
      /\ Len(rpStack) > 1 \/ pc >= call) =>
       SubSeq(Saved, 1, kept) = [i \in 1..kept |-> Num(entry[i].imm)]

\* What the runs eval_small and eval_programs evaluate.
SmallPrograms ==
  {Construction(fs, ListGlobals, Lists) : fs \in SmallEntries \cup CallEntries}
Programs == StraightPrograms \cup TerminatingPrograms

-----------------------------------------------------------------------------
(* What the verifier (StackShapes) makes of these programs.                 *)

\* The points behind those in S; a shape that grows beyond all programs here is given up.
RECURSIVE Reached(_, _, _)
Reached(ty, fs, S) ==
  LET next == UNION {After(ty, fs, x) : x \in {y \in S : /\ Len(y.shape) <= 8
                                                         /\ Accepted(ty, fs, y)
                                                         /\ ~Refused(fs, y)}}
  IN IF next \subseteq S THEN S ELSE Reached(ty, fs, S \cup next)

\* The typing of functions that take numbers; of what they return, and of the globals,
\* nothing is known.
Inferred(c) ==
  LET fs == c.functions
      ty == [args |-> [f \in DOMAIN fs |-> [j \in 1..fs[f].parameters |-> "plain"]],
             result |-> [f \in DOMAIN fs |-> "any"],
             globals |-> [g \in DOMAIN c.globals |-> "any"], points |-> {}]
  IN [ty EXCEPT !.points = Reached(ty, fs, {EntryPoint(f - 1) : f \in DOMAIN fs})]

\* All of the programs with loops and calls are verified, but those that hand to a
\* function an element of a list, which might be a list (ViaCall).
PassesElement(c) ==
  LET code == c.functions[1].code
      n    == Len(ViaCall)
  IN \E i \in 1..(Len(code) - n + 1) : SubSeq(code, i, i + n - 1) = ViaCall
ASSUME VerifierAccepts ==
  \A c \in TerminatingPrograms : Shapely(Inferred(c), c.functions) <=> ~PassesElement(c)

-----------------------------------------------------------------------------
(* Programs on which the code disagrees with its documentation.             *)

\* function entry() = 1 + twice(2);
OperandAndCall ==
  {Construction(<<Function(0, <<I("ConstNum", 1), I("ConstNum", 2), I("CallI", 1),
                                Bin("ADD"), P("Ret")>>), Twice>>, <<>>, EmptyHeap)}

RangeLiteral ==
  {Construction(<<Function(0, <<I("ConstNum", 0), I("ConstNum", 1), I("ConstNum", 5),
                                P("MakeRange"), P("Ret")>>)>>, <<>>, EmptyHeap)}

\* function entry() = b ? 1 : 2;
Conditionals ==
  {Construction(<<Function(0, <<I("ConstMisc", b), I("JumpFalseI", 3), I("ConstNum", 1),
                                I("JumpI", 2), I("ConstNum", 2), P("Ret")>>)>>,
                <<>>, EmptyHeap) : b \in {0, 1}}

Literals == RangeLiteral \cup Conditionals

Forever == {Construction(<<Function(0, <<I("JumpI", 0)>>)>>, <<>>, EmptyHeap)}

Returned(x) == [how |-> "return", val |-> x]

\* The operands of a binary operation are the two values on top of the stack,
\* also when the second one is the result of a call (instructions.h:62).
OperandSurvivesCall ==
  \A i \in 1..Len(results) :
    results[i].how = "return" => results[i] = Returned(Num(1 + 4))

\* != answers the opposite of == (values.h:112).
NotEqualNegatesEqual ==
  \A i \in 1..Len(results) :
    results[i].how = "return" =>
      results[i].val = Bool(functions[1].code[1] # functions[1].code[2])

\* A program that only builds a value, or chooses one, returns it
\* (instructions.h:43, 83, 87).
ExpressionReturns ==
  [][status = "running" /\ status' = "idle" => Last(results').how = "return"]_vars

\* Once stop() was called, the evaluation in progress ends (evaluator.cpp:573).
StopEndsEval == (~flag /\ status = "running") ~> (status # "running")

=============================================================================
