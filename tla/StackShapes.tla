---------------------------- MODULE StackShapes -----------------------------
(***************************************************************************)
(* What a verifier of bytecode would check before eval executes it: the    *)
(* shape of the operand stack at every instruction.  eval has no verifier; *)
(* code that passes this one has, at run time, the stack discipline that   *)
(* eval takes for granted (EvaluatorProofs: WellShaped).                   *)
(*                                                                         *)
(* A frame is seen as the kinds of its operands.  A "plain" operand holds  *)
(* no pointer; of "any" operand nothing is known.                          *)
(***************************************************************************)
EXTENDS Integers, SequencesExt

\* The instructions that read the cached top.
ReadsTop == {"AddI", "SetI", "JumpFalseI", "Iter", "SetGlobalI", "Pop", "Dup",
             "BuiltinUnaryOp", "BinaryOp", "MakeRange", "Echo"}

\* Instruction i refers to one of the functions fs, which has so many parameters.
Within(fs, i) == i.imm \in 0..(Len(fs) - 1)
ParametersOf(fs, i) == fs[i.imm + 1].parameters

\* How many of its frame's operands instruction i of the functions fs reads off the top.
ReadBy(fs, i) ==
  CASE i.op \in {"CallI", "TailCallI"} /\ Within(fs, i) -> ParametersOf(fs, i)
    [] i.op = "MakeRange" -> 3
    [] i.op \in {"BinaryOp", "Iter"} -> 2
    [] i.op \in (ReadsTop \cup {"Ret"}) \ {"MakeRange", "BinaryOp", "Iter"} -> 1
    [] OTHER -> 0

-----------------------------------------------------------------------------
Kind == {"plain", "any"}

\* An operand of kind k can be where one of kind l is expected.
Usable(k, l) == l = "any" \/ k = "plain"

\* A program point with what is known there: function and instruction, whether its
\* frame is the outermost, the operands of the frame, and whether `top' is cached.
Point == [fn : Nat, outer : BOOLEAN, pc : Nat, shape : Seq(Kind), cached : BOOLEAN]
At(f, o, p, s, c) == [fn |-> f, outer |-> o, pc |-> p, shape |-> s, cached |-> c]

\* What each function takes and returns, what the globals hold, and the points the
\* program reaches; paths that meet may do so with different shapes.
Typing == [args : Seq(Seq(Kind)), result : Seq(Kind), globals : Seq(Kind),
           points : SUBSET Point]

FetchedAt(fs, x) == fs[x.fn + 1].code[x.pc + 1]

When(condition, S) == IF condition THEN S ELSE {}

\* The points behind x when its instruction has consumed or added operands.
Behind(x, s) == At(x.fn, x.outer, x.pc + 1, s, x.cached)
Pushing(x, k) == At(x.fn, x.outer, x.pc + 1, Append(x.shape, k), TRUE)
Jumping(fs, x, s) ==
  LET target == x.pc + FetchedAt(fs, x).imm
  IN When(target \in 0..(Len(fs[x.fn + 1].code) - 1),
          {At(x.fn, x.outer, target, s, x.cached)})

\* GetI and SetI: a local of the frame, or below it one of the caller.
LocalKind(s, n) == IF n < 0 THEN "any" ELSE s[n + 1]

BinaryKind(op) == IF op \in {"APPEND", "CONCAT", "INDEX"} THEN "any" ELSE "plain"

\* A call starts the callee's frame with its arguments, and returns with the one slot
\* that Ret leaves under the result.
Calling(ty, fs, x, i) ==
  {At(i.imm, FALSE, 0, ty.args[i.imm + 1], FALSE),
   At(x.fn, x.outer, x.pc + 1,
      SubSeq(x.shape, 1, Len(x.shape) - ParametersOf(fs, i))
        \o <<"plain", ty.result[i.imm + 1]>>, TRUE)}

\* The points behind x, when its instruction neither throws nor returns.
After(ty, fs, x) ==
  LET i     == FetchedAt(fs, x)
      s     == x.shape
      under == Front(s)
  IN CASE i.op = "GetI" ->
            When(i.imm < Len(s), {Pushing(x, LocalKind(s, i.imm))})
       [] i.op \in {"AddI", "BuiltinUnaryOp"} -> {Behind(x, Append(under, "plain"))}
       [] i.op = "Echo" -> {Behind(x, s)}
       [] i.op = "SetI" ->
            When(i.imm < Len(under), {Behind(x, [under EXCEPT ![i.imm + 1] = Last(s)])})
       [] i.op = "JumpI" -> Jumping(fs, x, s)
       [] i.op = "JumpFalseI" -> {Behind(x, under)} \cup Jumping(fs, x, under)
       [] i.op = "Iter" -> {Behind(x, under \o <<"plain", "any">>)}
                             \cup Jumping(fs, x, Front(under))
       [] i.op \in {"Pop", "SetGlobalI"} -> {Behind(x, under)}
       [] i.op = "Dup" -> {Pushing(x, Last(s))}
       [] i.op = "BinaryOp" ->
            {Behind(x, Append(Front(under), BinaryKind(i.binary)))}
       [] i.op \in {"ConstNum", "ConstMisc"} -> {Pushing(x, "plain")}
       [] i.op = "GetGlobalI" ->
            When(i.imm \in 0..(Len(ty.globals) - 1), {Pushing(x, ty.globals[i.imm + 1])})
       [] i.op = "CallI" /\ Within(fs, i) -> Calling(ty, fs, x, i)
       [] i.op = "TailCallI" /\ Within(fs, i) ->
            {At(i.imm, x.outer, 0, ty.args[i.imm + 1], FALSE)}
       [] OTHER -> {}

\* The operands of shape s include the arguments of function f.
Supplies(ty, s, f) ==
  LET args == ty.args[f + 1]
  IN /\ Len(args) <= Len(s)
     /\ \A j \in 1..Len(args) : Usable(s[Len(s) - Len(args) + j], args[j])

\* What the verifier asks of point x.  Under the outermost frame there is nothing, so
\* that an operand missing there is found and refused by eval itself.
Accepted(ty, fs, x) ==
  LET i == FetchedAt(fs, x)
      s == x.shape
  IN /\ x.fn < Len(fs) /\ x.pc < Len(fs[x.fn + 1].code)
     /\ i.op \in ReadsTop => x.cached
     /\ x.outer \/ ReadBy(fs, i) <= Len(s)
     /\ (i.op \in {"CallI", "TailCallI"} /\ Within(fs, i)) => Supplies(ty, s, i.imm)
     /\ (i.op = "TailCallI" /\ Within(fs, i) /\ ~x.outer) =>
          Usable(ty.result[i.imm + 1], ty.result[x.fn + 1])
     /\ (i.op = "Ret" /\ ~x.outer) =>
          /\ x.cached /\ Len(s) >= 2
          /\ s[1] = "plain" /\ Usable(Last(s), ty.result[x.fn + 1])
     /\ i.op = "SetI" => i.imm >= 0
     /\ (i.op = "SetGlobalI" /\ i.imm \in 0..(Len(ty.globals) - 1) /\ s # <<>>) =>
          Usable(Last(s), ty.globals[i.imm + 1])

\* eval refuses the instruction for want of operands.
Refused(fs, x) == Len(x.shape) < ReadBy(fs, FetchedAt(fs, x))

EntryPoint(f) == At(f, TRUE, 0, <<>>, FALSE)

\* The typing ty is one the verifier accepts for the functions fs.
Shapely(ty, fs) ==
  /\ ty \in Typing
  /\ Len(ty.args) = Len(fs) /\ Len(ty.result) = Len(fs)
  /\ \A f \in 1..Len(fs) : Len(ty.args[f]) = fs[f].parameters
                           /\ EntryPoint(f - 1) \in ty.points
  /\ \A x \in ty.points :
       Accepted(ty, fs, x) /\ (Refused(fs, x) \/ After(ty, fs, x) \subseteq ty.points)

=============================================================================
