---------------------------- MODULE GeneratedCode ---------------------------
(***************************************************************************)
(* What a stack machine asks of the code that BytecodeGen prints: each     *)
(* instruction finds its operands, the ways into a block agree on the      *)
(* height of the stack, and a function returns one value.  Heights are     *)
(* those above the parameters of the function.                             *)
(*                                                                         *)
(* The generator does not check what it translates.  A call takes as many  *)
(* values as its callee has parameters, however many arguments there are;  *)
(* nodes without a visit of their own leave values behind; and the code of *)
(* a conditional inside a branch goes on in the wrong block (JumpsForward, *)
(* in MCCompiler).  Translatable are the expressions without these.        *)
(***************************************************************************)
EXTENDS BytecodeGen

CONSTANTS Arity(_),      \* how many parameters the functions of a name have
          OneBlock,      \* expressions without conditionals: their code stays in one block
          Translatable   \* expressions whose conditionals have branches of one block

ASSUME TranslatableAssumption ==
  /\ OneBlock \subseteq Translatable /\ Translatable \subseteq Expr
  /\ \A e \in Translatable :
       /\ e.kind \notin Unsupported
       /\ \A i \in DOMAIN e.kids : e.kids[i] \in Translatable
       /\ e.kind = "Call" => Arity(e.kids[1].name) = Len(e.kids) - 1
       /\ e.kind = "IfExpr" => e.kids[2] \in OneBlock /\ e.kids[3] \in OneBlock
  /\ \A e \in OneBlock :
       e.kind # "IfExpr" /\ \A i \in DOMAIN e.kids : e.kids[i] \in OneBlock
  /\ \A f \in DOMAIN Builtins : Arity(f) = 1

-----------------------------------------------------------------------------
\* The name that has a number in map, and the values an instruction takes; each
\* gives one.
Numbers(map, n) == (CHOOSE k \in DOMAIN map : map[k] = n)[2]
Takes(map, inst) == CASE inst.op = "BuiltinUnaryOp" -> 1
                      [] inst.op = "BinaryOp" -> 2
                      [] inst.op = "CallI" -> Arity(Numbers(map, inst.imm))
                      [] OTHER -> 0

\* An instruction with n values on the stack and params parameters below them.
Finds(map, params, inst, n) == /\ Takes(map, inst) <= n
                               /\ inst.op = "GetI" => inst.imm < params

\* The values behind each of the instructions s, from n on.
Depth(map, s, n) ==
  LET depth[j \in 0..Len(s)] == IF j = 0 THEN n ELSE depth[j - 1] - Takes(map, s[j]) + 1
  IN depth

\* A conditional jump drops the condition.
Dropped(b) == IF b.jumpFalse = None THEN 0 ELSE 1
Left(map, b, n) == Depth(map, b.instructions, n)[Len(b.instructions)] - Dropped(b)
Successors(b) == {b.next, b.jumpFalse} \ {None}
Into(blocks, l) == {k \in 1..(l - 1) : l - 1 \in Successors(blocks[k])}

\* The values at the start of each block, by one of the ways into it.
Height(map, blocks) ==
  LET height[l \in DOMAIN blocks] ==
        IF l = 1 THEN 0
        ELSE LET k == CHOOSE k \in Into(blocks, l) : TRUE
             IN Left(map, blocks[k], height[k])
  IN height

\* The blocks of a function: all are reached, and jumps go forward.
Forward(blocks) ==
  \A l \in DOMAIN blocks : /\ l > 1 => Into(blocks, l) # {}
                           /\ Successors(blocks[l]) \subseteq l..(Len(blocks) - 1)

\* Block l from n values on, when the others start with height.
Even(map, params, b, n, height) ==
  /\ \A j \in DOMAIN b.instructions :
       Finds(map, params, b.instructions[j], Depth(map, b.instructions, n)[j - 1])
  /\ Left(map, b, n) >= 0
  /\ \A t \in Successors(b) : height[t + 1] = Left(map, b, n)
  /\ Successors(b) = {} => Left(map, b, n) = 1

\* What is printed for a translatable body (bytecode_gen.h:43-156) is code for a
\* stack machine: no instruction lacks an operand or reads a parameter there is not,
\* the two ways through a conditional meet at one height, jumps only go forward, and
\* one value is left to return.
Balanced ==
  \A i \in DOMAIN listings :
    LET blocks == listings[i].blocks
        height == Height(functionMap, blocks)
    IN unit.functions[i].body \in Translatable =>
         /\ Forward(blocks)
         /\ \A l \in DOMAIN blocks :
              Even(functionMap, Len(unit.functions[i].args), blocks[l], height[l], height)

=============================================================================
