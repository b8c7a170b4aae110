---------------------------- MODULE StackMachine ----------------------------
(***************************************************************************)
(* What the instruction set promises (the comments of                      *)
(* src/src/vm/instructions.h): a stack machine over plain values.  There   *)
(* is no heap here, a list is the sequence of its elements; there is no    *)
(* cached top, and no memory error.  An instruction may always be refused  *)
(* (the call of eval fails with an exception), but when it is carried out  *)
(* it has exactly the effect below.                                        *)
(*                                                                         *)
(* Eval departs from the comments in two places.  Kept is the number of    *)
(* slots of a frame that stay on the stack, under the result, when it      *)
(* returns: 0 is what is promised, 1 is what eval does.  Negates says      *)
(* whether NEQ is the negation of EQ, as its name promises; in eval it is  *)
(* EQ once more.                                                           *)
(***************************************************************************)
EXTENDS Integers, SequencesExt

CONSTANTS Kept, Negates

VARIABLES functions, globals, status, results,
          stack,   \* operands, the top last
          pc,
          frames   \* [fn, base, ret] of the calls in progress, the current one last

vars == <<functions, globals, status, results, stack, pc, frames>>

-----------------------------------------------------------------------------
\* Values: a number or truth value has its number, a list its items, a range its
\* three numbers; a geometry has nothing (== holds of any two, values.cpp:38).
Scalar(tag, n) == [tag |-> tag, num |-> n, items |-> <<>>]
Number(n)  == Scalar("NUMBER", n)
Truth(b)   == Scalar("BOOLEAN", IF b THEN 1 ELSE 0)
Undefined  == Scalar("UNDEF", 0)
Unset      == Scalar("STRING", 0)
List(s)    == [tag |-> "VECTOR", num |-> 0, items |-> s]
RangeOf(b, st, e) ==
  [tag |-> "RANGE", num |-> 0, items |-> <<Number(b), Number(st), Number(e)>>]

Have(x, y, tag) == x.tag = tag /\ y.tag = tag

Unary(op, x) ==
  CASE op = "NOT" -> Truth(x.num = 0)
    [] op = "LEN" /\ x.tag = "VECTOR" -> Number(Len(x.items))
    [] op = "RBEGIN" /\ x.tag = "RANGE" -> x.items[1]
    [] op = "RSTEP" /\ x.tag = "RANGE" -> x.items[2]
    [] op = "REND" /\ x.tag = "RANGE" -> x.items[3]
    [] op = "NEG" /\ x.tag = "NUMBER" -> Number(-x.num)
    [] op = "ABS" /\ x.tag = "NUMBER" -> Number(IF x.num < 0 THEN -x.num ELSE x.num)
    [] op = "SIGN" /\ x.tag = "NUMBER" ->
         Number(IF x.num < 0 THEN -1 ELSE IF x.num = 0 THEN 0 ELSE 1)
    [] OTHER -> Undefined

Binary(op, x, y) ==
  CASE op = "ADD" /\ Have(x, y, "NUMBER") -> Number(x.num + y.num)
    [] op = "SUB" /\ Have(x, y, "NUMBER") -> Number(x.num - y.num)
    [] op = "MUL" /\ Have(x, y, "NUMBER") -> Number(x.num * y.num)
    [] op = "LT" /\ Have(x, y, "NUMBER") -> Truth(x.num < y.num)
    [] op = "LE" /\ Have(x, y, "NUMBER") -> Truth(x.num <= y.num)
    [] op = "GT" /\ Have(x, y, "NUMBER") -> Truth(x.num > y.num)
    [] op = "GE" /\ Have(x, y, "NUMBER") -> Truth(x.num >= y.num)
    [] op = "EQ" \/ (op = "NEQ" /\ ~Negates) -> Truth(x = y)
    [] op = "NEQ" /\ Negates -> Truth(x # y)
    [] op = "AND" /\ Have(x, y, "BOOLEAN") -> Truth(x.num = 1 /\ y.num = 1)
    [] op = "OR" /\ Have(x, y, "BOOLEAN") -> Truth(x.num = 1 \/ y.num = 1)
    [] op = "APPEND" /\ x.tag = "VECTOR" -> List(Append(x.items, y))
    [] op = "CONCAT" /\ Have(x, y, "VECTOR") -> List(x.items \o y.items)
    [] op = "INDEX" /\ x.tag = "VECTOR" /\ y.tag = "NUMBER" /\ y.num < Len(x.items) ->
         x.items[y.num + 1]
    [] OTHER -> Undefined

-----------------------------------------------------------------------------
Inst == functions[Last(frames).fn + 1].code[pc + 1]
\* The next instruction is an op, and its n operands are there.
Executing(op, n) == status = "running" /\ Inst.op = op /\ Len(stack) >= n
Local(i) == Last(frames).base + i + 1
IsLocal(i) == Local(i) \in 1..Len(stack)
Top == Last(stack)
Rest == Front(stack)
Second == Last(Rest)

To(target, s) == /\ stack' = s /\ pc' = target
                 /\ UNCHANGED <<functions, status, results, frames>>
Go(target, s) == To(target, s) /\ UNCHANGED globals
Step(s) == Go(pc + 1, s)

Stopped(how, x) == /\ status' = "idle"
                   /\ results' = Append(results, [how |-> how, val |-> x])
                   /\ stack' = <<>> /\ pc' = 0 /\ frames' = <<>>
                   /\ UNCHANGED functions

Init == /\ status = "idle" /\ results = <<>>
        /\ stack = <<>> /\ pc = 0 /\ frames = <<>>

Start(id) == /\ status = "idle"
             /\ status' = "running" /\ pc' = 0
             /\ frames' = <<[fn |-> id, base |-> 0, ret |-> 0]>>
             /\ UNCHANGED <<functions, globals, results, stack>>

\* An exception: the host keeps its globals, but for the one being set.
Refuse == /\ Stopped("throw", Undefined)
          /\ \/ UNCHANGED globals
             \/ Executing("SetGlobalI", 1) /\ globals' = [globals EXCEPT ![Inst.imm + 1] = Top]

Constant ==
  CASE Inst.imm = 0 -> Truth(FALSE) [] Inst.imm = 1 -> Truth(TRUE) [] OTHER -> Undefined

Straight ==
  \/ /\ Executing("GetI", 0) /\ IsLocal(Inst.imm)
     /\ Step(Append(stack, stack[Local(Inst.imm)]))
  \/ /\ Executing("SetI", 1) /\ IsLocal(Inst.imm)
     /\ Step(Front([stack EXCEPT ![Local(Inst.imm)] = Top]))
  \/ Executing("AddI", 1) /\ Step(Append(Rest, Number(Top.num + Inst.imm)))
  \/ Executing("Pop", 1) /\ Step(Rest)
  \/ Executing("Dup", 1) /\ Step(Append(stack, Top))
  \/ Executing("BuiltinUnaryOp", 1) /\ Step(Append(Rest, Unary(Inst.unary, Top)))
  \/ Executing("BinaryOp", 2) /\ Step(Append(Front(Rest), Binary(Inst.binary, Second, Top)))
  \/ Executing("ConstNum", 0) /\ Step(Append(stack, Number(Inst.imm)))
  \/ Executing("ConstMisc", 0) /\ Step(Append(stack, Constant))
  \/ /\ Executing("GetGlobalI", 0) /\ Inst.imm \in 0..(Len(globals) - 1)
     /\ Step(Append(stack, globals[Inst.imm + 1]))
  \/ /\ Executing("SetGlobalI", 1)
     /\ globals' = [globals EXCEPT ![Inst.imm + 1] = Top]
     /\ To(pc + 1, Rest)
  \/ Executing("MakeList", 0) /\ Step(Append(stack, List(<<>>)))
  \/ /\ Executing("MakeRange", 3)
     /\ Step(Append(Front(Front(Rest)),
                    RangeOf(Last(Front(Rest)).num, Second.num, Top.num)))
  \/ Executing("Echo", 1) /\ Step(stack)

Branch ==
  \/ Executing("JumpI", 0) /\ Go(pc + Inst.imm, stack)
  \/ Executing("JumpFalseI", 1) /\ Go(IF Top.num = 1 THEN pc + 1 ELSE pc + Inst.imm, Rest)

\* A list, or range, and the number of the last element visited.
Loop ==
  /\ Executing("Iter", 2)
  /\ LET i == Top.num + 1
         items == Second.items
         inList == Second.tag = "VECTOR"
         value == IF inList THEN items[i + 1]
                  ELSE Number(items[1].num + i * items[2].num)
         done == IF inList THEN i >= Len(items) ELSE value.num > items[3].num
     IN \/ done /\ Go(pc + Inst.imm, Front(Rest))
        \/ ~done /\ Step(Rest \o <<Number(i), value>>)

Call ==
  /\ Executing("CallI", functions[Inst.imm + 1].parameters)
  /\ frames' = Append(frames, [fn |-> Inst.imm, ret |-> pc + 1,
                               base |-> Len(stack) - functions[Inst.imm + 1].parameters])
  /\ pc' = 0
  /\ UNCHANGED <<functions, globals, status, results, stack>>

\* The caller's frame is reused: it returns where the caller would have.
TailCall ==
  /\ Executing("TailCallI", functions[Inst.imm + 1].parameters)
  /\ frames' = Append(Front(frames), [Last(frames) EXCEPT !.fn = Inst.imm])
  /\ LET params == functions[Inst.imm + 1].parameters
     IN stack' = SubSeq(stack, 1, Last(frames).base)
                   \o SubSeq(stack, Len(stack) - params + 1, Len(stack))
  /\ pc' = 0
  /\ UNCHANGED <<functions, globals, status, results>>

Return ==
  /\ Executing("Ret", 1)
  /\ LET base == Last(frames).base
         kept == [i \in 1..Kept |-> IF base + i < Len(stack) THEN stack[base + i] ELSE Unset]
     IN \/ /\ Len(frames) = 1
           /\ Stopped("return", Top) /\ UNCHANGED globals
        \/ /\ Len(frames) > 1
           /\ stack' = Append(SubSeq(stack, 1, base) \o kept, Top)
           /\ pc' = Last(frames).ret
           /\ frames' = Front(frames)
           /\ UNCHANGED <<functions, globals, status, results>>

Next == \/ \E id \in 0..(Len(functions) - 1) : Start(id)
        \/ Refuse
        \/ Straight \/ Branch \/ Loop \/ Call \/ TailCall \/ Return

Spec == Init /\ [][Next]_vars

=============================================================================
