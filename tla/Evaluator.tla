----------------------------- MODULE Evaluator ------------------------------
(***************************************************************************)
(* Evaluator::eval (src/src/vm/evaluator.cpp): the interpreter loop, one   *)
(* action per case of its switch, and the host's calls of eval and stop.   *)
(*                                                                         *)
(* The logical top of the operand stack is kept in the local `top', not on *)
(* tagStack/valueStack (one sequence of ValuePairs here), except when      *)
(* `notop' holds: then `top' is stale.  Three more stacks hold the callers: *)
(* rpStack (function ids), spStack (stack size below the arguments) and    *)
(* pcStack (return addresses).                                             *)
(*                                                                         *)
(* A program counter counts instructions, not bytes; ids, counters and     *)
(* local numbers start at 0 as in the code.  An operand cut off by the end *)
(* of the code ("Truncated") and a byte that is no instruction ("Unknown") *)
(* are instructions of their own.                                          *)
(*                                                                         *)
(* status is "running" inside eval, "idle" between two calls, and "ub" for *)
(* ever once the code has run into undefined behaviour.                    *)
(***************************************************************************)
EXTENDS Values, SequencesExt

CONSTANTS
  Constructions,  \* the constructor arguments explored: [functions, globals, heap]
  MaxEvals,       \* bound: calls of eval by the host
  MaxStack,       \* bound: operand stack slots before an instruction
  MaxFrames,      \* bound: nested calls
  MaxInt          \* bound: numbers and heap addresses

ImmediateOp == {"GetI", "SetI", "AddI", "JumpI", "JumpFalseI", "Iter", "GetGlobalI",
                "SetGlobalI", "CallI", "TailCallI", "ConstNum", "ConstMisc"}
PlainOp == {"Pop", "Dup", "Ret", "MakeRange", "MakeList", "Echo", "Truncated",
            "Unknown"}
Instruction == [op : ImmediateOp, imm : Int] \cup [op : PlainOp]
                 \cup [op : {"BuiltinUnaryOp"}, unary : BuiltinUnary]
                 \cup [op : {"BinaryOp"}, binary : BinOp]

FunctionEntry == [code : Seq(Instruction), parameters : Nat]

ASSUME ConstructionsAssumption ==
  \A c \in Constructions : /\ c.functions \in Seq(FunctionEntry)
                           /\ c.globals \in Seq(ValuePair)
                           /\ IsHeap(c.heap)
ASSUME BoundsAssumption ==
  MaxEvals \in Nat /\ MaxStack \in Nat /\ MaxFrames \in Nat /\ MaxInt \in Nat

VARIABLES
  functions, globals,   \* members of the Evaluator; globalTags and globalValues as one
  flag,                 \* the atomic<bool> that stop() clears
  heap,                 \* what its values own
  status, results,      \* where the host is, and how its calls of eval ended
  stack, top, notop,    \* operand stack
  fn, pc,               \* current function and instruction
  rpStack, spStack, pcStack

operands == <<stack, top, notop>>
frames   == <<fn, pc, rpStack, spStack, pcStack>>
host     == <<functions, flag, status, results>>
vars     == <<functions, globals, flag, heap, status, results, stack, top, notop,
              fn, pc, rpStack, spStack, pcStack>>

-----------------------------------------------------------------------------
Code == functions[fn + 1].code
Inst == Code[pc + 1]

\* The size of the work in progress is within the bounds of the model.
WithinBounds == /\ Len(stack) <= MaxStack
                /\ Len(rpStack) <= MaxFrames
                /\ top.v \in -MaxInt .. MaxInt
                /\ heap.next <= MaxInt

Fetched(op) == /\ status = "running" /\ WithinBounds
               /\ pc < Len(Code) /\ Inst.op = op

\* saveTop(): the operand stack with its logical top on it.
SaveTop(x) == IF notop THEN stack ELSE Append(stack, x)
Saved == SaveTop(top)

\* std::vector::resize.
Resize(s, n) == [i \in 1..n |-> IF i <= Len(s) THEN s[i] ELSE Zero]

\* The locals of eval outside of a call of eval.
NoLocals == /\ stack' = <<>> /\ top' = Undef /\ notop' = TRUE
            /\ fn' = 0 /\ pc' = 0
            /\ rpStack' = <<>> /\ spStack' = <<>> /\ pcStack' = <<>>

Leave(how, x, h) == /\ status' = "idle"
                    /\ results' = Append(results, [how |-> how, val |-> x])
                    /\ heap' = h
                    /\ NoLocals
                    /\ UNCHANGED <<functions, globals, flag>>

\* An exception unwinds eval; what its stack owned is leaked.
Throw(h) == Leave("throw", Undef, h)

Undefined == /\ status' = "ub"
             /\ UNCHANGED <<functions, globals, flag, heap, results>>
             /\ UNCHANGED operands /\ UNCHANGED frames

Goto(target) == pc' = target /\ UNCHANGED <<fn, rpStack, spStack, pcStack>>

\* The instruction is done: x is the top, over stack s.
Done(h, x, s, n) == /\ heap' = h /\ stack' = s /\ top' = x /\ notop' = n
                    /\ Goto(pc + 1)
                    /\ UNCHANGED host /\ UNCHANGED globals

\* r is the outcome of the instruction's work on values: its value becomes the
\* top over stack s, or the exception or undefined behaviour ends the call.
Finish(r, s, n) ==
  \/ r.exit = "ok" /\ Done(r.heap, r.val, s, n)
  \/ r.exit = "throw" /\ Throw(r.heap)
  \/ r.exit = "ub" /\ Undefined

Push(r) == Finish(r, Saved, FALSE)

-----------------------------------------------------------------------------
Init == /\ \E c \in Constructions : /\ functions = c.functions
                                    /\ globals = c.globals
                                    /\ heap = c.heap
        /\ flag = TRUE /\ status = "idle" /\ results = <<>>
        /\ stack = <<>> /\ top = Undef /\ notop = TRUE
        /\ fn = 0 /\ pc = 0
        /\ rpStack = <<>> /\ spStack = <<>> /\ pcStack = <<>>

\* The host calls eval(id); one id too many is refused.
Eval(id) ==
  /\ status = "idle" /\ Len(results) < MaxEvals
  /\ \/ id >= Len(functions) /\ Throw(heap)
     \/ /\ id < Len(functions)
        /\ status' = "running"
        /\ stack' = <<>> /\ top' = Undef /\ notop' = TRUE
        /\ fn' = id /\ pc' = 0
        /\ rpStack' = <<id>> /\ spStack' = <<0>> /\ pcStack' = <<0>>
        /\ UNCHANGED <<functions, globals, flag, heap, results>>

\* stop(), from any thread: eval never reads the flag.
Stop == /\ flag /\ flag' = FALSE
        /\ UNCHANGED <<functions, globals, heap, status, results>>
        /\ UNCHANGED operands /\ UNCHANGED frames

\* The fetch is not checked: beyond the last instruction it reads past the end.
RunOff == /\ status = "running" /\ WithinBounds
          /\ pc >= Len(Code)
          /\ Undefined

GetI ==
  /\ Fetched("GetI")
  /\ LET index == Last(spStack) + Inst.imm
     IN \/ index \notin 0..(Len(Saved) - 1) /\ Throw(heap)
        \/ index \in 0..(Len(Saved) - 1) /\ Push(Copy(heap, Saved[index + 1]))

AddI ==
  /\ Fetched("AddI")
  /\ \/ top.tag # "NUMBER" /\ Throw(heap)
     \/ top.tag = "NUMBER" /\ Done(heap, Num(top.v + Inst.imm), stack, notop)

\* popvalue() into top, from stack s; an empty stack is invalid bytecode.
TakeTop(s, h, target) == /\ s # <<>>
                         /\ top' = Last(s) /\ stack' = Front(s) /\ heap' = h
                         /\ Goto(target)
                         /\ UNCHANGED notop /\ UNCHANGED host
PopInto(s, h, target) == \/ s = <<>> /\ Throw(h)
                         \/ TakeTop(s, h, target) /\ UNCHANGED globals

\* The overwritten slot is not dropped.
SetI ==
  /\ Fetched("SetI")
  /\ LET index == Last(spStack) + Inst.imm
     IN \/ index \notin 0..(Len(stack) - 1) /\ Throw(heap)
        \/ /\ index \in 0..(Len(stack) - 1)
           /\ TakeTop([stack EXCEPT ![index + 1] = top], heap, pc + 1)
           /\ UNCHANGED globals

ValidTarget(target) == target \in 0..(Len(Code) - 1)

JumpI ==
  /\ Fetched("JumpI")
  /\ \/ ~ValidTarget(pc + Inst.imm) /\ Throw(heap)
     \/ /\ ValidTarget(pc + Inst.imm)
        /\ Goto(pc + Inst.imm)
        /\ UNCHANGED operands /\ UNCHANGED host /\ UNCHANGED <<heap, globals>>

JumpFalseI ==
  /\ Fetched("JumpFalseI")
  /\ \/ (~ValidTarget(pc + Inst.imm) \/ top.tag # "BOOLEAN") /\ Throw(heap)
     \/ /\ ValidTarget(pc + Inst.imm) /\ top.tag = "BOOLEAN"
        /\ PopInto(stack, heap, IF top.v = 1 THEN pc + 1 ELSE pc + Inst.imm)

\* Mutants of Exhausted: a range without its end, and one that never advances.
ExhaustedAtEnd(x, n) ==
  CASE x.tag = "VECTOR" -> Len(Elements(heap, x.v)) <= n
    [] x.tag = "RANGE" -> LET r == heap.range[x.v] IN n * r.step + r.begin >= r.end
ExhaustedIgnoresStep(x, n) ==
  CASE x.tag = "VECTOR" -> Len(Elements(heap, x.v)) <= n
    [] x.tag = "RANGE" -> LET r == heap.range[x.v] IN r.begin > r.end

\* The loop over source x (a list or a range) has no element number n.
Exhausted(x, n) ==
  CASE x.tag = "VECTOR" -> Len(Elements(heap, x.v)) <= n
    [] x.tag = "RANGE" -> LET r == heap.range[x.v] IN n * r.step + r.begin > r.end

ElementAt(x, n) ==
  CASE x.tag = "VECTOR" /\ n < 0 -> UB(heap)
    [] x.tag = "VECTOR" /\ n >= 0 -> Copy(heap, Elements(heap, x.v)[n + 1])
    [] x.tag = "RANGE" -> LET r == heap.range[x.v]
                          IN Ok(heap, Num(n * r.step + r.begin))

IterInvalid == \/ ~ValidTarget(pc + Inst.imm)
               \/ stack = <<>>
               \/ top.tag # "NUMBER"
               \/ stack # <<>> /\ Last(stack).tag \notin {"VECTOR", "RANGE"}

Iter ==
  /\ Fetched("Iter")
  /\ \/ IterInvalid /\ Throw(heap)
     \/ ~IterInvalid /\ ~Live(heap, Last(stack)) /\ Undefined
     \/ /\ ~IterInvalid /\ Live(heap, Last(stack))
        /\ Exhausted(Last(stack), top.v + 1)
        /\ PopInto(Front(stack), Drop(heap, Last(stack)).heap, pc + Inst.imm)
     \/ /\ ~IterInvalid /\ Live(heap, Last(stack))
        /\ ~Exhausted(Last(stack), top.v + 1)
        /\ Finish(ElementAt(Last(stack), top.v + 1), SaveTop(Num(top.v + 1)), FALSE)

Pop ==
  /\ Fetched("Pop")
  /\ LET d == Drop(heap, top)
     IN \/ d.exit = "ok" /\ PopInto(stack, d.heap, pc + 1)
        \/ d.exit = "throw" /\ Throw(heap)
        \/ d.exit = "ub" /\ Undefined

Dup == Fetched("Dup") /\ Push(Copy(heap, top))

BuiltinUnaryOp ==
  /\ Fetched("BuiltinUnaryOp")
  /\ Finish(HandleUnary(heap, top, Inst.unary), stack, notop)

BinaryOp ==
  /\ Fetched("BinaryOp")
  /\ \/ stack = <<>> /\ Throw(heap)
     \/ /\ stack # <<>>
        /\ Finish(HandleBinary(heap, Last(stack), top, Inst.binary), Front(stack), notop)

ConstNum == Fetched("ConstNum") /\ Done(heap, Num(Inst.imm), Saved, FALSE)

ConstMisc ==
  /\ Fetched("ConstMisc")
  /\ Done(heap, CASE Inst.imm = 0 -> Bool(FALSE)
                  [] Inst.imm = 1 -> Bool(TRUE)
                  [] OTHER -> Undef,
          Saved, FALSE)

IsGlobal(i) == i \in 0..(Len(globals) - 1)

GetGlobalI ==
  /\ Fetched("GetGlobalI")
  /\ \/ ~IsGlobal(Inst.imm) /\ Throw(heap)
     \/ IsGlobal(Inst.imm) /\ Push(Copy(heap, globals[Inst.imm + 1]))

\* The global is set before the pop can throw; its old value is not dropped.
SetGlobalI ==
  /\ Fetched("SetGlobalI")
  /\ \/ ~IsGlobal(Inst.imm) /\ Throw(heap)
     \/ /\ IsGlobal(Inst.imm)
        /\ globals' = [globals EXCEPT ![Inst.imm + 1] = top]
        /\ \/ /\ stack = <<>>
              /\ status' = "idle"
              /\ results' = Append(results, [how |-> "throw", val |-> Undef])
              /\ NoLocals
              /\ UNCHANGED <<functions, flag, heap>>
           \/ TakeTop(stack, heap, pc + 1)

IsFunction(i) == i \in 0..(Len(functions) - 1)

\* Mutant of FrameStart: the stack is measured before saveTop.
FrameStartBeforeSave(id) == Len(stack) - functions[id + 1].parameters

\* The callee's frame starts below its arguments, or below what there is.
FrameStart(id) == Len(Saved) - functions[id + 1].parameters

CallI ==
  /\ Fetched("CallI")
  /\ \/ ~IsFunction(Inst.imm) /\ Throw(heap)
     \/ /\ IsFunction(Inst.imm)
        /\ stack' = Saved /\ notop' = TRUE
        /\ fn' = Inst.imm /\ pc' = 0
        /\ pcStack' = Append(pcStack, pc + 1)
        /\ rpStack' = Append(rpStack, Inst.imm)
        /\ spStack' = Append(spStack, FrameStart(Inst.imm))
        /\ UNCHANGED <<top, heap, globals>> /\ UNCHANGED host

\* Mutant of SetBack: the caller's id stays.
SetBackKeeps(s, x) == s

\* rpStack.back() = x
SetBack(s, x) == Append(Front(s), x)

\* Mutant of MoveDown: the first argument is lost.
MoveDownOffByOne(sp, stackEnd) ==
  SubSeq(Saved, 1, sp) \o SubSeq(Saved, stackEnd, Len(Saved) - 1)

\* Mutant of MoveDown: the arguments land one slot too low.
MoveDownTooFar(sp, stackEnd) ==
  Resize(Saved, sp - 1) \o SubSeq(Saved, stackEnd + 1, Len(Saved))

\* The arguments, all that is above stackEnd, moved down to the frame's start sp.
MoveDown(sp, stackEnd) == Resize(Saved, sp) \o SubSeq(Saved, stackEnd + 1, Len(Saved))

\* The frame's slots but the arguments are dropped and the arguments moved down.
\* With fewer slots than arguments the loops index out of bounds.
TailCallI ==
  /\ Fetched("TailCallI")
  /\ \/ ~IsFunction(Inst.imm) /\ Throw(heap)
     \/ /\ IsFunction(Inst.imm)
        /\ LET sp       == Last(spStack)
               params   == functions[Inst.imm + 1].parameters
               stackEnd == Len(Saved) - params
               d        == DropAll(heap, SubSeq(Saved, sp + 1, stackEnd))
           IN \/ (sp < 0 \/ (stackEnd < sp /\ params > 0)) /\ Undefined
              \/ /\ sp >= 0 /\ (stackEnd >= sp \/ params = 0)
                 /\ \/ d.exit = "throw" /\ Throw(d.heap)
                    \/ d.exit = "ub" /\ Undefined
                    \/ /\ d.exit = "ok"
                       /\ stack' = MoveDown(sp, stackEnd)
                       /\ heap' = d.heap /\ notop' = TRUE
                       /\ fn' = Inst.imm /\ pc' = 0
                       /\ rpStack' = SetBack(rpStack, Inst.imm)
                       /\ UNCHANGED <<top, globals, spStack, pcStack>>
                       /\ UNCHANGED host

\* resize(sp + 1), not resize(sp): one slot of the frame stays on the stack.
\* resize throws when its argument is negative (a huge size_t).
Ret ==
  /\ Fetched("Ret")
  /\ LET sp == Last(spStack)
         d  == DropAll(heap, IF sp < 0 THEN <<>> ELSE SubSeq(stack, sp + 1, Len(stack)))
     IN \/ (notop \/ sp < -1) /\ Throw(heap)
        \/ /\ ~notop /\ sp >= -1
           /\ \/ d.exit = "throw" /\ Throw(d.heap)
              \/ d.exit = "ub" /\ Undefined
              \/ d.exit = "ok" /\ Len(pcStack) = 1 /\ Leave("return", top, d.heap)
              \/ /\ d.exit = "ok" /\ Len(pcStack) # 1
                 /\ stack' = Resize(stack, sp + 1) /\ heap' = d.heap
                 /\ rpStack' = Front(rpStack) /\ spStack' = Front(spStack)
                 /\ pcStack' = Front(pcStack)
                 /\ fn' = Last(Front(rpStack)) /\ pc' = Last(pcStack)
                 /\ UNCHANGED <<top, notop, globals>> /\ UNCHANGED host

\* Falls through to Echo, which throws on a list.
MakeList == Fetched("MakeList") /\ Throw(NewList(heap).heap)

\* Falls through to MakeList.
MakeRange ==
  /\ Fetched("MakeRange")
  /\ \/ Len(stack) <= 1 /\ Throw(heap)
     \/ /\ Len(stack) > 1
        /\ LET start == stack[Len(stack) - 1]
               step  == Last(stack)
               parts == <<start, step, top>>
               d == DropAll(heap, parts)
           IN \/ /\ \A i \in 1..3 : parts[i].tag = "NUMBER"
                 /\ LET r == NewRange(heap, [begin |-> start.v, step |-> step.v,
                                             end |-> top.v])
                    IN Throw(NewList(r.heap).heap)
              \/ /\ \E i \in 1..3 : parts[i].tag # "NUMBER"
                 /\ \/ d.exit = "ok" /\ Throw(NewList(d.heap).heap)
                    \/ d.exit = "throw" /\ Throw(d.heap)
                    \/ d.exit = "ub" /\ Undefined

\* What it writes to the stream is not part of the model.
Echo ==
  /\ Fetched("Echo")
  /\ \/ top.tag # "NUMBER" /\ Throw(heap)
     \/ top.tag = "NUMBER" /\ Done(heap, top, stack, notop)

Malformed == \E op \in {"Truncated", "Unknown"} : Fetched(op) /\ Throw(heap)

Execute == \/ RunOff \/ GetI \/ AddI \/ SetI \/ JumpI \/ JumpFalseI \/ Iter
           \/ Pop \/ Dup \/ BuiltinUnaryOp \/ BinaryOp \/ ConstNum \/ ConstMisc
           \/ GetGlobalI \/ SetGlobalI \/ CallI \/ TailCallI \/ Ret
           \/ MakeRange \/ MakeList \/ Echo \/ Malformed

Next == Execute \/ Stop \/ \E id \in 0..Len(functions) : Eval(id)

Spec == Init /\ [][Next]_vars

\* The thread inside eval keeps executing.
FairSpec == Spec /\ WF_vars(Execute)

=============================================================================
