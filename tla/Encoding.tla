------------------------------ MODULE Encoding ------------------------------
(***************************************************************************)
(* Bytecode as bytes (src/src/vm/instructions.h, instructions.cpp): the    *)
(* functions that append an instruction to a vector of bytes, and print,   *)
(* which finds the labels in one pass over the bytes and writes a listing  *)
(* in a second one.                                                        *)
(*                                                                         *)
(* An instruction is [op, arg]: its number in enum Instruction, and a      *)
(* sequence with its immediate, or operator, if it has one, or with the    *)
(* eight bytes of its double.  A line of the listing is [label, op, arg],  *)
(* the values that are formatted; their text is left out.  char is signed, *)
(* int has 32 bits and the least significant byte comes first, as on x86.  *)
(***************************************************************************)
EXTENDS Integers, FiniteSets, Sequences

CONSTANTS Insts,     \* the instructions that may be added
          MaxInsts   \* how many of them a function has at most

VARIABLES added, starts,  \* the instructions and where they begin (history)
          code,           \* the bytes
          phase,          \* "add", or what print is at
          labels,         \* whether it prints labels
          labelIndices, pc, output

vars == <<added, starts, code, phase, labels, labelIndices, pc, output>>

-----------------------------------------------------------------------------
\* Numbers in enum Instruction.
Jump          == 3..5                       \* JumpI, JumpFalseI, Iter
WithImmediate == (0..5) \cup (12..15)       \* and GetI, SetI, AddI, ..., TailCallI
Operator      == {8, 9}                     \* BuiltinUnaryOp, BinaryOp
ConstNum      == 10
ConstMisc     == 11
Plain         == {6, 7} \cup (16..19)       \* Pop, Dup, Ret, MakeRange, MakeList, Echo
TwoBytes      == Operator \cup {ConstMisc}

Byte == 0..255
MaxInt == 2147483647
MinInt == -2147483647 - 1
Int32 == MinInt..MaxInt

One(args, S) == Len(args) = 1 /\ args[1] \in S
IsInst(i) ==
  \/ i.op \in Plain /\ i.arg = <<>>
  \/ i.op \in WithImmediate /\ One(i.arg, Int32)
  \/ i.op \in Operator /\ One(i.arg, 0..20)
  \/ i.op = ConstMisc /\ One(i.arg, 0..2)
  \/ i.op = ConstNum /\ i.arg \in Seq(Byte) /\ Len(i.arg) = 8

ASSUME InstsAssumption ==
  \A i \in Insts : DOMAIN i = {"op", "arg"} /\ i.arg \in Seq(Int) /\ IsInst(i)

-----------------------------------------------------------------------------
(* Adding. *)

LowSigned(n) == IF n % 256 < 128 THEN n % 256 ELSE (n % 256) - 256

\* The bytes of n in two's complement, the lowest first.
Low(n) == n % 256
High(n) == n \div 256
IntBytes(n) == <<Low(n), Low(High(n)), Low(High(High(n))), Low(High(High(High(n))))>>

ImmInclusive(n) == IF n >= -128 /\ n <= 127 THEN <<Low(n)>> ELSE <<128>> \o IntBytes(n)

\* addImm: a byte, which is not 0x80, or 0x80 and an int.
Imm(n) == IF n > -128 /\ n <= 127 THEN <<Low(n)>> ELSE <<128>> \o IntBytes(n)

\* addInst, addDouble, addBinOp and addUnaryOp.
Bytes(i) == <<i.op>> \o (IF i.op \in WithImmediate \cup {ConstMisc} THEN Imm(i.arg[1])
                         ELSE i.arg)

Add(i) == /\ phase = "add" /\ Len(added) < MaxInsts
          /\ code' = code \o Bytes(i)
          /\ added' = Append(added, i) /\ starts' = Append(starts, Len(code))
          /\ UNCHANGED <<phase, labels, labelIndices, pc, output>>

-----------------------------------------------------------------------------
(* Printing. *)

At(i) == code[i + 1]
Char(b) == IF b < 128 THEN b ELSE b - 256
IntOf(b0, b1, b2, high) == b0 + 256 * b1 + 65536 * b2 + 16777216 * high
IntAt(i) == IntOf(At(i), At(i + 1), At(i + 2), Char(At(i + 3)))

\* getImmediate: the value and how far the next instruction is; if the bytes end
\* too early it throws.
IsShort(i) == At(i + 1) # 128
Readable(i) == i + 1 < Len(code) /\ (IsShort(i) \/ i + 5 < Len(code))
Immediate(i) == IF IsShort(i) THEN Char(At(i + 1)) ELSE IntAt(i + 2)
Offset(i) == IF IsShort(i) THEN 2 ELSE 6

Op == At(pc)
Target == pc + Immediate(pc)

\* What either pass adds to pc.
Size == CASE Op \in WithImmediate -> Offset(pc)
          [] Op \in TwoBytes -> 2
          [] Op = ConstNum -> 9
          [] Op \in Plain -> 1

Walking == phase \in {"find", "print"}
Running == Walking /\ pc < Len(code)
Legible == Op \in WithImmediate => Readable(pc)

StartPrint(l) == /\ phase = "add"
                 /\ phase' = IF l THEN "find" ELSE "print"
                 /\ labels' = l /\ labelIndices' = {} /\ pc' = 0 /\ output' = <<>>
                 /\ UNCHANGED <<added, starts, code>>

\* What is left of the step of a pass that has read the instruction at pc.
Advance == /\ Legible /\ pc' = pc + Size
           /\ UNCHANGED <<added, starts, code, phase, labels>>

FindStuck == /\ phase = "find" /\ Running /\ Legible
             /\ pc' = IF Op \in Jump THEN pc ELSE pc + Size
             /\ labelIndices' = labelIndices \cup (IF Op \in Jump THEN {Target} ELSE {})
             /\ UNCHANGED <<added, starts, code, phase, labels, output>>
FindAfter == /\ phase = "find" /\ Running /\ Advance
             /\ labelIndices' = labelIndices \cup (IF Op \in Jump THEN {pc' + Immediate(pc)} ELSE {})
             /\ UNCHANGED output

\* One turn of the loop that looks for labels.
Find == /\ phase = "find" /\ Running /\ Advance
        /\ labelIndices' = labelIndices \cup (IF Op \in Jump THEN {Target} ELSE {})
        /\ UNCHANGED output

FindEnd == /\ phase = "find" /\ pc >= Len(code)
           /\ phase' = "print" /\ pc' = 0
           /\ UNCHANGED <<added, starts, code, labels, labelIndices, output>>

\* The place of i in the ordered set of labels.
Distance(i) == Cardinality({l \in labelIndices : l < i})

Shown == CASE Op \in Jump /\ labels -> <<Distance(Target)>>
           [] Op \in WithImmediate /\ ~(Op \in Jump /\ labels) -> <<Immediate(pc)>>
           [] Op \in TwoBytes -> <<At(pc + 1)>>
           [] Op = ConstNum -> SubSeq(code, pc + 2, pc + 9)
           [] Op \in Plain -> <<>>

NoLabel == -1
Line == [label |-> IF labels /\ pc \in labelIndices THEN Distance(pc) ELSE NoLabel,
         op |-> Op, arg |-> Shown]

\* One turn of the loop that writes the listing.
PrintLine == /\ phase = "print" /\ Running /\ Advance
             /\ output' = Append(output, Line)
             /\ UNCHANGED labelIndices

PrintEnd == /\ phase = "print" /\ pc >= Len(code)
            /\ phase' = "printed"
            /\ UNCHANGED <<added, starts, code, labels, labelIndices, pc, output>>

\* print has returned: nothing of it is left but the listing, which the host keeps
\* until it goes on.
Done == /\ phase = "printed"
        /\ phase' = "add" /\ labels' = FALSE /\ labelIndices' = {} /\ pc' = 0 /\ output' = <<>>
        /\ UNCHANGED <<added, starts, code>>

Init == /\ added = <<>> /\ starts = <<>> /\ code = <<>> /\ phase = "add"
        /\ labels = FALSE /\ labelIndices = {} /\ pc = 0 /\ output = <<>>

Pass == Find \/ FindEnd \/ PrintLine \/ PrintEnd
Next == (\E i \in Insts : Add(i)) \/ (\E l \in BOOLEAN : StartPrint(l)) \/ Pass \/ Done

Spec == Init /\ [][Next]_vars
FairSpec == Spec /\ WF_vars(Pass)

-----------------------------------------------------------------------------
TypeOK ==
  /\ added \in Seq(Insts) /\ starts \in Seq(Nat) /\ Len(starts) = Len(added)
  /\ code \in Seq(Byte)
  /\ phase \in {"add", "find", "print", "printed"} /\ labels \in BOOLEAN
  /\ labelIndices \subseteq Int /\ IsFiniteSet(labelIndices)
  /\ pc \in Nat
  /\ output \in Seq([label : Int, op : Nat, arg : Seq(Int)])

\* Where instruction k begins, and behind the last one the end of the code.
StartOf(k) == IF k <= Len(starts) THEN starts[k] ELSE Len(code)

\* Neither pass (instructions.cpp:187-230 and 233-317) leaves the instructions that
\* were added: whatever the bytes of doubles and ints look like, it stands at the
\* beginning of one, can read all of it, and does not throw.
OnInstruction ==
  Running => /\ \E k \in DOMAIN added : pc = starts[k] /\ Op = added[k].op
             /\ Legible /\ pc + Size <= Len(code)

JumpTarget(i) == starts[i] + added[i].arg[1]

\* The listing has the instructions that were added, in order, with their arguments
\* (addImm and getImmediate, instructions.cpp:24-68); with labels, the label a jump
\* shows stands at the instruction it jumps to, and nowhere else.
ListingFaithful ==
  phase = "printed" =>
    /\ DOMAIN output = DOMAIN added
    /\ \A i \in DOMAIN added :
         /\ output[i].op = added[i].op
         /\ IF labels /\ added[i].op \in Jump
            THEN \A j \in DOMAIN added :
                   output[j].label = output[i].arg[1] <=>
                     starts[j] = JumpTarget(i)
            ELSE output[i].arg = added[i].arg

\* print returns.
PrintReturns == Walking ~> (phase = "printed")

=============================================================================
