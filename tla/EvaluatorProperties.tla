------------------------ MODULE EvaluatorProperties -------------------------
(***************************************************************************)
(* The properties of Evaluator, and the refinement of StackMachine.        *)
(***************************************************************************)
EXTENDS Evaluator, StackShapes

-----------------------------------------------------------------------------
\* Every variable of the machine has its type; the heap is well formed: each
\* list box refers to a live buffer and no buffer outlives its last box.
TypeOK ==
  /\ functions \in Seq(FunctionEntry)
  /\ globals \in Seq(ValuePair)
  /\ flag \in BOOLEAN
  /\ IsHeap(heap)
  /\ status \in {"idle", "running", "ub"}
  /\ results \in Seq([how : {"return", "throw"}, val : ValuePair])
  /\ stack \in Seq(ValuePair) /\ top \in ValuePair /\ notop \in BOOLEAN
  /\ fn \in Nat /\ pc \in Nat
  /\ rpStack \in Seq(Nat) /\ spStack \in Seq(Int) /\ pcStack \in Seq(Nat)

\* The three call stacks agree with each other and with the code: they have one
\* entry per frame, the function being executed is the one on top of rpStack,
\* and every saved return address lies just behind a CallI in the very function
\* that rpStack names for the frame below.  Ret finds its way back with pcStack
\* and rpStack, which CallI pushes and TailCallI half replaces.
FramesMatchCode ==
  status = "running" =>
    /\ Len(rpStack) = Len(pcStack) /\ Len(rpStack) = Len(spStack)
    /\ rpStack # <<>> /\ fn = rpStack[Len(rpStack)]
    /\ \A i \in 1..Len(rpStack) : rpStack[i] < Len(functions)
    /\ \A i \in 1..(Len(rpStack) - 1) :
         /\ pcStack[i + 1] \in 1..Len(functions[rpStack[i] + 1].code)
         /\ functions[rpStack[i] + 1].code[pcStack[i + 1]].op = "CallI"

\* Copy-on-write: an instruction changes the elements of no list but its own
\* left operand, however many boxes share the buffer (handleBinary, APPEND and
\* CONCAT; values.h:32-38).
MutatesOnly(a) ==
  \A x \in DOMAIN heap.vec \cap DOMAIN heap'.vec :
    x # a => Elements(heap', x) = Elements(heap, x)
ListAt(x) == IF x.tag = "VECTOR" THEN x.v ELSE 0
LeftList == IF status = "running" /\ stack # <<>> THEN ListAt(Last(stack)) ELSE 0
MutationIsPrivate == [][MutatesOnly(LeftList)]_vars

-----------------------------------------------------------------------------
\* The addresses that the values of s point to.
Pointers(s) == {s[i].v : i \in {j \in 1..Len(s) : isAllocated(s[j])}}

AllLive(h, s) == \A i \in 1..Len(s) : isAllocated(s[i]) => Live(h, s[i])
ElementsLive(h) == \A a \in DOMAIN h.vec : AllLive(h, Elements(h, a))
ElementPointers(h) == UNION {Pointers(Elements(h, a)) : a \in DOMAIN h.vec}

\* Each pointer in s is live, at no other place of s, and in no list.
Owned(h, s) ==
  /\ AllLive(h, s)
  /\ Pointers(s) \cap ElementPointers(h) = {}
  /\ \A i, j \in 1..Len(s) :
       isAllocated(s[i]) /\ isAllocated(s[j]) /\ s[i].v = s[j].v => i = j

\* No list contains itself, at any depth: the boxes can be ordered so that each list
\* comes behind its elements.
Boxes(h) == DOMAIN h.vec \cup DOMAIN h.range
Orders(h, rank) ==
  /\ rank \in [Boxes(h) -> 1..(h.next - 1)]
  /\ \A a, b \in Boxes(h) : rank[a] = rank[b] => a = b
  /\ \A a \in DOMAIN h.vec : \A b \in Pointers(Elements(h, a)) : rank[b] < rank[a]
Acyclic(h) == \E rank \in [Boxes(h) -> 1..(h.next - 1)] : Orders(h, rank)

\* What the host hands to the constructor is owned in the same way.
ASSUME OwnershipAssumption ==
  \A c \in Constructions :
    Owned(c.heap, c.globals) /\ ElementsLive(c.heap) /\ Acyclic(c.heap)

\* The value slots that own what they point to: operands, globals, and what the
\* host was given.
Operands == IF status = "running" THEN Saved ELSE <<>>
ReturnedValues == [i \in 1..Len(results) |-> results[i].val]
Others == globals \o ReturnedValues

\* "We treat all the allocated things as unique pointers" (values.h:83): every
\* pointer in a slot is live, no other slot holds it, and it is not at the same
\* time an element of a list; the elements are live.
UniquePointers == Owned(heap, Operands \o Others) /\ ElementsLive(heap)

\* What eval takes for granted of the code it executes, and never checks.  An
\* instruction reads a top there is: behind a call `top' is stale.  When a callee
\* returns, the one slot of its frame that resize(sp + 1) leaves on the stack
\* (Ret, evaluator.cpp:524) is there and holds no pointer, since what it pointed to
\* has just been dropped.  And a tail call finds the stack no lower than its frame.
StackDiscipline ==
  (status = "running" /\ pc < Len(Code)) =>
    /\ notop => Inst.op \notin ReadsTop
    /\ (Inst.op = "Ret" /\ Len(pcStack) > 1 /\ Last(spStack) >= 0) =>
         /\ Last(spStack) < Len(stack)
         /\ ~isAllocated(stack[Last(spStack) + 1])
    /\ Inst.op = "TailCallI" => Last(spStack) <= Len(Saved)

\* The checks that eval and handleBinary leave out: the end of the code, a negative
\* index, and a tail call with fewer operands than parameters, its own or its caller's.
Unchecked ==
  \/ pc >= Len(Code)
  \/ Inst.op = "BinaryOp" /\ Inst.binary = "INDEX" /\ top.v < 0
  \/ Inst.op = "Iter" /\ top.v + 1 < 0
  \/ /\ Inst.op = "TailCallI"
     /\ \/ Last(spStack) < 0
        \/ Len(Saved) - functions[Inst.imm + 1].parameters < Last(spStack)

NoDanglingUse ==
  [][status' = "ub" /\ status # "ub" => Unchecked]_vars

\* What an evaluation returned to the host is the host's: no later evaluation
\* frees it or changes its elements.
HostValuesStable ==
  [][\A i \in 1..Len(results) :
       results[i].val.tag = "VECTOR" =>
         /\ Live(heap', results[i].val)
         /\ Elements(heap', results[i].val.v) = Elements(heap, results[i].val.v)]_vars

\* Every call of eval ends, with a value or an exception.
EvalReturns == (status = "running") ~> (status = "idle")

-----------------------------------------------------------------------------
\* The plain value of x, given its items.
Plain(x, items) ==
  [tag |-> x.tag, num |-> IF x.tag \in {"NUMBER", "BOOLEAN"} THEN x.v ELSE 0,
   items |-> items]

\* The items of x, read off the heap, given those of its elements.
ItemsBy(h, below, x) ==
  CASE x.tag = "VECTOR" /\ Live(h, x) ->
         LET s == Elements(h, x.v)
         IN [i \in 1..Len(s) |-> Plain(s[i], below[s[i]])]
    [] x.tag = "RANGE" /\ Live(h, x) ->
         LET r == h.range[x.v]
         IN <<Plain(Num(r.begin), <<>>), Plain(Num(r.step), <<>>), Plain(Num(r.end), <<>>)>>
    [] OTHER -> <<>>

\* Lists nest no deeper than there are boxes.
Items(h) ==
  LET items[d \in 0..h.next] ==
        [x \in ValuePair |-> IF d = 0 THEN <<>> ELSE ItemsBy(h, items[d - 1], x)]
  IN items[h.next]

Denote(h, x) == Plain(x, Items(h)[x])
DenoteAll(h, s) == [i \in 1..Len(s) |-> Denote(h, s[i])]

\* What the stack machine sees of the evaluator.
PlainStack == IF status = "running" THEN DenoteAll(heap, Saved) ELSE <<>>
PlainGlobals == DenoteAll(heap, globals)
PlainResults == [i \in 1..Len(results) |->
                   [how |-> results[i].how, val |-> Denote(heap, results[i].val)]]
PlainFrames == [i \in 1..Len(rpStack) |->
                  [fn |-> rpStack[i], base |-> spStack[i], ret |-> pcStack[i]]]

\* How many of its frame's operands the next instruction reads off the top.
Reads == ReadBy(functions, Inst)

\* The instruction keeps to its frame, which eval does not check: it reads no operands
\* of the caller, and sets none.
KeepsToFrame ==
  /\ pc < Len(Code)
  /\ Last(spStack) + Reads <= Len(Saved)
  /\ Inst.op = "SetI" => Inst.imm >= 0

\* Whatever a callee does that keeps to its frame, and however it returns, what its
\* callers have left on the stack beneath it stays as it is, down to the elements of
\* the lists (resize and the moves of Ret and TailCallI, and copy-on-write).
CallersKept ==
  [][status = "running" /\ status' = "running" /\ KeepsToFrame =>
       IsPrefix(SubSeq(PlainStack, 1, Last(spStack)), PlainStack')]_vars

Machine == INSTANCE StackMachine WITH
  Kept <- 1, Negates <- FALSE,
  globals <- PlainGlobals, results <- PlainResults,
  stack <- PlainStack, frames <- PlainFrames

\* With its heap, its cached top and its shared buffers, the evaluator computes
\* what the stack machine over plain values computes: sharing is not observable.
ImplementsStackMachine == Machine!Spec

\* Eval takes for granted, too, that a call finds its arguments in the frame of its
\* caller (CallI, evaluator.cpp:483).  With fewer, the callee's frame would begin among
\* the operands of a frame further down, which its SetI would overwrite and its Ret drop
\* and cut off, or below the stack.
AtCall == /\ status = "running" /\ pc < Len(Code)
          /\ Inst.op = "CallI" /\ IsFunction(Inst.imm)
CallsSupplied == AtCall => FrameStart(Inst.imm) >= Last(spStack)

\* Less is enough for the machine to have a frame of its own for the callee.
CallsOnStack == AtCall => FrameStart(Inst.imm) >= 0

=============================================================================
