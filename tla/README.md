# sscad in TLA+

sscad (`src/`) is an interpreter for an OpenSCAD dialect, written as a library:
the host gives it files and receives values. This directory holds TLA+ models of
its parts, TLC configurations that check them on small instances, and theorems
that TLAPS proves for every instance.

## 1. The system

| Part | Source | State it keeps | Operations |
|---|---|---|---|
| VM evaluator | `vm/evaluator.{h,cpp}` | functions and globals; in a call of `eval`: operand stack, cached top, three call stacks, pc | `eval(id)`, `stop()`, one case per instruction |
| Values | `vm/values.{h,cpp}`, helpers in `evaluator.cpp` | boxes on the C++ heap, reference-counted buffers of list elements | `copy`, `drop`, `handleUnary`, `handleBinary`, `==` |
| Instruction encoding | `vm/instructions.{h,cpp}` | a vector of bytes | `addInst`, `addImm`, `addDouble`, `getImmediate`, `print` |
| Bytecode generator | `codegen/bytecode_gen.h` | basic blocks of the function at hand, numbering of functions, globals, parameters | `visit` of each AST node |
| Constant evaluator | `codegen/const_eval.h` | scopes of constant variables | folding, `fixAssignments` |
| AST and visitors | `ast.h`, `ast_visitor.{h,cpp}` | the tree | traversal (`AstVisitor`), rewriting (`ExprMap`) |
| Frontend | `frontend.h`, `parsing/frontend.cpp` | table of translation units | `parse(file)`, recursive over `use` |
| Scanner, include stack | `parsing/scanner.l`, `scanner.h`, `scanner_helper.cpp` | stack of input streams, flex buffer, start condition, `loc` | `getNextToken`, `lexerInclude`, `lexerFileEnd`, `addUse` |
| Locations | `location.h` | begin and end, each with a chain of including locations | `step`, `columns`, `lines` |
| Parser | `parsing/parser.y` | the LALR automaton of Bison | semantic actions fill the unit |
| AST printer | `utils/ast_printer.{h,cpp}` | indentation | output |

**Interaction.** The host calls `Frontend::parse`, which asks the host's provider
for a stream, runs one scanner and one parser over it and then parses every file
the unit uses. Passes walk the units: `ConstEvaluator` rewrites, `BytecodeGen`
numbers functions and globals and emits blocks of bytes through the encoding. The
host constructs an `Evaluator` from functions and globals, calls `eval` and may
call `stop` from another thread. Components share state only through these calls;
within the evaluator, lists share buffers by reference count.

**What is hard.**

- *Ownership without destructors* (`values.h:79`): `ValuePair` is an untagged
  union, so each instruction must copy and drop exactly right, also when the same
  list sits in a global, a local, a loop and a buffer of another list.
- *Copy-on-write* (`evaluator.cpp:247`): `copy` shares a buffer; APPEND and CONCAT
  write in place when `use_count` is 1. A write that is seen through another box
  changes a value somewhere else in the program.
- *The cached top* (`evaluator.cpp:300`): the logical top is a local variable and
  stale while `notop` holds. Each instruction decides by itself when to save it.
- *Three parallel call stacks* (`evaluator.cpp:483-533`): calls push all three,
  tail calls replace one, returns pop two or three, and `fn` must follow.
- *Exceptions in the middle of an instruction*, with globals already written.
- *The thread that calls `stop`*, which the loop should notice.
- *Bytes without boundaries* (`instructions.cpp:183`): nothing but decoding tells where
  an instruction begins, and immediates and doubles may hold any byte.
- *Blocks that are numbered before they are finished* (`bytecode_gen.h:132`): a branch
  of a conditional may end in another block than the one it began in.
- *A vector that is erased from while it is walked* (`const_eval.h:147`).
- *One generator for all units*: names of one unit meet those of the others.
- *Parsing across files*: include switches the scanner's input in the middle of a
  file, `use` recurses, and a syntax error leaves what has been done so far.

The list with lines is `hazards` in `PROJECT.json`; each entry names the
properties that cover it, or says why none does.

**What makes each part correct.** Evaluator: it computes what the instruction set
promises, calls return behind the call, a callee leaves its caller's operands
alone, evaluation ends. Values: no dangling or doubly owned pointer, and sharing
is not observable. Encoding: what is decoded is what was encoded. Generator: each
jump enters a block of the same function, each path ends in a return, and the
code computes the expression. Constant evaluator: folding does not change what an
expression evaluates to. Frontend: each file is parsed once, cycles of `use` end,
cycles of include are refused, and a unit in the table is complete. Scanner: every
token of every file is delivered once, in order, at its own location. Parser:
operators bind as the precedence table says.

## 2. What is modelled

| Module | Models |
|---|---|
| `Values` | values, the heap they own and every helper that touches it, as constant-level operators |
| `Evaluator` | `Evaluator::eval` and the host: one action per case of the switch |
| `StackMachine` | what the comments of `instructions.h` promise: the abstract specification |
| `EvaluatorProperties` | invariants, action properties, liveness and the refinement mapping |
| `StackShapes` | what a verifier of bytecode asks of a program, which `eval` does not: no state |
| `MCEvaluator` | the programs that the runs execute |
| `EvaluatorProofs` | types, call stacks and copy-on-write, for all bytecode; the stack discipline, for verified bytecode |
| `OwnershipProofs`, `RefinementProofs` | unique ownership, and the refinement of `StackMachine` |
| `Frontend` | `Frontend::parse` and the scanner's stack of includes |
| `FrontendProperties`, `MCFrontend`, `FrontendProofs` | its properties, file systems to check, and theorems |
| `Ast` | the syntax tree of expressions and the traversals the passes share |
| `ConstEval`, `ConstEvalProofs` | `ConstEvaluator`: folding, and `fixAssignments` turn by turn; a theorem |
| `BytecodeGen`, `BytecodeGenProofs` | `BytecodeGen`: one or several actions per `visit`; theorems |
| `GeneratedCode` | what a stack machine asks of the code that `BytecodeGen` prints: no state |
| `Compiler`, `MCCompiler`, `CompilerProofs` | the two passes and `StackMachine` composed; translation units to compile, theorems |
| `Encoding`, `MCEncoding`, `EncodingProofs` | the bytes of instructions and both passes of `print`; instructions to print, theorems |
| `Expressions`, `MCExpressions` | the rules of the grammar for operators, as a shift-reduce automaton |

### Values

A `ValuePair` is `[tag, v]`. A heap is a record: `vec` maps the address of an
`SVector` to the buffer its `shared_ptr` shares, `buf` a buffer to its elements,
`range` the address of an `SRange` to its fields, `next` is the next fresh address.
The reference count is not a variable: it is the number of boxes that `vec` maps to
the buffer, and freeing the last of them frees the buffer, as `shared_ptr` does.
Each operator maps a heap and operands to `[heap, val, exit]`, where `exit` is
`"ok"`, `"throw"` (`unimplemented()`, `invalid()`) or `"ub"`.

Abstractions: numbers are integers (no property tells doubles apart from them), so
DIV, MOD, EXP and SIN .. SQRT are left out; they take the same paths as ADD and NEG
and differ in the number computed. Addresses are never handed out twice, so a use
after free stays recognisable and is `"ub"` where a C++ program may continue with
anything.

### Evaluator

| Code | Model |
|---|---|
| `functions`, `globalTags`/`globalValues`, `flag` | `functions`, `globals`, `flag` |
| `tagStack`/`valueStack`, `top`, `notop` | `stack`, `top`, `notop` |
| `fn`, `pc` | `fn`, `pc` (an index of an instruction, not of a byte) |
| `rpStack`, `spStack`, `pcStack` | the same |
| the host between and inside its calls of `eval` | `status`: `"idle"`, `"running"`, `"ub"`; `results`: how each call ended |

An action is a whole case of the switch: the checks in the order of the code, the
helper, the stacks, the pc. An exception (`Throw`) ends the call of `eval`, leaves
globals and heap as they are at that point and drops nothing. What the code
does wrong is in the model: `Ret` resizes to `sp + 1`, MakeRange and MakeList fall
through to Echo, EQ and NEQ share a case, `stop` clears a flag nobody reads.

The pc counts instructions, so a jump into the middle of an instruction does not
exist in the model; instructions cut off by the end of the code (`Truncated`) and
bytes that are no instruction (`Unknown`) do. `Echo` writes to a stream the model
leaves out.

### StackMachine

A machine over plain values: a list is the sequence of its elements, there is no
heap, no cached top and no memory error. It may refuse any instruction (an exception
of `eval`), but what it carries out has exactly the documented effect. Two constants
name where the code departs from the comments. `Kept` is the number of slots that stay
under the result when a call returns: 0 is what they say, 1 what `Ret` does (finding
`call_operand`). `Negates` says whether NEQ is the negation of EQ; in `eval` it is EQ
(finding `not_equal`). The refinement is stated with 1 and `FALSE`, the code as it is;
`Compiler` uses 0 and `TRUE`, the machine as it is documented.
`EvaluatorProperties!Denote` reads a value off the heap, and
`Machine == INSTANCE StackMachine WITH ...` maps stacks to frames and adds the cached
top to the stack.

### StackShapes

`eval` has no verifier. This one is part of the verification, not of the model: it says
which programs the theorems about ownership and the refinement are about. A typing gives
each function the kinds of its arguments and of its result, each global its kind, and
lists the points the program reaches: a function and an instruction, whether the frame is
the outermost one, whether `top` is cached, and the kinds of the frame's operands, `"plain"`
(no pointer) or `"any"`. `Accepted` is what an instruction asks of its point, `After` the
points behind it, `Shapely` that the points are closed under it. Paths that meet need not
agree. A point where `eval` itself refuses the instruction for want of operands
(`Refused`) needs none behind it.

### Frontend

| Code | Model |
|---|---|
| `Frontend::units` | `units`, a function on the handles in the table |
| the nested calls of `parse`, with their loops over `unit.uses` | `calls`: `[file, pending]` |
| `Scanner::istreams` with what is left in each stream | `istreams`: `[file, rest]` |
| `Scanner::loc`, its `parent` chain | `loc`: positions from the unit's file down to the current one |
| reference counts of the enclosing `Location`s | `held`: how many of them syntax nodes keep alive |
| the host | `status`, `results` |

A file is a sequence of lexemes: a statement, a line break, `include <f>`, `use <f>`
or an error. The tokens of a statement, and which of the unit's four vectors it
goes to, are left out, and so are columns; `f` is the handle the host's resolver
answers. Resolver and provider are external and may throw at every call; an exception
unwinds all calls of `parse` and leaves `units` as it is. A stream is fresh at each
call of the provider and never null (`parse` asserts it). Flex reads C++ streams a
character at a time, so nothing of the includer is read ahead when an include
switches streams.

Two kinds of undefined behaviour are in the model. `FileEnd`: `loc = *loc.begin.parent`
may free the `Location` it copies from; when nobody else holds it (`held`), the step
may leave `loc` intact or end in `"ub"`. `NumGraphemesFails`: the break iterator is
created with an uninitialized status and may be null where a file name is measured.

### Ast and ConstEval

An expression is a node `[kind, name, value, kids]`, with its subexpressions in the
order `AstVisitor` visits them. `Visited` and `Assigned` say which kids a traversal
reaches and which of them are `AssignNode`s; `MappedOn` and `VisitedOn` are the two
traversals as recursive functions over a set of expressions. A translation unit is its
functions and its scopes of assignments: the file's and those of the bodies of its
modules, one after the other as `visit(TranslationUnit)` comes to them.

| Code | Model |
|---|---|
| the `TranslationUnit&` that is rewritten in place | `unit`; `parsed` keeps it as it was (history) |
| `ExprMap::map` with the overrides of `ConstEvaluator` | `Folded`, `MappedOn` |
| the first loop of `fixAssignments`, its `i` and `localIndices` | actions `Duplicate` and `FirstSeen`; `index`, `localIndices` |
| its second loop, and the visit of the next scope | `VisitAssignments` |
| the functions' bodies, of which only `AssignNode`s are mapped | `VisitFunctions` |

Numbers are integers; folding of DIV, MOD and EXP is left out, and so is
`variableLookup`, which is filled and never read.

### BytecodeGen

| Code | Model |
|---|---|
| `functionMap`, `globalMap`, `currentFile` (never initialised) | the same; `currentFile` is any handle |
| the loops of `visit(TranslationUnit)` | `phase` and `item`; `DeclareFunction`, `DeclareGlobal`, `BeginFunction`, `EndFunction` |
| the C++ stack of the nested calls of `visit` | `work`: what is left to be done, its top first |
| `funbody`, `tail`, `currentbb` | `funbody`, `tail` (`currentbb` and `tail` always agree) |
| the locals `currentid`, `trueid`, `falseid` of `visit(IfExprNode)` | numbers of blocks carried by the task `join` |
| what is printed for a function | `listings` |

`visit(IfExprNode)` is four actions, since visits of other nodes come between its parts:
`VisitIfExpr`, `IfThen`, `IfElse`, `IfJoin`. A node without a visit of its own
(`VisitOther`) is traversed and leaves its kids' values, as in the code. An exception
(`Throw`) ends the visit of the unit and leaves the two maps as they are. Warnings
are left out; the bytes of the blocks are the business of `Encoding`.

### GeneratedCode

What a stack machine may ask of a listing, stated on its blocks: every instruction finds
the operands it takes and the parameter it reads, jumps only go forward, all ways into a
block agree on the height of the stack, and a function leaves one value to return
(`Balanced`). `Depth` and `Height` compute the heights, from the first block on. The
generator checks nothing of the sort and does not have it for every tree, so three
constants delimit what is claimed: `Arity` is how many parameters the functions of a name
have, `Translatable` are expressions without unsupported nodes whose calls supply that
many arguments and whose conditionals have branches in `OneBlock`, and `OneBlock` are
those without conditionals. Conditionals in conditions, operands and arguments are
translatable; those in branches are not, because of `nested_conditional`.

### Compiler

The way of a unit through both passes to a result. Its host is an assumption: of it,
`test/parser_test.cpp:79-89` has one `ConstEvaluator` and one `BytecodeGen` for all units,
parses a unit and folds it; the calls of the generator are commented out there. What
follows is external: `Generate` hands the folded unit to the generator, `GiveUp` goes on
with the next one after an exception, and since nothing under `src/` turns the printed
blocks into an evaluator's functions, or computes globals, `Link` does what a host has to
do: it lays the blocks out, turns labels into relative jumps and "ret" into `Ret`, and
puts functions and globals where they are numbered. Globals are computed by name, so that
the order which `fixAssignments` leaves them in has no effect. The program is executed by
`StackMachine` with `Kept = 0` and `Negates = TRUE`, the documented machine, so that the
faults of the evaluator (findings `call_operand`, `not_equal`, `conditional`) do not hide
what the compiler does. `Meaning` is the reference: the value of an expression in the unit
*as it was parsed*, by a recursive function over tree and bindings, with the last
assignment of each name.

### Encoding

| Code | Model |
|---|---|
| the `std::vector<unsigned char>` | `code`; `added` and `starts` remember what was added where (history) |
| `addInst`, `addImm`, `addDouble`, `addBinOp`, `addUnaryOp` | `Add`, `Bytes`, `Imm`, `IntBytes` |
| `getImmediate` | `Readable`, `Immediate`, `Offset` |
| first loop of `print`: `labelIndices` | `Find`, `FindEnd` |
| second loop, `std::distance` for a label | `PrintLine`, `PrintEnd`, `Distance` |

Bytes are 0..255, an `int` has 32 bits with the lowest byte first, and `char` is
signed: what the build on x86 has. A line of the listing holds the values that are
formatted; the names and digits written for them are left out. A step whose immediate
is cut off is disabled, where the code throws; `OnInstruction` says that never happens.

### Expressions

The LALR automaton that Bison makes of the rules for operators, on a stack of
symbols with their trees and one token of lookahead: `Shift` when no rule is
complete. Parentheses are kept in the tree, so that the property can tell
grouping that was written from grouping that was chosen.

## 3. What is checked

| Run | Instance | Properties | Shows |
|---|---|---|---|
| `eval_small` | every sequence of at most 3 of 28 instructions, well formed or not, with a list and a range as globals and a callee of 0, 1 or 2 parameters; and calls of every callee of at most 4 of 12 instructions that keeps to its own slots, with tail calls and nested calls | `TypeOK`, `FramesMatchCode`, `CallerUntouched`, `CallersKept`, `MutationIsPrivate` | types, call stacks and copy-on-write hold even on bytecode no compiler emits; callers' operands survive, and control returns behind the call |
| `eval_programs` | a list followed by at most 4 of 11 instructions; loops over lists and ranges whose bodies append, replace the list they iterate, leave early, nest and call; the programs of `test/evaluator_test.cpp`; each evaluated twice | `UniquePointers`, `StackDiscipline`, `CallsSupplied`, `HostValuesStable`, `NoDanglingUse`, `EvalReturns`, `ImplementsStackMachine` | the programs keep what `eval` takes for granted; ownership is unique and nothing dangling is used; what the host was given stays as it was; each evaluation ends with what the stack machine computes, so sharing is not observable |
| `frontend` | a root file of a line break and at most 2 lexemes, a second file of at most 2 and a third of at most 1, over statements, line breaks, errors, uses and includes of one another | `TypeOK`, `IncludeStack`, `ParsedOnce`, `WholeUnits`, `UsesClosed`, `ParseEnds` | streams and locations stay in step, include cycles are cut, each file is parsed once and its unit is whole, no used unit is left out, parse ends |
| `compiler` | any two of 49 units, one after the other: every visit of the generator, conditionals in operands, arguments and conditions, calls of functions declared before and behind, a function defined twice, builtins, unknown names, nodes that are not supported; and every way to assign two names up to three times in a file and in a module, and the assignments of `test/parser_test.cpp:57`, of which one refers to another | `TypeOK`, `LastAssignmentWins`, `Numbered`, `ListingsClosed`, `Balanced`, `Computes`, `CompiledAndRun` | duplicates are fixed, numbers are dense, what is printed is closed and keeps the stack in balance, `main` returns what its body means, compilation ends |
| `encoding` | every function of at most 3 of 26 instructions, printed with and without labels | `TypeOK`, `OnInstruction`, `ListingFaithful`, `PrintReturns` | both passes stay on instructions, the listing is what was added, jumps name their targets, print returns |

The properties are in `EvaluatorProperties` and `FrontendProperties`, and of the other
modules at their end, each under a comment that says what it is about; `CallerUntouched`
and most properties of the runs below speak of particular programs and stand in the MC
modules. Each property of each
run is broken by at least one plausible bug in a mapped definition (`mutants` in
`PROJECT.json`; the mutated definitions stand next to the originals).

`WholeUnits` compares each unit with `Expansion`, the file with its includes expanded
in place, and is claimed only while no call of `parse` has thrown: afterwards the table
may hold half-parsed units, which the next call returns as if they were complete. The
model does so too, but no document says what a host may expect there.

**Bounds.** `MaxEvals` caps the host's calls, `MaxStack` and `MaxFrames` the two
stacks, `MaxInt` numbers and addresses. They are tested before an instruction is
executed, so no step is cut in half. One call is enough for properties of one
evaluation; two are needed where globals or results of the first meet the second.
A pointer is aliased, freed and used again within three instructions, and shared by
three boxes within four. In `eval_programs` the bounds lie above what any of the
programs reaches: a bound that cut an evaluation would show up as a violation of
`EvalReturns`. `MaxParses` is 2, so that a parse meets the table another one left,
after success and after an exception; three files give cycles of length one to three,
of uses, of includes and mixed, and a file that is reached in two ways.
In `compiler`, `MaxUnits` is 2: the second unit is the first that meets names and
numbers of another one, and every pair is tried in both orders; three assignments of
two names give every order of first and repeated ones, with a duplicate behind and
before an assignment that stays. Units declare what they call and assign what they
read, since what a unit may see of an earlier one is documented nowhere. `Computes`
is claimed for bodies whose node the generator supports, `Balanced` for translatable ones: in 39 of
the 49 units that is every function. In `encoding`, `MaxInsts` is
3: a jump, something to jump over and something to land on. The immediates lie on both sides of
-128, 127, a byte's and an int's limits, and the bytes of one double read as
a jump, an operator, `ConstNum` and the mark of a long immediate.
`CHECK_DEADLOCK` is off because the host may stop calling, undefined behaviour has no
successor, and a bound may cut an evaluation.

**Fairness.** `FairSpec` adds `WF_vars(Execute)`: the thread inside `eval` goes on
executing. Nothing is assumed of the host, which need not call `eval` or `stop`. In
`Frontend` it adds `WF_vars(Step)`: the thread inside `parse` goes on, and streams deliver
what they have; which of the outcomes of a step occurs is left open. `Compiler` adds
`WF_vars(Step)` and `Encoding` `WF_vars(Pass)`: the thread that compiles, or is inside
`print`, goes on; the host need not hand over another unit, nor add or print anything.

### Where the code and its documentation differ

Each of these runs checks one property, and TLC finds it violated.

| Run | Finding |
|---|---|
| `call_operand` | `Ret` leaves a stale slot between the caller's operands and the result: `1 + twice(2)` is 6 |
| `not_equal` | NEQ answers what EQ answers |
| `conditional` | a condition that is alone on the stack makes JumpFalseI throw |
| `stop` | `stop()` has no effect: the flag is read only behind an endless loop |
| `empty_include` | behind an included file without statements, `loc` is copied from a `Location` the copy has just freed |
| `nested_conditional` | a conditional in a branch of a conditional: `next` goes to the block the branch began in, over what the inner conditional wrote there, and the block it ends in jumps to the first one, for ever |
| `precedence` | `binop` is a nonterminal, so the declared precedences decide nothing: `1 + 2 * 3` is `(1 + 2) * 3` |

The stale slot of `call_operand` may also be a list that `Ret` has freed, which the
caller's own `Ret` frees again; `StackDiscipline` says that it is none, and the functions
that the programs of `eval_programs` call keep it, since they take numbers. `compiler`
does not nest conditionals in branches of conditionals, because of `nested_conditional`:
it has them in operands, arguments and conditions.

## 4. What is proved

The theorems about the evaluator hold for every set of programs, heap, bound and
length of run. They rest on two assumptions about constants: `ConstructionsAssumption`
(the constructor arguments have their types and the heap is well formed) and
`BoundsAssumption`.

- `TypeCorrect`: `Spec => []TypeOK`, with the well-formedness of the heap: no list
  box without a live buffer, no buffer that outlives its last box.
- `FramesCorrect`: `Spec => []FramesMatchCode`.
- `CopyOnWrite`: `Spec => MutationIsPrivate`.

The inductive invariant is `IInv == TypeOK /\ FramesMatchCode`. Neither half is
inductive alone: `Ret` takes `fn` and `pc` from the call stacks, which are nonempty
and hold ids of functions because of `FramesMatchCode`, and that conjunct speaks of
`Len` and indices, which need the types. `EvaluatorProofs` shows for each operation on
the heap that it maps well-formed heaps to well-formed heaps, and has one step per
action over them. For `CopyOnWrite` it orders heaps by `Preserves` (every box that is
still there has the elements it had) and `PreservesBut(a)` (every one but `a`), shows
that each operation is one of the two, and that the only writes go to a buffer that
`Unshare` has just made private or found to be so.

Ownership is not kept by all bytecode. `eval` takes three things for granted and checks
none of them, and `StackDiscipline` names them: an instruction reads a top there is, the
slot that `Ret` leaves behind in a call holds no pointer, and a tail call finds the stack
no lower than its frame. For every program whose runs keep that, from
`OwnershipAssumption` (the host hands over values that are owned in the same way):

- `Ownership`: `Spec /\ []StackDiscipline => []UniquePointers`.
- `Dangling`: `Spec /\ []StackDiscipline => NoDanglingUse`: what undefined behaviour is
  left comes from the checks `eval` omits (`Unchecked`), never from a dangling pointer.
- `HostOwnsItsValues`: `Spec /\ []StackDiscipline => HostValuesStable`.

Without the hypothesis the first is false: a list that `Ret` has dropped may be left in
the slot it keeps. The hypothesis is itself a property of the run `eval_programs`, which checks
it on every program of that run, loops and calls included. The invariant is
`OInv == IInv /\ Good(heap) /\ Parts(...)`: `Parts` splits the owners into operands,
globals and results, each owned and apart from the others; `Good` adds to the heap that
elements are live and that no list contains itself (`Acyclic`, by a rank). The last
is needed twice: APPEND puts a box into a list, which must not be the list's own part,
and `==` recurses into elements, which ends only because ranks fall. Each operation is a
transfer (`Transfers(h, P, r)`): it takes the boxes `P`, and what it returns is among
them or fresh.

- `SharingIsUnseen`: `Spec /\ []StackDiscipline /\ []CallsOnStack /\ [](status # "ub")
  => ImplementsStackMachine`.

That is the refinement, for every program and length of run: counted references, shared
buffers, updates in place, the cached top and the three call stacks are not observable.
The two further hypotheses are needed because the machine has neither a frame that starts
below the stack nor undefined behaviour; the first is less than `CallsSupplied`, which
`eval_programs` checks: a call finds its arguments in its caller's frame. `Denote` is a
recursion, `h.next` deep, over lists of lists; by `Acyclic` its levels agree from the
rank of a list on, so that it is a fixed point of reading a list off the heap
(`Unfolds`, `Level`). From there, a box that an instruction does not own keeps what it
means; for each instruction, the lemma `...Means` says what its operands and its result
denote, and that its step is the machine's step for that instruction, or its refusal.

- `CallersAreKept`: under the same hypotheses, `CallersKept`.

It follows from the steps of the machine: what they do to the stack (`Shape`) takes no
more off it than the instruction reads (`Reads`), and returns and tail calls cut it at
the frame. `KeepsToFrame`, the premise inside the property, restricts only how many
operands the instruction reads, and the local it sets; bytecode that breaks it reads its
caller's operands, which `eval` does not prevent. Frames below the current one need no
property of their own: a call that keeps to its frame starts the callee's above it.

Which programs keep the discipline can be told without executing them. `Verified` says
of the constructor's arguments that `StackShapes` has a typing for them.

- `VerifiedDiscipline`, `VerifiedCalls`: `Spec /\ Verified => []StackDiscipline`, and
  `=> []CallsSupplied`.
- `VerifiedOwnership`, `VerifiedHostOwnsItsValues`: `UniquePointers` and
  `HostValuesStable` for verified programs, with no hypothesis about their runs.
- `OnlyNegativeIndex`: of the checks that `eval` leaves out only one can matter to them, a
  negative index into a list or of a loop (`NegativeIndex`): they do not run off a
  function, use nothing freed, and no tail call leaves its frame.
- `VerifiedIsDefined`, `VerifiedSharingIsUnseen`, `VerifiedCallersAreKept`: a verified
  program whose runs have no negative index has no undefined behaviour, implements
  `StackMachine` and keeps its callers' operands; `VerifiedLeavesCallersAlone` drops the
  premise `KeepsToFrame` from the last.

The invariant is `WellShaped`: for some typing, the operands of the current frame have the
shape of a point of it (`CurrentShaped`), and each frame below waits for a result at a
point of its own (`WaitingShaped`), frame upon frame from 0 up (`Bases`). It needs all
frames at once: that the slot `Ret` leaves is plain is known from the callee's point, that
the result is of the expected kind from the caller's, and a tail call must pass both on.
Kinds must be kept by `Ret`, `SetI`, `TailCallI` and the loops of `Iter`, which each move
values between places of different kinds (`Usable`). TLC has checked the invariant on the
programs of `eval_small` and `eval_programs`, with an inferred typing, before it was
proved.

The hypothesis is not empty: `MCEvaluator` infers a typing of each of its programs with loops and
calls (`Inferred`), and `VerifierAccepts`, which every run of the evaluator evaluates,
says that all are verified but those that hand an element of a list to a function. These
would be undefined if the element were a list: its slot is what `Ret` leaves.

The theorems about the frontend hold for every set of files and contents, from
`FileSystemsAssumption` (a file is a sequence of lexemes), `FilesAssumption` (there are
finitely many) and `MaxParsesAssumption`.

- `FrontendTypes`: `Spec => []TypeOK`.
- `NoCyclicInclude`: `Spec => []IncludeStack`.
- `EachFileParsedOnce`: `Spec => []ParsedOnce`.
- `UsesAreClosed`: `Spec => []UsesClosed`.
- `UnitsAreWhole`: `Spec => []WholeUnits`.

The invariant of the first three is `FInv == TypeOK /\ IncludeStack /\ ParsedOnce`, again
inductive only as a whole: a step of the scanner updates the unit of the innermost call,
which is in the table by `ParsedOnce`; that the locations left after `FileEnd` start at
that call's file needs `IncludeStack` below the top of the stack; and a new call does not
repeat a file because every open one is in the table. `UsesAreClosed` adds `Closing`: the
uses of a unit whose call has returned are in the table, those of one whose call is open
are there or pending. `UnitsAreWhole` adds `InProgress`, what the unit being scanned has
so far: for each open stream, what has been read of its file is one include behind what
was read of its includer (`Placed`), and the unit is what these prefixes add, one put in
the place of the other (`Added`). `Expansion`, which the property compares with, is a
recursion that is as deep as there are files; that this is deep enough for every file the
scanner accepts is where `IncludeStack` and the finite number of files are used.

The theorems about the encoding hold for every set of instructions that
`InstsAssumption` admits (every instruction, every immediate of 32 bits, every eight
bytes of a double) and for functions of every length.

- `EncodingTypes`: `Spec => []TypeOK`.
- `PassesStayOnInstructions`: `Spec => []OnInstruction`.
- `ListingIsFaithful`: `Spec => []ListingFaithful`.

Lemmas about the arithmetic of bytes show that an int is put together again from its
four bytes, and that the short form never begins with the mark of the long one; from
them, `Decode`: a pass that stands where an instruction was added reads its number, its
argument and its length. The invariant is `Inv == TypeOK /\ Layout /\ FindInv /\
PrintInv`: `Layout` says that the code is the bytes of `added`, one behind the other;
`FindInv` that the first pass has collected exactly the targets of the jumps it has
passed; `PrintInv` that the listing so far has one line per instruction passed, and
that all targets have been collected. Without `Layout` nothing says that `pc` is at
an instruction; without `FindInv` the label shown for a target need not exist.

The theorems about the generator hold for any set of units; the units that
`ConstEvaluator` has folded are an instance. They rest on `ExprAssumption` (the nodes
have the kids their kinds have) and `UnitsAssumption`.

- `GeneratorTypes`: `GenSpec => []GenTypeOK`.
- `NumbersAreDense`: `GenSpec => []Numbered`.
- `ListingsAreClosed`: `GenSpec => []ListingsClosed`, however conditionals are nested:
  what `nested_conditional` shows is a wrong label, never one that does not exist.

The invariant is `GenInv == Maps /\ Walk /\ Body`. `Maps` makes both numberings dense,
`Walk` places `item` in the unit, and `Body` says what holds in the middle of a function:
every instruction emitted refers to a number that has been given (`InstOf`), every label
lies in the body as it is so far (`BlockOf`), and the blocks a pending task has kept exist
(`TaskOf`). These sets are indexed by the sizes of the maps and of the body and grow with
them, so that what was well formed stays so while blocks and numbers are added.

- `GeneratedIsBalanced`: `GenSpec => []Balanced`.

This one also rests on `TranslatableAssumption`, which says of `Translatable`,
`OneBlock` and `Arity` what section 2 does. The invariant is `BalanceInv`: besides the
property, which speaks of what is printed, `Going` says of a translatable body in the
making that it has a `Flow`. There are a height for each block so far and one behind each
task of `work`, and up to two blocks wait for the join of a conditional; the blocks that
are finished hand their height on to their successors (`Laid`), every instruction finds
its operands (`Runs`), and the tasks lead from the height that is reached to the one
value that is returned (`Through`). That a visit pushes exactly one value is not a
statement about a tree, which would need induction over it, but about the task: what
replaces it on `work` leads to the same height. The join sets `next` of the two blocks
that `then` and `else` began in, and is right only if the branches ended there: a
task of a branch is `Smooth`, it adds no block. At the end of a function the heights are
those that the recursive `Depth` and `Height` compute (`DepthIs`, `HeightIs`).

The theorem about the constant evaluator holds for every unit (`UnitsAssumption`).

- `AssignmentsAreFixed`: `FoldSpec => []LastAssignmentWins`.

Its invariant is the loop's: `Progress` says that the assignments before `index` are
what the part of the scope walked so far amounts to (`Fixes`, the property itself, for
a prefix), that those behind have only moved, and that `localIndices` finds each name;
`FixInv` adds that the scopes that are not fixed yet are as they were parsed.

The theorems about `Compiler` hold for any units, however many, and for every set of
expressions that has with an expression what the passes make of it (`FoldingAssumption`,
which all well-formed trees satisfy).

- `CompilerTypes`: `Spec => []TypeOK`.
- `CompiledNumbers`, `CompiledListings`, `CompiledAssignments`: `Numbered`,
  `ListingsClosed` and `LastAssignmentWins` hold of the composition too.
- `CompiledIsBalanced`: `Balanced` holds of it too, where a body counts that folding has
  made translatable.

`GenSpec` and `FoldSpec` each see a unit of their own; here both work on one, which
folding rewrites and the host takes away in the end. The invariant
`CompilerInv == Turns /\ FixInv /\ GenInv /\ ...` holds together by `Turns`: folding
only moves while the generator is idle, and the other way round, also behind an
exception; and folding makes units out of units (`FoldTurn`).

Only model-checked:

- Liveness under fairness, which is out of the prover's reach: `EvalReturns`, `ParseEnds`,
  `CompiledAndRun` and `PrintReturns`.
- `Computes`: its reference `Meaning` follows calls of functions, and recurses neither
  over the tree alone nor over a number that falls.
- `CallerUntouched`, which compares with the constants that particular programs push: it
  also sees a frame that starts at the wrong place, which `CallersKept` takes as its base.
- `StackDiscipline` and `CallsSupplied` of programs the verifier does not accept, such as
  the ones just named.

The library's induction theorems take an operator as a parameter, which the provers
cannot instantiate. Where a proof needs induction over numbers (the depth of lists, of
includes, of a recursion), it is an instance of well-foundedness: a set of numbers that
is not empty has a least element (`Least`). That `MappedOn` and `VisitedOn` compute what
they should is induction over trees and is not attempted; all of these are recursive
functions, so that the modules stay provable.

## 5. What is not modelled, and the plan

- The AST printer: it only writes.
- Of the numbers, that they are doubles: DIV, MOD, EXP and the functions of
  `BuiltinUnaryOp` take the paths of ADD and NEG and differ in what they compute.
- Of the constant evaluator, the arguments and conditions of module calls, which are
  mapped like those of calls, and that the bodies of the file's own module calls come
  behind its functions: `VisitFunctions` stands behind all scopes.
- Of the generator, nothing that changes its state; it has no code yet for lists, ranges,
  indices, let, lambdas and comprehensions, nor for modules.
- Of the scanner the character level: strings, comments, numbers and start conditions; of
  locations the columns, and `begin` apart from `end`.
- Of the grammar, calls, lists, let, lambdas, modules and parameters: Bison generates the
  automaton, and only how operators bind is contested.
- Builds where `char` is unsigned, `int` has not 32 bits, or the highest byte comes first.

Plan:

1. `Locations`: begin, end, columns and lines of the tokens of a file against the text,
   with the rules of `scanner.l` that move them. Candidates: columns counted twice
   (`scanner.l:54`), a name kept from an earlier include (`scanner.l:52`).
2. `Compiler` with `Evaluator` in the place of `StackMachine`, once a call drops the slot
   of `call_operand`.
3. Proofs: that the listings of translatable bodies, once `Link` has laid them out, are a
   verified program. `Balanced` is what it takes of the listings; what is left is induction
   over the blocks that `Link` puts one behind the other, and that `Ret` leaves no slot:
   functions without parameters have none that could be plain.
