-------------------------- MODULE BytecodeGenProofs -------------------------
(***************************************************************************)
(* Proofs about BytecodeGen, for any units and any number of them.  The    *)
(* invariant types what is being generated by the numbers it may use:      *)
(* InstOf(f, g), BlockOf(n, f, g) and TaskOf(n) are the instructions,      *)
(* blocks and tasks that fit f functions, g globals and n blocks, and grow *)
(* with them; a visit keeps every part within its set.                     *)
(*                                                                         *)
(* Balanced needs more: how many values the stack of the machine holds at  *)
(* the start of each block, and how many are behind each task that is      *)
(* still to be done.  A visit of a node goes from one height to the next,  *)
(* whatever it has in it; Flow says so of the body as it is so far.        *)
(***************************************************************************)
EXTENDS GeneratedCode, FiniteSetTheorems, SequenceTheorems, TLAPS

\* The numbers of functions and globals met so far.
Functions == Cardinality(DOMAIN functionMap)
Globals == Cardinality(DOMAIN globalMap)

\* Resolved, among f functions and g globals.
InstOf(f, g) == {i \in Inst : /\ i.op = "CallI" => i.imm \in 0..(f - 1)
                              /\ i.op = "GetGlobalI" => i.imm \in 0..(g - 1)}

\* The labels of a function with n blocks.
Label(n) == 0..(n - 1)

\* A block of a function with n blocks that is still being generated.
BlockOf(n, f, g) == [instructions : Seq(InstOf(f, g)), jumpFalse : {None} \cup Label(n),
                     next : Label(n)]

\* What remains to be done with n blocks: the task fits its node.
Fits(t, n) == /\ t.do = "operate" => t.node.kind \in {"Unary", "Binary"}
              /\ t.do = "call" => t.node.kind = "Call" /\ t.node.kids[1].kind = "Ident"
              /\ t.do \in {"then", "else", "join"} => t.node.kind = "IfExpr"
              /\ t.do = "else" => Len(t.blocks) = 2
              /\ t.do = "join" => Len(t.blocks) = 3
              /\ t.blocks \in Seq(Label(n))
TaskOf(n) == {t \in Task : Fits(t, n)}

\* A listing that is closed, among f functions and g globals.
ClosedBlocks(blocks, f, g) ==
  \A l \in 1..Len(blocks) :
    /\ blocks[l].jumpFalse = None \/ InBody(blocks, blocks[l].jumpFalse)
    /\ IF l = Len(blocks) THEN blocks[l].next = None ELSE InBody(blocks, blocks[l].next)
    /\ blocks[l].instructions \in Seq(InstOf(f, g))
ListingOf(f, g) == {x \in Listing : ClosedBlocks(x.blocks, f, g)}

\* The part of the invariant about the numbers.
Maps == /\ DOMAIN functionMap \subseteq Key /\ Numbering(functionMap) /\ Dense(functionMap)
        /\ DOMAIN globalMap \subseteq Key /\ Numbering(globalMap) /\ Dense(globalMap)
        /\ currentFile \in FileHandle

\* The part about the loop over the unit.
Walk == /\ unit \in TranslationUnit /\ unit.scopes # <<>>
        /\ phase \in {"idle", "functions", "globals", "bodies", "body", "done", "failed"}
        /\ item \in Nat \ {0} /\ Numbering(variableLookup)
        /\ phase = "body" => item <= Len(unit.functions)

\* The part about the function that is being generated, and those that were.  Inside
\* a function the current block is the last one.
Body == /\ funbody \in Seq(BasicBlock) /\ tail \in Nat
        /\ phase = "body" => /\ funbody \in Seq(BlockOf(Len(funbody), Functions, Globals))
                             /\ Len(funbody) = tail + 1
        /\ work \in Seq(TaskOf(Len(funbody)))
        /\ phase # "body" => work = <<>>
        /\ listings \in Seq(ListingOf(Functions, Globals))

\* The inductive invariant.
GenInv == Maps /\ Walk /\ Body

-----------------------------------------------------------------------------
\* A name that is new gets the next number; one that is not keeps its own.
LEMMA InsertNumbers ==
  ASSUME NEW map, NEW key, Numbering(map), Dense(map)
  PROVE  LET m == Insert(map, key)
         IN /\ DOMAIN m = DOMAIN map \cup {key} /\ Numbering(m) /\ Dense(m)
            /\ Cardinality(DOMAIN map) <= Cardinality(DOMAIN m)
            /\ Cardinality(DOMAIN map) \in Nat /\ Cardinality(DOMAIN m) \in Nat
            /\ m[key] \in 0..(Cardinality(DOMAIN m) - 1)
<1> DEFINE D == DOMAIN map
           c == Cardinality(D)
           m == Insert(map, key)
<1>1. IsFiniteSet(D) /\ c \in Nat /\ map \in [D -> Nat] /\ \A k \in D : map[k] \in Nat
  BY FS_CardinalityType DEF Numbering
<1>2. CASE key \in D
  <2>1. m = map /\ D \cup {key} = D
    BY <1>2 DEF Insert
  <2>2. map[key] < c /\ map[key] \in Nat
    BY <1>1, <1>2 DEF Dense
  <2>3. map[key] \in 0..(c - 1)
    BY <1>1, <2>2, SMT
  <2>4. c <= c
    BY <1>1, SMT
  <2> QED BY <1>1, <2>1, <2>3, <2>4
<1>3. CASE key \notin D
  <2>1. m = [k \in D \cup {key} |-> IF k = key THEN c ELSE map[k]]
    BY <1>3 DEF Insert
  <2> HIDE DEF m
  <2>2. DOMAIN m = D \cup {key} /\ m[key] = c /\ \A k \in D : m[k] = map[k]
    BY <1>3, <2>1
  <2>3. IsFiniteSet(D \cup {key}) /\ Cardinality(D \cup {key}) = c + 1
    BY <1>1, <1>3, FS_AddElement
  <2>4. m \in [D \cup {key} -> Nat]
    BY <1>1, <2>1
  <2>5. \A k \in D : map[k] < c
    BY DEF Dense
  <2>6. \A k \in DOMAIN m : m[k] < c + 1
    <3> TAKE k \in DOMAIN m
    <3>1. CASE k = key
      BY <1>1, <2>2, <3>1, SMT
    <3>2. CASE k \in D
      <4>1. m[k] \in Nat /\ m[k] < c
        BY <1>1, <2>2, <2>5, <3>2
      <4> QED BY <1>1, <4>1, SMT
    <3> QED BY <2>2, <3>1, <3>2
  <2>7. \A k, l \in DOMAIN m : m[k] = m[l] => k = l
    <3>1. \A k, l \in D : m[k] = m[l] => k = l
      BY <2>2 DEF Dense
    <3>2. \A k \in D : m[k] # c
      <4> TAKE k \in D
      <4>1. m[k] \in Nat /\ m[k] < c
        BY <1>1, <2>2, <2>5
      <4> QED BY <1>1, <4>1, SMT
    <3> QED BY <2>2, <3>1, <3>2
  <2>8. c <= c + 1 /\ c + 1 \in Nat /\ c \in 0..((c + 1) - 1)
    BY <1>1, SMT
  <2>9. Numbering(m) /\ Dense(m)
    BY <2>2, <2>3, <2>4, <2>6, <2>7 DEF Numbering, Dense
  <2>10. /\ DOMAIN m = D \cup {key} /\ Numbering(m) /\ Dense(m) /\ c <= Cardinality(DOMAIN m)
         /\ c \in Nat /\ Cardinality(DOMAIN m) \in Nat
         /\ m[key] \in 0..(Cardinality(DOMAIN m) - 1)
    BY <1>1, <2>2, <2>3, <2>8, <2>9
  <2> QED BY <2>10 DEF m
<1> QED BY <1>2, <1>3

\* What fits some functions and globals fits more of them.
LEMMA Grow ==
  ASSUME NEW f \in Nat, NEW g \in Nat, NEW f2 \in Nat, NEW g2 \in Nat, f <= f2, g <= g2
  PROVE  /\ InstOf(f, g) \subseteq InstOf(f2, g2)
         /\ ListingOf(f, g) \subseteq ListingOf(f2, g2)
         /\ \A n : BlockOf(n, f, g) \subseteq BlockOf(n, f2, g2)
<1>1. 0..(f - 1) \subseteq 0..(f2 - 1) /\ 0..(g - 1) \subseteq 0..(g2 - 1)
  BY SMT
<1>2. InstOf(f, g) \subseteq InstOf(f2, g2)
  BY <1>1 DEF InstOf
<1>3. \A s \in Seq(InstOf(f, g)) : s \in Seq(InstOf(f2, g2))
  BY <1>2, SeqMonotonic
<1>4. ListingOf(f, g) \subseteq ListingOf(f2, g2)
  BY <1>3 DEF ListingOf, ClosedBlocks
<1>5. \A n : BlockOf(n, f, g) \subseteq BlockOf(n, f2, g2)
  BY <1>3 DEF BlockOf
<1> QED BY <1>2, <1>4, <1>5

\* One more block is one more label.
LEMMA Labels ==
  ASSUME NEW n \in Nat
  PROVE  /\ Label(n) \subseteq Label(n + 1) /\ Label(n) \subseteq Nat
         /\ n \in Label(n + 1) /\ 0 \in Label(n + 1) /\ n + 1 \in Nat
BY SMT DEF Label

\* What fits some blocks fits one more.
LEMMA GrowBlocks ==
  ASSUME NEW n \in Nat, NEW f, NEW g
  PROVE  /\ BlockOf(n, f, g) \subseteq BlockOf(n + 1, f, g)
         /\ TaskOf(n) \subseteq TaskOf(n + 1)
         /\ BlockOf(n, f, g) \subseteq BasicBlock
<1>1. Label(n) \subseteq Label(n + 1)
  BY Labels
<1>2. BlockOf(n, f, g) \subseteq BlockOf(n + 1, f, g)
  BY <1>1 DEF BlockOf
<1>3. TaskOf(n) \subseteq TaskOf(n + 1)
  <2>1. \A s \in Seq(Label(n)) : s \in Seq(Label(n + 1))
    BY <1>1, SeqMonotonic
  <2> QED BY <2>1 DEF TaskOf, Fits
<1>4. InstOf(f, g) \subseteq Inst
  BY DEF InstOf
<1>5. \A s \in Seq(InstOf(f, g)) : s \in Seq(Inst)
  BY <1>4, SeqMonotonic
<1>6. Label(n) \subseteq Int /\ {None} \subseteq Int
  BY SMT DEF None, Label
<1>7. BlockOf(n, f, g) \subseteq BasicBlock
  BY <1>5, <1>6 DEF BlockOf, BasicBlock
<1> QED BY <1>2, <1>3, <1>7

\* There are finitely many names.
LEMMA Counts ==
  ASSUME Maps
  PROVE  Functions \in Nat /\ Globals \in Nat
BY FS_CardinalityType DEF Maps, Numbering, Functions, Globals

\* Parameters get numbers.
LEMMA SlotNumbers ==
  ASSUME NEW args \in Seq(STRING)
  PROVE  Numbering(Slots(args))
<1>1. Len(args) \in Nat /\ args \in [1..Len(args) -> STRING] /\ DOMAIN args = 1..Len(args)
  BY LenProperties
<1>2. IsFiniteSet(1..Len(args))
  BY <1>1, FS_Interval
<1>3. args \in Surjection(1..Len(args), Range(args))
  BY <1>1 DEF Surjection, Range
<1>4. IsFiniteSet(Range(args))
  BY <1>2, <1>3, FS_Surjection
<1>5. ASSUME NEW x \in Range(args)
      PROVE  Slots(args)[x] \in Nat
  <2> DEFINE before == {args[i] : i \in {j \in DOMAIN args : \A k \in 1..j : args[k] # x}}
  <2>1. before \subseteq Range(args)
    BY DEF Range
  <2>2. Cardinality(before) \in Nat
    BY <1>4, <2>1, FS_Subset, FS_CardinalityType
  <2> QED BY <2>2 DEF Slots
<1>6. DOMAIN Slots(args) = Range(args) /\ Slots(args) \in [Range(args) -> Nat]
  BY <1>5 DEF Slots
<1> QED BY <1>4, <1>6 DEF Numbering

-----------------------------------------------------------------------------
\* A generator that has seen nothing.
LEMMA InitGenInv == GenInit => GenInv
<1> SUFFICES ASSUME GenInit PROVE GenInv
  OBVIOUS
<1>2. Numbering(<<>>) /\ Dense(<<>>)
  <2>1. IsFiniteSet({})
    BY FS_EmptySet
  <2>2. DOMAIN <<>> = {}
    OBVIOUS
  <2>3. <<>> \in [{} -> Nat]
    BY SMT
  <2> QED BY <2>1, <2>2, <2>3 DEF Numbering, Dense
<1>3. Maps
  BY <1>2 DEF GenInit, Maps
<1>4. NoUnit \in TranslationUnit /\ NoUnit.scopes # <<>>
  BY SMT DEF NoUnit, TranslationUnit
<1>5. Walk
  BY <1>2, <1>4 DEF GenInit, Walk
<1>6. Body
  BY EmptySeq DEF GenInit, Body
<1> QED BY <1>3, <1>5, <1>6 DEF GenInv

-----------------------------------------------------------------------------
(* Expressions. *)

\* What an action on the top of work may use.
LEMMA AtTask ==
  ASSUME GenInv, NEW what, Doing(what)
  PROVE  /\ phase = "body" /\ Len(funbody) = tail + 1 /\ Len(funbody) \in Nat /\ tail \in Nat
         /\ funbody \in Seq(BlockOf(Len(funbody), Functions, Globals))
         /\ Functions \in Nat /\ Globals \in Nat
         /\ Head(work) \in TaskOf(Len(funbody)) /\ Head(work).do = what
         /\ Tail(work) \in Seq(TaskOf(Len(funbody)))
         /\ node \in Expr /\ IsNode(node) /\ node.kids \in Seq(Expr)
<1>1. work # <<>> /\ Head(work).do = what
  BY DEF Doing
<1>2. phase = "body"
  BY <1>1 DEF GenInv, Body
<1>3. /\ Len(funbody) = tail + 1 /\ Len(funbody) \in Nat /\ tail \in Nat
      /\ funbody \in Seq(BlockOf(Len(funbody), Functions, Globals))
  BY <1>2, LenProperties DEF GenInv, Body
<1>4. work \in Seq(TaskOf(Len(funbody)))
  BY DEF GenInv, Body
<1>5. Head(work) \in TaskOf(Len(funbody)) /\ Tail(work) \in Seq(TaskOf(Len(funbody)))
  BY <1>1, <1>4, HeadTailProperties
<1>6. node \in Expr
  BY <1>5 DEF TaskOf, Task, node
<1>7. IsNode(node) /\ node.kids \in Seq(Expr)
  BY <1>6, ExprAssumption DEF IsNode
<1> QED BY <1>1, <1>2, <1>3, <1>5, <1>6, <1>7, Counts DEF GenInv

\* Every expression may be visited.
LEMMA VisitTask ==
  ASSUME NEW e \in Expr, NEW n
  PROVE  Visit(e) \in TaskOf(n)
<1>1. <<>> \in Seq(Nat) /\ <<>> \in Seq(Label(n))
  BY EmptySeq
<1>2. Visit(e) \in Task
  BY <1>1 DEF Visit, Do, Task
<1> QED BY <1>1, <1>2 DEF Visit, Do, TaskOf, Fits

\* The same for a sequence of expressions.
LEMMA VisitTasks ==
  ASSUME NEW s \in Seq(Expr), NEW n
  PROVE  Visits(s) \in Seq(TaskOf(n)) /\ Len(Visits(s)) = Len(s)
<1>1. Len(s) \in Nat /\ DOMAIN s = 1..Len(s) /\ \A i \in 1..Len(s) : s[i] \in Expr
  BY LenProperties, ElementOfSeq
<1>2. \A i \in 1..Len(s) : Visit(s[i]) \in TaskOf(n)
  BY <1>1, VisitTask
<1>3. Visits(s) = [i \in 1..Len(s) |-> Visit(s[i])]
  BY <1>1 DEF Visits
<1>4. Visits(s) \in [1..Len(s) -> TaskOf(n)]
  BY <1>2, <1>3
<1> QED BY <1>1, <1>4, SMT

\* A sequence of one task.
LEMMA OneTask ==
  ASSUME NEW n, NEW t \in TaskOf(n)
  PROVE  <<t>> \in Seq(TaskOf(n))
BY SMT

\* An instruction that fits what is numbered may be emitted.
LEMMA EmitStep ==
  ASSUME GenInv, NEW what, Doing(what), NEW inst, Emit(inst),
         Maps', Functions <= Functions', Globals <= Globals',
         inst \in InstOf(Functions', Globals')
  PROVE  GenInv'
<1> SUFFICES ASSUME NEW n, n = Len(funbody), NEW f, f = Functions', NEW g, g = Globals'
             PROVE  GenInv'
  OBVIOUS
<1> DEFINE S == BlockOf(n, f, g)
<1>1. /\ phase = "body" /\ n = tail + 1 /\ n \in Nat /\ tail \in Nat
      /\ funbody \in Seq(BlockOf(n, Functions, Globals)) /\ Tail(work) \in Seq(TaskOf(n))
      /\ Functions \in Nat /\ Globals \in Nat
  BY AtTask
<1>2. /\ funbody' = [funbody EXCEPT ![tail + 1].instructions = Append(@, inst)]
      /\ work' = Tail(work) /\ tail' = tail
      /\ UNCHANGED <<unit, phase, item, variableLookup, listings>>
  BY DEF Emit, loop
<1>3. f \in Nat /\ g \in Nat
  BY FS_CardinalityType DEF Maps, Numbering, Functions, Globals
<1>4. BlockOf(n, Functions, Globals) \subseteq S /\ ListingOf(Functions, Globals) \subseteq ListingOf(f, g)
  BY <1>1, <1>3, Grow
<1>5. funbody \in Seq(S) /\ tail + 1 \in 1..n
  <2>1. tail + 1 \in 1..n
    BY <1>1, SMT
  <2> QED BY <2>1, <1>1, <1>4, SeqMonotonic
<1>6. funbody[tail + 1] \in S
  BY <1>5, ElementOfSeq
<1> DEFINE b == [funbody[tail + 1] EXCEPT !.instructions = Append(@, inst)]
<1>7. b \in S
  <2>1. funbody[tail + 1].instructions \in Seq(InstOf(f, g))
    BY <1>6 DEF BlockOf
  <2>2. Append(funbody[tail + 1].instructions, inst) \in Seq(InstOf(f, g))
    BY <2>1, AppendProperties
  <2> QED BY <1>6, <2>2 DEF BlockOf
<1>8. funbody' = [funbody EXCEPT ![tail + 1] = b]
  BY <1>2
<1> HIDE DEF b
<1>9. funbody' \in Seq(S) /\ Len(funbody') = n
  <2>1. /\ [funbody EXCEPT ![tail + 1] = b] \in Seq(S)
        /\ Len([funbody EXCEPT ![tail + 1] = b]) = Len(funbody)
    BY <1>5, <1>7, ExceptSeq
  <2> QED BY <1>8, <2>1
<1>10. funbody' \in Seq(BasicBlock)
  <2>1. S \subseteq BasicBlock
    BY <1>1, GrowBlocks
  <2> QED BY <1>9, <2>1, SeqMonotonic
<1>11. listings' \in Seq(ListingOf(f, g))
  <2>1. listings \in Seq(ListingOf(Functions, Globals))
    BY DEF GenInv, Body
  <2> QED BY <1>2, <1>4, <2>1, SeqMonotonic
<1>12. Walk'
  BY <1>2 DEF GenInv, Walk
<1>13. Body'
  BY <1>1, <1>2, <1>9, <1>10, <1>11 DEF Body
<1> QED BY <1>12, <1>13 DEF GenInv

\* Expressions other than configuration variables leave the numbers alone.
LEMMA SameMaps ==
  ASSUME GenInv, UNCHANGED <<names, globalMap>>
  PROVE  /\ Maps' /\ Functions' = Functions /\ Globals' = Globals
         /\ Functions \in Nat /\ Globals \in Nat
<1>1. functionMap' = functionMap /\ globalMap' = globalMap /\ currentFile' = currentFile
  BY DEF names
<1>2. Maps' /\ Functions' = Functions /\ Globals' = Globals
  BY <1>1 DEF GenInv, Maps, Functions, Globals, Dense, Numbering
<1> QED BY <1>2, Counts DEF GenInv

\* The same where nothing is numbered.
LEMMA AddStep ==
  ASSUME GenInv, NEW what, Doing(what), NEW inst \in InstOf(Functions, Globals), Add(inst)
  PROVE  GenInv'
<1>1. Emit(inst) /\ UNCHANGED <<names, globalMap>>
  BY DEF Add, Emit
<1>2. /\ Maps' /\ Functions' = Functions /\ Globals' = Globals
      /\ Functions \in Nat /\ Globals \in Nat
  BY <1>1, SameMaps
<1>3. Functions <= Functions' /\ Globals <= Globals'
  BY <1>2, SMT
<1>4. inst \in InstOf(Functions', Globals')
  BY <1>2
<1> QED BY <1>1, <1>2, <1>3, <1>4, EmitStep

\* Tasks that fit may be scheduled.
LEMMA ScheduleStep ==
  ASSUME GenInv, NEW what, Doing(what), NEW tasks \in Seq(TaskOf(Len(funbody))), Schedule(tasks)
  PROVE  GenInv'
<1>1. /\ work' = tasks \o Tail(work) /\ funbody' = funbody /\ tail' = tail
      /\ UNCHANGED <<unit, phase, item, variableLookup, listings>>
      /\ UNCHANGED <<names, globalMap>>
  BY DEF Schedule, Continue, loop
<1>2. Maps' /\ Functions' = Functions /\ Globals' = Globals
  BY <1>1, SameMaps
<1>3. phase = "body" /\ Tail(work) \in Seq(TaskOf(Len(funbody)))
  BY AtTask
<1>4. work' \in Seq(TaskOf(Len(funbody)))
  BY <1>1, <1>3, ConcatProperties
<1>5. Walk'
  BY <1>1 DEF GenInv, Walk
<1>6. Body'
  BY <1>1, <1>2, <1>3, <1>4 DEF GenInv, Body
<1> QED BY <1>2, <1>5, <1>6 DEF GenInv

\* An exception ends the visit.
LEMMA ThrowStep ==
  ASSUME GenInv, Throw
  PROVE  GenInv'
<1>1. /\ phase' = "failed" /\ work' = <<>> /\ funbody' = funbody /\ tail' = tail
      /\ UNCHANGED <<unit, item, variableLookup, listings>>
      /\ UNCHANGED <<names, globalMap>>
  BY DEF Throw
<1>2. Maps' /\ Functions' = Functions /\ Globals' = Globals
  BY <1>1, SameMaps
<1>3. Walk'
  BY <1>1 DEF GenInv, Walk
<1>4. Body'
  BY <1>1, <1>2, EmptySeq DEF GenInv, Body
<1> QED BY <1>2, <1>3, <1>4 DEF GenInv

\* A new block may be started.
LEMMA NextBlockStep ==
  ASSUME GenInv, NEW what, Doing(what), NEW tasks \in Seq(TaskOf(Len(funbody) + 1)),
         NextBlock(tasks)
  PROVE  GenInv'
<1> SUFFICES ASSUME NEW n, n = Len(funbody) PROVE GenInv'
  OBVIOUS
<1>1. /\ work' = tasks \o Tail(work) /\ funbody' = Append(funbody, NewBlock) /\ tail' = n
      /\ UNCHANGED <<unit, phase, item, variableLookup, listings>>
      /\ UNCHANGED <<names, globalMap>>
  BY DEF NextBlock, Continue, loop
<1>2. Maps' /\ Functions' = Functions /\ Globals' = Globals
  BY <1>1, SameMaps
<1>3. /\ phase = "body" /\ n \in Nat /\ Tail(work) \in Seq(TaskOf(n))
      /\ funbody \in Seq(BlockOf(n, Functions, Globals))
  BY AtTask
<1>4. Tail(work) \in Seq(TaskOf(n + 1)) /\ funbody \in Seq(BlockOf(n + 1, Functions, Globals))
  BY <1>3, GrowBlocks, SeqMonotonic
<1>5. NewBlock \in BlockOf(n + 1, Functions, Globals)
  <2>1. 0 \in Label(n + 1)
    BY <1>3, Labels
  <2> QED BY <2>1, EmptySeq DEF NewBlock, BlockOf
<1>6. funbody' \in Seq(BlockOf(n + 1, Functions, Globals)) /\ Len(funbody') = n + 1
  BY <1>1, <1>4, <1>5, AppendProperties
<1>7. funbody' \in Seq(BasicBlock)
  <2>1. n + 1 \in Nat
    BY <1>3, SMT
  <2>2. BlockOf(n + 1, Functions, Globals) \subseteq BasicBlock
    BY <2>1, GrowBlocks
  <2> QED BY <1>6, <2>2, SeqMonotonic
<1>8. work' \in Seq(TaskOf(n + 1))
  BY <1>1, <1>4, ConcatProperties
<1>9. Walk'
  BY <1>1 DEF GenInv, Walk
<1>10. Body'
  BY <1>1, <1>2, <1>3, <1>6, <1>7, <1>8 DEF GenInv, Body
<1> QED BY <1>2, <1>9, <1>10 DEF GenInv

\* Instructions that fit.
LEMMA PlainInsts ==
  ASSUME NEW f, NEW g
  PROVE  /\ \A op \in {"ConstNum", "ConstMisc", "GetI"}, n \in Int : Immediate(op, n) \in InstOf(f, g)
         /\ \A how \in UnaryOp \cup Range(Builtins) : Unary(how) \in InstOf(f, g)
         /\ \A how \in BinaryOp : Binary(how) \in InstOf(f, g)
         /\ \A n \in 0..(f - 1) : Immediate("CallI", n) \in InstOf(f, g)
         /\ \A n \in 0..(g - 1) : Immediate("GetGlobalI", n) \in InstOf(f, g)
<1>1. ASSUME NEW op \in {"ConstNum", "ConstMisc", "GetI"}, NEW n \in Int
      PROVE  Immediate(op, n) \in InstOf(f, g)
  BY DEF Immediate, InstOf, Inst
<1>2. /\ \A how \in UnaryOp \cup Range(Builtins) : Unary(how) \in InstOf(f, g)
      /\ \A how \in BinaryOp : Binary(how) \in InstOf(f, g)
  BY DEF Unary, Binary, InstOf, Inst
<1>3. ASSUME NEW n \in 0..(f - 1)
      PROVE  Immediate("CallI", n) \in InstOf(f, g)
  <2>1. n \in Int
    BY SMT
  <2> QED BY <2>1 DEF Immediate, InstOf, Inst
<1>4. ASSUME NEW n \in 0..(g - 1)
      PROVE  Immediate("GetGlobalI", n) \in InstOf(f, g)
  <2>1. n \in Int
    BY SMT
  <2> QED BY <2>1 DEF Immediate, InstOf, Inst
<1> QED BY <1>1, <1>2, <1>3, <1>4

\* Numbers that were given fit.
LEMMA MapNumbers ==
  ASSUME Maps
  PROVE  /\ \A k \in DOMAIN functionMap : functionMap[k] \in 0..(Functions - 1)
         /\ \A k \in DOMAIN globalMap : globalMap[k] \in 0..(Globals - 1)
<1>1. Functions \in Nat /\ Globals \in Nat
  BY Counts
<1>2. ASSUME NEW k \in DOMAIN functionMap PROVE functionMap[k] \in 0..(Functions - 1)
  <2>1. functionMap[k] \in Nat /\ functionMap[k] < Functions
    BY DEF Maps, Numbering, Dense, Functions
  <2> QED BY <1>1, <2>1, SMT
<1>3. ASSUME NEW k \in DOMAIN globalMap PROVE globalMap[k] \in 0..(Globals - 1)
  <2>1. globalMap[k] \in Nat /\ globalMap[k] < Globals
    BY DEF Maps, Numbering, Dense, Globals
  <2> QED BY <1>1, <2>1, SMT
<1> QED BY <1>2, <1>3

\* visit of a NumberNode, a StringNode, an UndefNode or a name.
LEMMA VisitLeafStep ==
  ASSUME GenInv, VisitNumber \/ VisitString \/ VisitUndef \/ VisitIdent
  PROVE  GenInv'
<1>1. CASE VisitNumber
  <2>1. Doing("visit") /\ Add(Immediate("ConstNum", node.value))
    BY <1>1 DEF VisitNumber, Visiting
  <2>2. node.value \in Int
    BY <2>1, AtTask DEF IsNode
  <2>3. Immediate("ConstNum", node.value) \in InstOf(Functions, Globals)
    BY <2>2, PlainInsts
  <2> QED BY <2>1, <2>3, AddStep
<1>2. CASE VisitString
  BY <1>2, ThrowStep DEF VisitString
<1>3. CASE VisitUndef
  <2>1. Doing("visit") /\ Add(Immediate("ConstMisc", 2))
    BY <1>3 DEF VisitUndef, Visiting
  <2>2. 2 \in Int
    BY SMT
  <2>3. Immediate("ConstMisc", 2) \in InstOf(Functions, Globals)
    BY <2>2, PlainInsts
  <2> QED BY <2>1, <2>3, AddStep
<1>4. CASE VisitIdent
  <2>1. Doing("visit") /\ Add(Lookup(node))
    BY <1>4 DEF VisitIdent, Visiting
  <2>2. CASE node.name \in DOMAIN variableLookup
    <3>1. variableLookup[node.name] \in Nat
      BY <2>2 DEF GenInv, Walk, Numbering
    <3>2. variableLookup[node.name] \in Int
      BY <3>1, SMT
    <3>3. Lookup(node) = Immediate("GetI", variableLookup[node.name])
      BY <2>2 DEF Lookup
    <3>4. Lookup(node) \in InstOf(Functions, Globals)
      BY <3>2, <3>3, PlainInsts
    <3> QED BY <2>1, <3>4, AddStep
  <2>3. CASE node.name \notin DOMAIN variableLookup /\ File(node.name) \in DOMAIN globalMap
    <3>1. Lookup(node) = Immediate("GetGlobalI", globalMap[File(node.name)])
      BY <2>3 DEF Lookup
    <3>2. Lookup(node) \in InstOf(Functions, Globals)
      BY <2>3, <3>1, MapNumbers, PlainInsts DEF GenInv
    <3> QED BY <2>1, <3>2, AddStep
  <2>4. CASE node.name \notin DOMAIN variableLookup /\ File(node.name) \notin DOMAIN globalMap
    <3>1. Lookup(node) = Immediate("ConstMisc", 2)
      BY <2>4 DEF Lookup
    <3>2. 2 \in Int
      BY SMT
    <3>3. Lookup(node) \in InstOf(Functions, Globals)
      BY <3>1, <3>2, PlainInsts
    <3> QED BY <2>1, <3>3, AddStep
  <2> QED BY <2>2, <2>3, <2>4
<1> QED BY <1>1, <1>2, <1>3, <1>4

\* visit of a $name, which may number a new global.
LEMMA ConfigVarStep ==
  ASSUME GenInv, VisitConfigVar
  PROVE  GenInv'
<1> DEFINE key == <<"max", node.name>>
<1>1. /\ Doing("visit") /\ isConfigVar(node)
      /\ globalMap' = Insert(globalMap, key)
      /\ Emit(Immediate("GetGlobalI", globalMap'[key]))
      /\ functionMap' = functionMap /\ currentFile' = currentFile
  BY DEF VisitConfigVar, Visiting, Emit, names
<1>2. node.name \in STRING
  BY <1>1, AtTask DEF IsNode
<1>3. key \in Key
  BY <1>2 DEF Key, FileHandle
<1>4. Maps
  BY DEF GenInv
<1> HIDE DEF key
<1>5. /\ DOMAIN globalMap' = DOMAIN globalMap \cup {key}
      /\ Numbering(globalMap)' /\ Dense(globalMap)'
      /\ Globals <= Globals' /\ globalMap'[key] \in 0..(Globals' - 1)
  <2>1. Numbering(globalMap) /\ Dense(globalMap)
    BY <1>4 DEF Maps
  <2> QED BY <1>1, <2>1, InsertNumbers DEF Globals, Numbering, Dense
<1>6. Maps' /\ Functions' = Functions
  BY <1>1, <1>3, <1>4, <1>5 DEF Maps, Numbering, Dense, Functions
<1>7. Functions <= Functions'
  <2>1. Functions \in Nat
    BY <1>4, Counts
  <2> QED BY <1>6, <2>1, SMT
<1>8. Immediate("GetGlobalI", globalMap'[key]) \in InstOf(Functions', Globals')
  BY <1>5, PlainInsts
<1> QED BY <1>1, <1>5, <1>6, <1>7, <1>8, EmitStep

\* A task that keeps no blocks.
LEMMA DoTask ==
  ASSUME NEW n, NEW e \in Expr, NEW what \in {"operate", "call", "then"},
         what = "operate" => e.kind \in {"Unary", "Binary"},
         what = "call" => e.kind = "Call" /\ e.kids[1].kind = "Ident",
         what = "then" => e.kind = "IfExpr"
  PROVE  Do(what, e, <<>>) \in TaskOf(n)
<1>1. <<>> \in Seq(Nat) /\ <<>> \in Seq(Label(n))
  BY EmptySeq
<1>2. Do(what, e, <<>>) \in Task
  BY <1>1 DEF Do, Task
<1> QED BY <1>1, <1>2 DEF Do, TaskOf, Fits

\* visit of a UnaryOpNode or a BinaryOpNode.
LEMMA OperatorStep ==
  ASSUME GenInv, VisitOperator \/ Operate
  PROVE  GenInv'
<1>1. CASE VisitOperator
  <2> DEFINE tasks == Append(Visits(node.kids), Do("operate", node, <<>>))
  <2>1. Doing("visit") /\ node.kind \in {"Unary", "Binary"} /\ Schedule(tasks)
    BY <1>1 DEF VisitOperator, Visiting
  <2>2. node \in Expr /\ node.kids \in Seq(Expr)
    BY <2>1, AtTask
  <2>3. Do("operate", node, <<>>) \in TaskOf(Len(funbody))
    BY <2>1, <2>2, DoTask
  <2>4. Visits(node.kids) \in Seq(TaskOf(Len(funbody)))
    BY <2>2, VisitTasks
  <2>5. tasks \in Seq(TaskOf(Len(funbody)))
    BY <2>3, <2>4, AppendProperties
  <2> QED BY <2>1, <2>5, ScheduleStep
<1>2. CASE Operate
  <2> DEFINE inst == IF node.kind = "Unary" THEN Unary(node.name) ELSE Binary(node.name)
  <2>1. Doing("operate") /\ Add(inst)
    BY <1>2 DEF Operate
  <2>2. node.kind \in {"Unary", "Binary"} /\ IsNode(node)
    BY <2>1, AtTask DEF TaskOf, Fits, node
  <2>3. node.name \in IF node.kind = "Unary" THEN UnaryOp ELSE BinaryOp
    BY <2>2 DEF IsNode, Leaf, Unsupported
  <2>4. inst \in InstOf(Functions, Globals)
    BY <2>2, <2>3, PlainInsts
  <2> QED BY <2>1, <2>4, AddStep
<1> QED BY <1>1, <1>2

\* The inherited traversal.
LEMMA OtherStep ==
  ASSUME GenInv, VisitOther
  PROVE  GenInv'
<1> DEFINE m == Cardinality(Visited(node))
           all == Visits(node.kids)
<1>1. Doing("visit") /\ node.kind \in Unsupported /\ Schedule(SubSeq(all, 1, m))
  BY DEF VisitOther, Visiting
<1>2. node \in Expr /\ IsNode(node) /\ node.kids \in Seq(Expr)
  BY <1>1, AtTask
<1>3. all \in Seq(TaskOf(Len(funbody))) /\ Len(all) = Len(node.kids)
  BY <1>2, VisitTasks
<1>4. Len(node.kids) \in Nat /\ DOMAIN node.kids = 1..Len(node.kids)
  BY <1>2, LenProperties
<1>5. m \in Nat /\ m <= Len(node.kids)
  <2>1. CASE node.kind = "ListCompC"
    <3>1. Cardinality(1..3) = 3
      <4>1. ASSUME NEW b \in Int, b = 3 PROVE Cardinality(1..b) = 3
        <5>1. Cardinality(1..b) = IF 1 > b THEN 0 ELSE b - 1 + 1
          BY FS_Interval
        <5> QED BY <4>1, <5>1, SMT
      <4>2. 3 \in Int
        BY SMT
      <4> QED BY <4>1, <4>2
    <3>2. Len(node.kids) >= 3
      BY <1>1, <1>2, <2>1 DEF IsNode, Leaf
    <3>3. m = 3
      BY <2>1, <3>1 DEF Visited
    <3> QED BY <1>4, <3>2, <3>3, SMT
  <2>2. CASE node.kind # "ListCompC"
    <3>1. m = Cardinality(1..Len(node.kids))
      BY <1>4, <2>2 DEF Visited
    <3>2. 1 \in Int /\ Len(node.kids) \in Int
      BY <1>4, SMT
    <3>3. Cardinality(1..Len(node.kids)) = IF 1 > Len(node.kids) THEN 0 ELSE Len(node.kids) - 1 + 1
      BY <3>2, FS_Interval
    <3> HIDE DEF m
    <3>4. m = IF 1 > Len(node.kids) THEN 0 ELSE Len(node.kids) - 1 + 1
      BY <3>1, <3>3
    <3> QED BY <1>4, <3>4, SMT
  <2> QED BY <2>1, <2>2
<1> HIDE DEF m, all
<1>6. /\ 1 \in Int /\ m \in Int /\ \A i \in 1..m : i \in 1..Len(all)
  BY <1>3, <1>4, <1>5, SMT
<1>7. \A i \in 1..m : all[i] \in TaskOf(Len(funbody))
  BY <1>3, <1>6, ElementOfSeq
<1>8. SubSeq(all, 1, m) \in Seq(TaskOf(Len(funbody)))
  BY <1>6, <1>7, SubSeqProperties
<1> QED BY <1>1, <1>8, ScheduleStep

\* visit of a CallNode.
LEMMA CallStep ==
  ASSUME GenInv, VisitCall \/ Call
  PROVE  GenInv'
<1>1. CASE VisitCall
  <2> DEFINE tasks == Append(Visits(Tail(node.kids)), Do("call", node, <<>>))
  <2>1. /\ Doing("visit") /\ node.kind = "Call"
        /\ \/ node.kids[1].kind = "Ident" /\ Schedule(tasks)
           \/ Throw
    BY <1>1 DEF VisitCall, Visiting
  <2>2. CASE node.kids[1].kind = "Ident" /\ Schedule(tasks)
    <3>1. node \in Expr /\ node.kids \in Seq(Expr) /\ IsNode(node)
      BY <2>1, AtTask
    <3>2. Len(node.kids) >= 1
      BY <2>1, <3>1 DEF IsNode, Leaf, Unsupported
    <3>3. node.kids # <<>>
      <4>1. Len(<<>>) = 0
        BY EmptySeq
      <4> QED BY <3>2, <4>1, SMT
    <3>4. Tail(node.kids) \in Seq(Expr)
      BY <3>1, <3>3, HeadTailProperties
    <3>5. Do("call", node, <<>>) \in TaskOf(Len(funbody))
      BY <2>1, <2>2, <3>1, DoTask
    <3>6. Visits(Tail(node.kids)) \in Seq(TaskOf(Len(funbody)))
      BY <3>4, VisitTasks
    <3>7. tasks \in Seq(TaskOf(Len(funbody)))
      BY <3>5, <3>6, AppendProperties
    <3> QED BY <2>1, <2>2, <3>7, ScheduleStep
  <2> QED BY <2>1, <2>2, ThrowStep
<1>2. CASE Call
  <2>1. /\ Doing("call")
        /\ \/ /\ File(Callee) \in DOMAIN functionMap
              /\ Add(Immediate("CallI", functionMap[File(Callee)]))
           \/ Callee \in DOMAIN Builtins /\ Add(Unary(Builtins[Callee]))
           \/ Throw
    BY <1>2 DEF Call
  <2>2. CASE /\ File(Callee) \in DOMAIN functionMap
             /\ Add(Immediate("CallI", functionMap[File(Callee)]))
    <3>1. Immediate("CallI", functionMap[File(Callee)]) \in InstOf(Functions, Globals)
      BY <2>2, MapNumbers, PlainInsts DEF GenInv
    <3> QED BY <2>1, <2>2, <3>1, AddStep
  <2>3. CASE Callee \in DOMAIN Builtins /\ Add(Unary(Builtins[Callee]))
    <3>1. Builtins[Callee] \in Range(Builtins)
      BY <2>3 DEF Range
    <3>2. Unary(Builtins[Callee]) \in InstOf(Functions, Globals)
      BY <3>1, PlainInsts
    <3> QED BY <2>1, <2>3, <3>2, AddStep
  <2> QED BY <2>1, <2>2, <2>3, ThrowStep
<1> QED BY <1>1, <1>2

\* What the parts of visit(IfExprNode) may use: the blocks in its locals exist.
LEMMA IfKids ==
  ASSUME GenInv, NEW what \in {"visit", "then", "else", "join"}, Doing(what),
         what = "visit" => node.kind = "IfExpr"
  PROVE  /\ node.kind = "IfExpr" /\ node \in Expr
         /\ node.kids[1] \in Expr /\ node.kids[2] \in Expr /\ node.kids[3] \in Expr
         /\ what = "else" => Len(Head(work).blocks) = 2
         /\ what = "join" => Len(Head(work).blocks) = 3
         /\ Head(work).blocks \in Seq(Label(Len(funbody)))
<1>1. Head(work) \in TaskOf(Len(funbody)) /\ Head(work).do = what
  BY AtTask
<1>2. Head(work) \in Task /\ Fits(Head(work), Len(funbody))
  BY <1>1 DEF TaskOf
<1>3. node.kind = "IfExpr"
  BY <1>1, <1>2 DEF Fits, node
<1>4. node \in Expr /\ node.kids \in Seq(Expr) /\ Len(node.kids) = 3
  BY <1>3, AtTask DEF IsNode, Leaf, Unsupported
<1>5. 1 \in 1..3 /\ 2 \in 1..3 /\ 3 \in 1..3
  BY SMT
<1>6. node.kids[1] \in Expr /\ node.kids[2] \in Expr /\ node.kids[3] \in Expr
  BY <1>4, <1>5, ElementOfSeq
<1> QED BY <1>1, <1>2, <1>3, <1>4, <1>6 DEF Fits, Task

\* A sequence of two tasks.
LEMMA TwoTasks ==
  ASSUME NEW n, NEW t \in TaskOf(n), NEW u \in TaskOf(n)
  PROVE  <<t, u>> \in Seq(TaskOf(n))
BY SMT

\* A task for an IfExprNode, with the blocks its caller keeps.
LEMMA BlockTask ==
  ASSUME NEW n \in Nat, NEW e \in Expr, e.kind = "IfExpr", NEW what \in {"else", "join"},
         NEW ids \in Seq(Label(n)), Len(ids) = IF what = "else" THEN 2 ELSE 3
  PROVE  Do(what, e, ids) \in TaskOf(n)
<1>1. Label(n) \subseteq Nat
  BY Labels
<1>2. ids \in Seq(Nat)
  BY <1>1, SeqMonotonic
<1>3. Do(what, e, ids) \in Task
  BY <1>2 DEF Do, Task
<1> QED BY <1>3 DEF Do, TaskOf, Fits

\* visit of an IfExprNode, up to the end of its second branch.
LEMMA IfStep ==
  ASSUME GenInv, VisitIfExpr \/ IfThen \/ IfElse
  PROVE  GenInv'
<1> SUFFICES ASSUME NEW n, n = Len(funbody) PROVE GenInv'
  OBVIOUS
<1>1. CASE VisitIfExpr
  <2>1. Doing("visit") /\ node.kind = "IfExpr"
        /\ Schedule(<<Visit(node.kids[1]), Do("then", node, <<>>)>>)
    BY <1>1 DEF VisitIfExpr, Visiting
  <2>2. node \in Expr /\ node.kids[1] \in Expr
    BY <2>1, IfKids
  <2>3. Visit(node.kids[1]) \in TaskOf(Len(funbody)) /\ Do("then", node, <<>>) \in TaskOf(Len(funbody))
    BY <2>1, <2>2, VisitTask, DoTask
  <2>4. <<Visit(node.kids[1]), Do("then", node, <<>>)>> \in Seq(TaskOf(Len(funbody)))
    BY <2>3, TwoTasks
  <2> QED BY <2>1, <2>4, ScheduleStep
<1>2. CASE IfThen
  <2>1. Doing("then")
        /\ NextBlock(<<Visit(node.kids[2]), Do("else", node, <<tail, Len(funbody)>>)>>)
    BY <1>2 DEF IfThen
  <2>2. node.kind = "IfExpr" /\ node \in Expr /\ node.kids[2] \in Expr
    BY <2>1, IfKids
  <2>3. n \in Nat /\ n = tail + 1 /\ tail \in Nat
    BY <2>1, AtTask
  <2>4. tail \in Label(n + 1) /\ n \in Label(n + 1) /\ n + 1 \in Nat
    BY <2>3, Labels
  <2>5. <<tail, n>> \in Seq(Label(n + 1)) /\ Len(<<tail, n>>) = 2
    BY <2>4
  <2>6. Do("else", node, <<tail, n>>) \in TaskOf(n + 1)
    BY <2>2, <2>4, <2>5, BlockTask
  <2>7. Visit(node.kids[2]) \in TaskOf(n + 1)
    BY <2>2, VisitTask
  <2>8. <<Visit(node.kids[2]), Do("else", node, <<tail, n>>)>> \in Seq(TaskOf(n + 1))
    BY <2>6, <2>7, TwoTasks
  <2> QED BY <2>1, <2>8, NextBlockStep
<1>3. CASE IfElse
  <2> DEFINE ids == Append(Head(work).blocks, n)
  <2>1. Doing("else") /\ NextBlock(<<Visit(node.kids[3]), Do("join", node, ids)>>)
    BY <1>3 DEF IfElse
  <2>2. /\ node.kind = "IfExpr" /\ node \in Expr /\ node.kids[3] \in Expr
        /\ Len(Head(work).blocks) = 2 /\ Head(work).blocks \in Seq(Label(n))
    BY <2>1, IfKids
  <2>3. n \in Nat
    BY <2>1, AtTask
  <2>4. n \in Label(n + 1) /\ n + 1 \in Nat /\ Label(n) \subseteq Label(n + 1)
    BY <2>3, Labels
  <2>5. Head(work).blocks \in Seq(Label(n + 1))
    BY <2>2, <2>4, SeqMonotonic
  <2>6. ids \in Seq(Label(n + 1)) /\ Len(ids) = 3
    <3>1. ids \in Seq(Label(n + 1)) /\ Len(ids) = Len(Head(work).blocks) + 1
      BY <2>4, <2>5, AppendProperties
    <3>2. 2 + 1 = 3
      BY SMT
    <3> QED BY <2>2, <3>1, <3>2
  <2> HIDE DEF ids
  <2>7. Do("join", node, ids) \in TaskOf(n + 1)
    BY <2>2, <2>4, <2>6, BlockTask
  <2>8. Visit(node.kids[3]) \in TaskOf(n + 1)
    BY <2>2, VisitTask
  <2>9. <<Visit(node.kids[3]), Do("join", node, ids)>> \in Seq(TaskOf(n + 1))
    BY <2>7, <2>8, TwoTasks
  <2> QED BY <2>1, <2>9, NextBlockStep
<1> QED BY <1>1, <1>2, <1>3

\* The assignments that join the branches.
SetNext(B, l, x) == [B EXCEPT ![l + 1].next = x]
SetJumpFalse(B, l, x) == [B EXCEPT ![l + 1].jumpFalse = x]

\* A label of the function may become a successor.
LEMMA SetSuccessors ==
  ASSUME NEW m \in Nat, NEW f, NEW g, NEW B \in Seq(BlockOf(m, f, g)), Len(B) = m,
         NEW l \in Label(m), NEW x \in Label(m)
  PROVE  /\ SetNext(B, l, x) \in Seq(BlockOf(m, f, g)) /\ Len(SetNext(B, l, x)) = m
         /\ SetJumpFalse(B, l, x) \in Seq(BlockOf(m, f, g)) /\ Len(SetJumpFalse(B, l, x)) = m
<1> DEFINE b == [B[l + 1] EXCEPT !.next = x]
           c == [B[l + 1] EXCEPT !.jumpFalse = x]
<1>1. l + 1 \in 1..Len(B)
  BY SMT DEF Label
<1>2. B[l + 1] \in BlockOf(m, f, g)
  BY <1>1, ElementOfSeq
<1>3. b \in BlockOf(m, f, g) /\ c \in BlockOf(m, f, g)
  BY <1>2 DEF BlockOf
<1>4. SetNext(B, l, x) = [B EXCEPT ![l + 1] = b]
  BY DEF SetNext
<1>5. SetJumpFalse(B, l, x) = [B EXCEPT ![l + 1] = c]
  BY DEF SetJumpFalse
<1> HIDE DEF b, c
<1>6. /\ [B EXCEPT ![l + 1] = b] \in Seq(BlockOf(m, f, g)) /\ Len([B EXCEPT ![l + 1] = b]) = m
      /\ [B EXCEPT ![l + 1] = c] \in Seq(BlockOf(m, f, g)) /\ Len([B EXCEPT ![l + 1] = c]) = m
  BY <1>1, <1>3, ExceptSeq
<1> QED BY <1>4, <1>5, <1>6

\* So may all of a conditional.
LEMMA JoinedBlocks ==
  ASSUME NEW f, NEW g, NEW m \in Nat, NEW B \in Seq(BlockOf(m, f, g)), Len(B) = m,
         NEW current \in Label(m), NEW true \in Label(m), NEW false \in Label(m),
         NEW end \in Label(m)
  PROVE  /\ Joined(B, current, true, false, end) \in Seq(BlockOf(m, f, g))
         /\ Len(Joined(B, current, true, false, end)) = m
<1> DEFINE B1 == SetNext(B, true, end)
           B2 == SetNext(B1, false, end)
           B3 == SetJumpFalse(B2, current, false)
           B4 == SetNext(B3, current, true)
           S == Seq(BlockOf(m, f, g))
<1>1. Joined(B, current, true, false, end) = B4
  BY DEF Joined, SetNext, SetJumpFalse
<1>2. B1 \in S /\ Len(B1) = m
  BY SetSuccessors
<1> HIDE DEF B1
<1>3. B2 \in S /\ Len(B2) = m
  BY <1>2, SetSuccessors
<1> HIDE DEF B2
<1>4. B3 \in S /\ Len(B3) = m
  BY <1>3, SetSuccessors
<1> HIDE DEF B3
<1>5. B4 \in S /\ Len(B4) = m
  BY <1>4, SetSuccessors
<1> HIDE DEF B4
<1> QED BY <1>1, <1>5

\* The end of visit(IfExprNode).
LEMMA JoinStep ==
  ASSUME GenInv, IfJoin
  PROVE  GenInv'
<1> SUFFICES ASSUME NEW n, n = Len(funbody) PROVE GenInv'
  OBVIOUS
<1> DEFINE ids == Head(work).blocks
           B == Append(funbody, NewBlock)
           S == BlockOf(n + 1, Functions, Globals)
<1>1. /\ Doing("join")
      /\ funbody' = Joined(B, ids[1], ids[2], ids[3], n)
      /\ work' = <<>> \o Tail(work) /\ tail' = n
      /\ UNCHANGED <<unit, phase, item, variableLookup, listings>>
      /\ UNCHANGED <<names, globalMap>>
  BY DEF IfJoin, Continue, loop
<1>2. Maps' /\ Functions' = Functions /\ Globals' = Globals
  BY <1>1, SameMaps
<1>3. /\ phase = "body" /\ n \in Nat /\ Tail(work) \in Seq(TaskOf(n))
      /\ funbody \in Seq(BlockOf(n, Functions, Globals))
  BY <1>1, AtTask
<1>4. Tail(work) \in Seq(TaskOf(n + 1)) /\ funbody \in Seq(S)
  BY <1>3, GrowBlocks, SeqMonotonic
<1>5. NewBlock \in S
  <2>1. 0 \in Label(n + 1)
    BY <1>3, Labels
  <2> QED BY <2>1, EmptySeq DEF NewBlock, BlockOf
<1>6. B \in Seq(S) /\ Len(B) = n + 1
  BY <1>4, <1>5, AppendProperties
<1>7. /\ ids[1] \in Label(n + 1) /\ ids[2] \in Label(n + 1) /\ ids[3] \in Label(n + 1)
      /\ n \in Label(n + 1) /\ n + 1 \in Nat
  <2>1. Len(ids) = 3 /\ ids \in Seq(Label(n))
    BY <1>1, IfKids
  <2>2. 1 \in 1..3 /\ 2 \in 1..3 /\ 3 \in 1..3
    BY SMT
  <2>3. ids[1] \in Label(n) /\ ids[2] \in Label(n) /\ ids[3] \in Label(n)
    BY <2>1, <2>2, ElementOfSeq
  <2>4. Label(n) \subseteq Label(n + 1) /\ n \in Label(n + 1) /\ n + 1 \in Nat
    BY <1>3, Labels
  <2> QED BY <2>3, <2>4
<1> HIDE DEF ids, B
<1>8. funbody' \in Seq(S) /\ Len(funbody') = n + 1
  BY <1>1, <1>6, <1>7, JoinedBlocks
<1>9. funbody' \in Seq(BasicBlock)
  <2>1. S \subseteq BasicBlock
    BY <1>7, GrowBlocks
  <2> QED BY <1>8, <2>1, SeqMonotonic
<1>10. work' \in Seq(TaskOf(n + 1))
  BY <1>1, <1>4, ConcatEmptySeq
<1>11. Walk'
  BY <1>1 DEF GenInv, Walk
<1>12. Body'
  BY <1>1, <1>2, <1>3, <1>8, <1>9, <1>10 DEF GenInv, Body
<1> QED BY <1>2, <1>11, <1>12 DEF GenInv

\* Every visit of an expression.
LEMMA ExprStep ==
  ASSUME GenInv, VisitExpr
  PROVE  GenInv'
BY VisitLeafStep, ConfigVarStep, OperatorStep, OtherStep, CallStep, IfStep, JoinStep DEF VisitExpr

-----------------------------------------------------------------------------
(* Units. *)

\* The parts of a unit.
LEMMA UnitTypes ==
  ASSUME Walk
  PROVE  /\ unit.functions \in Seq(FunctionDecl) /\ Len(unit.functions) \in Nat
         /\ unit.scopes[1] \in Seq(AssignNode) /\ Len(unit.scopes[1]) \in Nat
         /\ item \in Nat /\ item + 1 \in Nat \ {0}
         /\ item <= Len(unit.functions) => /\ unit.functions[item].name \in STRING
                                            /\ unit.functions[item].args \in Seq(STRING)
                                            /\ unit.functions[item].body \in Expr
         /\ item <= Len(unit.scopes[1]) => unit.scopes[1][item].ident \in STRING
<1>1. /\ unit.functions \in Seq(FunctionDecl) /\ unit.scopes \in Seq(Seq(AssignNode))
      /\ unit.scopes # <<>> /\ item \in Nat \ {0}
  BY DEF Walk, TranslationUnit
<1>2. unit.scopes[1] \in Seq(AssignNode)
  <2>1. Len(unit.scopes) \in Nat \ {0}
    BY <1>1, EmptySeq
  <2>2. 1 \in 1..Len(unit.scopes)
    BY <2>1, SMT
  <2> QED BY <1>1, <2>2, ElementOfSeq
<1>3. Len(unit.functions) \in Nat /\ Len(unit.scopes[1]) \in Nat
  BY <1>1, <1>2, LenProperties
<1>4. item \in Nat /\ item + 1 \in Nat \ {0}
  BY <1>1, SMT
<1>5. ASSUME item <= Len(unit.functions)
      PROVE  unit.functions[item] \in FunctionDecl
  <2>1. item \in 1..Len(unit.functions)
    BY <1>1, <1>3, <1>5, SMT
  <2> QED BY <1>1, <2>1, ElementOfSeq
<1>6. ASSUME item <= Len(unit.scopes[1])
      PROVE  unit.scopes[1][item] \in AssignNode
  <2>1. item \in 1..Len(unit.scopes[1])
    BY <1>1, <1>3, <1>6, SMT
  <2> QED BY <1>2, <2>1, ElementOfSeq
<1> QED BY <1>1, <1>2, <1>3, <1>4, <1>5, <1>6 DEF FunctionDecl, AssignNode

\* Between two functions nothing is being generated, and numbers only grow.
LEMMA OutsideBody ==
  ASSUME GenInv, Maps', Functions <= Functions', Globals <= Globals',
         phase # "body", phase' # "body", UNCHANGED <<funbody, tail, work, listings>>
  PROVE  Body'
<1> SUFFICES ASSUME NEW f, f = Functions', NEW g, g = Globals' PROVE Body'
  OBVIOUS
<1>1. f \in Nat /\ g \in Nat
  BY FS_CardinalityType DEF Maps, Numbering, Functions, Globals
<1>2. Functions \in Nat /\ Globals \in Nat
  BY Counts DEF GenInv
<1>3. ListingOf(Functions, Globals) \subseteq ListingOf(f, g)
  BY <1>1, <1>2, Grow
<1>4. listings \in Seq(ListingOf(f, g))
  <2>1. listings \in Seq(ListingOf(Functions, Globals))
    BY DEF GenInv, Body
  <2> QED BY <1>3, <2>1, SeqMonotonic
<1> QED BY <1>4 DEF GenInv, Body

\* What gives no numbers keeps them.
LEMMA SameNumbers ==
  ASSUME GenInv, UNCHANGED <<names, globalMap>>
  PROVE  Maps' /\ Functions <= Functions' /\ Globals <= Globals'
<1>1. /\ Maps' /\ Functions' = Functions /\ Globals' = Globals
      /\ Functions \in Nat /\ Globals \in Nat
  BY SameMaps
<1> QED BY <1>1, SMT

\* Between two visits the unit may be any.
LEMMA GenUnit ==
  ASSUME GenInv, phase = "idle", unit' \in TranslationUnit, unit'.scopes # <<>>,
         UNCHANGED <<phase, item, variableLookup>>,
         UNCHANGED <<funbody, tail, work, listings>>, UNCHANGED <<names, globalMap>>
  PROVE  GenInv'
<1>1. Maps' /\ Functions' = Functions /\ Globals' = Globals
  BY SameMaps
<1>2. Walk' /\ Body'
  BY <1>1 DEF GenInv, Walk, Body
<1> QED BY <1>1, <1>2 DEF GenInv

\* The host hands over a unit.
LEMMA BeginStep ==
  ASSUME GenInv, unit' \in TranslationUnit, unit'.scopes # <<>>, Begin
  PROVE  GenInv'
<1>1. /\ phase = "idle" /\ phase' = "functions"
      /\ UNCHANGED <<item, variableLookup, funbody, tail, work, listings>>
      /\ UNCHANGED <<names, globalMap>>
  BY DEF Begin
<1>2. Maps' /\ Body'
  BY <1>1, SameNumbers, OutsideBody
<1>3. Walk'
  BY <1>1 DEF GenInv, Walk
<1> QED BY <1>2, <1>3 DEF GenInv

\* A turn of one of the loops that give numbers.
LEMMA DeclareStep ==
  ASSUME GenInv, DeclareFunction \/ DeclareGlobal
  PROVE  GenInv'
<1>1. Walk /\ Maps
  BY DEF GenInv
<1>2. /\ UNCHANGED <<unit, currentFile>>
      /\ UNCHANGED <<funbody, tail, work, variableLookup, listings>>
      /\ phase # "body" /\ phase' # "body"
      /\ phase' \in {"functions", "globals", "bodies"} /\ item' \in {1, item + 1}
  BY DEF DeclareFunction, DeclareGlobal, Advance, code, names
<1>3. Walk'
  <2>1. item' \in Nat \ {0}
    <3>1. 1 \in Nat \ {0} /\ item + 1 \in Nat \ {0}
      BY <1>1, UnitTypes, SMT
    <3> QED BY <3>1, <1>2
  <2> QED BY <1>1, <1>2, <2>1 DEF Walk
<1>4. Maps' /\ Functions <= Functions' /\ Globals <= Globals'
  <2>1. CASE UNCHANGED <<names, globalMap>>
    BY <2>1, SameNumbers
  <2>2. CASE /\ item <= Len(unit.functions) /\ globalMap' = globalMap
             /\ functionMap' = Insert(functionMap, File(unit.functions[item].name))
    <3> DEFINE key == File(unit.functions[item].name)
    <3>1. key \in Key
      BY <1>1, <2>2, UnitTypes DEF Maps, File, Key
    <3> HIDE DEF key
    <3>2. Numbering(functionMap) /\ Dense(functionMap)
      BY <1>1 DEF Maps
    <3>3. /\ DOMAIN functionMap' = DOMAIN functionMap \cup {key}
          /\ Numbering(functionMap)' /\ Dense(functionMap)' /\ Functions <= Functions'
      BY <2>2, <3>2, InsertNumbers DEF key, Functions, Numbering, Dense
    <3>4. Maps' /\ Globals' = Globals
      BY <1>1, <1>2, <2>2, <3>1, <3>3 DEF Maps, Numbering, Dense, Globals
    <3>5. Globals <= Globals'
      <4>1. Globals \in Nat
        BY <1>1, Counts
      <4> QED BY <3>4, <4>1, SMT
    <3> QED BY <3>3, <3>4, <3>5
  <2>3. CASE /\ item <= Len(unit.scopes[1]) /\ functionMap' = functionMap
             /\ globalMap' = Insert(globalMap, File(unit.scopes[1][item].ident))
    <3> DEFINE key == File(unit.scopes[1][item].ident)
    <3>1. key \in Key
      BY <1>1, <2>3, UnitTypes DEF Maps, File, Key
    <3> HIDE DEF key
    <3>2. Numbering(globalMap) /\ Dense(globalMap)
      BY <1>1 DEF Maps
    <3>3. /\ DOMAIN globalMap' = DOMAIN globalMap \cup {key}
          /\ Numbering(globalMap)' /\ Dense(globalMap)' /\ Globals <= Globals'
      BY <2>3, <3>2, InsertNumbers DEF key, Globals, Numbering, Dense
    <3>4. Maps' /\ Functions' = Functions
      BY <1>1, <1>2, <2>3, <3>1, <3>3 DEF Maps, Numbering, Dense, Functions
    <3>5. Functions <= Functions'
      <4>1. Functions \in Nat
        BY <1>1, Counts
      <4> QED BY <3>4, <4>1, SMT
    <3> QED BY <3>3, <3>4, <3>5
  <2>4. \/ UNCHANGED <<names, globalMap>>
        \/ /\ item <= Len(unit.functions) /\ globalMap' = globalMap
           /\ functionMap' = Insert(functionMap, File(unit.functions[item].name))
        \/ /\ item <= Len(unit.scopes[1]) /\ functionMap' = functionMap
           /\ globalMap' = Insert(globalMap, File(unit.scopes[1][item].ident))
    BY DEF DeclareFunction, DeclareGlobal, names
  <2> QED BY <2>1, <2>2, <2>3, <2>4
<1>5. Body'
  BY <1>2, <1>4, OutsideBody
<1> QED BY <1>3, <1>4, <1>5 DEF GenInv

\* visit of a FunctionDecl begins.
LEMMA BeginFunctionStep ==
  ASSUME GenInv, BeginFunction
  PROVE  GenInv'
<1>1. /\ phase = "bodies" /\ item <= Len(unit.functions) /\ phase' = "body"
      /\ funbody' = <<NewBlock>> /\ tail' = 0
      /\ variableLookup' = Slots(unit.functions[item].args)
      /\ work' = <<Visit(unit.functions[item].body)>>
      /\ UNCHANGED <<unit, item, listings>> /\ UNCHANGED <<names, globalMap>>
  BY DEF BeginFunction
<1>2. Maps' /\ Functions' = Functions /\ Globals' = Globals
  BY <1>1, SameMaps
<1>3. unit.functions[item].args \in Seq(STRING) /\ unit.functions[item].body \in Expr
  BY <1>1, UnitTypes DEF GenInv
<1>4. Walk'
  BY <1>1, <1>3, SlotNumbers DEF GenInv, Walk
<1>5. 0 \in Nat /\ 0 + 1 = 1 /\ 1 \in Nat /\ 0 \in Label(1)
  BY SMT DEF Label
<1>6. NewBlock \in BlockOf(1, Functions, Globals)
  BY <1>5, EmptySeq DEF NewBlock, BlockOf
<1>7. /\ funbody' \in Seq(BlockOf(1, Functions, Globals)) /\ Len(funbody') = 1
  <2>1. \A S : \A b \in S : <<b>> \in Seq(S) /\ Len(<<b>>) = 1
    BY SMT
  <2> QED BY <1>1, <1>6, <2>1
<1>8. funbody' \in Seq(BasicBlock)
  <2>1. BlockOf(1, Functions, Globals) \subseteq BasicBlock
    BY <1>5, GrowBlocks
  <2> QED BY <1>7, <2>1, SeqMonotonic
<1>9. work' \in Seq(TaskOf(1))
  <2>1. Visit(unit.functions[item].body) \in TaskOf(1)
    BY <1>3, VisitTask
  <2> QED BY <1>1, <2>1, OneTask
<1>10. Body'
  BY <1>1, <1>2, <1>5, <1>7, <1>8, <1>9 DEF GenInv, Body
<1> QED BY <1>2, <1>4, <1>10 DEF GenInv

\* It ends: the last block, where the generator stands, returns, and what is printed
\* is closed.
LEMMA EndFunctionStep ==
  ASSUME GenInv, EndFunction
  PROVE  GenInv'
<1> SUFFICES ASSUME NEW n, n = Len(funbody) PROVE GenInv'
  OBVIOUS
<1> DEFINE S == BlockOf(n, Functions, Globals)
           b == [funbody[n] EXCEPT !.next = None]
           B == [funbody EXCEPT ![n] = b]
           listing == [name |-> unit.functions[item].name, blocks |-> B]
<1>1. /\ phase = "body" /\ work = <<>> /\ phase' = "bodies" /\ item' = item + 1
      /\ funbody' = [funbody EXCEPT ![tail + 1].next = None]
      /\ listings' = Append(listings, [name |-> unit.functions[item].name, blocks |-> funbody'])
      /\ UNCHANGED <<unit, variableLookup, tail, work>> /\ UNCHANGED <<names, globalMap>>
  BY DEF EndFunction
<1>2. Maps' /\ Functions' = Functions /\ Globals' = Globals
  BY <1>1, SameMaps
<1>3. n = tail + 1 /\ n \in Nat /\ tail \in Nat /\ funbody \in Seq(S)
  BY <1>1, LenProperties DEF GenInv, Body
<1>4. n \in 1..n
  BY <1>3, SMT
<1>5. funbody' = B
  BY <1>1, <1>3
<1>6. funbody[n] \in S
  BY <1>3, <1>4, ElementOfSeq
<1>7. /\ funbody \in Seq(BasicBlock) /\ funbody[n] \in BasicBlock
  <2>1. funbody \in Seq(BasicBlock)
    BY DEF GenInv, Body
  <2> QED BY <1>4, <2>1, ElementOfSeq
<1>8. /\ b \in BasicBlock /\ b.next = None /\ b.jumpFalse = funbody[n].jumpFalse
      /\ b.instructions = funbody[n].instructions
  BY <1>7, SMT DEF BasicBlock, None
<1> HIDE DEF b
<1>9. /\ B \in Seq(BasicBlock) /\ Len(B) = n
      /\ \A l \in 1..n : B[l] = IF l = n THEN b ELSE funbody[l]
  BY <1>4, <1>7, <1>8, ExceptSeq
<1> HIDE DEF B
<1>10. ClosedBlocks(B, Functions, Globals)
  <2>1. SUFFICES ASSUME NEW l \in 1..n
                 PROVE  /\ B[l].jumpFalse = None \/ InBody(B, B[l].jumpFalse)
                        /\ IF l = n THEN B[l].next = None ELSE InBody(B, B[l].next)
                        /\ B[l].instructions \in Seq(InstOf(Functions, Globals))
    BY <1>9 DEF ClosedBlocks
  <2>2. funbody[l] \in S
    BY <1>3, ElementOfSeq
  <2>3. /\ funbody[l].jumpFalse = None \/ funbody[l].jumpFalse \in Label(n)
        /\ funbody[l].next \in Label(n)
        /\ funbody[l].instructions \in Seq(InstOf(Functions, Globals))
    BY <2>2 DEF BlockOf
  <2>4. B[l] = IF l = n THEN b ELSE funbody[l]
    BY <1>9
  <2>5. \A x \in Label(n) : InBody(B, x)
    BY <1>9 DEF Label, InBody
  <2>6. CASE l = n
    BY <1>8, <2>3, <2>4, <2>5, <2>6
  <2>7. CASE l # n
    BY <2>3, <2>4, <2>5, <2>7
  <2> QED BY <2>6, <2>7
<1>11. item \in Nat \ {0} /\ item <= Len(unit.functions) /\ item' \in Nat \ {0}
       /\ unit.functions[item].name \in STRING
  <2>1. Walk /\ item <= Len(unit.functions)
    BY <1>1 DEF GenInv, Walk
  <2> QED BY <1>1, <2>1, UnitTypes DEF Walk
<1>12. listing \in ListingOf(Functions, Globals)
  BY <1>9, <1>10, <1>11 DEF ListingOf, Listing
<1>13. listings' \in Seq(ListingOf(Functions, Globals))
  <2>1. listings \in Seq(ListingOf(Functions, Globals))
    BY DEF GenInv, Body
  <2>2. listings' = Append(listings, listing)
    BY <1>1, <1>5
  <2> HIDE DEF listing
  <2> QED BY <1>12, <2>1, <2>2, AppendProperties
<1>14. Walk'
  BY <1>1, <1>11 DEF GenInv, Walk
<1>15. Body'
  BY <1>1, <1>2, <1>3, <1>5, <1>9, <1>13, EmptySeq DEF Body
<1> QED BY <1>2, <1>14, <1>15 DEF GenInv

\* All functions have been visited.
LEMMA EndUnitStep ==
  ASSUME GenInv, EndUnit
  PROVE  GenInv'
<1>1. /\ phase = "bodies" /\ phase' = "done"
      /\ UNCHANGED <<unit, item, variableLookup>>
      /\ UNCHANGED <<funbody, tail, work, listings>> /\ UNCHANGED <<names, globalMap>>
  BY DEF EndUnit, code
<1>2. Maps' /\ Body'
  BY <1>1, SameNumbers, OutsideBody
<1>3. Walk'
  BY <1>1 DEF GenInv, Walk
<1> QED BY <1>2, <1>3 DEF GenInv

\* visit(TranslationUnit) returns or throws.
LEMMA ReturnStep ==
  ASSUME GenInv, Return, unit' \in TranslationUnit, unit'.scopes # <<>>
  PROVE  GenInv'
<1>1. /\ phase \in {"done", "failed"} /\ phase' = "idle" /\ item' = 1 /\ variableLookup' = <<>>
      /\ funbody' = <<>> /\ tail' = 0 /\ listings' = <<>> /\ work' = work
      /\ UNCHANGED <<names, globalMap>>
  BY DEF Return
<1>2. Maps'
  BY <1>1, SameMaps
<1>3. work' = <<>>
  BY <1>1 DEF GenInv, Body
<1>4. Body'
  BY <1>1, <1>3, EmptySeq DEF Body
<1>5. Numbering(<<>>)
  <2>1. IsFiniteSet({}) /\ DOMAIN <<>> = {}
    BY FS_EmptySet
  <2>2. <<>> \in [{} -> Nat]
    BY SMT
  <2> QED BY <2>1, <2>2 DEF Numbering
<1>6. Walk'
  BY <1>1, <1>5 DEF GenInv, Walk, Numbering
<1> QED BY <1>2, <1>4, <1>6 DEF GenInv

\* Nothing happens.
LEMMA GenStutter ==
  ASSUME GenInv, UNCHANGED genVars
  PROVE  GenInv'
<1>1. /\ UNCHANGED <<unit, phase, item, variableLookup>>
      /\ UNCHANGED <<funbody, tail, work, listings>> /\ UNCHANGED <<names, globalMap>>
  BY DEF genVars, names
<1>2. Maps' /\ Functions' = Functions /\ Globals' = Globals
  BY <1>1, SameMaps
<1>3. Walk' /\ Body'
  BY <1>1, <1>2 DEF GenInv, Walk, Body
<1> QED BY <1>2, <1>3 DEF GenInv

\* The invariant is inductive.
LEMMA GenInvAlways == GenSpec => []GenInv
<1>1. GenInit => GenInv
  BY InitGenInv
<1>2. GenInv /\ [GenNext]_genVars => GenInv'
  <2> SUFFICES ASSUME GenInv, [GenNext]_genVars PROVE GenInv'
    OBVIOUS
  <2>1. CASE \E u \in Units : unit' = u /\ Begin
    BY <2>1, BeginStep, UnitsAssumption
  <2>2. CASE DeclareFunction \/ DeclareGlobal
    BY <2>2, DeclareStep
  <2>3. CASE BeginFunction
    BY <2>3, BeginFunctionStep
  <2>4. CASE EndFunction
    BY <2>4, EndFunctionStep
  <2>5. CASE EndUnit
    BY <2>5, EndUnitStep
  <2>6. CASE VisitExpr
    BY <2>6, ExprStep
  <2>7. CASE Return /\ UNCHANGED unit
    BY <2>7, ReturnStep DEF GenInv, Walk
  <2>8. CASE UNCHANGED genVars
    BY <2>8, GenStutter
  <2> QED BY <2>1, <2>2, <2>3, <2>4, <2>5, <2>6, <2>7, <2>8 DEF GenNext, GenStep
<1> QED BY <1>1, <1>2, PTL DEF GenSpec

-----------------------------------------------------------------------------
(* What the invariant says. *)

\* The types.
LEMMA GenTypes == GenInv => GenTypeOK
<1> SUFFICES ASSUME GenInv PROVE GenTypeOK
  OBVIOUS
<1>1. Maps /\ Walk /\ Body
  BY DEF GenInv
<1>2. TaskOf(Len(funbody)) \subseteq Task /\ ListingOf(Functions, Globals) \subseteq Listing
  BY DEF TaskOf, ListingOf
<1>3. work \in Seq(Task) /\ listings \in Seq(Listing)
  BY <1>1, <1>2, SeqMonotonic DEF Body
<1> QED BY <1>1, <1>3 DEF GenTypeOK, Maps, Walk, Body

\* What has been printed is closed.
LEMMA ClosedListings == GenInv => ListingsClosed
<1> SUFFICES ASSUME GenInv, NEW i \in DOMAIN listings, NEW l \in DOMAIN listings[i].blocks
             PROVE  LET blocks == listings[i].blocks
                    IN /\ blocks[l].jumpFalse = None \/ InBody(blocks, blocks[l].jumpFalse)
                       /\ IF l = Len(blocks) THEN blocks[l].next = None
                          ELSE InBody(blocks, blocks[l].next)
                       /\ \A j \in DOMAIN blocks[l].instructions :
                            Resolved(blocks[l].instructions[j])
  BY DEF ListingsClosed
<1> DEFINE blocks == listings[i].blocks
<1>1. listings \in Seq(ListingOf(Functions, Globals))
  BY DEF GenInv, Body
<1>2. listings[i] \in ListingOf(Functions, Globals)
  BY <1>1, LenProperties, ElementOfSeq
<1>3. blocks \in Seq(BasicBlock) /\ ClosedBlocks(blocks, Functions, Globals)
  BY <1>2 DEF ListingOf, Listing
<1>4. l \in 1..Len(blocks)
  BY <1>3, LenProperties
<1>5. /\ blocks[l].jumpFalse = None \/ InBody(blocks, blocks[l].jumpFalse)
      /\ IF l = Len(blocks) THEN blocks[l].next = None ELSE InBody(blocks, blocks[l].next)
      /\ blocks[l].instructions \in Seq(InstOf(Functions, Globals))
  BY <1>3, <1>4 DEF ClosedBlocks
<1>6. ASSUME NEW j \in DOMAIN blocks[l].instructions
      PROVE  Resolved(blocks[l].instructions[j])
  <2>1. blocks[l].instructions[j] \in InstOf(Functions, Globals)
    BY <1>5, LenProperties, ElementOfSeq
  <2> QED BY <2>1 DEF InstOf, Resolved, Functions, Globals
<1> QED BY <1>5, <1>6

-----------------------------------------------------------------------------
(* Heights.  The inductive argument has functions that give the height at  *)
(* each place; there is only one, which Depth and Height define by         *)
(* recursion.                                                              *)

\* Every set of numbers has a least element: induction.
LEMMA Least ==
  ASSUME NEW T, T \subseteq Nat, T # {}
  PROVE  \E n \in T : \A m \in T : n <= m
<1> DEFINE R == OpToRel(<, Nat)
<1>1. IsWellFoundedOn(R, Nat)
  BY NatLessThanWellFounded
<1>2. \A x, y \in Nat : <<x, y>> \in R <=> x < y
  BY DEF OpToRel
<1> HIDE DEF R
<1>3. PICK n \in T : \A m \in T : <<m, n>> \notin R
  BY <1>1, WFMin
<1>4. n \in Nat /\ \A m \in T : m \in Nat /\ ~(m < n)
  BY <1>2, <1>3
<1> QED BY <1>4

\* d is the height of the stack behind each of the instructions s.
Path(map, p, s, d) ==
  /\ d \in [0..Len(s) -> Nat]
  /\ \A j \in 1..Len(s) : /\ Finds(map, p, s[j], d[j - 1])
                          /\ d[j] = d[j - 1] - Takes(map, s[j]) + 1
Runs(map, p, s, m, n) == \E d : Path(map, p, s, d) /\ d[0] = m /\ d[Len(s)] = n

\* Depth is that height.
LEMMA DepthIs ==
  ASSUME NEW map, NEW p, NEW s \in Seq(Inst), NEW d, Path(map, p, s, d)
  PROVE  Depth(map, s, d[0]) = d
<1> DEFINE is(f) == f = [j \in 0..Len(s) |->
                           IF j = 0 THEN d[0] ELSE f[j - 1] - Takes(map, s[j]) + 1]
           f == Depth(map, s, d[0])
<1>1. f = CHOOSE g : is(g)
  BY DEF Depth
<1>2. Len(s) \in Nat
  BY LenProperties
<1>3. is(d)
  <2>1. d = [j \in 0..Len(s) |-> d[j]]
    BY DEF Path
  <2>2. \A j \in 0..Len(s) : d[j] = IF j = 0 THEN d[0] ELSE d[j - 1] - Takes(map, s[j]) + 1
    BY <1>2 DEF Path
  <2> QED BY <2>1, <2>2
<1>4. is(f)
  BY <1>1, <1>3
<1> HIDE DEF f
<1>5. /\ f = [j \in 0..Len(s) |-> f[j]] /\ f[0] = d[0]
      /\ \A j \in 1..Len(s) : f[j] = f[j - 1] - Takes(map, s[j]) + 1
  BY <1>2, <1>4
<1>6. \A j \in 0..Len(s) : f[j] = d[j]
  <2> DEFINE T == {j \in 0..Len(s) : f[j] # d[j]}
  <2> SUFFICES ASSUME T # {} PROVE FALSE
    OBVIOUS
  <2>1. T \subseteq Nat
    BY <1>2
  <2> HIDE DEF T
  <2>2. PICK j \in T : \A m \in T : j <= m
    BY <2>1, Least
  <2>3. j \in 0..Len(s) /\ f[j] # d[j]
    BY <2>2 DEF T
  <2>4. j # 0 /\ j \in 1..Len(s) /\ j - 1 \in 0..Len(s) /\ ~(j <= j - 1)
    BY <1>2, <1>5, <2>3
  <2>5. f[j - 1] = d[j - 1]
    BY <2>2, <2>4 DEF T
  <2>6. f[j] = f[j - 1] - Takes(map, s[j]) + 1 /\ d[j] = d[j - 1] - Takes(map, s[j]) + 1
    BY <1>5, <2>4 DEF Path
  <2> QED BY <2>3, <2>5, <2>6
<1>7. d = [j \in 0..Len(s) |-> d[j]]
  BY DEF Path
<1> QED BY <1>5, <1>6, <1>7 DEF f

\* Of a block.
LEMMA RunsDepth ==
  ASSUME NEW map, NEW p, NEW s \in Seq(Inst), NEW m, NEW n, Runs(map, p, s, m, n)
  PROVE  /\ Depth(map, s, m)[Len(s)] = n /\ n \in Nat
         /\ \A j \in DOMAIN s : Finds(map, p, s[j], Depth(map, s, m)[j - 1])
<1>1. PICK d : Path(map, p, s, d) /\ d[0] = m /\ d[Len(s)] = n
  BY DEF Runs
<1>2. Depth(map, s, m) = d
  BY <1>1, DepthIs
<1>3. DOMAIN s = 1..Len(s) /\ Len(s) \in 0..Len(s)
  BY LenProperties
<1> QED BY <1>1, <1>2, <1>3 DEF Path

\* One more instruction.
LEMMA RunsAppend ==
  ASSUME NEW map, NEW p, NEW s \in Seq(Inst), NEW m, NEW n, Runs(map, p, s, m, n),
         NEW i \in Inst, Takes(map, i) \in Nat, Finds(map, p, i, n)
  PROVE  Runs(map, p, Append(s, i), m, n - Takes(map, i) + 1)
<1> DEFINE c == Append(s, i)
           t == Takes(map, i)
           k == Len(s)
<1>1. PICK d : Path(map, p, s, d) /\ d[0] = m /\ d[k] = n
  BY DEF Runs
<1> DEFINE e == [j \in 0..(k + 1) |-> IF j = k + 1 THEN n - t + 1 ELSE d[j]]
<1>2. k \in Nat /\ Len(c) = k + 1 /\ c[k + 1] = i /\ \A j \in 1..k : c[j] = s[j]
  BY LenProperties, AppendProperties
<1>3. n \in Nat /\ t \in Nat /\ t <= n /\ d \in [0..k -> Nat]
  BY <1>1, <1>2 DEF Path, Finds
<1> HIDE DEF c, t
<1>4. /\ e \in [0..(k + 1) -> Nat] /\ e[k + 1] = n - t + 1
      /\ \A j \in 0..k : e[j] = d[j]
  BY <1>2, <1>3
<1> HIDE DEF e, k
<1>5. ASSUME NEW j \in 1..(k + 1)
      PROVE  Finds(map, p, c[j], e[j - 1]) /\ e[j] = e[j - 1] - Takes(map, c[j]) + 1
  <2>1. CASE j = k + 1
    <3>1. j - 1 = k /\ k \in 0..k /\ e[j - 1] = n /\ c[j] = i
      BY <1>1, <1>2, <1>4, <2>1
    <3> QED BY <1>4, <2>1, <3>1 DEF t
  <2>2. CASE j \in 1..k
    <3>1. j - 1 \in 0..k /\ j \in 0..k
      BY <1>2, <2>2
    <3>2. e[j - 1] = d[j - 1] /\ e[j] = d[j] /\ c[j] = s[j]
      BY <1>2, <1>4, <2>2, <3>1
    <3> QED BY <1>1, <2>2, <3>2 DEF Path, k
  <2> QED BY <1>2, <2>1, <2>2
<1>6. Path(map, p, c, e)
  BY <1>2, <1>4, <1>5 DEF Path
<1>7. e[0] = m /\ e[Len(c)] = n - t + 1
  <2>1. 0 \in 0..k
    BY <1>2
  <2>2. e[0] = d[0]
    BY <1>4, <2>1
  <2> QED BY <1>1, <1>2, <1>4, <2>2
<1> QED BY <1>6, <1>7 DEF Runs, c, t

\* No instruction.
LEMMA RunsEmpty ==
  ASSUME NEW map, NEW p, NEW m \in Nat
  PROVE  Runs(map, p, <<>>, m, m)
<1> DEFINE d == [j \in 0..0 |-> m]
<1>1. Len(<<>>) = 0
  BY EmptySeq
<1>2. d \in [0..0 -> Nat] /\ d[0] = m /\ \A j \in 1..0 : FALSE
  OBVIOUS
<1> HIDE DEF d
<1>3. Path(map, p, <<>>, d)
  BY <1>1, <1>2 DEF Path
<1> QED BY <1>1, <1>2, <1>3 DEF Runs

\* Block l is done, and leads to one of the first m blocks.
Closed(map, p, B, h, m, l) ==
  /\ B[l].next # None /\ Successors(B[l]) \subseteq l..(m - 1)
  /\ \E n \in Nat : /\ Runs(map, p, B[l].instructions, h[l], n + Dropped(B[l]))
                    /\ \A t \in Successors(B[l]) : h[t + 1] = n

\* So are all before block m, and the first m are reached.
Laid(map, p, B, h, m) == /\ h[1] = 0
                         /\ \A l \in 1..(m - 1) : Closed(map, p, B, h, m, l)
                         /\ \A l \in 2..m : Into(B, l) # {}

\* The way out of a block.
LEMMA LeftIs ==
  ASSUME NEW map, NEW p, NEW b \in BasicBlock, NEW m, NEW n \in Nat,
         Runs(map, p, b.instructions, m, n + Dropped(b))
  PROVE  /\ Left(map, b, m) = n
         /\ \A j \in DOMAIN b.instructions :
              Finds(map, p, b.instructions[j], Depth(map, b.instructions, m)[j - 1])
<1>1. b.instructions \in Seq(Inst)
  BY DEF BasicBlock
<1>2. Depth(map, b.instructions, m)[Len(b.instructions)] = n + Dropped(b)
  BY <1>1, RunsDepth
<1>3. (n + Dropped(b)) - Dropped(b) = n
  BY DEF Dropped
<1> QED BY <1>1, <1>2, <1>3, RunsDepth DEF Left

\* When all blocks are laid, h is Height.
LEMMA HeightIs ==
  ASSUME NEW map, NEW p, NEW B \in Seq(BasicBlock), NEW h \in [1..Len(B) -> Nat],
         Laid(map, p, B, h, Len(B))
  PROVE  Height(map, B) = h
<1> DEFINE way(l) == CHOOSE k \in Into(B, l) : TRUE
           at(f, l) == IF l = 1 THEN 0 ELSE Left(map, B[way(l)], f[way(l)])
           is(f) == f = [l \in DOMAIN B |-> at(f, l)]
           f == Height(map, B)
           n == Len(B)
<1>1. f = CHOOSE g : is(g)
  BY DEF Height
<1>2. n \in Nat /\ DOMAIN B = 1..n
  BY LenProperties
<1>3. ASSUME NEW l \in 2..n
      PROVE  way(l) \in 1..(l - 1) /\ l - 1 \in Successors(B[way(l)])
  <2>1. Into(B, l) # {}
    BY <1>3 DEF Laid
  <2> QED BY <2>1 DEF Into
<1> HIDE DEF way
<1>4. ASSUME NEW l \in 2..n
      PROVE  h[l] = Left(map, B[way(l)], h[way(l)])
  <2> DEFINE k == way(l)
  <2>1. k \in 1..(l - 1) /\ k \in 1..(n - 1) /\ k \in 1..n /\ l - 1 \in Successors(B[k])
    BY <1>2, <1>3, <1>4
  <2> HIDE DEF k
  <2>2. Closed(map, p, B, h, n, k)
    BY <2>1 DEF Laid
  <2>3. PICK e \in Nat : /\ Runs(map, p, B[k].instructions, h[k], e + Dropped(B[k]))
                         /\ \A t \in Successors(B[k]) : h[t + 1] = e
    BY <2>2 DEF Closed
  <2>4. h[(l - 1) + 1] = e /\ (l - 1) + 1 = l
    BY <2>1, <2>3
  <2>5. B[k] \in BasicBlock
    BY <2>1, ElementOfSeq
  <2>6. Left(map, B[k], h[k]) = e
    BY <2>3, <2>5, LeftIs
  <2> QED BY <2>4, <2>6 DEF k
<1>5. is(h)
  <2>1. h = [l \in 1..n |-> h[l]]
    OBVIOUS
  <2>2. \A l \in 1..n : h[l] = at(h, l)
    <3> TAKE l \in 1..n
    <3>1. CASE l = 1
      BY <3>1 DEF Laid
    <3>2. CASE l \in 2..n
      <4>1. l # 1
        BY <3>2
      <4> QED BY <1>4, <3>2, <4>1
    <3> QED BY <1>2, <3>1, <3>2
  <2> HIDE DEF at
  <2> QED BY <1>2, <2>1, <2>2
<1>6. is(f)
  BY <1>1, <1>5
<1> HIDE DEF f
<1>7. f = [l \in 1..n |-> f[l]] /\ \A l \in 1..n : f[l] = at(f, l)
  BY <1>2, <1>6
<1>8. \A l \in 1..n : f[l] = h[l]
  <2> DEFINE T == {l \in 1..n : f[l] # h[l]}
  <2> SUFFICES ASSUME T # {} PROVE FALSE
    OBVIOUS
  <2>1. T \subseteq Nat
    BY <1>2
  <2> HIDE DEF T
  <2>2. PICK l \in T : \A m \in T : l <= m
    BY <2>1, Least
  <2>3. l \in 1..n /\ f[l] # h[l]
    BY <2>2 DEF T
  <2>4. CASE l = 1
    BY <1>7, <2>3, <2>4 DEF Laid
  <2>5. CASE l \in 2..n
    <3>1. way(l) \in 1..(l - 1) /\ way(l) \in 1..n /\ ~(l <= way(l)) /\ l # 1
      BY <1>2, <1>3, <2>5
    <3>2. f[way(l)] = h[way(l)]
      BY <2>2, <3>1 DEF T
    <3>3. f[l] = Left(map, B[way(l)], f[way(l)])
      BY <1>7, <2>3, <3>1
    <3> QED BY <1>4, <2>3, <2>5, <3>2, <3>3
  <2> QED BY <1>2, <2>3, <2>4, <2>5
<1>9. h = [l \in 1..n |-> h[l]]
  OBVIOUS
<1> QED BY <1>7, <1>8, <1>9 DEF f

\* A function is done when its last block leaves one value.
LEMMA LaidOut ==
  ASSUME NEW map, NEW p, NEW B \in Seq(BasicBlock), B # <<>>, NEW h \in [1..Len(B) -> Nat],
         Laid(map, p, B, h, Len(B)),
         B[Len(B)].jumpFalse = None, B[Len(B)].next = None,
         Runs(map, p, B[Len(B)].instructions, h[Len(B)], 1)
  PROVE  /\ Forward(B)
         /\ \A l \in DOMAIN B : Even(map, p, B[l], Height(map, B)[l], Height(map, B))
<1> DEFINE n == Len(B)
<1>1. n \in Nat \ {0} /\ DOMAIN B = 1..n /\ \A l \in 1..n : B[l] \in BasicBlock
  BY LenProperties, EmptySeq, ElementOfSeq
<1>2. Height(map, B) = h
  BY HeightIs
<1>3. Successors(B[n]) = {} /\ Dropped(B[n]) = 0
  BY DEF Successors, Dropped
<1>4. ASSUME NEW l \in 1..n
      PROVE  /\ l > 1 => Into(B, l) # {}
             /\ Successors(B[l]) \subseteq l..(n - 1)
             /\ Even(map, p, B[l], h[l], h)
  <2>1. l > 1 => Into(B, l) # {}
    BY <1>1 DEF Laid
  <2>2. CASE l = n
    <3>1. Runs(map, p, B[l].instructions, h[l], 1 + Dropped(B[l]))
      BY <1>3, <2>2
    <3>2. /\ Left(map, B[l], h[l]) = 1
          /\ \A j \in DOMAIN B[l].instructions :
               Finds(map, p, B[l].instructions[j], Depth(map, B[l].instructions, h[l])[j - 1])
      BY <1>1, <3>1, LeftIs
    <3> QED BY <1>3, <2>1, <2>2, <3>2 DEF Even
  <2>3. CASE l # n
    <3>1. Closed(map, p, B, h, n, l)
      <4>1. \A i \in Nat : l \in 1..i /\ l # i => l \in 1..(i - 1)
        BY SMT
      <4>2. l \in 1..(n - 1)
        BY <1>1, <2>3, <4>1
      <4> QED BY <4>2 DEF Laid
    <3>2. PICK e \in Nat : /\ Runs(map, p, B[l].instructions, h[l], e + Dropped(B[l]))
                           /\ \A t \in Successors(B[l]) : h[t + 1] = e
      BY <3>1 DEF Closed
    <3>3. /\ Left(map, B[l], h[l]) = e
          /\ \A j \in DOMAIN B[l].instructions :
               Finds(map, p, B[l].instructions[j], Depth(map, B[l].instructions, h[l])[j - 1])
      BY <1>1, <3>2, LeftIs
    <3>4. Successors(B[l]) # {} /\ Successors(B[l]) \subseteq l..(n - 1)
      BY <3>1 DEF Closed, Successors
    <3> QED BY <2>1, <3>2, <3>3, <3>4 DEF Even
  <2> QED BY <2>2, <2>3
<1> QED BY <1>1, <1>2, <1>4 DEF Forward

-----------------------------------------------------------------------------
(* What is left to be done. *)

\* What a task takes from the stack; each leaves one value.
Uses(t) == CASE t.do = "visit" -> 0
             [] t.do = "operate" -> Len(t.node.kids)
             [] t.do = "call" -> Len(t.node.kids) - 1
             [] OTHER -> 1

\* d is the height of the stack behind each of the tasks s.
Through(s, d) ==
  /\ d \in [0..Len(s) -> Nat]
  /\ \A j \in 1..Len(s) : Uses(s[j]) <= d[j - 1] /\ d[j] = d[j - 1] - Uses(s[j]) + 1

\* A task for a translatable expression; and for one without a conditional.
Quiet(t) == t.node \in Translatable /\ t.do \in {"visit", "operate", "call", "then"}
Smooth(t) == t.node \in OneBlock /\ t.do \in {"visit", "operate", "call"}

\* The end of a branch, when the function has n blocks and m + 1 of them, the last
\* ones, wait for the join.
Rest(t, m, n) == /\ t.do = IF m = 1 THEN "else" ELSE "join"
                 /\ t.node \in Translatable
                 /\ \A i \in 1..(m + 1) : t.blocks[i] = n - m - 2 + i

\* No conditional waits, or one does, and its branches start at height x.
Tasks(W, d, m, n, x) ==
  IF m = 0 THEN \A j \in 1..Len(W) : Quiet(W[j])
  ELSE \E q \in 1..Len(W) : /\ Rest(W[q], m, n) /\ d[q - 1] = x + 1
                            /\ \A j \in 1..(q - 1) : Smooth(W[j])
                            /\ \A j \in (q + 1)..Len(W) : Quiet(W[j])

Flows(map, p, B, W, h, d, m) ==
  /\ h \in [1..Len(B) -> Nat] /\ m \in {0, 1, 2} /\ m < Len(B)
  /\ Laid(map, p, B, h, Len(B) - m)
  /\ \A l \in (Len(B) - m)..(Len(B) - 1) :
       B[l].jumpFalse = None /\ Runs(map, p, B[l].instructions, h[l], h[Len(B)] + 1)
  /\ \A l \in (Len(B) - m + 1)..Len(B) : h[l] = h[Len(B)]
  /\ B[Len(B)].jumpFalse = None
  /\ Runs(map, p, B[Len(B)].instructions, h[Len(B)], d[0])
  /\ Through(W, d) /\ d[Len(W)] = 1 /\ Tasks(W, d, m, Len(B), h[Len(B)])

Flow(map, p, B, W) == \E h, d, m : Flows(map, p, B, W, h, d, m)

\* W2 has the tasks s in the place of the first of W.
Put(W, s, W2) == /\ Len(W) \in Nat \ {0} /\ Len(s) \in Nat
                 /\ Len(W2) = Len(s) + Len(W) - 1
                 /\ \A j \in 1..Len(s) : W2[j] = s[j]
                 /\ \A j \in 2..Len(W) : W2[Len(s) + j - 1] = W[j]

\* That is what Continue does.
LEMMA Replaced ==
  ASSUME NEW W \in Seq(Task), W # <<>>, NEW s \in Seq(Task), NEW W2, W2 = s \o Tail(W)
  PROVE  Put(W, s, W2) /\ W2 \in Seq(Task) /\ Head(W) = W[1]
<1>1. Len(W) \in Nat \ {0} /\ Len(s) \in Nat
  BY LenProperties, EmptySeq
<1>2. /\ Head(W) = W[1] /\ Tail(W) \in Seq(Task) /\ Len(Tail(W)) = Len(W) - 1
      /\ \A j \in 1..Len(Tail(W)) : Tail(W)[j] = W[j + 1]
  BY HeadTailProperties
<1>3. /\ W2 \in Seq(Task) /\ Len(W2) = Len(s) + Len(Tail(W))
      /\ \A j \in 1..(Len(s) + Len(Tail(W))) :
           W2[j] = IF j <= Len(s) THEN s[j] ELSE Tail(W)[j - Len(s)]
  BY <1>2, ConcatProperties
<1>4. Len(W2) = Len(s) + Len(W) - 1
  BY <1>1, <1>2, <1>3
<1>5. \A j \in 1..Len(s) : W2[j] = s[j]
  BY <1>1, <1>2, <1>3
<1>6. ASSUME NEW j \in 2..Len(W)
      PROVE  W2[Len(s) + j - 1] = W[j]
  <2>1. /\ Len(s) + j - 1 \in 1..(Len(s) + Len(Tail(W))) /\ ~(Len(s) + j - 1 <= Len(s))
        /\ (Len(s) + j - 1) - Len(s) = j - 1 /\ j - 1 \in 1..Len(Tail(W)) /\ (j - 1) + 1 = j
    BY <1>1, <1>2
  <2> QED BY <1>2, <1>3, <2>1
<1> QED BY <1>1, <1>2, <1>3, <1>4, <1>5, <1>6 DEF Put

\* The heights behind them.
LEMMA ThroughReplaced ==
  ASSUME NEW W, NEW s, NEW W2, Put(W, s, W2),
         NEW d, Through(W, d), d[Len(W)] = 1, NEW e, Through(s, e), e[Len(s)] = d[1]
  PROVE  \E d2 : /\ Through(W2, d2) /\ d2[Len(W2)] = 1
                 /\ \A j \in 0..Len(s) : d2[j] = e[j]
                 /\ \A j \in 1..Len(W) : d2[Len(s) + j - 1] = d[j]
<1> DEFINE k == Len(s)
           n == Len(W)
<1>1. /\ Len(W2) = k + n - 1 /\ n \in Nat \ {0} /\ k \in Nat
      /\ \A j \in 1..k : W2[j] = s[j]
      /\ \A j \in 2..n : W2[k + j - 1] = W[j]
  BY DEF Put
<1>2. /\ d \in [0..n -> Nat] /\ e \in [0..k -> Nat] /\ d[n] = 1 /\ e[k] = d[1]
      /\ \A j \in 1..n : Uses(W[j]) <= d[j - 1] /\ d[j] = d[j - 1] - Uses(W[j]) + 1
      /\ \A j \in 1..k : Uses(s[j]) <= e[j - 1] /\ e[j] = e[j - 1] - Uses(s[j]) + 1
  BY DEF Through
<1> DEFINE z == k + n - 1
           d2 == [j \in 0..z |-> IF j <= k THEN e[j] ELSE d[j - k + 1]]
<1> HIDE DEF k, n
<1>3. /\ z \in Nat /\ z = k + n - 1 /\ k <= z
      /\ \A j \in 0..z : ~(j <= k) => j - k + 1 \in 0..n
  BY <1>1
<1>4. d2 \in [0..z -> Nat]
  BY <1>1, <1>2, <1>3
<1>5. \A j \in 0..k : d2[j] = e[j]
  BY <1>1, <1>3
<1>6. ASSUME NEW j \in 1..n
      PROVE  d2[k + j - 1] = d[j]
  <2>1. k + j - 1 \in 0..z
    BY <1>1, <1>3
  <2>2. CASE j = 1
    <3>1. k + j - 1 = k /\ k \in 0..k
      BY <1>1, <2>2
    <3> QED BY <1>2, <1>5, <2>2, <3>1
  <2>3. CASE j # 1
    <3>1. ~(k + j - 1 <= k) /\ (k + j - 1) - k + 1 = j
      BY <1>1, <2>3
    <3> QED BY <2>1, <3>1
  <2> QED BY <2>2, <2>3
<1> HIDE DEF d2, z
<1>7. ASSUME NEW j \in 1..z
      PROVE  Uses(W2[j]) <= d2[j - 1] /\ d2[j] = d2[j - 1] - Uses(W2[j]) + 1
  <2>1. CASE j <= k
    <3>1. j \in 1..k /\ j - 1 \in 0..k /\ j \in 0..k
      BY <1>1, <1>3, <2>1
    <3>2. d2[j] = e[j] /\ d2[j - 1] = e[j - 1] /\ W2[j] = s[j]
      BY <1>1, <1>5, <3>1
    <3> QED BY <1>2, <3>1, <3>2
  <2>2. CASE ~(j <= k)
    <3> DEFINE i == j - k + 1
    <3>1. /\ i \in 2..n /\ i \in 1..n /\ i - 1 \in 1..n
          /\ k + i - 1 = j /\ k + (i - 1) - 1 = j - 1
      BY <1>1, <1>3, <2>2
    <3> HIDE DEF i
    <3>2. d2[j] = d[i] /\ d2[j - 1] = d[i - 1]
      <4>1. d2[k + i - 1] = d[i] /\ d2[k + (i - 1) - 1] = d[i - 1]
        BY <1>6, <3>1
      <4> QED BY <3>1, <4>1
    <3>3. W2[j] = W[i]
      BY <1>1, <3>1
    <3> QED BY <1>2, <3>1, <3>2, <3>3
  <2> QED BY <2>1, <2>2
<1>8. d2[z] = 1
  <2>1. n \in 1..n
    BY <1>1
  <2> QED BY <1>2, <1>3, <1>6, <2>1
<1>9. Through(W2, d2) /\ d2[Len(W2)] = 1
  BY <1>1, <1>3, <1>4, <1>7, <1>8 DEF Through
<1> QED BY <1>5, <1>6, <1>9 DEF k, n

\* What waits below the first task.
LEMMA TasksReplaced ==
  ASSUME NEW W, NEW s, NEW W2, Put(W, s, W2), NEW d, NEW d2,
         \A j \in 1..Len(W) : d2[Len(s) + j - 1] = d[j],
         NEW m \in {0, 1, 2}, NEW n, NEW x, Tasks(W, d, m, n, x),
         W[1].do \in {"visit", "operate", "call", "then"},
         Smooth(W[1]) => \A j \in 1..Len(s) : Smooth(s[j]),
         Quiet(W[1]) => \A j \in 1..Len(s) : Quiet(s[j])
  PROVE  Tasks(W2, d2, m, n, x)
<1> DEFINE k == Len(s)
           z == Len(W)
<1>1. /\ Len(W2) = k + z - 1 /\ z \in Nat \ {0} /\ k \in Nat
      /\ \A j \in 1..k : W2[j] = s[j]
      /\ \A j \in 2..z : W2[k + j - 1] = W[j]
  BY DEF Put
<1>2. \A j \in 1..z : d2[k + j - 1] = d[j]
  OBVIOUS
<1>3. \A j \in 1..k : (Smooth(W[1]) => Smooth(s[j])) /\ (Quiet(W[1]) => Quiet(s[j]))
  OBVIOUS
<1>4. CASE m = 0
  <2>1. \A j \in 1..z : Quiet(W[j])
    BY <1>4 DEF Tasks
  <2> HIDE DEF k, z
  <2>2. ASSUME NEW j \in 1..(k + z - 1)
        PROVE  Quiet(W2[j])
    <3>1. CASE j <= k
      <4>1. j \in 1..k /\ 1 \in 1..z
        BY <1>1, <3>1
      <4> QED BY <1>1, <1>3, <2>1, <4>1
    <3>2. CASE ~(j <= k)
      <4>1. j - k + 1 \in 2..z /\ j - k + 1 \in 1..z /\ k + (j - k + 1) - 1 = j
        BY <1>1, <3>2
      <4>2. W2[k + (j - k + 1) - 1] = W[j - k + 1]
        BY <1>1, <4>1
      <4> QED BY <2>1, <4>1, <4>2
    <3> QED BY <3>1, <3>2
  <2> QED BY <1>1, <1>4, <2>2 DEF Tasks
<1>5. CASE m # 0
  <2>1. PICK q \in 1..z : /\ Rest(W[q], m, n) /\ d[q - 1] = x + 1
                          /\ \A j \in 1..(q - 1) : Smooth(W[j])
                          /\ \A j \in (q + 1)..z : Quiet(W[j])
    BY <1>5 DEF Tasks
  <2>2. q # 1
    BY <2>1 DEF Rest
  <2> HIDE DEF k, z
  <2> DEFINE r == k + q - 1
  <2>3. /\ r \in 1..(k + z - 1) /\ q \in 2..z /\ q - 1 \in 1..z /\ k + (q - 1) - 1 = r - 1
        /\ r = k + q - 1 /\ 1 \in 1..(q - 1)
    BY <1>1, <2>1, <2>2
  <2> HIDE DEF r
  <2>4. Rest(W2[r], m, n) /\ d2[r - 1] = x + 1
    <3>1. W2[r] = W[q]
      BY <1>1, <2>3
    <3>2. d2[k + (q - 1) - 1] = d[q - 1]
      BY <1>2, <2>3
    <3> QED BY <2>1, <2>3, <3>1, <3>2
  <2>5. ASSUME NEW j \in 1..(r - 1)
        PROVE  Smooth(W2[j])
    <3>1. CASE j <= k
      <4>1. j \in 1..k
        BY <1>1, <2>3, <3>1
      <4> QED BY <1>1, <1>3, <2>1, <2>3, <4>1
    <3>2. CASE ~(j <= k)
      <4>1. j - k + 1 \in 2..z /\ j - k + 1 \in 1..(q - 1) /\ k + (j - k + 1) - 1 = j
        BY <1>1, <2>3, <3>2
      <4>2. W2[k + (j - k + 1) - 1] = W[j - k + 1]
        BY <1>1, <4>1
      <4> QED BY <2>1, <4>1, <4>2
    <3> QED BY <3>1, <3>2
  <2>6. ASSUME NEW j \in (r + 1)..(k + z - 1)
        PROVE  Quiet(W2[j])
    <3>1. j - k + 1 \in 2..z /\ j - k + 1 \in (q + 1)..z /\ k + (j - k + 1) - 1 = j
      BY <1>1, <2>3
    <3>2. W2[k + (j - k + 1) - 1] = W[j - k + 1]
      BY <1>1, <3>1
    <3> QED BY <2>1, <3>1, <3>2
  <2> QED BY <1>1, <1>5, <2>3, <2>4, <2>5, <2>6 DEF Tasks
<1> QED BY <1>4, <1>5

\* The height d, and what waits.
Stands(W, d, m, n, x) == Through(W, d) /\ d[Len(W)] = 1 /\ Tasks(W, d, m, n, x)

\* The tasks s are of the kind of t.
Like(t, s) == /\ t.do \in {"visit", "operate", "call", "then"}
              /\ Smooth(t) => \A j \in 1..Len(s) : Smooth(s[j])
              /\ Quiet(t) => \A j \in 1..Len(s) : Quiet(s[j])

\* Both: the work after a step that goes on from the height e[0].
LEMMA GoesOn ==
  ASSUME NEW W, NEW s, NEW W2, Put(W, s, W2), NEW m \in {0, 1, 2}, NEW d, NEW n, NEW x,
         Stands(W, d, m, n, x), NEW e, Through(s, e), e[Len(s)] = d[1], Like(W[1], s)
  PROVE  \E d2 : Stands(W2, d2, m, n, x) /\ d2[0] = e[0]
<1>0. /\ Through(W, d) /\ d[Len(W)] = 1 /\ Tasks(W, d, m, n, x)
      /\ W[1].do \in {"visit", "operate", "call", "then"}
      /\ Smooth(W[1]) => \A j \in 1..Len(s) : Smooth(s[j])
      /\ Quiet(W[1]) => \A j \in 1..Len(s) : Quiet(s[j])
  BY DEF Stands, Like
<1>1. PICK d2 : /\ Through(W2, d2) /\ d2[Len(W2)] = 1
                /\ \A j \in 0..Len(s) : d2[j] = e[j]
                /\ \A j \in 1..Len(W) : d2[Len(s) + j - 1] = d[j]
  BY <1>0, ThroughReplaced
<1>2. d2[0] = e[0]
  <2>1. 0 \in 0..Len(s)
    BY DEF Put
  <2> QED BY <1>1, <2>1
<1>3. Tasks(W2, d2, m, n, x)
  BY <1>0, <1>1, TasksReplaced
<1> QED BY <1>1, <1>2, <1>3 DEF Stands

\* Where a conditional waits.
LEMMA Waiting ==
  ASSUME NEW W, Len(W) \in Nat \ {0}, NEW d, NEW m \in {0, 1, 2}, NEW n, NEW x,
         Tasks(W, d, m, n, x)
  PROVE  /\ W[1].do = "then" => m = 0
         /\ W[1].do = "else" => m = 1
         /\ W[1].do = "join" => m = 2
         /\ W[1].do \in {"else", "join"} => Rest(W[1], m, n) /\ d[0] = x + 1
         /\ W[1].do \in {"then", "else", "join"} =>
              W[1].node \in Translatable /\ \A j \in 2..Len(W) : Quiet(W[j])
         /\ Quiet(W[1]) \/ Smooth(W[1]) \/ W[1].do \in {"else", "join"}
<1>1. CASE m = 0
  <2>1. \A j \in 1..Len(W) : Quiet(W[j])
    BY <1>1 DEF Tasks
  <2>2. 1 \in 1..Len(W) /\ \A j \in 2..Len(W) : j \in 1..Len(W)
    OBVIOUS
  <2>3. Quiet(W[1]) /\ \A j \in 2..Len(W) : Quiet(W[j])
    BY <2>1, <2>2
  <2> QED BY <1>1, <2>3 DEF Quiet
<1>2. CASE m # 0
  <2>1. PICK q \in 1..Len(W) : /\ Rest(W[q], m, n) /\ d[q - 1] = x + 1
                               /\ \A j \in 1..(q - 1) : Smooth(W[j])
                               /\ \A j \in (q + 1)..Len(W) : Quiet(W[j])
    BY <1>2 DEF Tasks
  <2>2. CASE q = 1
    <3>1. Rest(W[1], m, n) /\ d[0] = x + 1 /\ \A j \in 2..Len(W) : Quiet(W[j])
      BY <2>1, <2>2
    <3>2. m \in {1, 2} /\ W[1].do = (IF m = 1 THEN "else" ELSE "join") /\ W[1].node \in Translatable
      BY <1>2, <3>1 DEF Rest
    <3> QED BY <3>1, <3>2
  <2>3. CASE q # 1
    <3>1. 1 \in 1..(q - 1)
      BY <2>1, <2>3
    <3>2. Smooth(W[1])
      BY <2>1, <3>1
    <3> QED BY <3>2 DEF Smooth
  <2> QED BY <2>2, <2>3
<1> QED BY <1>1, <1>2

-----------------------------------------------------------------------------
(* What the visits do to both. *)

\* Blocks and heights that are not touched stay laid.
LEMMA LaidFrame ==
  ASSUME NEW map, NEW p, NEW B, NEW h, NEW B2, NEW h2, NEW m \in Nat \ {0},
         Laid(map, p, B, h, m),
         \A l \in 1..(m - 1) : B2[l] = B[l], \A l \in 1..m : h2[l] = h[l]
  PROVE  Laid(map, p, B2, h2, m)
<1>1. h2[1] = 0
  BY DEF Laid
<1>2. ASSUME NEW l \in 1..(m - 1)
      PROVE  Closed(map, p, B2, h2, m, l)
  <2>1. Closed(map, p, B, h, m, l) /\ B2[l] = B[l] /\ h2[l] = h[l]
    BY <1>2 DEF Laid
  <2>2. \A t \in l..(m - 1) : t + 1 \in 1..m
    BY <1>2
  <2>3. \A t \in Successors(B[l]) : h2[t + 1] = h[t + 1]
    BY <2>1, <2>2 DEF Closed
  <2> QED BY <2>1, <2>3 DEF Closed
<1>3. ASSUME NEW l \in 2..m
      PROVE  Into(B2, l) # {}
  <2>1. Into(B, l) # {}
    BY <1>3 DEF Laid
  <2>2. \A k \in 1..(l - 1) : k \in 1..(m - 1)
    BY <1>3
  <2>3. \A k \in 1..(l - 1) : B2[k] = B[k]
    BY <2>2
  <2> QED BY <2>1, <2>3 DEF Into
<1> QED BY <1>1, <1>2, <1>3 DEF Laid

\* B2 has the instruction i at the end of the last block of B.
Extended(B, B2, i) ==
  /\ Len(B2) = Len(B) /\ \A l \in 1..Len(B) : l # Len(B) => B2[l] = B[l]
  /\ B2[Len(B)].instructions = Append(B[Len(B)].instructions, i)
  /\ B2[Len(B)].jumpFalse = B[Len(B)].jumpFalse

\* An instruction is emitted for a task.
LEMMA EmitFlow ==
  ASSUME NEW map, NEW p, NEW B \in Seq(BasicBlock), NEW W \in Seq(Task), W # <<>>,
         Flow(map, p, B, W), Head(W).do \in {"visit", "operate", "call"},
         NEW i \in Inst, Takes(map, i) = Uses(Head(W)), Takes(map, i) \in Nat,
         i.op = "GetI" => i.imm < p,
         NEW B2, Extended(B, B2, i)
  PROVE  Flow(map, p, B2, Tail(W))
<1> DEFINE n == Len(B)
           W2 == Tail(W)
<1>1. PICK h, d, m : Flows(map, p, B, W, h, d, m)
  BY DEF Flow
<1>2. /\ n \in Nat /\ m < n /\ n \in 1..n /\ n - m \in Nat \ {0} /\ m \in {0, 1, 2}
      /\ h \in [1..n -> Nat]
  <2>1. n \in Nat /\ m < n /\ m \in {0, 1, 2} /\ h \in [1..n -> Nat]
    BY <1>1, LenProperties DEF Flows
  <2> QED BY <2>1
<1>3. B[n].instructions \in Seq(Inst)
  <2>1. B[n] \in BasicBlock
    BY <1>2, ElementOfSeq
  <2> QED BY <2>1 DEF BasicBlock
<1>4. Len(W) \in Nat \ {0} /\ Head(W) = W[1] /\ W2 \in Seq(Task)
  BY HeadTailProperties, LenProperties, EmptySeq
<1>5. PICK s : Len(s) = 0 /\ Put(W, s, W2)
  <2>1. <<>> \in Seq(Task) /\ Len(<<>>) = 0 /\ W2 = <<>> \o W2
    BY <1>4, EmptySeq, ConcatEmptySeq
  <2> QED BY <2>1, Replaced
<1>6. /\ Through(W, d) /\ d[Len(W)] = 1 /\ Tasks(W, d, m, n, h[n])
      /\ Runs(map, p, B[n].instructions, h[n], d[0])
  BY <1>1 DEF Flows
<1>7. d[1] = d[0] - Takes(map, i) + 1 /\ Takes(map, i) <= d[0] /\ d[1] \in Nat
  <2>1. 1 \in 1..Len(W) /\ 1 - 1 = 0 /\ 1 \in 0..Len(W)
    BY <1>4
  <2>2. Uses(W[1]) <= d[1 - 1] /\ d[1] = d[1 - 1] - Uses(W[1]) + 1 /\ d[1] \in Nat
    BY <1>6, <2>1 DEF Through
  <2> QED BY <1>4, <2>1, <2>2
<1>8. Runs(map, p, B2[n].instructions, h[n], d[1])
  <2>1. Finds(map, p, i, d[0])
    BY <1>7 DEF Finds
  <2> QED BY <1>3, <1>6, <1>7, <2>1, RunsAppend DEF Extended
<1> DEFINE e == [j \in 0..0 |-> d[1]]
<1>9. Through(s, e) /\ e[Len(s)] = d[1] /\ e[0] = d[1]
  <2>1. e \in [0..0 -> Nat] /\ e[0] = d[1] /\ \A j \in 1..0 : FALSE
    BY <1>7
  <2> HIDE DEF e
  <2> QED BY <1>5, <2>1 DEF Through
<1> HIDE DEF e
<1>10. PICK d2 : Stands(W2, d2, m, n, h[n]) /\ d2[0] = d[1]
  <2>1. Like(W[1], s)
    BY <1>4, <1>5 DEF Like
  <2>2. Stands(W, d, m, n, h[n]) /\ m \in {0, 1, 2} /\ Put(W, s, W2)
    BY <1>2, <1>5, <1>6 DEF Stands
  <2> HIDE DEF W2, n
  <2>3. \E d2 : Stands(W2, d2, m, n, h[n]) /\ d2[0] = e[0]
    BY <1>9, <2>1, <2>2, GoesOn
  <2> QED BY <1>9, <2>3
<1>13. Laid(map, p, B2, h, n - m)
  <2> DEFINE k == n - m
  <2>1. Laid(map, p, B, h, k) /\ k \in Nat \ {0}
    BY <1>1, <1>2 DEF Flows
  <2>2. \A l \in 1..(k - 1) : l \in 1..n /\ l # n
    BY <1>2
  <2>3. \A l \in 1..(k - 1) : B2[l] = B[l]
    BY <2>2 DEF Extended
  <2>4. \A l \in 1..k : h[l] = h[l]
    OBVIOUS
  <2> HIDE DEF k, n
  <2>5. Laid(map, p, B2, h, k)
    BY <2>1, <2>3, <2>4, LaidFrame
  <2> QED BY <2>5 DEF k
<1>14. \A l \in (n - m)..(n - 1) :
         B2[l].jumpFalse = None /\ Runs(map, p, B2[l].instructions, h[l], h[n] + 1)
  <2>1. \A l \in (n - m)..(n - 1) : l \in 1..n /\ l # n
    BY <1>2
  <2>2. \A l \in (n - m)..(n - 1) : B2[l] = B[l]
    BY <2>1 DEF Extended
  <2> QED BY <1>1, <2>2 DEF Flows
<1>15. Flows(map, p, B2, W2, h, d2, m)
  BY <1>1, <1>2, <1>8, <1>10, <1>13, <1>14 DEF Flows, Extended, Stands
<1> QED BY <1>15 DEF Flow

\* Whatever is on the stack, the tasks s leave one value more.
Leaves(s) == \A a \in Nat : \E e : Through(s, e) /\ e[0] = a /\ e[Len(s)] = a + 1

\* A visit is put off: the tasks in its place leave its value.
LEMMA ScheduleFlow ==
  ASSUME NEW map, NEW p, NEW B, NEW W \in Seq(Task), W # <<>>, Flow(map, p, B, W),
         Head(W).do = "visit", NEW s \in Seq(Task),
         Like(Head(W), s), Leaves(s), NEW W2, W2 = s \o Tail(W)
  PROVE  Flow(map, p, B, W2)
<1> DEFINE n == Len(B)
<1>1. PICK h, d, m : Flows(map, p, B, W, h, d, m)
  BY DEF Flow
<1>2. Through(W, d) /\ d[Len(W)] = 1 /\ Tasks(W, d, m, n, h[n]) /\ m \in {0, 1, 2}
  BY <1>1 DEF Flows
<1>3. Head(W) = W[1] /\ Len(W) \in Nat \ {0} /\ Len(s) \in Nat /\ Put(W, s, W2)
  <2>1. Put(W, s, W2) /\ Head(W) = W[1]
    BY Replaced
  <2> QED BY <2>1 DEF Put
<1>4. d[1] = d[0] + 1 /\ d[0] \in Nat
  <2>1. 1 \in 1..Len(W) /\ 1 - 1 = 0 /\ 0 \in 0..Len(W)
    BY <1>3
  <2>2. d[1] = d[0] - Uses(W[1]) + 1 /\ d[0] \in Nat
    BY <1>2, <2>1 DEF Through
  <2>3. Uses(W[1]) = 0
    BY <1>3 DEF Uses
  <2>4. \A a \in Nat : a - 0 + 1 = a + 1
    OBVIOUS
  <2> QED BY <2>2, <2>3, <2>4
<1>5. PICK e : Through(s, e) /\ e[0] = d[0] /\ e[Len(s)] = d[1]
  BY <1>4 DEF Leaves
<1>6. PICK d2 : Stands(W2, d2, m, n, h[n]) /\ d2[0] = d[0]
  <2>1. Like(W[1], s)
    BY <1>3
  <2>2. Stands(W, d, m, n, h[n]) /\ m \in {0, 1, 2} /\ Put(W, s, W2)
    BY <1>2, <1>3 DEF Stands
  <2> HIDE DEF n
  <2>3. \E d2 : Stands(W2, d2, m, n, h[n]) /\ d2[0] = e[0]
    BY <1>5, <2>1, <2>2, GoesOn
  <2> QED BY <1>5, <2>3
<1>7. Flows(map, p, B, W2, h, d2, m)
  BY <1>1, <1>6 DEF Flows, Stands
<1> QED BY <1>7 DEF Flow

\* The tasks of an operator or a call: its kids, then itself.
LEMMA KidsThrough ==
  ASSUME NEW s \in Seq(Expr), NEW t \in Task, Uses(t) = Len(s)
  PROVE  Leaves(Append(Visits(s), t))
<1> SUFFICES ASSUME NEW a \in Nat
             PROVE  LET u == Append(Visits(s), t)
                    IN \E e : Through(u, e) /\ e[0] = a /\ e[Len(u)] = a + 1
  BY DEF Leaves
<1> DEFINE u == Append(Visits(s), t)
           k == Len(s)
           e == [j \in 0..(k + 1) |-> IF j = k + 1 THEN a + 1 ELSE a + j]
<1>1. k \in Nat /\ DOMAIN s = 1..k
  BY LenProperties
<1>2. /\ Len(u) = k + 1 /\ u[k + 1] = t /\ \A j \in 1..k : Uses(u[j]) = 0
  <2>1. Visits(s) \in Seq(TaskOf(0)) /\ Len(Visits(s)) = k
    BY VisitTasks
  <2>2. TaskOf(0) \subseteq Task
    BY DEF TaskOf
  <2>3. Visits(s) \in Seq(Task)
    BY <2>1, <2>2, SeqMonotonic
  <2>4. \A j \in 1..k : Visits(s)[j] = Visit(s[j])
    BY <1>1 DEF Visits
  <2>5. \A x : Uses(Visit(x)) = 0
    BY DEF Uses, Visit, Do
  <2> QED BY <2>1, <2>3, <2>4, <2>5, AppendProperties
<1> HIDE DEF u
<1>3. /\ e \in [0..(k + 1) -> Nat] /\ e[k + 1] = a + 1
      /\ \A j \in 0..k : e[j] = a + j
  BY <1>1
<1> HIDE DEF e, k
<1>4. ASSUME NEW j \in 1..(k + 1)
      PROVE  Uses(u[j]) <= e[j - 1] /\ e[j] = e[j - 1] - Uses(u[j]) + 1
  <2>1. j - 1 \in 0..k /\ e[j - 1] = a + (j - 1)
    BY <1>1, <1>3
  <2>2. CASE j = k + 1
    <3>1. Uses(u[j]) = k /\ e[j] = a + 1 /\ e[j - 1] = a + k
      BY <1>1, <1>2, <1>3, <2>1, <2>2 DEF k
    <3> QED BY <1>1, <3>1
  <2>3. CASE j # k + 1
    <3>1. j \in 1..k /\ j \in 0..k
      BY <1>1, <2>3
    <3>2. Uses(u[j]) = 0 /\ e[j] = a + j
      BY <1>2, <1>3, <3>1
    <3> QED BY <2>1, <3>1, <3>2
  <2> QED BY <2>2, <2>3
<1>5. Through(u, e)
  BY <1>2, <1>3, <1>4 DEF Through
<1>6. e[0] = a /\ e[Len(u)] = a + 1
  <2>1. 0 \in 0..k /\ a + 0 = a
    BY <1>1
  <2> QED BY <1>2, <1>3, <2>1
<1> QED BY <1>5, <1>6 DEF u

\* A branch begins in a new block: the true one when m is 0, the false one when it is 1.
LEMMA BranchFlow ==
  ASSUME NEW map, NEW p, NEW B, Len(B) \in Nat, NEW W \in Seq(Task), W # <<>>,
         NEW h, NEW d, NEW m \in {0, 1}, Flows(map, p, B, W, h, d, m),
         Head(W).do \in {"then", "else"}, m = 1 => d[0] = h[Len(B)] + 1,
         \A j \in 2..Len(W) : Quiet(W[j]),
         NEW v \in Task, Smooth(v), v.do = "visit",
         NEW t \in Task, Rest(t, m + 1, Len(B) + 1),
         NEW B2, Len(B2) = Len(B) + 1, \A l \in 1..Len(B) : B2[l] = B[l],
         B2[Len(B) + 1] = NewBlock,
         NEW W2, W2 = <<v, t>> \o Tail(W)
  PROVE  Flow(map, p, B2, W2)
<1> DEFINE n == Len(B)
           x == d[0] - 1
           h2 == [l \in 1..(n + 1) |-> IF l = n + 1 THEN x ELSE h[l]]
           s == <<v, t>>
           e == [j \in 0..2 |-> IF j = 0 THEN x ELSE x + 1]
<1>1. /\ n \in Nat \ {0} /\ m < n /\ n - m \in Nat \ {0} /\ h \in [1..n -> Nat]
      /\ Laid(map, p, B, h, n - m)
      /\ \A l \in (n - m)..(n - 1) :
           B[l].jumpFalse = None /\ Runs(map, p, B[l].instructions, h[l], h[n] + 1)
      /\ \A l \in (n - m + 1)..n : h[l] = h[n]
      /\ B[n].jumpFalse = None /\ Runs(map, p, B[n].instructions, h[n], d[0])
      /\ Through(W, d) /\ d[Len(W)] = 1
  BY DEF Flows
<1>2. s \in Seq(Task) /\ Len(s) = 2 /\ s[1] = v /\ s[2] = t
  OBVIOUS
<1>3. Put(W, s, W2) /\ Head(W) = W[1] /\ Len(W) \in Nat \ {0}
  <2>1. Put(W, s, W2) /\ Head(W) = W[1]
    BY <1>2, Replaced
  <2> QED BY <2>1 DEF Put
<1>4. x \in Nat /\ d[0] = x + 1 /\ d[1] = x + 1
  <2>1. 1 \in 1..Len(W) /\ 1 - 1 = 0 /\ 0 \in 0..Len(W) /\ Uses(W[1]) = 1
    BY <1>3 DEF Uses
  <2>2. 1 <= d[0] /\ d[1] = d[0] - 1 + 1 /\ d[0] \in Nat
    BY <1>1, <2>1 DEF Through
  <2> QED BY <2>2
<1> HIDE DEF x, s
<1>5. /\ h2 \in [1..(n + 1) -> Nat] /\ h2[n + 1] = x
      /\ \A l \in 1..n : h2[l] = h[l]
  BY <1>1, <1>4
<1>6. Through(s, e) /\ e[Len(s)] = d[1] /\ e[0] = x /\ e[1] = x + 1
  <2>1. e \in [0..2 -> Nat] /\ e[0] = x /\ e[1] = x + 1 /\ e[2] = x + 1
    BY <1>4
  <2>2. Uses(v) = 0 /\ Uses(t) = 1
    BY DEF Uses, Rest
  <2> HIDE DEF e
  <2>3. \A j \in 1..2 : Uses(s[j]) <= e[j - 1] /\ e[j] = e[j - 1] - Uses(s[j]) + 1
    <3>1. Uses(s[1]) <= e[1 - 1] /\ e[1] = e[1 - 1] - Uses(s[1]) + 1
      BY <1>2, <1>4, <2>1, <2>2
    <3>2. Uses(s[2]) <= e[2 - 1] /\ e[2] = e[2 - 1] - Uses(s[2]) + 1
      BY <1>2, <1>4, <2>1, <2>2
    <3> QED BY <3>1, <3>2
  <2> QED BY <1>2, <1>4, <2>1, <2>3 DEF Through
<1> HIDE DEF h2, e, n
<1>7. PICK d2 : /\ Through(W2, d2) /\ d2[Len(W2)] = 1
                /\ \A j \in 0..Len(s) : d2[j] = e[j]
                /\ \A j \in 1..Len(W) : d2[Len(s) + j - 1] = d[j]
  <2>1. Through(W, d) /\ d[Len(W)] = 1 /\ Put(W, s, W2)
    BY <1>1, <1>3
  <2>2. Through(s, e) /\ e[Len(s)] = d[1]
    BY <1>6
  <2> QED BY ONLY <2>1, <2>2, ThroughReplaced
<1>8. d2[0] = x /\ d2[1] = x + 1
  <2>1. 0 \in 0..Len(s) /\ 1 \in 0..Len(s)
    BY <1>2
  <2> QED BY <1>6, <1>7, <2>1
<1>9. Tasks(W2, d2, m + 1, n + 1, x)
  <2>1. Len(W2) = Len(W) + 1 /\ W2[1] = v /\ W2[2] = t /\ \A j \in 3..Len(W2) : Quiet(W2[j])
    <3>1. /\ Len(W2) = 2 + Len(W) - 1 /\ \A j \in 1..2 : W2[j] = s[j]
          /\ \A j \in 2..Len(W) : W2[2 + j - 1] = W[j]
      BY <1>2, <1>3 DEF Put
    <3>2. ASSUME NEW j \in 3..Len(W2)
          PROVE  Quiet(W2[j])
      <4>1. j - 1 \in 2..Len(W) /\ 2 + (j - 1) - 1 = j
        BY <1>3, <3>1
      <4>2. W2[2 + (j - 1) - 1] = W[j - 1]
        BY <3>1, <4>1
      <4> QED BY <4>1, <4>2
    <3>3. W2[1] = v /\ W2[2] = t
      BY <1>2, <3>1
    <3> QED BY <1>3, <3>1, <3>2, <3>3
  <2>2. 2 \in 1..Len(W2) /\ Rest(W2[2], m + 1, n + 1) /\ d2[2 - 1] = x + 1
    BY <1>3, <1>8, <2>1 DEF n
  <2>3. \A j \in 1..(2 - 1) : Smooth(W2[j])
    BY <2>1
  <2>4. \A j \in (2 + 1)..Len(W2) : Quiet(W2[j])
    BY <2>1
  <2>5. m + 1 # 0
    OBVIOUS
  <2> QED BY <2>2, <2>3, <2>4, <2>5 DEF Tasks
<1>10. Len(B2) = n + 1 /\ (n + 1) - (m + 1) = n - m /\ (n + 1) - 1 = n /\ m + 1 \in {0, 1, 2}
  BY <1>1 DEF n
<1>11. \A l \in 1..n : B2[l] = B[l]
  BY DEF n
<1>12. Laid(map, p, B2, h2, n - m)
  <2> DEFINE k == n - m
  <2>1. Laid(map, p, B, h, k) /\ k \in Nat \ {0}
    BY <1>1
  <2>2. \A l \in 1..k : l \in 1..n
    BY <1>1
  <2>3. \A l \in 1..(k - 1) : l \in 1..k
    BY <1>1
  <2>4. (\A l \in 1..(k - 1) : B2[l] = B[l]) /\ \A l \in 1..k : h2[l] = h[l]
    BY <1>5, <1>11, <2>2, <2>3
  <2> HIDE DEF k
  <2>5. Laid(map, p, B2, h2, k)
    BY <2>1, <2>4, LaidFrame
  <2> QED BY <2>5 DEF k
<1>13. ASSUME NEW l \in (n - m)..n
       PROVE  B2[l].jumpFalse = None /\ Runs(map, p, B2[l].instructions, h2[l], x + 1)
  <2>1. l \in 1..n /\ (l = n \/ l \in (n - m)..(n - 1))
    BY <1>1
  <2>2. B2[l] = B[l] /\ h2[l] = h[l]
    BY <1>5, <1>11, <2>1
  <2>3. CASE l = n
    BY <1>1, <1>4, <2>2, <2>3
  <2>4. CASE l \in (n - m)..(n - 1)
    <3>1. m = 1
      BY <1>1, <2>4
    <3>2. h[n] + 1 = x + 1
      BY <1>4, <3>1 DEF n
    <3> QED BY <1>1, <2>2, <2>4, <3>2
  <2> QED BY <2>1, <2>3, <2>4
<1>14. ASSUME NEW l \in (n - m + 1)..(n + 1)
       PROVE  h2[l] = x
  <2>1. CASE l = n + 1
    BY <1>5, <2>1
  <2>2. CASE l # n + 1
    <3>1. l \in 1..n /\ l \in (n - m + 1)..n /\ m = 1
      BY <1>1, <2>2
    <3>2. h[l] = h[n] /\ d[0] = h[n] + 1 /\ h[n] \in Nat
      BY <1>1, <3>1 DEF n
    <3>3. h[n] = x
      BY <1>4, <3>2
    <3> QED BY <1>5, <3>1, <3>2, <3>3
  <2> QED BY <2>1, <2>2
<1>15. B2[n + 1].jumpFalse = None /\ Runs(map, p, B2[n + 1].instructions, x, d2[0])
  BY <1>4, <1>8, RunsEmpty DEF n, NewBlock
<1>16. Flows(map, p, B2, W2, h2, d2, m + 1)
  <2>1. (n + 1) - (m + 1) + 1 = n - m + 1 /\ m + 1 < n + 1
    BY <1>1
  <2> QED BY <1>5, <1>7, <1>9, <1>10, <1>12, <1>13, <1>14, <1>15, <2>1 DEF Flows
<1> QED BY <1>16 DEF Flow

\* B2 has the jumps of a conditional between the last three blocks of B, and one
\* block behind them.
Meets(B, B2) ==
  LET n == Len(B)
  IN /\ Len(B2) = n + 1 /\ \A l \in 1..(n - 3) : B2[l] = B[l]
     /\ B2[n - 2].instructions = B[n - 2].instructions
     /\ B2[n - 2].jumpFalse = n - 1 /\ B2[n - 2].next = n - 2
     /\ \A l \in {n - 1, n} : /\ B2[l].instructions = B[l].instructions
                              /\ B2[l].jumpFalse = B[l].jumpFalse /\ B2[l].next = n
     /\ B2[n + 1] = NewBlock

\* Closed is a matter of the instructions and the way out.
LEMMA ClosedBy ==
  ASSUME NEW map, NEW p, NEW B, NEW h, NEW m, NEW l, B[l].next # None,
         Successors(B[l]) \subseteq l..(m - 1), NEW n \in Nat,
         Runs(map, p, B[l].instructions, h[l], n + Dropped(B[l])),
         \A t \in Successors(B[l]) : h[t + 1] = n
  PROVE  Closed(map, p, B, h, m, l)
BY DEF Closed

\* The two branches of a conditional meet in a new block.
LEMMA JoinFlow ==
  ASSUME NEW map, NEW p, NEW B, Len(B) \in Nat, NEW W \in Seq(Task), W # <<>>,
         Flow(map, p, B, W), Head(W).do = "join", NEW B2, Meets(B, B2)
  PROVE  Flow(map, p, B2, Tail(W))
<1> DEFINE n == Len(B)
           W2 == Tail(W)
<1>1. PICK h, d, m : Flows(map, p, B, W, h, d, m)
  BY DEF Flow
<1>2. Len(W) \in Nat \ {0} /\ Head(W) = W[1] /\ W2 \in Seq(Task)
  BY HeadTailProperties, LenProperties, EmptySeq
<1>3. PICK s : Len(s) = 0 /\ Put(W, s, W2)
  <2>1. <<>> \in Seq(Task) /\ Len(<<>>) = 0 /\ W2 = <<>> \o W2
    BY <1>2, EmptySeq, ConcatEmptySeq
  <2> QED BY <2>1, Replaced
<1>4. m = 2 /\ d[0] = h[n] + 1 /\ \A j \in 2..Len(W) : Quiet(W[j])
  <2>1. Tasks(W, d, m, n, h[n]) /\ m \in {0, 1, 2}
    BY <1>1 DEF Flows
  <2>2. W[1].do = "join" /\ Len(W) \in Nat \ {0}
    BY <1>2
  <2> HIDE DEF n, W2
  <2>3. /\ W[1].do = "join" => m = 2
        /\ W[1].do \in {"else", "join"} => Rest(W[1], m, n) /\ d[0] = h[n] + 1
        /\ W[1].do \in {"then", "else", "join"} =>
              W[1].node \in Translatable /\ \A j \in 2..Len(W) : Quiet(W[j])
    BY ONLY <2>1, <2>2, Waiting
  <2> QED BY <2>2, <2>3
<1>5. /\ n \in Nat /\ n > 2 /\ n - 2 \in Nat \ {0} /\ h \in [1..n -> Nat]
      /\ Laid(map, p, B, h, n - 2)
      /\ \A l \in (n - 2)..(n - 1) :
           B[l].jumpFalse = None /\ Runs(map, p, B[l].instructions, h[l], h[n] + 1)
      /\ \A l \in (n - 2 + 1)..n : h[l] = h[n]
      /\ B[n].jumpFalse = None /\ Runs(map, p, B[n].instructions, h[n], d[0])
      /\ Through(W, d) /\ d[Len(W)] = 1
  BY <1>1, <1>4 DEF Flows
<1> DEFINE x == h[n]
           h2 == [l \in 1..(n + 1) |-> IF l = n + 1 THEN x + 1 ELSE h[l]]
           e == [j \in 0..0 |-> x + 1]
<1>6. /\ x \in Nat /\ h[n - 1] = x /\ n \in 1..n /\ n - 1 \in 1..n /\ n - 2 \in 1..n
      /\ Runs(map, p, B[n - 2].instructions, h[n - 2], x + 1) /\ B[n - 1].jumpFalse = None
      /\ Runs(map, p, B[n - 1].instructions, h[n - 1], x + 1)
      /\ Runs(map, p, B[n].instructions, h[n], x + 1)
  <2>1. /\ n \in 1..n /\ n - 1 \in (n - 2)..(n - 1) /\ n - 2 \in (n - 2)..(n - 1)
        /\ n - 1 \in (n - 2 + 1)..n /\ n - 1 \in 1..n /\ n - 2 \in 1..n
    BY <1>5
  <2>2. x \in Nat
    BY <1>5, <2>1
  <2> QED BY <1>4, <1>5, <2>1, <2>2
<1>7. d[1] = x + 1
  <2>1. 1 \in 1..Len(W) /\ 1 - 1 = 0 /\ Uses(W[1]) = 1
    BY <1>2 DEF Uses
  <2>2. d[1] = d[0] - 1 + 1
    BY <1>5, <2>1 DEF Through
  <2> HIDE DEF n
  <2> QED BY <1>4, <1>6, <2>2
<1> HIDE DEF W2, x
<1>8. /\ h2 \in [1..(n + 1) -> Nat] /\ h2[n + 1] = x + 1
      /\ \A l \in 1..n : h2[l] = h[l]
  BY <1>5, <1>6
<1>9. Through(s, e) /\ e[Len(s)] = d[1] /\ e[0] = x + 1
  <2>1. e \in [0..0 -> Nat] /\ e[0] = x + 1 /\ \A j \in 1..0 : FALSE
    BY <1>6
  <2> HIDE DEF e
  <2> QED BY <1>3, <1>7, <2>1 DEF Through
<1> HIDE DEF h2, e, n
<1>10. PICK d2 : /\ Through(W2, d2) /\ d2[Len(W2)] = 1
                 /\ \A j \in 0..Len(s) : d2[j] = e[j]
                 /\ \A j \in 1..Len(W) : d2[Len(s) + j - 1] = d[j]
  <2>1. Through(W, d) /\ d[Len(W)] = 1 /\ Put(W, s, W2)
    BY <1>3, <1>5
  <2>2. Through(s, e) /\ e[Len(s)] = d[1]
    BY <1>9
  <2> QED BY ONLY <2>1, <2>2, ThroughReplaced
<1>11. d2[0] = x + 1
  BY <1>3, <1>9, <1>10
<1>12. Tasks(W2, d2, 0, n + 1, x + 1)
  <2>1. /\ Len(W2) = 0 + Len(W) - 1
        /\ \A j \in 2..Len(W) : W2[0 + j - 1] = W[j]
    BY <1>3 DEF Put
  <2>2. ASSUME NEW j \in 1..Len(W2)
        PROVE  Quiet(W2[j])
    <3>1. j + 1 \in 2..Len(W) /\ 0 + (j + 1) - 1 = j
      BY <1>2, <2>1
    <3>2. W2[0 + (j + 1) - 1] = W[j + 1]
      BY <2>1, <3>1
    <3> QED BY <1>4, <3>1, <3>2
  <2> QED BY <2>2 DEF Tasks
<1>13. /\ Len(B2) = n + 1 /\ \A l \in 1..(n - 3) : B2[l] = B[l]
       /\ B2[n - 2].instructions = B[n - 2].instructions
       /\ B2[n - 2].jumpFalse = n - 1 /\ B2[n - 2].next = n - 2
       /\ \A l \in {n - 1, n} : /\ B2[l].instructions = B[l].instructions
                                /\ B2[l].jumpFalse = None /\ B2[l].next = n
       /\ B2[n + 1] = NewBlock
  BY <1>5, <1>6 DEF Meets, n
<1>14. Laid(map, p, B2, h2, n - 2)
  <2> DEFINE k == n - 2
  <2>1. Laid(map, p, B, h, k) /\ k \in Nat \ {0} /\ k - 1 = n - 3
    BY <1>5
  <2>2. \A l \in 1..k : l \in 1..n
    BY <1>5
  <2>3. (\A l \in 1..(k - 1) : B2[l] = B[l]) /\ \A l \in 1..k : h2[l] = h[l]
    BY <1>8, <1>13, <2>1, <2>2
  <2> HIDE DEF k
  <2>4. Laid(map, p, B2, h2, k)
    BY <2>1, <2>3, LaidFrame
  <2> QED BY <2>4 DEF k
<1>15. h2[n - 2] = h[n - 2] /\ h2[n - 1] = x /\ h2[n] = x /\ h2[n + 1] = x + 1
  BY <1>6, <1>8 DEF x
<1>16. Closed(map, p, B2, h2, n + 1, n - 2)
  <2> DEFINE b == B2[n - 2]
  <2>1. Successors(b) = {n - 2, n - 1} /\ Dropped(b) = 1 /\ b.next # None
    BY <1>5, <1>13 DEF Successors, Dropped, None
  <2>2. Successors(b) \subseteq (n - 2)..((n + 1) - 1)
    BY <1>5, <2>1
  <2>3. \A t \in Successors(b) : h2[t + 1] = x
    <3>1. (n - 2) + 1 = n - 1 /\ (n - 1) + 1 = n
      BY <1>5
    <3> QED BY <1>15, <2>1, <3>1
  <2>4. Runs(map, p, b.instructions, h2[n - 2], x + 1)
    BY <1>6, <1>13, <1>15
  <2> QED BY <1>6, <2>1, <2>2, <2>3, <2>4, ClosedBy
<1>17. ASSUME NEW l \in {n - 1, n}
       PROVE  Closed(map, p, B2, h2, n + 1, l)
  <2> DEFINE b == B2[l]
  <2>1. Successors(b) = {n} /\ Dropped(b) = 0 /\ b.next # None
    BY <1>5, <1>13 DEF Successors, Dropped, None
  <2>2. Successors(b) \subseteq l..((n + 1) - 1)
    BY <1>5, <2>1
  <2>3. \A t \in Successors(b) : h2[t + 1] = x + 1
    BY <1>15, <2>1
  <2>4. Runs(map, p, b.instructions, h2[l], x + 1)
    BY <1>6, <1>13, <1>15 DEF x
  <2>5. x + 1 \in Nat /\ (x + 1) + 0 = x + 1
    BY <1>6
  <2>6. Runs(map, p, b.instructions, h2[l], (x + 1) + Dropped(b))
    BY <2>1, <2>4, <2>5
  <2> QED BY <2>1, <2>2, <2>3, <2>5, <2>6, ClosedBy
<1>18. Laid(map, p, B2, h2, n + 1)
  <2>1. h2[1] = 0
    BY <1>14 DEF Laid
  <2>2. ASSUME NEW l \in 1..((n + 1) - 1)
        PROVE  Closed(map, p, B2, h2, n + 1, l)
    <3>1. CASE l \in 1..(n - 2 - 1)
      <4>1. Closed(map, p, B2, h2, n - 2, l)
        BY <1>14, <3>1 DEF Laid
      <4>2. \A t \in l..(n - 2 - 1) : t \in l..((n + 1) - 1)
        BY <1>5
      <4> QED BY <4>1, <4>2 DEF Closed
    <3>2. CASE l \in {n - 2, n - 1, n}
      BY <1>16, <1>17, <3>2
    <3> QED BY <1>5, <3>1, <3>2
  <2>3. ASSUME NEW l \in 2..(n + 1)
        PROVE  Into(B2, l) # {}
    <3>1. CASE l \in 2..(n - 2)
      BY <1>14, <3>1 DEF Laid
    <3>2. CASE l \in {n - 1, n}
      <4>1. n - 2 \in 1..(l - 1)
        BY <1>5, <3>2
      <4>2. l - 1 \in Successors(B2[n - 2])
        BY <1>5, <1>13, <3>2 DEF Successors, None
      <4> QED BY <4>1, <4>2 DEF Into
    <3>3. CASE l = n + 1
      <4>1. n \in 1..(l - 1) /\ l - 1 = n
        BY <1>5, <3>3
      <4>2. l - 1 \in Successors(B2[n])
        BY <1>5, <1>13, <4>1 DEF Successors, None
      <4> QED BY <4>1, <4>2 DEF Into
    <3> QED BY <1>5, <3>1, <3>2, <3>3
  <2> QED BY <2>1, <2>2, <2>3 DEF Laid
<1>19. B2[n + 1].jumpFalse = None /\ Runs(map, p, B2[n + 1].instructions, x + 1, d2[0])
  BY <1>6, <1>11, <1>13, RunsEmpty DEF NewBlock
<1>20. Flows(map, p, B2, W2, h2, d2, 0)
  <2>1. 0 < n + 1 /\ (n + 1) - 0 = n + 1
    BY <1>5
  <2>2. \A l \in (n + 1)..((n + 1) - 1) : FALSE
    BY <1>5
  <2>3. \A l \in ((n + 1) + 1)..(n + 1) : FALSE
    BY <1>5
  <2> QED BY <1>8, <1>10, <1>12, <1>13, <1>18, <1>19, <2>1, <2>2, <2>3 DEF Flows
<1> QED BY <1>20 DEF Flow, W2

-----------------------------------------------------------------------------
(* Instructions. *)

\* What a visit may emit for a task, in a function with p parameters.
Serves(map, p, i, t) == /\ i \in Inst /\ Takes(map, i) = Uses(t) /\ Takes(map, i) \in Nat
                        /\ i.op = "GetI" => i.imm < p

\* The number of a parameter is less than that of parameters.
LEMMA SlotBounds ==
  ASSUME NEW args \in Seq(STRING), NEW x \in DOMAIN Slots(args)
  PROVE  Slots(args)[x] < Len(args)
<1> DEFINE R == Range(args)
           before == {args[i] : i \in {j \in DOMAIN args : \A k \in 1..j : args[k] # x}}
           n == Len(args)
<1>1. n \in Nat /\ args \in [1..n -> STRING] /\ DOMAIN args = 1..n
  BY LenProperties
<1>2. IsFiniteSet(1..n) /\ Cardinality(1..n) <= n
  <2>1. 1 \in Int /\ n \in Int
    BY <1>1
  <2>2. IsFiniteSet(1..n) /\ Cardinality(1..n) = IF 1 > n THEN 0 ELSE n - 1 + 1
    BY <2>1, FS_Interval
  <2> HIDE DEF n
  <2>3. (IF 1 > n THEN 0 ELSE n - 1 + 1) <= n
    BY <1>1
  <2> QED BY <2>2, <2>3
<1>3. args \in Surjection(1..n, R)
  BY <1>1 DEF Surjection, Range
<1>4. IsFiniteSet(R) /\ Cardinality(R) <= Cardinality(1..n)
  BY <1>2, <1>3, FS_Surjection
<1>5. x \in R /\ Slots(args)[x] = Cardinality(before)
  BY DEF Slots
<1>6. before \subseteq R \ {x}
  <2> SUFFICES ASSUME NEW j \in DOMAIN args, \A k \in 1..j : args[k] # x
               PROVE  args[j] \in R /\ args[j] # x
    OBVIOUS
  <2>1. j \in 1..j
    BY <1>1
  <2> QED BY <2>1 DEF Range
<1>7. IsFiniteSet(R \ {x}) /\ Cardinality(R \ {x}) = Cardinality(R) - 1
  BY <1>4, <1>5, FS_RemoveElement
<1>8. Cardinality(before) <= Cardinality(R \ {x})
  BY <1>6, <1>7, FS_Subset
<1> HIDE DEF R, before, n
<1>9. Cardinality(R) \in Nat /\ Cardinality(1..n) \in Nat /\ Cardinality(before) \in Nat
  BY <1>2, <1>4, <1>6, <1>7, FS_Subset, FS_CardinalityType
<1> QED BY <1>1, <1>2, <1>4, <1>5, <1>7, <1>8, <1>9 DEF n

\* Each function has a number of its own.
LEMMA NumberNames ==
  ASSUME Maps, NEW c, File(c) \in DOMAIN functionMap
  PROVE  Numbers(functionMap, functionMap[File(c)]) = c
<1> DEFINE n == functionMap[File(c)]
           k == CHOOSE k \in DOMAIN functionMap : functionMap[k] = n
<1>1. k \in DOMAIN functionMap /\ functionMap[k] = n
  OBVIOUS
<1>2. \A i, j \in DOMAIN functionMap : functionMap[i] = functionMap[j] => i = j
  BY DEF Maps, Dense
<1> HIDE DEF k
<1>3. k = File(c)
  BY <1>1, <1>2
<1>4. k[2] = c
  BY <1>3 DEF File
<1> QED BY <1>4 DEF Numbers, k

\* What a translatable expression is.
LEMMA Translated ==
  ASSUME NEW e \in Translatable
  PROVE  /\ e \in Expr /\ IsNode(e) /\ e.kids \in Seq(Expr) /\ e.kind \notin Unsupported
         /\ e.kind = "Call" => Arity(e.kids[1].name) = Len(e.kids) - 1
         /\ e.kind = "IfExpr" => e.kids[2] \in OneBlock /\ e.kids[3] \in OneBlock
         /\ \A i \in DOMAIN e.kids : e.kids[i] \in Translatable
         /\ e \in OneBlock =>
              e.kind # "IfExpr" /\ \A i \in DOMAIN e.kids : e.kids[i] \in OneBlock
<1>1. e \in Expr
  BY TranslatableAssumption
<1>2. IsNode(e) /\ e.kids \in Seq(Expr)
  BY <1>1, ExprAssumption DEF IsNode
<1> QED BY <1>1, <1>2, TranslatableAssumption

\* The task at hand.
LEMMA AtHead ==
  ASSUME NEW map, NEW p, NEW B, NEW W \in Seq(Task), W # <<>>, Flow(map, p, B, W)
  PROVE  /\ Head(W) \in Task /\ Head(W).node \in Translatable
         /\ Head(W).do \in {"visit", "operate", "call"} =>
              Quiet(Head(W)) \/ Smooth(Head(W))
<1>1. PICK h, d, m : Flows(map, p, B, W, h, d, m)
  BY DEF Flow
<1>2. Len(W) \in Nat \ {0} /\ Head(W) = W[1] /\ Head(W) \in Task
  BY HeadTailProperties, LenProperties, EmptySeq
<1> DEFINE n == Len(B)
           x == h[Len(B)]
<1>3. Tasks(W, d, m, n, x) /\ m \in {0, 1, 2}
  BY <1>1 DEF Flows
<1> HIDE DEF n, x
<1>4. Len(W) \in Nat \ {0}
  BY <1>2
<1>5. /\ W[1].do \in {"then", "else", "join"} => W[1].node \in Translatable
      /\ Quiet(W[1]) \/ Smooth(W[1]) \/ W[1].do \in {"else", "join"}
  BY ONLY <1>3, <1>4, Waiting
<1>6. Quiet(W[1]) \/ Smooth(W[1]) => W[1].node \in Translatable
  BY TranslatableAssumption DEF Quiet, Smooth
<1> QED BY <1>2, <1>5, <1>6

-----------------------------------------------------------------------------
(* What the visits do. *)

\* The work is made of tasks.
LEMMA WorkTasks ==
  ASSUME GenInv
  PROVE  work \in Seq(Task) /\ funbody \in Seq(BasicBlock) /\ Len(funbody) \in Nat
<1>1. TaskOf(Len(funbody)) \subseteq Task
  BY DEF TaskOf
<1>2. work \in Seq(TaskOf(Len(funbody))) /\ funbody \in Seq(BasicBlock)
  BY DEF GenInv, Body
<1> QED BY <1>1, <1>2, SeqMonotonic, LenProperties

\* An instruction is emitted.
LEMMA EmitAt ==
  ASSUME GenInv, NEW p, Flow(functionMap, p, funbody, work),
         NEW what \in {"visit", "operate", "call"}, Doing(what), NEW inst, Emit(inst),
         Serves(functionMap, p, inst, Head(work))
  PROVE  Flow(functionMap, p, funbody', work')
<1> DEFINE n == Len(funbody)
           b == [funbody[n] EXCEPT !.instructions = Append(@, inst)]
<1>1. /\ n = tail + 1 /\ n \in Nat /\ n \in 1..n /\ Head(work).do = what /\ work # <<>>
  BY AtTask DEF Doing
<1>2. work \in Seq(Task) /\ funbody \in Seq(BasicBlock)
  BY WorkTasks
<1>3. funbody' = [funbody EXCEPT ![n] = b] /\ work' = Tail(work)
  BY <1>1 DEF Emit
<1>4. funbody[n] \in BasicBlock
  BY <1>1, <1>2, ElementOfSeq
<1>5. /\ b.instructions = Append(funbody[n].instructions, inst)
      /\ b.jumpFalse = funbody[n].jumpFalse /\ b \in BasicBlock
  <2>1. inst \in Inst /\ funbody[n].instructions \in Seq(Inst)
    BY <1>4 DEF Serves, BasicBlock
  <2>2. Append(funbody[n].instructions, inst) \in Seq(Inst)
    BY <2>1, AppendProperties
  <2> QED BY <1>4, <2>2 DEF BasicBlock
<1> HIDE DEF b
<1>6. /\ Len([funbody EXCEPT ![n] = b]) = n
      /\ \A j \in 1..n : [funbody EXCEPT ![n] = b][j] = IF j = n THEN b ELSE funbody[j]
  BY <1>1, <1>2, <1>5, ExceptSeq
<1>7. Extended(funbody, funbody', inst)
  BY <1>1, <1>3, <1>5, <1>6 DEF Extended
<1>8. /\ inst \in Inst /\ Takes(functionMap, inst) = Uses(Head(work))
      /\ Takes(functionMap, inst) \in Nat /\ (inst.op = "GetI" => inst.imm < p)
  BY DEF Serves
<1>9. Head(work).do \in {"visit", "operate", "call"}
  BY <1>1
<1> HIDE DEF n
<1> QED BY <1>1, <1>2, <1>3, <1>7, <1>8, <1>9, EmitFlow

\* Tasks take the place of a visit.
LEMMA ScheduleAt ==
  ASSUME GenInv, NEW p, Flow(functionMap, p, funbody, work), Doing("visit"),
         NEW s \in Seq(Task), Like(Head(work), s), Leaves(s), Schedule(s)
  PROVE  Flow(functionMap, p, funbody', work')
<1>1. work # <<>> /\ Head(work).do = "visit"
  BY DEF Doing
<1>2. funbody' = funbody /\ work' = s \o Tail(work)
  BY DEF Schedule, Continue
<1>3. work \in Seq(Task)
  BY WorkTasks
<1>4. Flow(functionMap, p, funbody, work')
  BY <1>1, <1>2, <1>3, ScheduleFlow
<1> QED BY <1>2, <1>4

\* Leaves and names.
LEMMA LeafFlow ==
  ASSUME GenInv, NEW args \in Seq(STRING), variableLookup = Slots(args),
         Flow(functionMap, Len(args), funbody, work),
         VisitNumber \/ VisitUndef \/ VisitConfigVar \/ VisitIdent
  PROVE  Flow(functionMap, Len(args), funbody', work')
<1> SUFFICES ASSUME NEW p, p = Len(args) PROVE Flow(functionMap, p, funbody', work')
  OBVIOUS
<1>1. PICK inst : /\ Doing("visit") /\ Emit(inst) /\ inst \in Inst
                  /\ inst.op \in {"ConstNum", "ConstMisc", "GetI", "GetGlobalI"}
                  /\ inst.op = "GetI" => inst.imm < p
  <2>1. CASE VisitNumber
    <3>1. Doing("visit") /\ Add(Immediate("ConstNum", node.value))
      BY <2>1 DEF VisitNumber, Visiting
    <3>2. node.value \in Int
      BY <3>1, AtTask DEF IsNode
    <3> QED BY <3>1, <3>2 DEF Add, Immediate, Inst
  <2>2. CASE VisitUndef
    <3>1. Doing("visit") /\ Add(Immediate("ConstMisc", 2))
      BY <2>2 DEF VisitUndef, Visiting
    <3> QED BY <3>1 DEF Add, Immediate, Inst
  <2>3. CASE VisitConfigVar
    <3> DEFINE key == <<"max", node.name>>
               g == Insert(globalMap, key)[key]
    <3>1. Doing("visit") /\ Emit(Immediate("GetGlobalI", g))
      BY <2>3 DEF VisitConfigVar, Visiting
    <3>2. g \in Int
      <4>1. Globals \in Nat /\ Cardinality(DOMAIN globalMap) \in Nat
        BY Counts DEF GenInv, Globals
      <4>2. globalMap \in [DOMAIN globalMap -> Nat]
        BY DEF GenInv, Maps, Numbering
      <4> HIDE DEF key
      <4>3. g \in Nat
        BY <4>1, <4>2 DEF Insert
      <4> QED BY <4>3
    <3> HIDE DEF g
    <3> QED BY <3>1, <3>2 DEF Immediate, Inst
  <2>4. CASE VisitIdent
    <3>1. Doing("visit") /\ Emit(Lookup(node))
      BY <2>4 DEF VisitIdent, Visiting, Add
    <3>2. CASE node.name \in DOMAIN variableLookup
      <4>1. Lookup(node) = Immediate("GetI", variableLookup[node.name])
        BY <3>2 DEF Lookup
      <4>2. variableLookup[node.name] \in Nat
        BY <3>2 DEF GenInv, Walk, Numbering
      <4>3. variableLookup[node.name] < p
        BY <3>2, SlotBounds
      <4>4. variableLookup[node.name] \in Int
        BY <4>2
      <4> QED BY <3>1, <4>1, <4>3, <4>4 DEF Immediate, Inst
    <3>3. CASE node.name \notin DOMAIN variableLookup /\ File(node.name) \in DOMAIN globalMap
      <4>1. Lookup(node) = Immediate("GetGlobalI", globalMap[File(node.name)])
        BY <3>3 DEF Lookup
      <4>2. globalMap[File(node.name)] \in Nat
        BY <3>3 DEF GenInv, Maps, Numbering
      <4>3. globalMap[File(node.name)] \in Int
        BY <4>2
      <4> QED BY <3>1, <4>1, <4>3 DEF Immediate, Inst
    <3>4. CASE node.name \notin DOMAIN variableLookup /\ File(node.name) \notin DOMAIN globalMap
      <4>1. Lookup(node) = Immediate("ConstMisc", 2)
        BY <3>4 DEF Lookup
      <4> QED BY <3>1, <4>1 DEF Immediate, Inst
    <3> QED BY <3>2, <3>3, <3>4
  <2> QED BY <2>1, <2>2, <2>3, <2>4
<1>2. Takes(functionMap, inst) = 0 /\ Uses(Head(work)) = 0
  BY <1>1 DEF Takes, Uses, Doing
<1>3. Serves(functionMap, p, inst, Head(work))
  BY <1>1, <1>2 DEF Serves
<1> QED BY <1>1, <1>3, EmitAt

\* The tasks for the kids s of a node e, and one for e: they are of its kind.
LEMMA KidsLike ==
  ASSUME NEW t \in Task, t.do = "visit", NEW e, e = t.node, e.kind # "IfExpr",
         NEW what \in {"operate", "call"}, NEW s \in Seq(Expr),
         e \in Translatable => \A i \in 1..Len(s) : s[i] \in Translatable,
         e \in OneBlock => \A i \in 1..Len(s) : s[i] \in OneBlock
  PROVE  /\ Append(Visits(s), Do(what, e, <<>>)) \in Seq(Task)
         /\ Like(t, Append(Visits(s), Do(what, e, <<>>)))
         /\ Do(what, e, <<>>) \in Task
<1> DEFINE u == Do(what, e, <<>>)
           v == Append(Visits(s), u)
           k == Len(s)
<1>1. e \in Expr /\ <<>> \in Seq(Nat)
  BY EmptySeq DEF Task
<1>2. u \in Task /\ u.do = what /\ u.node = e
  BY <1>1 DEF Do, Task
<1>3. k \in Nat /\ DOMAIN s = 1..k
  BY LenProperties
<1>4. Visits(s) \in Seq(Task) /\ Len(Visits(s)) = k
  <2>1. Visits(s) \in Seq(TaskOf(0)) /\ Len(Visits(s)) = k
    BY VisitTasks
  <2>2. TaskOf(0) \subseteq Task
    BY DEF TaskOf
  <2> QED BY <2>1, <2>2, SeqMonotonic
<1>5. \A j \in 1..k : Visits(s)[j].do = "visit" /\ Visits(s)[j].node = s[j]
  BY <1>3 DEF Visits, Visit, Do
<1> HIDE DEF u
<1>6. /\ v \in Seq(Task) /\ Len(v) = k + 1 /\ v[k + 1] = u
      /\ \A j \in 1..k : v[j] = Visits(s)[j]
  BY <1>2, <1>4, AppendProperties
<1> HIDE DEF v, k
<1>7. \A j \in 1..(k + 1) : j = k + 1 \/ j \in 1..k
  BY <1>3
<1>8. Smooth(t) => \A j \in 1..(k + 1) : Smooth(v[j])
  <2> SUFFICES ASSUME e \in OneBlock, NEW j \in 1..(k + 1) PROVE Smooth(v[j])
    BY DEF Smooth
  <2>1. CASE j = k + 1
    BY <1>2, <1>6, <2>1 DEF Smooth
  <2>2. CASE j \in 1..k
    BY <1>5, <1>6, <2>2 DEF Smooth, k
  <2> QED BY <1>7, <2>1, <2>2
<1>9. Quiet(t) => \A j \in 1..(k + 1) : Quiet(v[j])
  <2> SUFFICES ASSUME e \in Translatable, NEW j \in 1..(k + 1) PROVE Quiet(v[j])
    BY DEF Quiet
  <2>1. CASE j = k + 1
    BY <1>2, <1>6, <2>1 DEF Quiet
  <2>2. CASE j \in 1..k
    BY <1>5, <1>6, <2>2 DEF Quiet, k
  <2> QED BY <1>7, <2>1, <2>2
<1>10. Like(t, v)
  BY <1>6, <1>8, <1>9 DEF Like
<1> QED BY <1>2, <1>6, <1>10 DEF u, v

\* Operators.
LEMMA OperatorFlow ==
  ASSUME GenInv, NEW p, Flow(functionMap, p, funbody, work), VisitOperator \/ Operate
  PROVE  Flow(functionMap, p, funbody', work')
<1>1. work # <<>> /\ work \in Seq(Task)
  BY WorkTasks DEF VisitOperator, Operate, Visiting, Doing
<1>2. Head(work) \in Task /\ node \in Translatable
  BY <1>1, AtHead DEF node
<1>3. /\ node \in Expr /\ IsNode(node) /\ node.kids \in Seq(Expr)
      /\ \A i \in DOMAIN node.kids : node.kids[i] \in Translatable
      /\ node \in OneBlock => \A i \in DOMAIN node.kids : node.kids[i] \in OneBlock
  BY <1>2, Translated
<1>4. DOMAIN node.kids = 1..Len(node.kids)
  BY <1>3, LenProperties
<1>5. CASE VisitOperator
  <2> DEFINE t == Do("operate", node, <<>>)
             s == Append(Visits(node.kids), t)
  <2>1. Doing("visit") /\ node.kind \in {"Unary", "Binary"} /\ Schedule(s)
    BY <1>5 DEF VisitOperator, Visiting
  <2>2. Head(work).do = "visit" /\ node = Head(work).node /\ node.kind # "IfExpr"
    BY <2>1 DEF Doing, node
  <2>3. s \in Seq(Task) /\ Like(Head(work), s) /\ t \in Task
    BY <1>2, <1>3, <1>4, <2>2, KidsLike
  <2>4. Uses(t) = Len(node.kids)
    BY DEF Uses, Do
  <2> HIDE DEF t
  <2>5. Leaves(s)
    BY <1>3, <2>3, <2>4, KidsThrough
  <2> HIDE DEF s
  <2> QED BY <2>1, <2>3, <2>5, ScheduleAt
<1>6. CASE Operate
  <2> DEFINE inst == IF node.kind = "Unary" THEN Unary(node.name) ELSE Binary(node.name)
  <2>1. Doing("operate") /\ Emit(inst)
    BY <1>6 DEF Operate, Add
  <2>2. node.kind \in {"Unary", "Binary"}
    BY <2>1, AtTask DEF TaskOf, Fits, node
  <2>3. CASE node.kind = "Unary"
    <3>1. node.name \in UnaryOp /\ Len(node.kids) = 1
      BY <1>3, <2>3 DEF IsNode, Leaf, Unsupported
    <3>2. inst = Unary(node.name) /\ inst \in Inst
      BY <2>3, <3>1 DEF Unary, Inst
    <3>3. Takes(functionMap, inst) = 1 /\ inst.op # "GetI"
      BY <3>2 DEF Takes, Unary
    <3>4. Uses(Head(work)) = 1
      BY <2>1, <3>1 DEF Uses, Doing, node
    <3>5. Serves(functionMap, p, inst, Head(work))
      BY <3>2, <3>3, <3>4 DEF Serves
    <3> HIDE DEF inst
    <3> QED BY <2>1, <3>5, EmitAt
  <2>4. CASE node.kind = "Binary"
    <3>1. node.name \in BinaryOp /\ Len(node.kids) = 2
      BY <1>3, <2>4 DEF IsNode, Leaf, Unsupported
    <3>2. inst = Binary(node.name) /\ inst \in Inst
      BY <2>4, <3>1 DEF Binary, Inst
    <3>3. Takes(functionMap, inst) = 2 /\ inst.op # "GetI"
      BY <3>2 DEF Takes, Binary
    <3>4. Uses(Head(work)) = 2
      BY <2>1, <3>1 DEF Uses, Doing, node
    <3>5. Serves(functionMap, p, inst, Head(work))
      BY <3>2, <3>3, <3>4 DEF Serves
    <3> HIDE DEF inst
    <3> QED BY <2>1, <3>5, EmitAt
  <2> QED BY <2>2, <2>3, <2>4
<1> QED BY <1>5, <1>6

\* Calls.
LEMMA CallFlow ==
  ASSUME GenInv, NEW p, Flow(functionMap, p, funbody, work), VisitCall \/ Call
  PROVE  phase' = "failed" \/ Flow(functionMap, p, funbody', work')
<1>1. work # <<>> /\ work \in Seq(Task)
  BY WorkTasks DEF VisitCall, Call, Visiting, Doing
<1>2. Head(work) \in Task /\ node \in Translatable
  BY <1>1, AtHead DEF node
<1>3. /\ node \in Expr /\ IsNode(node) /\ node.kids \in Seq(Expr)
      /\ node.kind = "Call" => Arity(node.kids[1].name) = Len(node.kids) - 1
      /\ \A i \in DOMAIN node.kids : node.kids[i] \in Translatable
      /\ node \in OneBlock => \A i \in DOMAIN node.kids : node.kids[i] \in OneBlock
  BY <1>2, Translated
<1>4. DOMAIN node.kids = 1..Len(node.kids) /\ Len(node.kids) \in Nat
  BY <1>3, LenProperties
<1>5. node.kind = "Call"
  <2>1. Doing("call") => node.kind = "Call"
    BY AtTask DEF TaskOf, Fits, node
  <2> QED BY <2>1 DEF VisitCall, Visiting, Call
<1>6. Len(node.kids) >= 1 /\ node.kids # <<>>
  <2>1. Len(node.kids) >= 1
    BY <1>3, <1>5 DEF IsNode, Leaf, Unsupported
  <2>2. Len(<<>>) = 0
    BY EmptySeq
  <2> QED BY <2>1, <2>2
<1>7. CASE VisitCall
  <2> DEFINE k == Tail(node.kids)
             t == Do("call", node, <<>>)
             s == Append(Visits(k), t)
  <2>1. Doing("visit") /\ (Schedule(s) \/ Throw)
    BY <1>7 DEF VisitCall, Visiting
  <2>2. CASE Schedule(s)
    <3>1. Head(work).do = "visit" /\ node = Head(work).node /\ node.kind # "IfExpr"
      BY <1>5, <2>1 DEF Doing, node
    <3>2. /\ k \in Seq(Expr) /\ Len(k) = Len(node.kids) - 1
          /\ \A i \in 1..Len(k) : k[i] = node.kids[i + 1]
      BY <1>3, <1>6, HeadTailProperties
    <3> HIDE DEF k
    <3>3. \A i \in 1..Len(k) : i + 1 \in DOMAIN node.kids
      BY <1>4, <3>2
    <3>4. /\ node \in Translatable => \A i \in 1..Len(k) : k[i] \in Translatable
          /\ node \in OneBlock => \A i \in 1..Len(k) : k[i] \in OneBlock
      BY <1>3, <3>2, <3>3
    <3>5. s \in Seq(Task) /\ Like(Head(work), s) /\ t \in Task
      BY <1>2, <3>1, <3>2, <3>4, KidsLike
    <3>6. Uses(t) = Len(k)
      BY <3>2 DEF Uses, Do
    <3> HIDE DEF t
    <3>7. Leaves(s)
      BY <3>2, <3>5, <3>6, KidsThrough
    <3> HIDE DEF s
    <3> QED BY <2>1, <2>2, <3>5, <3>7, ScheduleAt
  <2>3. CASE Throw
    BY <2>3 DEF Throw
  <2> QED BY <2>1, <2>2, <2>3
<1>8. CASE Call
  <2>1. /\ Doing("call")
        /\ \/ /\ File(Callee) \in DOMAIN functionMap
              /\ Emit(Immediate("CallI", functionMap[File(Callee)]))
           \/ Callee \in DOMAIN Builtins /\ Emit(Unary(Builtins[Callee]))
           \/ Throw
    BY <1>8 DEF Call, Add
  <2>2. Uses(Head(work)) = Len(node.kids) - 1
    BY <2>1 DEF Uses, Doing, node
  <2>3. Arity(Callee) = Len(node.kids) - 1 /\ Len(node.kids) - 1 \in Nat
    BY <1>3, <1>4, <1>5, <1>6 DEF Callee
  <2>4. CASE /\ File(Callee) \in DOMAIN functionMap
             /\ Emit(Immediate("CallI", functionMap[File(Callee)]))
    <3> DEFINE inst == Immediate("CallI", functionMap[File(Callee)])
    <3>1. functionMap[File(Callee)] \in Nat
      BY <2>4 DEF GenInv, Maps, Numbering
    <3>2. functionMap[File(Callee)] \in Int
      BY <3>1
    <3>3. inst \in Inst /\ inst.op = "CallI" /\ inst.imm = functionMap[File(Callee)]
      BY <3>2 DEF Immediate, Inst
    <3>4. Numbers(functionMap, inst.imm) = Callee
      BY <2>4, <3>3, NumberNames DEF GenInv
    <3>5. Takes(functionMap, inst) = Arity(Callee)
      BY <3>3, <3>4 DEF Takes
    <3> HIDE DEF inst
    <3>6. Serves(functionMap, p, inst, Head(work))
      BY <2>2, <2>3, <3>3, <3>5 DEF Serves
    <3> QED BY <2>1, <2>4, <3>6, EmitAt DEF inst
  <2>5. CASE Callee \in DOMAIN Builtins /\ Emit(Unary(Builtins[Callee]))
    <3> DEFINE inst == Unary(Builtins[Callee])
    <3>1. Builtins[Callee] \in Range(Builtins)
      BY <2>5 DEF Range
    <3>2. inst \in Inst
      BY <3>1 DEF Unary, Inst
    <3>3. Takes(functionMap, inst) = 1 /\ inst.op # "GetI"
      BY DEF Takes, Unary
    <3>4. Arity(Callee) = 1
      BY <2>5, TranslatableAssumption
    <3> HIDE DEF inst
    <3>5. Serves(functionMap, p, inst, Head(work))
      BY <2>2, <2>3, <3>2, <3>3, <3>4 DEF Serves
    <3> QED BY <2>1, <2>5, <3>5, EmitAt DEF inst
  <2>6. CASE Throw
    BY <2>6 DEF Throw
  <2> QED BY <2>1, <2>4, <2>5, <2>6
<1> QED BY <1>7, <1>8

\* Conditionals: the condition, then the rest.
LEMMA ConditionFlow ==
  ASSUME GenInv, NEW p, Flow(functionMap, p, funbody, work), VisitIfExpr
  PROVE  Flow(functionMap, p, funbody', work')
<1> DEFINE v == Visit(node.kids[1])
           t == Do("then", node, <<>>)
           s == <<v, t>>
<1>1. /\ Doing("visit") /\ node.kind = "IfExpr" /\ Schedule(s)
      /\ work # <<>> /\ work \in Seq(Task) /\ Head(work).do = "visit" /\ node = Head(work).node
  BY WorkTasks DEF VisitIfExpr, Visiting, Doing, node
<1>2. Head(work) \in Task /\ node \in Translatable
  BY <1>1, AtHead
<1>3. /\ node \in Expr /\ node \notin OneBlock
      /\ node.kids[1] \in Translatable /\ node.kids[1] \in Expr
  <2>1. /\ node \in Expr /\ IsNode(node) /\ node.kids \in Seq(Expr)
        /\ \A i \in DOMAIN node.kids : node.kids[i] \in Translatable
        /\ node \notin OneBlock
    BY <1>1, <1>2, Translated
  <2>2. Len(node.kids) = 3
    BY <1>1, <2>1 DEF IsNode, Leaf, Unsupported
  <2>3. 1 \in DOMAIN node.kids
    BY <2>1, <2>2, LenProperties
  <2> QED BY <2>1, <2>3, TranslatableAssumption
<1>4. /\ v \in Task /\ t \in Task /\ Quiet(v) /\ Quiet(t) /\ Uses(v) = 0 /\ Uses(t) = 1
  BY <1>2, <1>3, EmptySeq DEF Visit, Do, Task, Quiet, Uses
<1> HIDE DEF v, t
<1>5. s \in Seq(Task) /\ Len(s) = 2 /\ s[1] = v /\ s[2] = t
  BY <1>4
<1>6. Like(Head(work), s)
  <2>1. ~Smooth(Head(work))
    BY <1>1, <1>3 DEF Smooth
  <2>2. \A j \in 1..Len(s) : Quiet(s[j])
    BY <1>4, <1>5
  <2> HIDE DEF s
  <2> QED BY <1>1, <2>1, <2>2 DEF Like
<1> HIDE DEF s
<1>7. Leaves(s)
  <2> SUFFICES ASSUME NEW a \in Nat
               PROVE  \E e : Through(s, e) /\ e[0] = a /\ e[Len(s)] = a + 1
    BY DEF Leaves
  <2> DEFINE e == [j \in 0..2 |-> IF j = 0 THEN a ELSE a + 1]
  <2>1. e \in [0..2 -> Nat] /\ e[0] = a /\ e[1] = a + 1 /\ e[2] = a + 1
    OBVIOUS
  <2> HIDE DEF e
  <2>2. \A j \in 1..2 : Uses(s[j]) <= e[j - 1] /\ e[j] = e[j - 1] - Uses(s[j]) + 1
    <3>1. Uses(s[1]) <= e[1 - 1] /\ e[1] = e[1 - 1] - Uses(s[1]) + 1
      BY <1>4, <1>5, <2>1
    <3>2. Uses(s[2]) <= e[2 - 1] /\ e[2] = e[2 - 1] - Uses(s[2]) + 1
      BY <1>4, <1>5, <2>1
    <3> QED BY <3>1, <3>2
  <2>3. Through(s, e)
    BY <1>5, <2>1, <2>2 DEF Through
  <2> QED BY <1>5, <2>1, <2>3
<1> QED BY <1>1, <1>5, <1>6, <1>7, ScheduleAt

\* The branches of a conditional.
LEMMA BranchesFlow ==
  ASSUME GenInv, NEW p, Flow(functionMap, p, funbody, work), IfThen \/ IfElse
  PROVE  Flow(functionMap, p, funbody', work')
<1> DEFINE n == Len(funbody)
           x(h) == h[n]
<1>1. /\ work # <<>> /\ work \in Seq(Task) /\ funbody \in Seq(BasicBlock) /\ n \in Nat
      /\ Head(work).do \in {"then", "else"}
  BY WorkTasks DEF IfThen, IfElse, Doing
<1>2. /\ n = tail + 1 /\ tail \in Nat /\ node.kind = "IfExpr" /\ node \in Expr
      /\ node.kids[2] \in Expr /\ node.kids[3] \in Expr
      /\ Head(work).do = "else" => Len(Head(work).blocks) = 2 /\ Head(work).blocks \in Seq(Label(n))
  BY AtTask, IfKids DEF IfThen, IfElse, Doing
<1>3. /\ Head(work) \in Task /\ node \in Translatable
      /\ node.kids[2] \in OneBlock /\ node.kids[3] \in OneBlock
  <2>1. Head(work) \in Task /\ node \in Translatable
    BY <1>1, AtHead DEF node
  <2> QED BY <1>2, <2>1, Translated
<1>4. PICK h, d, m : Flows(functionMap, p, funbody, work, h, d, m)
  BY DEF Flow
<1>5. Len(work) \in Nat \ {0} /\ Head(work) = work[1]
  BY <1>1, HeadTailProperties, LenProperties, EmptySeq
<1>6. /\ Head(work).do = "then" => m = 0
      /\ Head(work).do = "else" => m = 1 /\ Rest(Head(work), m, n) /\ d[0] = x(h) + 1
      /\ \A j \in 2..Len(work) : Quiet(work[j])
  <2>1. Tasks(work, d, m, n, x(h)) /\ m \in {0, 1, 2}
    BY <1>4 DEF Flows
  <2>2. Len(work) \in Nat \ {0}
    BY <1>5
  <2> HIDE DEF n, x
  <2>3. /\ work[1].do = "then" => m = 0
        /\ work[1].do = "else" => m = 1
        /\ work[1].do \in {"else", "join"} => Rest(work[1], m, n) /\ d[0] = x(h) + 1
        /\ work[1].do \in {"then", "else", "join"} =>
             work[1].node \in Translatable /\ \A j \in 2..Len(work) : Quiet(work[j])
    BY ONLY <2>1, <2>2, Waiting
  <2> QED BY <1>1, <1>5, <2>3
<1> HIDE DEF n
<1>7. ASSUME NEW s \in Seq(Task), NextBlock(s)
      PROVE  /\ funbody' = Append(funbody, NewBlock) /\ work' = s \o Tail(work)
             /\ Len(funbody') = n + 1 /\ \A l \in 1..n : funbody'[l] = funbody[l]
             /\ funbody'[n + 1] = NewBlock
  <2>1. funbody' = Append(funbody, NewBlock) /\ work' = s \o Tail(work)
    BY <1>7 DEF NextBlock, Continue
  <2>2. NewBlock \in BasicBlock
    BY EmptySeq DEF NewBlock, BasicBlock, None
  <2> QED BY <1>1, <2>1, <2>2, AppendProperties DEF n
<1>8. CASE IfThen
  <2> DEFINE v == Visit(node.kids[2])
             t == Do("else", node, <<tail, n>>)
             s == <<v, t>>
  <2>1. Head(work).do = "then" /\ NextBlock(s)
    BY <1>8 DEF IfThen, Doing, n
  <2>2. v \in Task /\ Smooth(v) /\ v.do = "visit"
    BY <1>2, <1>3, EmptySeq DEF Visit, Do, Task, Smooth
  <2>3. t \in Task
    <3>1. <<tail, n>> \in Seq(Nat)
      BY <1>1, <1>2
    <3> QED BY <1>2, <3>1 DEF Do, Task
  <2>4. Rest(t, m + 1, n + 1)
    <3>0. m + 1 = 1
      BY <1>6, <2>1
    <3>1. t.do = "else" /\ t.node = node /\ t.blocks = <<tail, n>>
      BY DEF Do
    <3> HIDE DEF t
    <3>2. /\ <<tail, n>>[1] = (n + 1) - 1 - 2 + 1 /\ <<tail, n>>[2] = (n + 1) - 1 - 2 + 2
      BY <1>1, <1>2
    <3>3. \A i \in 1..(1 + 1) : t.blocks[i] = (n + 1) - 1 - 2 + i
      BY <3>1, <3>2
    <3> QED BY <1>3, <3>0, <3>1, <3>3 DEF Rest
  <2> HIDE DEF v, t
  <2>5. s \in Seq(Task)
    BY <2>2, <2>3
  <2>6. m \in {0, 1} /\ (m = 1 => d[0] = h[n] + 1)
    BY <1>6, <2>1
  <2>7. /\ Len(funbody) = n /\ work' = <<v, t>> \o Tail(work)
        /\ Len(funbody') = n + 1 /\ \A l \in 1..n : funbody'[l] = funbody[l]
        /\ funbody'[n + 1] = NewBlock
    BY <1>7, <2>1, <2>5 DEF n
  <2>8. Flows(functionMap, p, funbody, work, h, d, m)
    BY <1>4
  <2>9. \A j \in 2..Len(work) : Quiet(work[j])
    BY <1>6
  <2> QED BY <1>1, <2>2, <2>3, <2>4, <2>6, <2>7, <2>8, <2>9, BranchFlow DEF n
<1>9. CASE IfElse
  <2> DEFINE v == Visit(node.kids[3])
             b == Head(work).blocks
             t == Do("join", node, Append(b, n))
             s == <<v, t>>
  <2>1. Head(work).do = "else" /\ NextBlock(s)
    BY <1>9 DEF IfElse, Doing, n
  <2>2. v \in Task /\ Smooth(v) /\ v.do = "visit"
    BY <1>2, <1>3, EmptySeq DEF Visit, Do, Task, Smooth
  <2>3. m = 1 /\ Rest(Head(work), 1, n) /\ d[0] = h[n] + 1 /\ Len(b) = 2 /\ b \in Seq(Nat)
    <3>1. Label(n) \subseteq Nat
      BY <1>1, Labels DEF n
    <3>2. Len(b) = 2 /\ b \in Seq(Label(n))
      BY <1>2, <2>1
    <3> QED BY <1>6, <2>1, <3>1, <3>2, SeqMonotonic
  <2>4. b[1] = n - 1 - 2 + 1 /\ b[2] = n - 1 - 2 + 2
    <3>1. \A i \in 1..(1 + 1) : b[i] = n - 1 - 2 + i
      BY <2>3 DEF Rest
    <3> HIDE DEF b
    <3> QED BY <3>1
  <2> HIDE DEF b
  <2>5. /\ Append(b, n) \in Seq(Nat) /\ Append(b, n)[1] = b[1] /\ Append(b, n)[2] = b[2]
        /\ Append(b, n)[3] = n
    <3>1. n \in Nat
      BY <1>1 DEF n
    <3>2. /\ Append(b, n) \in Seq(Nat) /\ Append(b, n)[Len(b) + 1] = n
          /\ \A i \in 1..Len(b) : Append(b, n)[i] = b[i]
      <4>1. b \in Seq(Nat)
        BY <2>3
      <4> QED BY ONLY <4>1, <3>1, AppendProperties
    <3>3. Len(b) + 1 = 3 /\ 1 \in 1..Len(b) /\ 2 \in 1..Len(b)
      BY <2>3
    <3> QED BY <3>2, <3>3
  <2>6. t \in Task
    BY <1>2, <2>5 DEF Do, Task
  <2>7. Rest(t, 1 + 1, n + 1)
    <3>1. t.do = "join" /\ t.node = node /\ t.blocks = Append(b, n)
      BY DEF Do
    <3> HIDE DEF t
    <3>2. \A i \in 1..3 : t.blocks[i] = (n + 1) - 2 - 2 + i
      <4>1. n \in Nat
        BY <1>1 DEF n
      <4>2. /\ Append(b, n)[1] = (n + 1) - 2 - 2 + 1 /\ Append(b, n)[2] = (n + 1) - 2 - 2 + 2
            /\ Append(b, n)[3] = (n + 1) - 2 - 2 + 3
        BY <2>4, <2>5, <4>1
      <4>3. \A i \in 1..3 : i = 1 \/ i = 2 \/ i = 3
        OBVIOUS
      <4> QED BY <3>1, <4>2, <4>3
    <3>3. 1 + 1 = 2 /\ 1..(2 + 1) = 1..3
      OBVIOUS
    <3>4. Rest(t, 2, n + 1)
      <4>1. t.do = IF 2 = 1 THEN "else" ELSE "join"
        BY <3>1
      <4>2. t.node \in Translatable
        BY <1>3, <3>1
      <4>3. \A i \in 1..(2 + 1) : t.blocks[i] = (n + 1) - 2 - 2 + i
        BY <3>2, <3>3
      <4> QED BY ONLY <4>1, <4>2, <4>3 DEF Rest
    <3> QED BY <3>3, <3>4
  <2> HIDE DEF v, t
  <2>8. s \in Seq(Task)
    BY <2>2, <2>6
  <2>9. /\ Len(funbody) = n /\ work' = <<v, t>> \o Tail(work)
        /\ Len(funbody') = n + 1 /\ \A l \in 1..n : funbody'[l] = funbody[l]
        /\ funbody'[n + 1] = NewBlock
    BY <1>7, <2>1, <2>8 DEF n
  <2>10. Flows(functionMap, p, funbody, work, h, d, 1) /\ 1 \in {0, 1}
    BY <1>4, <2>3
  <2>11. \A j \in 2..Len(work) : Quiet(work[j])
    BY <1>6
  <2> QED BY <1>1, <2>2, <2>3, <2>6, <2>7, <2>9, <2>10, <2>11, BranchFlow DEF n
<1> QED BY <1>8, <1>9

\* The assignments that join the branches, one by one.
LEMMA SetAt ==
  ASSUME NEW B \in Seq(BasicBlock), NEW l \in 0..(Len(B) - 1), NEW x \in Int
  PROVE  /\ SetNext(B, l, x) \in Seq(BasicBlock) /\ Len(SetNext(B, l, x)) = Len(B)
         /\ SetJumpFalse(B, l, x) \in Seq(BasicBlock) /\ Len(SetJumpFalse(B, l, x)) = Len(B)
         /\ \A j \in 1..Len(B) : j # l + 1 => SetNext(B, l, x)[j] = B[j]
                                              /\ SetJumpFalse(B, l, x)[j] = B[j]
         /\ SetNext(B, l, x)[l + 1].instructions = B[l + 1].instructions
         /\ SetNext(B, l, x)[l + 1].jumpFalse = B[l + 1].jumpFalse
         /\ SetNext(B, l, x)[l + 1].next = x
         /\ SetJumpFalse(B, l, x)[l + 1].instructions = B[l + 1].instructions
         /\ SetJumpFalse(B, l, x)[l + 1].jumpFalse = x
         /\ SetJumpFalse(B, l, x)[l + 1].next = B[l + 1].next
<1> DEFINE b == [B[l + 1] EXCEPT !.next = x]
           c == [B[l + 1] EXCEPT !.jumpFalse = x]
<1>1. l + 1 \in 1..Len(B)
  OBVIOUS
<1>2. B[l + 1] \in BasicBlock
  BY <1>1, ElementOfSeq
<1>3. /\ b \in BasicBlock /\ c \in BasicBlock
      /\ b.instructions = B[l + 1].instructions /\ b.jumpFalse = B[l + 1].jumpFalse /\ b.next = x
      /\ c.instructions = B[l + 1].instructions /\ c.jumpFalse = x /\ c.next = B[l + 1].next
  BY <1>2 DEF BasicBlock
<1>4. SetNext(B, l, x) = [B EXCEPT ![l + 1] = b] /\ SetJumpFalse(B, l, x) = [B EXCEPT ![l + 1] = c]
  BY DEF SetNext, SetJumpFalse
<1> HIDE DEF b, c
<1>5. /\ [B EXCEPT ![l + 1] = b] \in Seq(BasicBlock) /\ Len([B EXCEPT ![l + 1] = b]) = Len(B)
      /\ \A j \in 1..Len(B) : [B EXCEPT ![l + 1] = b][j] = IF j = l + 1 THEN b ELSE B[j]
      /\ [B EXCEPT ![l + 1] = c] \in Seq(BasicBlock) /\ Len([B EXCEPT ![l + 1] = c]) = Len(B)
      /\ \A j \in 1..Len(B) : [B EXCEPT ![l + 1] = c][j] = IF j = l + 1 THEN c ELSE B[j]
  BY <1>1, <1>3, ExceptSeq
<1> QED BY <1>1, <1>3, <1>4, <1>5

\* All of them.
LEMMA JoinedMeets ==
  ASSUME NEW B \in Seq(BasicBlock), Len(B) >= 3
  PROVE  LET n == Len(B)
         IN Meets(B, Joined(Append(B, NewBlock), n - 3, n - 2, n - 1, n))
<1> DEFINE n == Len(B)
           A == Append(B, NewBlock)
           B1 == SetNext(A, n - 2, n)
           B2 == SetNext(B1, n - 1, n)
           B3 == SetJumpFalse(B2, n - 3, n - 1)
           B4 == SetNext(B3, n - 3, n - 2)
           L == 0..n
<1>1. Joined(A, n - 3, n - 2, n - 1, n) = B4
  BY DEF Joined, SetNext, SetJumpFalse
<1>2. n \in Nat /\ n >= 3
  BY LenProperties
<1>3. /\ A \in Seq(BasicBlock) /\ Len(A) = n + 1 /\ A[n + 1] = NewBlock
      /\ \A j \in 1..n : A[j] = B[j]
  <2>1. NewBlock \in BasicBlock
    BY EmptySeq DEF NewBlock, BasicBlock, None
  <2> QED BY <2>1, AppendProperties
<1> HIDE DEF A, n
<1>4. /\ n - 3 \in 0..((n + 1) - 1) /\ n - 2 \in 0..((n + 1) - 1) /\ n - 1 \in 0..((n + 1) - 1)
      /\ n - 1 \in Int /\ n - 2 \in Int /\ n \in Int
      /\ (n - 2) + 1 = n - 1 /\ (n - 1) + 1 = n /\ (n - 3) + 1 = n - 2
  BY <1>2
<1>5. /\ B1 \in Seq(BasicBlock) /\ Len(B1) = n + 1
      /\ \A j \in 1..(n + 1) : j # n - 1 => B1[j] = A[j]
      /\ B1[n - 1].instructions = A[n - 1].instructions
      /\ B1[n - 1].jumpFalse = A[n - 1].jumpFalse /\ B1[n - 1].next = n
  BY <1>3, <1>4, SetAt
<1> HIDE DEF B1
<1>6. /\ B2 \in Seq(BasicBlock) /\ Len(B2) = n + 1
      /\ \A j \in 1..(n + 1) : j # n => B2[j] = B1[j]
      /\ B2[n].instructions = B1[n].instructions
      /\ B2[n].jumpFalse = B1[n].jumpFalse /\ B2[n].next = n
  BY <1>4, <1>5, SetAt
<1> HIDE DEF B2
<1>7. /\ B3 \in Seq(BasicBlock) /\ Len(B3) = n + 1
      /\ \A j \in 1..(n + 1) : j # n - 2 => B3[j] = B2[j]
      /\ B3[n - 2].instructions = B2[n - 2].instructions /\ B3[n - 2].jumpFalse = n - 1
  <2> DEFINE k == n - 3
  <2>1. k \in 0..(Len(B2) - 1) /\ k + 1 = n - 2 /\ n - 1 \in Int
    BY <1>4, <1>6
  <2> HIDE DEF k
  <2>2. /\ SetJumpFalse(B2, k, n - 1) \in Seq(BasicBlock)
        /\ Len(SetJumpFalse(B2, k, n - 1)) = Len(B2)
        /\ \A j \in 1..Len(B2) : j # k + 1 => SetJumpFalse(B2, k, n - 1)[j] = B2[j]
        /\ SetJumpFalse(B2, k, n - 1)[k + 1].instructions = B2[k + 1].instructions
        /\ SetJumpFalse(B2, k, n - 1)[k + 1].jumpFalse = n - 1
    BY <1>6, <2>1, SetAt
  <2> QED BY <1>6, <2>1, <2>2 DEF k
<1> HIDE DEF B3
<1>8. /\ B4 \in Seq(BasicBlock) /\ Len(B4) = n + 1
      /\ \A j \in 1..(n + 1) : j # n - 2 => B4[j] = B3[j]
      /\ B4[n - 2].instructions = B3[n - 2].instructions
      /\ B4[n - 2].jumpFalse = B3[n - 2].jumpFalse /\ B4[n - 2].next = n - 2
  <2> DEFINE k == n - 3
  <2>1. k \in 0..(Len(B3) - 1) /\ k + 1 = n - 2 /\ n - 2 \in Int
    BY <1>4, <1>7
  <2> HIDE DEF k
  <2>2. /\ SetNext(B3, k, n - 2) \in Seq(BasicBlock)
        /\ Len(SetNext(B3, k, n - 2)) = Len(B3)
        /\ \A j \in 1..Len(B3) : j # k + 1 => SetNext(B3, k, n - 2)[j] = B3[j]
        /\ SetNext(B3, k, n - 2)[k + 1].instructions = B3[k + 1].instructions
        /\ SetNext(B3, k, n - 2)[k + 1].jumpFalse = B3[k + 1].jumpFalse
        /\ SetNext(B3, k, n - 2)[k + 1].next = n - 2
    BY <1>7, <2>1, SetAt
  <2> QED BY <1>7, <2>1, <2>2 DEF k
<1> HIDE DEF B4
<1>9. /\ n - 2 \in 1..n /\ n - 1 \in 1..n /\ n \in 1..n /\ n + 1 \in 1..(n + 1)
      /\ n - 2 \in 1..(n + 1) /\ n - 1 \in 1..(n + 1) /\ n \in 1..(n + 1)
      /\ n - 2 # n - 1 /\ n - 2 # n /\ n - 1 # n /\ n + 1 # n /\ n + 1 # n - 1 /\ n + 1 # n - 2
  BY <1>2
<1>10. \A j \in 1..(n - 3) : /\ j \in 1..n /\ j \in 1..(n + 1)
                             /\ j # n - 2 /\ j # n - 1 /\ j # n
  BY <1>2
<1>11. \A j \in 1..(n - 3) : B4[j] = B[j]
  BY <1>3, <1>5, <1>6, <1>7, <1>8, <1>10
<1>12. /\ B4[n - 2].instructions = B[n - 2].instructions
       /\ B4[n - 2].jumpFalse = n - 1 /\ B4[n - 2].next = n - 2
  BY <1>3, <1>5, <1>6, <1>7, <1>8, <1>9
<1>13. /\ B4[n - 1].instructions = B[n - 1].instructions
       /\ B4[n - 1].jumpFalse = B[n - 1].jumpFalse /\ B4[n - 1].next = n
  BY <1>3, <1>5, <1>6, <1>7, <1>8, <1>9
<1>14. /\ B4[n].instructions = B[n].instructions
       /\ B4[n].jumpFalse = B[n].jumpFalse /\ B4[n].next = n
  BY <1>3, <1>5, <1>6, <1>7, <1>8, <1>9
<1>15. B4[n + 1] = NewBlock
  BY <1>3, <1>5, <1>6, <1>7, <1>8, <1>9
<1>16. Meets(B, B4)
  BY <1>8, <1>11, <1>12, <1>13, <1>14, <1>15 DEF Meets, n
<1> QED BY <1>1, <1>16 DEF n, A

\* The end of a conditional.
LEMMA EndIfFlow ==
  ASSUME GenInv, NEW p, Flow(functionMap, p, funbody, work), IfJoin
  PROVE  Flow(functionMap, p, funbody', work')
<1> DEFINE n == Len(funbody)
           ids == Head(work).blocks
           x(h) == h[n]
<1>1. /\ work # <<>> /\ work \in Seq(Task) /\ funbody \in Seq(BasicBlock) /\ n \in Nat
      /\ Head(work).do = "join"
  BY WorkTasks DEF IfJoin, Doing
<1>2. /\ funbody' = Joined(Append(funbody, NewBlock), ids[1], ids[2], ids[3], n)
      /\ work' = <<>> \o Tail(work)
  BY DEF IfJoin, Continue
<1>3. PICK h, d, m : Flows(functionMap, p, funbody, work, h, d, m)
  BY DEF Flow
<1>4. Len(work) \in Nat \ {0} /\ Head(work) = work[1] /\ Tail(work) \in Seq(Task)
  BY <1>1, HeadTailProperties, LenProperties, EmptySeq
<1>5. m = 2 /\ Rest(Head(work), 2, n) /\ m < n
  <2>1. Tasks(work, d, m, n, x(h)) /\ m \in {0, 1, 2} /\ m < n
    BY <1>3 DEF Flows
  <2>2. Len(work) \in Nat \ {0}
    BY <1>4
  <2> HIDE DEF n, x
  <2>3. /\ work[1].do = "join" => m = 2
        /\ work[1].do \in {"else", "join"} => Rest(work[1], m, n) /\ d[0] = x(h) + 1
    BY ONLY <2>1, <2>2, Waiting
  <2> QED BY <1>1, <1>4, <2>1, <2>3
<1> HIDE DEF n
<1>6. ids[1] = n - 3 /\ ids[2] = n - 2 /\ ids[3] = n - 1 /\ n >= 3
  <2>1. \A i \in 1..(2 + 1) : ids[i] = n - 2 - 2 + i
    BY <1>5 DEF Rest
  <2> HIDE DEF ids
  <2>2. n \in Nat /\ 2 < n
    BY <1>1, <1>5 DEF n
  <2> QED BY <2>1, <2>2
<1>7. Meets(funbody, funbody')
  <2>1. funbody' = Joined(Append(funbody, NewBlock), n - 3, n - 2, n - 1, n)
    BY <1>2, <1>6
  <2> QED BY <1>1, <1>6, <2>1, JoinedMeets DEF n
<1>8. work' = Tail(work)
  BY <1>2, <1>4, ConcatEmptySeq
<1> QED BY <1>1, <1>7, <1>8, JoinFlow DEF n

\* Every visit.
LEMMA ExprFlow ==
  ASSUME GenInv, NEW args \in Seq(STRING), variableLookup = Slots(args),
         Flow(functionMap, Len(args), funbody, work), VisitExpr
  PROVE  phase' = "failed" \/ Flow(functionMap, Len(args), funbody', work')
<1> SUFFICES ASSUME NEW p, p = Len(args)
             PROVE  phase' = "failed" \/ Flow(functionMap, p, funbody', work')
  OBVIOUS
<1>1. CASE VisitNumber \/ VisitUndef \/ VisitConfigVar \/ VisitIdent
  BY <1>1, LeafFlow
<1>2. CASE VisitString
  BY <1>2 DEF VisitString, Throw
<1>3. CASE VisitOperator \/ Operate
  BY <1>3, OperatorFlow
<1>4. CASE VisitOther
  <2>1. work # <<>> /\ work \in Seq(Task) /\ node.kind \in Unsupported
    BY <1>4, WorkTasks DEF VisitOther, Visiting, Doing
  <2>2. node \in Translatable
    BY <2>1, AtHead DEF node
  <2> QED BY <2>1, <2>2, Translated
<1>5. CASE VisitCall \/ Call
  BY <1>5, CallFlow
<1>6. CASE VisitIfExpr
  BY <1>6, ConditionFlow
<1>7. CASE IfThen \/ IfElse
  BY <1>7, BranchesFlow
<1>8. CASE IfJoin
  BY <1>8, EndIfFlow
<1> QED BY <1>1, <1>2, <1>3, <1>4, <1>5, <1>6, <1>7, <1>8 DEF VisitExpr

\* The first block.
LEMMA BeginFlow ==
  ASSUME NEW map, NEW p, NEW e \in Translatable
  PROVE  Flow(map, p, <<NewBlock>>, <<Visit(e)>>)
<1> DEFINE B == <<NewBlock>>
           W == <<Visit(e)>>
           h == [l \in 1..1 |-> 0]
           d == [j \in 0..1 |-> j]
<1>1. Len(B) = 1 /\ B[1] = NewBlock /\ Len(W) = 1 /\ W[1] = Visit(e)
  OBVIOUS
<1>2. h \in [1..1 -> Nat] /\ h[1] = 0 /\ d \in [0..1 -> Nat] /\ d[0] = 0 /\ d[1] = 1
  OBVIOUS
<1>3. NewBlock.jumpFalse = None /\ NewBlock.instructions = <<>>
  BY DEF NewBlock
<1>4. Quiet(Visit(e)) /\ Uses(Visit(e)) = 0
  BY DEF Quiet, Uses, Visit, Do
<1> HIDE DEF B, W, h, d
<1>5. Laid(map, p, B, h, 1)
  <2>1. \A l \in 1..(1 - 1) : FALSE
    OBVIOUS
  <2>2. \A l \in 2..1 : FALSE
    OBVIOUS
  <2> QED BY <1>2, <2>1, <2>2 DEF Laid
<1>6. Runs(map, p, <<>>, 0, 0)
  BY RunsEmpty
<1>7. Through(W, d)
  <2>1. \A j \in 1..1 : Uses(W[j]) <= d[j - 1] /\ d[j] = d[j - 1] - Uses(W[j]) + 1
    <3>1. Uses(W[1]) <= d[1 - 1] /\ d[1] = d[1 - 1] - Uses(W[1]) + 1
      BY <1>1, <1>2, <1>4
    <3> QED BY <3>1
  <2> QED BY <1>1, <1>2, <2>1 DEF Through
<1>8. Tasks(W, d, 0, 1, h[1])
  <2>1. \A j \in 1..1 : Quiet(W[j])
    BY <1>1, <1>4
  <2> QED BY <1>1, <2>1 DEF Tasks
<1>9. Flows(map, p, B, W, h, d, 0)
  <2>1. 1 - 0 = 1 /\ 0 < 1
    OBVIOUS
  <2>2. \A l \in 1..(1 - 1) : FALSE
    OBVIOUS
  <2>3. \A l \in (1 + 1)..1 : FALSE
    OBVIOUS
  <2> QED BY <1>1, <1>2, <1>3, <1>5, <1>6, <1>7, <1>8, <2>1, <2>2, <2>3 DEF Flows
<1>10. Flow(map, p, B, W)
  BY <1>9 DEF Flow
<1> QED BY <1>10 DEF B, W

\* Nothing is left to be done.
LEMMA EndFlow ==
  ASSUME NEW map, NEW p, NEW B \in Seq(BasicBlock), Flow(map, p, B, <<>>),
         NEW B2 \in Seq(BasicBlock), Len(B2) = Len(B),
         \A l \in 1..Len(B) : l # Len(B) => B2[l] = B[l],
         B2[Len(B)].instructions = B[Len(B)].instructions,
         B2[Len(B)].jumpFalse = B[Len(B)].jumpFalse, B2[Len(B)].next = None
  PROVE  /\ Forward(B2)
         /\ \A l \in DOMAIN B2 : Even(map, p, B2[l], Height(map, B2)[l], Height(map, B2))
<1> DEFINE n == Len(B)
           W == <<>>
<1>1. PICK h, d, m : Flows(map, p, B, W, h, d, m)
  BY DEF Flow
<1>2. Len(W) = 0
  BY EmptySeq
<1>3. m = 0
  <2>1. m \in {0, 1, 2} /\ Tasks(W, d, m, n, h[n])
    BY <1>1 DEF Flows
  <2>2. \A q \in 1..0 : FALSE
    OBVIOUS
  <2> QED BY <1>2, <2>1, <2>2 DEF Tasks
<1>4. /\ n \in Nat \ {0} /\ h \in [1..n -> Nat] /\ Laid(map, p, B, h, n)
      /\ B[n].jumpFalse = None /\ Runs(map, p, B[n].instructions, h[n], 1)
  <2>1. n \in Nat /\ n - 0 = n /\ (0 < n => n \in Nat \ {0})
    BY LenProperties
  <2>2. /\ 0 < n /\ h \in [1..n -> Nat] /\ Laid(map, p, B, h, n - 0)
        /\ B[n].jumpFalse = None /\ Runs(map, p, B[n].instructions, h[n], d[0])
        /\ d[0] = 1
    BY <1>1, <1>2, <1>3 DEF Flows
  <2> HIDE DEF n
  <2> QED BY <2>1, <2>2
<1>5. Laid(map, p, B2, h, n)
  <2>1. \A l \in 1..(n - 1) : l \in 1..n /\ l # n
    BY <1>4
  <2>2. \A l \in 1..(n - 1) : B2[l] = B[l]
    BY <2>1
  <2>3. Laid(map, p, B, h, n) /\ n \in Nat \ {0}
    BY <1>4
  <2> HIDE DEF n
  <2> QED BY <2>2, <2>3, LaidFrame
<1>6. B2 # <<>>
  BY <1>4, EmptySeq
<1>7. Runs(map, p, B2[n].instructions, h[n], 1)
  BY <1>4
<1>8. /\ h \in [1..Len(B2) -> Nat] /\ Laid(map, p, B2, h, Len(B2))
      /\ B2[Len(B2)].jumpFalse = None /\ B2[Len(B2)].next = None
      /\ Runs(map, p, B2[Len(B2)].instructions, h[Len(B2)], 1)
  BY <1>4, <1>5, <1>7
<1> QED BY <1>6, <1>8, LaidOut

-----------------------------------------------------------------------------
(* The invariant. *)

\* Where the loop over the functions is.
Placed == /\ phase \in {"idle", "functions", "globals"} => listings = <<>>
          /\ phase \in {"bodies", "body"} => Len(listings) = item - 1
          /\ phase = "body" => variableLookup = Slots(unit.functions[item].args)

\* What remains to be done of a translatable body ends in one value.
Going == phase = "body" /\ unit.functions[item].body \in Translatable =>
           Flow(functionMap, Len(unit.functions[item].args), funbody, work)

BalanceInv == Placed /\ Going /\ Balanced

\* When nothing is printed.
LEMMA NotPrinted ==
  /\ listings = <<>> => Balanced
  /\ listings' = <<>> => Balanced'
<1>1. DOMAIN <<>> = {}
  OBVIOUS
<1> QED BY <1>1 DEF Balanced

\* What is printed does not change.
LEMMA StillBalanced ==
  ASSUME Balanced, UNCHANGED <<unit, listings, functionMap>>
  PROVE  Balanced'
BY DEF Balanced

\* A visit of an expression.
LEMMA BalanceExpr ==
  ASSUME GenInv, BalanceInv, VisitExpr
  PROVE  BalanceInv'
<1>1. work # <<>>
  BY DEF VisitExpr, VisitNumber, VisitString, VisitUndef, VisitConfigVar, VisitIdent,
         VisitOperator, Operate, VisitOther, VisitCall, Call, VisitIfExpr, IfThen,
         IfElse, IfJoin, Visiting, Doing
<1>2. phase = "body"
  BY <1>1 DEF GenInv, Body
<1>3. /\ UNCHANGED <<unit, item, variableLookup, listings>> /\ functionMap' = functionMap
      /\ phase' \in {phase, "failed"}
  BY DEF VisitExpr, VisitNumber, VisitString, VisitUndef, VisitConfigVar, VisitIdent,
         VisitOperator, Operate, VisitOther, VisitCall, Call, VisitIfExpr, IfThen,
         IfElse, IfJoin, Add, Emit, Schedule, NextBlock, Throw, loop, names
<1>4. Placed' /\ Balanced'
  BY <1>2, <1>3, StillBalanced DEF BalanceInv, Placed
<1>5. Going'
  <2> SUFFICES ASSUME phase' = "body", unit.functions[item].body \in Translatable
               PROVE  Flow(functionMap, Len(unit.functions[item].args), funbody', work')
    BY <1>3 DEF Going
  <2> DEFINE args == unit.functions[item].args
  <2>1. args \in Seq(STRING)
    <3>1. unit.functions \in Seq(FunctionDecl) /\ item \in Nat \ {0} /\ item <= Len(unit.functions)
      BY <1>2 DEF GenInv, Walk, TranslationUnit
    <3>2. item \in 1..Len(unit.functions)
      BY <3>1, LenProperties
    <3>3. unit.functions[item] \in FunctionDecl
      BY <3>1, <3>2, ElementOfSeq
    <3> QED BY <3>3 DEF FunctionDecl
  <2>2. variableLookup = Slots(args) /\ Flow(functionMap, Len(args), funbody, work)
    BY <1>2 DEF BalanceInv, Placed, Going
  <2> HIDE DEF args
  <2>3. phase' = "failed" \/ Flow(functionMap, Len(args), funbody', work')
    BY <2>1, <2>2, ExprFlow
  <2> QED BY <2>3 DEF args
<1> QED BY <1>4, <1>5 DEF BalanceInv

\* A function begins.
LEMMA BalanceBegins ==
  ASSUME GenInv, BalanceInv, BeginFunction
  PROVE  BalanceInv'
<1>1. /\ phase = "bodies" /\ phase' = "body"
      /\ UNCHANGED <<unit, item, listings>> /\ functionMap' = functionMap
      /\ funbody' = <<NewBlock>> /\ work' = <<Visit(unit.functions[item].body)>>
      /\ variableLookup' = Slots(unit.functions[item].args)
  BY DEF BeginFunction, names
<1>2. Placed' /\ Balanced'
  BY <1>1, StillBalanced DEF BalanceInv, Placed
<1>3. Going'
  <2> SUFFICES ASSUME unit.functions[item].body \in Translatable
               PROVE  Flow(functionMap, Len(unit.functions[item].args), funbody', work')
    BY <1>1 DEF Going
  <2> QED BY <1>1, BeginFlow
<1> QED BY <1>2, <1>3 DEF BalanceInv

\* A function ends, and is printed.
LEMMA BalanceEnds ==
  ASSUME GenInv, BalanceInv, EndFunction
  PROVE  BalanceInv'
<1> DEFINE n == Len(funbody)
           b == [funbody[n] EXCEPT !.next = None]
           x == [name |-> unit.functions[item].name, blocks |-> funbody']
<1>1. /\ phase = "body" /\ work = <<>> /\ phase' = "bodies" /\ item' = item + 1
      /\ listings' = Append(listings, x) /\ unit' = unit /\ functionMap' = functionMap
      /\ funbody' = [funbody EXCEPT ![tail + 1].next = None]
  BY DEF EndFunction, names
<1>2. /\ n = tail + 1 /\ n \in Nat /\ n \in 1..n /\ funbody \in Seq(BasicBlock)
      /\ item \in Nat \ {0} /\ listings \in Seq(ListingOf(Functions, Globals))
  <2>1. /\ n = tail + 1 /\ funbody \in Seq(BasicBlock) /\ tail \in Nat
        /\ item \in Nat \ {0} /\ listings \in Seq(ListingOf(Functions, Globals))
    BY <1>1 DEF GenInv, Body, Walk
  <2> HIDE DEF n
  <2> QED BY <2>1
<1>3. /\ funbody[n] \in BasicBlock /\ b \in BasicBlock
      /\ b.instructions = funbody[n].instructions /\ b.jumpFalse = funbody[n].jumpFalse
      /\ b.next = None
  <2>1. funbody[n] \in BasicBlock
    BY <1>2, ElementOfSeq
  <2>2. None \in Int
    BY DEF None
  <2> QED BY <2>1, <2>2 DEF BasicBlock
<1>4. funbody' = [funbody EXCEPT ![n] = b]
  BY <1>1, <1>2
<1> HIDE DEF b
<1>5. /\ funbody' \in Seq(BasicBlock) /\ Len(funbody') = n
      /\ \A j \in 1..n : funbody'[j] = IF j = n THEN b ELSE funbody[j]
  BY <1>2, <1>3, <1>4, ExceptSeq
<1>6. Len(listings) = item - 1
  BY <1>1 DEF BalanceInv, Placed
<1>7. listings \in Seq(Listing) /\ x \in Listing
  <2>1. unit.functions \in Seq(FunctionDecl) /\ item <= Len(unit.functions)
    BY <1>1 DEF GenInv, Walk, TranslationUnit
  <2>2. item \in 1..Len(unit.functions)
    BY <1>2, <2>1, LenProperties
  <2>3. unit.functions[item] \in FunctionDecl
    BY <2>1, <2>2, ElementOfSeq
  <2>4. unit.functions[item].name \in STRING
    BY <2>3 DEF FunctionDecl
  <2>5. ListingOf(Functions, Globals) \subseteq Listing
    BY DEF ListingOf
  <2>6. listings \in Seq(Listing)
    BY <1>2, <2>5, SeqMonotonic
  <2> QED BY <1>5, <2>4, <2>6 DEF Listing
<1>8. x.blocks = funbody'
  OBVIOUS
<1> HIDE DEF x
<1>9. /\ DOMAIN listings' = 1..item /\ listings'[item] = x /\ Len(listings') = item
      /\ \A i \in 1..item : i # item => i \in DOMAIN listings /\ listings'[i] = listings[i]
  <2>1. /\ listings' \in Seq(Listing) /\ Len(listings') = Len(listings) + 1
        /\ listings'[Len(listings) + 1] = x
        /\ \A i \in 1..Len(listings) : listings'[i] = listings[i]
    BY <1>1, <1>7, AppendProperties
  <2>2. /\ Len(listings) + 1 = item
        /\ \A i \in 1..item : i # item => i \in 1..Len(listings)
    BY <1>2, <1>6
  <2>3. DOMAIN listings' = 1..Len(listings') /\ DOMAIN listings = 1..Len(listings)
    BY <1>7, <2>1, LenProperties
  <2> QED BY <2>1, <2>2, <2>3
<1>10. Placed' /\ Going'
  <2>1. (item + 1) - 1 = item
    BY <1>2
  <2> QED BY <1>1, <1>9, <2>1 DEF Placed, Going
<1>11. Balanced'
  <2> SUFFICES ASSUME NEW i \in 1..item, unit.functions[i].body \in Translatable
               PROVE  LET blocks == listings'[i].blocks
                          height == Height(functionMap, blocks)
                          params == Len(unit.functions[i].args)
                      IN /\ Forward(blocks)
                         /\ \A l \in DOMAIN blocks :
                              Even(functionMap, params, blocks[l], height[l], height)
    BY <1>1, <1>9 DEF Balanced
  <2>1. CASE i # item
    <3>1. i \in DOMAIN listings /\ listings'[i] = listings[i]
      BY <1>9, <2>1
    <3> QED BY <3>1 DEF BalanceInv, Balanced
  <2>2. CASE i = item
    <3> DEFINE p == Len(unit.functions[item].args)
    <3>1. Flow(functionMap, p, funbody, <<>>)
      BY <1>1, <2>2 DEF BalanceInv, Going
    <3>2. listings'[i].blocks = funbody'
      BY <1>8, <1>9, <2>2
    <3>3. /\ \A l \in 1..n : l # n => funbody'[l] = funbody[l]
          /\ funbody'[n].instructions = funbody[n].instructions
          /\ funbody'[n].jumpFalse = funbody[n].jumpFalse /\ funbody'[n].next = None
      BY <1>2, <1>3, <1>5
    <3> HIDE DEF p
    <3>4. PICK B2 \in Seq(BasicBlock) : B2 = funbody'
      BY <1>5
    <3>5. /\ Forward(B2)
          /\ \A l \in DOMAIN B2 :
               Even(functionMap, p, B2[l], Height(functionMap, B2)[l], Height(functionMap, B2))
      BY <1>2, <1>5, <3>1, <3>3, <3>4, EndFlow
    <3> QED BY <2>2, <3>2, <3>4, <3>5 DEF p
  <2> QED BY <2>1, <2>2
<1> QED BY <1>10, <1>11 DEF BalanceInv

\* While nothing is generated, the unit may change.
LEMMA BalanceRests ==
  ASSUME BalanceInv, phase \in {"idle", "functions", "globals"}, listings' = listings,
         \/ phase' \in {"idle", "functions", "globals"}
         \/ phase' = "bodies" /\ item' = 1
  PROVE  BalanceInv'
<1>1. listings = <<>> /\ listings' = <<>>
  BY DEF BalanceInv, Placed
<1>2. Balanced'
  BY <1>1, NotPrinted
<1>3. Len(listings') = 1 - 1
  BY <1>1, EmptySeq
<1> QED BY <1>1, <1>2, <1>3 DEF BalanceInv, Placed, Going

\* The visit of a unit begins or returns.
LEMMA BalanceTurns ==
  ASSUME BalanceInv, Begin \/ Return
  PROVE  BalanceInv'
<1>1. CASE Begin
  BY <1>1, BalanceRests DEF Begin
<1>2. CASE Return
  <2>1. phase' = "idle" /\ listings' = <<>>
    BY <1>2 DEF Return
  <2>2. Balanced'
    BY <2>1, NotPrinted
  <2> QED BY <2>1, <2>2 DEF BalanceInv, Placed, Going
<1> QED BY <1>1, <1>2

\* Every step of the generator.
LEMMA BalanceStep ==
  ASSUME GenInv, BalanceInv, GenStep
  PROVE  BalanceInv'
<1>1. CASE DeclareFunction \/ DeclareGlobal
  <2>1. /\ phase \in {"functions", "globals"} /\ listings' = listings
        /\ \/ phase' \in {"functions", "globals"}
           \/ phase' = "bodies" /\ item' = 1
    BY <1>1 DEF DeclareFunction, DeclareGlobal, Advance, code
  <2> QED BY <2>1, BalanceRests
<1>2. CASE EndUnit
  <2>1. /\ phase' = "done" /\ UNCHANGED <<unit, listings, functionMap>>
    BY <1>2 DEF EndUnit, code, names
  <2>2. Balanced'
    BY <2>1, StillBalanced DEF BalanceInv
  <2> QED BY <2>1, <2>2 DEF BalanceInv, Placed, Going
<1> QED BY <1>1, <1>2, BalanceExpr, BalanceBegins, BalanceEnds DEF GenStep

\* Nothing happens.
LEMMA BalanceStutter ==
  ASSUME BalanceInv, UNCHANGED genVars
  PROVE  BalanceInv'
<1>1. /\ UNCHANGED <<unit, listings, functionMap>> /\ UNCHANGED <<phase, item, variableLookup>>
      /\ UNCHANGED <<funbody, work>>
  BY DEF genVars
<1>2. Balanced'
  BY <1>1, StillBalanced DEF BalanceInv
<1> QED BY <1>1, <1>2 DEF BalanceInv, Placed, Going

\* A generator that has seen nothing.
LEMMA BalanceInit == GenInit => BalanceInv
<1> SUFFICES ASSUME GenInit PROVE BalanceInv
  OBVIOUS
<1>1. listings = <<>> /\ phase = "idle"
  BY DEF GenInit
<1> QED BY <1>1, NotPrinted DEF BalanceInv, Placed, Going

-----------------------------------------------------------------------------
\* Whatever units a generator visits, its variables keep their types; in particular
\* its instructions, blocks and tasks (bytecode_gen.h:47-190) are well formed.
THEOREM GeneratorTypes == GenSpec => []GenTypeOK
BY GenTypes, GenInvAlways, PTL

\* Whatever units a generator visits, and whatever names they repeat, functions and
\* globals have the numbers 0, 1, ... without gap and none twice (bytecode_gen.h:65,
\* 161 and 165).
THEOREM NumbersAreDense == GenSpec => []Numbered
<1>1. GenInv => Numbered
  BY DEF GenInv, Maps, Numbered
<1> QED BY <1>1, GenInvAlways, PTL

\* What is printed for a function refers to functions and globals that have been
\* numbered and to its own labels, and returns behind its last block and nowhere
\* else, however conditionals are nested (bytecode_gen.h:131-190).
THEOREM ListingsAreClosed == GenSpec => []ListingsClosed
BY ClosedListings, GenInvAlways, PTL

\* For every translatable body, however its conditionals and calls are nested and
\* whatever its names mean, the generator (bytecode_gen.h:43-190) prints code that a
\* stack machine can execute.
THEOREM GeneratedIsBalanced == GenSpec => []Balanced
<1>1. GenInit => GenInv /\ BalanceInv
  BY InitGenInv, BalanceInit
<1>2. GenInv /\ BalanceInv /\ [GenNext]_genVars => BalanceInv'
  BY BalanceStep, BalanceTurns, BalanceStutter DEF GenNext
<1>3. BalanceInv => Balanced
  BY DEF BalanceInv
<1>4. GenSpec => []GenInv
  BY GenInvAlways
<1> QED BY <1>1, <1>2, <1>3, <1>4, PTL DEF GenSpec

=============================================================================
