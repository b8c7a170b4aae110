----------------------------- MODULE BytecodeGen ----------------------------
(***************************************************************************)
(* BytecodeGen (src/src/codegen/bytecode_gen.h): one generator, which the  *)
(* host lets visit one translation unit after the other.  Each action is   *)
(* one call of visit, or the part of one between two calls it makes; what  *)
(* remains to be done is on the stack work, its top first.                 *)
(*                                                                         *)
(* Code is a sequence of instructions, as in Evaluator; Encoding models    *)
(* the bytes.  Basic blocks are numbered from 0, -1 stands for no value.   *)
(***************************************************************************)
EXTENDS Ast, Functions

VARIABLES functionMap, globalMap,  \* numbers of the functions and globals met so far
          currentFile,             \* never initialised
          phase,                   \* what visit(TranslationUnit) is at
          item,                    \* the element its loop has reached
          variableLookup,          \* numbers of the parameters
          funbody, tail, work,     \* basic blocks, the current one, what is to be done
          listings                 \* what has been printed of this unit

genVars == <<unit, functionMap, globalMap, currentFile, phase, item, variableLookup,
             funbody, tail, work, listings>>
names == <<functionMap, currentFile>>   \* what the visit of an expression leaves alone
loop == <<unit, phase, item, variableLookup, listings>>

-----------------------------------------------------------------------------
None == -1
FileHandle == {"max", "other"}   \* numeric_limits<FileHandle>::max(), and any other
Key == FileHandle \X STRING
File(name) == <<currentFile, name>>

Builtins == [sin |-> "SIN", cos |-> "COS", tan |-> "TAN", asin |-> "ASIN",
             acos |-> "ACOS", atan |-> "ATAN", abs |-> "ABS", ceil |-> "CEIL",
             floor |-> "FLOOR", ln |-> "LN", log |-> "LOG", norm |-> "NORM",
             round |-> "ROUND", sign |-> "SIGN", sqrt |-> "SQRT"]

Immediate(op, n) == [op |-> op, imm |-> n]
Unary(how) == [op |-> "BuiltinUnaryOp", unary |-> how]
Binary(how) == [op |-> "BinaryOp", binary |-> how]
Inst == [op : {"ConstNum", "ConstMisc", "GetI", "GetGlobalI", "CallI"}, imm : Int]
          \cup [op : {"BuiltinUnaryOp"}, unary : UnaryOp \cup Range(Builtins)]
          \cup [op : {"BinaryOp"}, binary : BinaryOp]

BasicBlock == [instructions : Seq(Inst), jumpFalse : Int, next : Int]
NewBlock == [instructions |-> <<>>, jumpFalse |-> None, next |-> 0]

Do(what, e, blocks) == [do |-> what, node |-> e, blocks |-> blocks]
Visit(e) == Do("visit", e, <<>>)
Visits(s) == [i \in DOMAIN s |-> Visit(s[i])]

InsertAgain(map, key) ==
  [k \in DOMAIN map \cup {key} |-> IF k = key THEN Cardinality(DOMAIN map) ELSE map[k]]
InsertLast(map, key) ==
  IF key \in DOMAIN map THEN map
  ELSE [k \in DOMAIN map \cup {key} |-> IF k = key THEN Cardinality(DOMAIN map) - 1 ELSE map[k]]

\* map::insert(key, map.size()): a key that is there keeps its number.
Insert(map, key) ==
  IF key \in DOMAIN map THEN map
  ELSE [k \in DOMAIN map \cup {key} |-> IF k = key THEN Cardinality(DOMAIN map) ELSE map[k]]

\* The same loop over the parameters of a function: the names before x.
Slots(args) ==
  [x \in Range(args) |->
     Cardinality({args[i] : i \in {j \in DOMAIN args : \A k \in 1..j : args[k] # x}})]

-----------------------------------------------------------------------------
GenInit == /\ unit = NoUnit
           /\ functionMap = <<>> /\ globalMap = <<>> /\ currentFile \in FileHandle
           /\ phase = "idle" /\ item = 1 /\ variableLookup = <<>>
           /\ funbody = <<>> /\ tail = 0 /\ work = <<>> /\ listings = <<>>

Begin == /\ phase = "idle" /\ phase' = "functions"
         /\ UNCHANGED <<names, globalMap, item, variableLookup, funbody, tail, work, listings>>

\* An exception ends the visit of the unit.
Throw == /\ phase' = "failed"
         /\ work' = <<>>
         /\ UNCHANGED <<unit, item, variableLookup, listings, names, globalMap, funbody, tail>>

\* visit(TranslationUnit) is over.  What is cleared here is not read again.
Return == /\ phase \in {"done", "failed"} /\ phase' = "idle"
          /\ item' = 1 /\ variableLookup' = <<>> /\ funbody' = <<>> /\ tail' = 0
          /\ listings' = <<>>
          /\ UNCHANGED <<names, globalMap, work>>

code == <<funbody, tail, work, variableLookup, listings>>
Advance(from, to, s) == /\ phase = from
                        /\ IF item <= Len(s) THEN phase' = phase /\ item' = item + 1
                           ELSE phase' = to /\ item' = 1

DeclareFunction ==
  /\ Advance("functions", "globals", unit.functions)
  /\ functionMap' = IF item <= Len(unit.functions)
                    THEN Insert(functionMap, File(unit.functions[item].name))
                    ELSE functionMap
  /\ UNCHANGED <<unit, globalMap, currentFile, code>>

DeclareGlobal ==
  /\ Advance("globals", "bodies", unit.scopes[1])
  /\ globalMap' = IF item <= Len(unit.scopes[1])
                  THEN Insert(globalMap, File(unit.scopes[1][item].ident))
                  ELSE globalMap
  /\ UNCHANGED <<unit, names, code>>

BeginFunction ==
  /\ phase = "bodies" /\ item <= Len(unit.functions)
  /\ phase' = "body"
  /\ funbody' = <<NewBlock>> /\ tail' = 0
  /\ variableLookup' = Slots(unit.functions[item].args)
  /\ work' = <<Visit(unit.functions[item].body)>>
  /\ UNCHANGED <<unit, names, globalMap, item, listings>>

\* The last block returns; then the blocks are printed.
EndFunction ==
  /\ phase = "body" /\ work = <<>>
  /\ funbody' = [funbody EXCEPT ![tail + 1].next = None]
  /\ listings' = Append(listings, [name |-> unit.functions[item].name, blocks |-> funbody'])
  /\ phase' = "bodies" /\ item' = item + 1
  /\ UNCHANGED <<unit, names, globalMap, variableLookup, tail, work>>

EndUnit == /\ phase = "bodies" /\ item > Len(unit.functions) /\ phase' = "done"
           /\ UNCHANGED <<unit, names, globalMap, item, code>>

-----------------------------------------------------------------------------
(* Expressions. *)

Doing(what) == work # <<>> /\ Head(work).do = what
node == Head(work).node
Visiting(kinds) == Doing("visit") /\ node.kind \in kinds

\* Append an instruction to the current block.
Emit(inst) == /\ funbody' = [funbody EXCEPT ![tail + 1].instructions = Append(@, inst)]
              /\ work' = Tail(work)
              /\ UNCHANGED <<loop, names, tail>>
Add(inst) == Emit(inst) /\ UNCHANGED globalMap

Continue(tasks) == work' = tasks \o Tail(work)
Schedule(tasks) == Continue(tasks) /\ UNCHANGED <<loop, names, globalMap, funbody, tail>>

VisitNumber == Visiting({"Number"}) /\ Add(Immediate("ConstNum", node.value))
VisitString == Visiting({"String"}) /\ Throw
VisitUndef  == Visiting({"Undef"}) /\ Add(Immediate("ConstMisc", 2))

\* Every $name is a global, numbered when it is first met.
VisitConfigVar ==
  /\ Visiting({"Ident"}) /\ isConfigVar(node)
  /\ globalMap' = Insert(globalMap, <<"max", node.name>>)
  /\ Emit(Immediate("GetGlobalI", globalMap'[<<"max", node.name>>]))

Lookup(e) ==
  CASE e.name \in DOMAIN variableLookup -> Immediate("GetI", variableLookup[e.name])
    [] e.name \notin DOMAIN variableLookup /\ File(e.name) \in DOMAIN globalMap ->
         Immediate("GetGlobalI", globalMap[File(e.name)])
    [] OTHER -> Immediate("ConstMisc", 2)

VisitIdent == Visiting({"Ident"}) /\ ~isConfigVar(node) /\ Add(Lookup(node))

VisitOperator == /\ Visiting({"Unary", "Binary"})
                 /\ Schedule(Append(Visits(node.kids), Do("operate", node, <<>>)))

Operate == /\ Doing("operate")
           /\ Add(IF node.kind = "Unary" THEN Unary(node.name) ELSE Binary(node.name))

\* The inherited traversal: the kids leave their values and nothing uses them.
VisitOther == /\ Visiting(Unsupported)
              /\ Schedule(SubSeq(Visits(node.kids), 1, Cardinality(Visited(node))))

VisitCallWhole == /\ Visiting({"Call"})
                  /\ IF node.kids[1].kind = "Ident"
                     THEN Schedule(Append(Visits(node.kids), Do("call", node, <<>>)))
                     ELSE Throw

VisitCall == /\ Visiting({"Call"})
             /\ IF node.kids[1].kind = "Ident"
                THEN Schedule(Append(Visits(Tail(node.kids)), Do("call", node, <<>>)))
                ELSE Throw

Callee == node.kids[1].name
Call == /\ Doing("call")
        /\ CASE File(Callee) \in DOMAIN functionMap ->
                  Add(Immediate("CallI", functionMap[File(Callee)]))
             [] File(Callee) \notin DOMAIN functionMap /\ Callee \in DOMAIN Builtins ->
                  Add(Unary(Builtins[Callee]))
             [] OTHER -> Throw

VisitIfExpr == /\ Visiting({"IfExpr"})
               /\ Schedule(<<Visit(node.kids[1]), Do("then", node, <<>>)>>)

\* Go on in a new block; blocks are the numbers the caller keeps in its locals.
NextBlock(tasks) == /\ funbody' = Append(funbody, NewBlock)
                    /\ tail' = Len(funbody)
                    /\ Continue(tasks)
                    /\ UNCHANGED <<loop, names, globalMap>>

IfThen == /\ Doing("then")
          /\ NextBlock(<<Visit(node.kids[2]), Do("else", node, <<tail, Len(funbody)>>)>>)

IfElse == /\ Doing("else")
          /\ NextBlock(<<Visit(node.kids[3]),
                         Do("join", node, Append(Head(work).blocks, Len(funbody)))>>)

JoinedBehind(blocks, current, true, false, end) ==
  [blocks EXCEPT ![true + 1].next = end + 1, ![false + 1].next = end + 1,
                 ![current + 1].jumpFalse = false, ![current + 1].next = true]
JoinedSwapped(blocks, current, true, false, end) ==
  [blocks EXCEPT ![true + 1].next = end, ![false + 1].next = end,
                 ![current + 1].jumpFalse = true, ![current + 1].next = false]

Joined(blocks, current, true, false, end) ==
  [blocks EXCEPT ![true + 1].next = end, ![false + 1].next = end,
                 ![current + 1].jumpFalse = false, ![current + 1].next = true]

IfJoin ==
  /\ Doing("join")
  /\ LET ids == Head(work).blocks
     IN funbody' = Joined(Append(funbody, NewBlock), ids[1], ids[2], ids[3], Len(funbody))
  /\ tail' = Len(funbody)
  /\ Continue(<<>>)
  /\ UNCHANGED <<loop, names, globalMap>>

VisitExpr == \/ VisitNumber \/ VisitString \/ VisitUndef \/ VisitConfigVar \/ VisitIdent
             \/ VisitOperator \/ Operate \/ VisitOther \/ VisitCall \/ Call
             \/ VisitIfExpr \/ IfThen \/ IfElse \/ IfJoin

GenStep == \/ DeclareFunction \/ DeclareGlobal \/ BeginFunction \/ EndFunction \/ EndUnit
           \/ VisitExpr

GenNext == \/ \E u \in Units : unit' = u /\ Begin
           \/ GenStep
           \/ Return /\ UNCHANGED unit

GenSpec == GenInit /\ [][GenNext]_genVars

-----------------------------------------------------------------------------
Task == [do : {"visit", "operate", "call", "then", "else", "join"}, node : Expr,
         blocks : Seq(Nat)]
Listing == [name : STRING, blocks : Seq(BasicBlock)]
Numbering(map) == IsFiniteSet(DOMAIN map) /\ map \in [DOMAIN map -> Nat]

GenTypeOK ==
  /\ unit \in TranslationUnit /\ unit.scopes # <<>>
  /\ DOMAIN functionMap \subseteq Key /\ Numbering(functionMap)
  /\ DOMAIN globalMap \subseteq Key /\ Numbering(globalMap)
  /\ currentFile \in FileHandle
  /\ phase \in {"idle", "functions", "globals", "bodies", "body", "done", "failed"}
  /\ item \in Nat \ {0}
  /\ Numbering(variableLookup)
  /\ funbody \in Seq(BasicBlock) /\ tail \in Nat
  /\ work \in Seq(Task)
  /\ listings \in Seq(Listing)
  /\ phase = "body" => item <= Len(unit.functions)

Dense(map) == /\ \A k \in DOMAIN map : map[k] < Cardinality(DOMAIN map)
              /\ \A k, l \in DOMAIN map : map[k] = map[l] => k = l

\* However many units the generator has seen, and whatever names they repeat
\* (bytecode_gen.h:161, 165 and 65): functions and globals have the numbers 0, 1,
\* ... with no gap and no number twice, so that they index two arrays.
Numbered == Dense(functionMap) /\ Dense(globalMap)

\* An instruction refers to a function, or a global, that has its number.
Resolved(inst) ==
  /\ inst.op = "CallI" => inst.imm \in 0..(Cardinality(DOMAIN functionMap) - 1)
  /\ inst.op = "GetGlobalI" => inst.imm \in 0..(Cardinality(DOMAIN globalMap) - 1)

InBody(blocks, l) == l \in 0..(Len(blocks) - 1)

\* What is printed for a function (bytecode_gen.h:179-190): it calls and reads what
\* exists, its labels are labels of its own, and it returns behind its last block
\* and nowhere else.
ListingsClosed ==
  \A i \in DOMAIN listings :
    LET blocks == listings[i].blocks
    IN \A l \in DOMAIN blocks :
         /\ blocks[l].jumpFalse = None \/ InBody(blocks, blocks[l].jumpFalse)
         /\ IF l = Len(blocks) THEN blocks[l].next = None ELSE InBody(blocks, blocks[l].next)
         /\ \A j \in DOMAIN blocks[l].instructions : Resolved(blocks[l].instructions[j])

=============================================================================
