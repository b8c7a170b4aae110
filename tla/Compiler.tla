------------------------------- MODULE Compiler -----------------------------
(***************************************************************************)
(* The way of a translation unit: ConstEvaluator folds it, BytecodeGen     *)
(* generates code from what is left, and the stack machine that            *)
(* instructions.h promises (StackMachine) executes the function "main".    *)
(*                                                                         *)
(* The host is an assumption.  src/test/parser_test.cpp:79-89 parses a     *)
(* unit and folds it, with one ConstEvaluator and one BytecodeGen for all  *)
(* units; its calls of the generator are commented out, and nothing in the *)
(* repository goes on from there.  Here the folded unit is handed to the   *)
(* generator, and a unit that it refuses is given up for the next one.     *)
(* Link is what a host has to do with what is printed: labels become       *)
(* relative jumps, "ret" becomes Ret, functions and globals go to the      *)
(* places they were numbered.                                              *)
(***************************************************************************)
EXTENDS ConstEval, GeneratedCode

CONSTANT MaxUnits   \* units the host hands over

ASSUME MaxUnitsAssumption == MaxUnits \in Nat

\* With an expression there is what the passes make of it.
ASSUME FoldingAssumption ==
  /\ mapped \in [Expr -> Expr] /\ visited \in [Expr -> Expr]

VARIABLES host,                       \* what the host is waiting for
          compiled,                   \* how many units it has handed over
          functions, globals, status, results, stack, pc, frames   \* StackMachine

Machine == INSTANCE StackMachine WITH Kept <- 0, Negates <- TRUE

hostVars == <<host, compiled>>
machineVars == <<functions, globals, status, results, stack, pc, frames>>
foldLocals == <<parsed, pass, scope, index, localIndices>>
genLocals == <<functionMap, globalMap, currentFile, phase, item, variableLookup,
               funbody, tail, work, listings>>
vars == <<unit, foldLocals, genLocals, hostVars, machineVars>>

-----------------------------------------------------------------------------
(* Linking. *)

\* Code of a listing: block l starts at start[l].
Assemble(blocks) ==
  LET ends(b) == (IF b.jumpFalse = None THEN <<>> ELSE <<"JumpFalseI">>)
                   \o (IF b.next = None THEN <<"Ret">> ELSE <<"JumpI">>)
      start[l \in 0..Len(blocks)] ==
        IF l = 0 THEN 0
        ELSE start[l - 1] + Len(blocks[l].instructions) + Len(ends(blocks[l]))
      jump(op, at, b) ==
        CASE op = "JumpFalseI" -> Immediate(op, start[b.jumpFalse] - at)
          [] op = "JumpI" -> Immediate(op, start[b.next] - at)
          [] OTHER -> [op |-> op]
      assembled(l) ==
        LET b == blocks[l]
            at == start[l - 1] + Len(b.instructions) - 1
        IN b.instructions \o [i \in DOMAIN ends(b) |-> jump(ends(b)[i], at + i, b)]
  IN FlattenSeq([l \in DOMAIN blocks |-> assembled(l)])

\* The definition of name in us: of two, the one printed last.
Named(s, name) == s[CHOOSE i \in DOMAIN s : s[i].name = name
                                            /\ \A j \in (i + 1)..Len(s) : s[j].name # name]

\* The entries by number; functions of earlier units are not called any more.
Linked ==
  [n \in 1..Cardinality(DOMAIN functionMap) |->
     LET key == CHOOSE k \in DOMAIN functionMap : functionMap[k] = n - 1
     IN IF \E i \in DOMAIN listings : listings[i].name = key[2]
        THEN [code |-> Assemble(Named(listings, key[2]).blocks),
              parameters |-> Len(Named(unit.functions, key[2]).args)]
        ELSE [code |-> <<>>, parameters |-> 0]]

\* The value the host gives to a configuration variable that no file assigns.
HostValue == Machine!Number(7)

-----------------------------------------------------------------------------
(* What an expression of u means, with the functions and assignments of u. *)

\* The generator knows no lists: what its code computes is a number, a truth value
\* or undef.
Plain == [tag : {"NUMBER", "BOOLEAN", "UNDEF"}, num : Int, items : {<<>>}]
Binding == [name : STRING, val : Plain]
Bindings(args, vals) == [i \in DOMAIN args |-> [name |-> args[i], val |-> vals[i]]]
Bound(env) == {env[i].name : i \in DOMAIN env}

\* What a name that is no parameter means: the last assignment of the file counts.
GlobalMeaning(file, name, meaningOf(_)) ==
  LET assigned == {i \in DOMAIN file : file[i].ident = name}
  IN CASE name \in ConfigVar -> HostValue
       [] name \notin ConfigVar /\ assigned # {} ->
            meaningOf(file[CHOOSE i \in assigned : \A j \in assigned : j <= i].expr)
       [] OTHER -> Machine!Undefined

Meaning(u, bindings, expr) ==
  LET file == u.scopes[1]
      defines(name) == \E i \in DOMAIN u.functions : u.functions[i].name = name
      meaning[env \in Seq(Binding), e \in Expr] ==
        LET kid(i) == meaning[env, e.kids[i]]
            global(x) == meaning[<<>>, x]
            arguments == [i \in 1..(Len(e.kids) - 1) |-> kid(i + 1)]
            call(f) == meaning[Bindings(f.args, arguments), f.body]
        IN CASE e.kind = "Number" -> Machine!Number(e.value)
             [] e.kind = "Ident" /\ e.name \in Bound(env) -> Named(env, e.name).val
             [] e.kind = "Ident" /\ e.name \notin Bound(env) ->
                  GlobalMeaning(file, e.name, global)
             [] e.kind = "Unary" -> Machine!Unary(e.name, kid(1))
             [] e.kind = "Binary" -> Machine!Binary(e.name, kid(1), kid(2))
             [] e.kind = "IfExpr" -> IF kid(1).num # 0 THEN kid(2) ELSE kid(3)
             [] e.kind = "Call" /\ defines(e.kids[1].name) ->
                  call(Named(u.functions, e.kids[1].name))
             [] e.kind = "Call" /\ ~defines(e.kids[1].name) ->
                  Machine!Unary(Builtins[e.kids[1].name], kid(2))
             [] OTHER -> Machine!Undefined
  IN meaning[bindings, expr]

\* The host computes the globals from the folded unit.
GlobalValues ==
  LET value(e) == Meaning(unit, <<>>, e)
  IN [n \in 1..Cardinality(DOMAIN globalMap) |->
        LET key == CHOOSE k \in DOMAIN globalMap : globalMap[k] = n - 1
        IN GlobalMeaning(unit.scopes[1], key[2], value)]

-----------------------------------------------------------------------------
Init == /\ FoldInit /\ GenInit /\ Machine!Init
        /\ functions = <<>> /\ globals = <<>>
        /\ host = "ready" /\ compiled = 0

Folding == FoldStep /\ UNCHANGED <<genLocals, hostVars, machineVars>>
Generating == GenStep /\ UNCHANGED <<foldLocals, hostVars, machineVars>>

Parse(u) == /\ host = "ready" /\ compiled < MaxUnits
            /\ host' = "folding" /\ compiled' = compiled + 1
            /\ FoldUnit(u)
            /\ UNCHANGED <<genLocals, machineVars>>

Generate == /\ host = "folding" /\ FoldReturn
            /\ host' = "generating" /\ Begin
            /\ UNCHANGED <<compiled, machineVars>>

\* The listings are complete: link them and call main.
Link == /\ host = "generating" /\ phase = "done" /\ Return
        /\ functions' = Linked /\ globals' = GlobalValues
        /\ host' = "running"
        /\ UNCHANGED <<unit, compiled, foldLocals, status, results, stack, pc, frames>>

\* The host is done with the unit.
Forget == /\ host' = "ready" /\ unit' = NoUnit /\ parsed' = NoUnit
          /\ UNCHANGED <<compiled, pass, scope, index, localIndices>>

GiveUp == /\ host = "generating" /\ phase = "failed" /\ Return
          /\ Forget /\ UNCHANGED machineVars

Main == functionMap[File("main")]
Run == /\ host = "running" /\ results = <<>> /\ Machine!Start(Main)
       /\ UNCHANGED <<unit, hostVars, foldLocals, genLocals>>

Execute == /\ Machine!Straight \/ Machine!Branch \/ Machine!Call \/ Machine!Return
           /\ UNCHANGED <<unit, hostVars, foldLocals, genLocals>>

Finish == /\ host = "running" /\ results # <<>>
          /\ Forget /\ functions' = <<>> /\ globals' = <<>> /\ results' = <<>>
          /\ UNCHANGED <<genLocals, status, stack, pc, frames>>

Step == Folding \/ Generate \/ Generating \/ Link \/ GiveUp \/ Run \/ Execute \/ Finish
Next == (\E u \in Units : Parse(u)) \/ Step

Spec == Init /\ [][Next]_vars
FairSpec == Spec /\ WF_vars(Step)

-----------------------------------------------------------------------------
TypeOK == /\ FoldTypeOK /\ GenTypeOK
          /\ host \in {"ready", "folding", "generating", "running"}
          /\ compiled \in 0..MaxUnits

\* Nodes without a visit of their own stand for no value (bytecode_gen.h:194).
Supported(u) == \A i \in DOMAIN u.functions : u.functions[i].body.kind \notin Unsupported

\* Folding, numbering, code and jumps together: what main returns is what its body
\* means in the unit as it was parsed.
Computes ==
  (host = "running" /\ results # <<>> /\ Supported(parsed)) =>
     results[1] = [how |-> "return",
                   val |-> Meaning(parsed, <<>>, Named(parsed.functions, "main").body)]

\* Compilation ends, in an exception or with a program that returns.
CompiledAndRun == (host = "folding") ~> (host = "ready")

=============================================================================
