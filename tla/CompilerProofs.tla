---------------------------- MODULE CompilerProofs ---------------------------
(***************************************************************************)
(* Proofs about Compiler: the two passes, each with its invariant, take    *)
(* turns on one unit.  Folding rewrites the unit the generator will visit, *)
(* and Forget takes it away; neither disturbs GenInv, because the          *)
(* generator is idle then and never looks at the unit in between.          *)
(***************************************************************************)
EXTENDS Compiler, ConstEvalProofs, BytecodeGenProofs

\* A unit with a scope for the file.
IsUnit(u) == u \in TranslationUnit /\ u.scopes # <<>>

\* Who is at work.
Turns == /\ host \in {"ready", "folding", "generating", "running"}
         /\ compiled \in 0..MaxUnits
         /\ pass \in {"idle", "fix", "done"} /\ index \in Nat \ {0}
         /\ host = "folding" <=> pass # "idle"
         /\ host = "generating" <=> phase # "idle"

\* The inductive invariant.
CompilerInv == /\ Turns /\ FixInv /\ GenInv
               /\ IsUnit(unit) /\ parsed \in Units \cup {NoUnit}

-----------------------------------------------------------------------------
(* What folding makes of a unit is a unit. *)

\* The units there are.
LEMMA UnitsThere == IsUnit(NoUnit) /\ \A u \in Units : IsUnit(u)
<1>1. NoUnit \in TranslationUnit /\ NoUnit.scopes # <<>>
  BY SMT DEF NoUnit, TranslationUnit
<1> QED BY <1>1, UnitsAssumption DEF IsUnit

\* A unit with another scope in the place of one.
LEMMA SetScopeUnit ==
  ASSUME NEW u, IsUnit(u), NEW c \in 1..Len(u.scopes), NEW a \in Seq(AssignNode)
  PROVE  IsUnit(SetScope(u, c, a))
<1> DEFINE t == [u.scopes EXCEPT ![c] = a]
<1>1. /\ u.functions \in Seq(FunctionDecl) /\ u.scopes \in Seq(Seq(AssignNode))
      /\ u = [functions |-> u.functions, scopes |-> u.scopes] /\ u.scopes # <<>>
  BY DEF IsUnit, TranslationUnit
<1>2. t \in Seq(Seq(AssignNode)) /\ Len(t) = Len(u.scopes)
  BY <1>1, ExceptSeq
<1>3. Len(u.scopes) # 0
  BY <1>1, EmptySeq
<1>4. SetScope(u, c, a) = [functions |-> u.functions, scopes |-> t]
  <2>1. PICK f, s : u = [functions |-> f, scopes |-> s]
    BY <1>1
  <2>2. u.functions = f /\ u.scopes = s
    BY <2>1
  <2>3. SetScope(u, c, a) = [functions |-> f, scopes |-> [s EXCEPT ![c] = a]]
    BY <2>1 DEF SetScope
  <2> QED BY <2>2, <2>3
<1> HIDE DEF t
<1>5. t # <<>>
  BY <1>2, <1>3, EmptySeq
<1> QED BY <1>1, <1>2, <1>4, <1>5 DEF IsUnit, TranslationUnit

\* The second loop of fixAssignments keeps the assignments assignments.
LEMMA MappedScope ==
  ASSUME NEW s \in Seq(AssignNode)
  PROVE  Mapped(s) \in Seq(AssignNode)
<1>1. \A a \in AssignNode : [a EXCEPT !.expr = mapped[@]] \in AssignNode
  BY FoldingAssumption DEF AssignNode
<1>2. \A i \in 1..Len(s) : s[i] \in AssignNode
  BY ElementOfSeq
<1>3. DOMAIN s = 1..Len(s) /\ Len(s) \in Nat
  BY LenProperties
<1>4. Mapped(s) = [i \in 1..Len(s) |-> [s[i] EXCEPT !.expr = mapped[@]]]
  BY <1>3 DEF Mapped
<1>5. Mapped(s) \in [1..Len(s) -> AssignNode]
  BY <1>1, <1>2, <1>4
<1> QED BY <1>3, <1>5

\* Visiting the functions keeps a unit a unit.
LEMMA VisitedUnit ==
  ASSUME NEW u, IsUnit(u)
  PROVE  IsUnit([u EXCEPT !.functions = VisitedBodies(@)])
<1> DEFINE h == VisitedBodies(u.functions)
<1>1. /\ u.functions \in Seq(FunctionDecl) /\ u.scopes \in Seq(Seq(AssignNode))
      /\ u = [functions |-> u.functions, scopes |-> u.scopes] /\ u.scopes # <<>>
  BY DEF IsUnit, TranslationUnit
<1>2. \A f \in FunctionDecl : [f EXCEPT !.body = visited[@]] \in FunctionDecl
  BY FoldingAssumption DEF FunctionDecl
<1>3. DOMAIN u.functions = 1..Len(u.functions) /\ Len(u.functions) \in Nat
  BY <1>1, LenProperties
<1>4. \A i \in 1..Len(u.functions) : u.functions[i] \in FunctionDecl
  BY <1>1, ElementOfSeq
<1>5. h \in [1..Len(u.functions) -> FunctionDecl]
  BY <1>2, <1>3, <1>4 DEF VisitedBodies
<1>6. h \in Seq(FunctionDecl)
  BY <1>3, <1>5
<1> HIDE DEF h
<1>7. [u EXCEPT !.functions = h] = [functions |-> h, scopes |-> u.scopes]
  BY <1>1
<1> QED BY <1>1, <1>6, <1>7 DEF IsUnit, TranslationUnit, h

-----------------------------------------------------------------------------
(* The passes. *)

\* A step of folding.
LEMMA FoldTurn ==
  ASSUME FixInv, IsUnit(unit), FoldStep
  PROVE  FixInv' /\ IsUnit(unit')
<1>1. Scopes \in Nat /\ Len(unit.scopes) = Scopes
  BY ShapedLen DEF FixInv, Scopes
<1>2. CASE Duplicate
  <2> DEFINE a == Overwrite(assignments, index, localIndices[assignments[index].ident])
  <2>1. FixInv'
    BY <1>2, FixDuplicate
  <2>2. /\ AtAssignment /\ pass' = pass /\ parsed' = parsed /\ scope' = scope
        /\ unit' = SetScope(unit, scope, a)
    BY <1>2 DEF Duplicate, SetScope, assignments
  <2>3. scope \in 1..Scopes
    BY <2>2, FixHere
  <2>4. unit'.scopes[scope] = a
    BY <1>1, <2>2, <2>3, ShapedScope DEF FixInv
  <2>5. a \in Seq(AssignNode)
    BY <2>1, <2>2, <2>3, <2>4 DEF FixInv, Scopes, AtAssignment, Fixing, Progress
  <2> HIDE DEF a
  <2> QED BY <1>1, <2>1, <2>2, <2>3, <2>5, SetScopeUnit
<1>3. CASE FirstSeen
  BY <1>3, FixFirstSeen DEF FirstSeen
<1>4. CASE VisitAssignments
  <2>1. /\ Fixing /\ unit' = SetScope(unit, scope, Mapped(assignments))
    BY <1>4 DEF VisitAssignments, SetScope, assignments
  <2>2. scope \in 1..Len(unit.scopes)
    BY <1>1, <2>1 DEF FixInv, Fixing
  <2>3. unit.scopes \in Seq(Seq(AssignNode))
    BY DEF IsUnit, TranslationUnit
  <2>4. assignments \in Seq(AssignNode)
    BY <2>2, <2>3, ElementOfSeq DEF assignments
  <2> QED BY <1>4, <2>1, <2>2, <2>4, MappedScope, SetScopeUnit, FixVisitAssignments
<1>5. CASE VisitFunctions
  BY <1>5, VisitedUnit, FixVisitFunctions DEF VisitFunctions
<1> QED BY <1>2, <1>3, <1>4, <1>5 DEF FoldStep

\* Where it leads.
LEMMA FoldPlaces ==
  ASSUME Turns, FixInv, FoldStep
  PROVE  /\ pass \in {"fix"} /\ pass' \in {"fix", "done"} /\ index' \in Nat \ {0}
         /\ parsed' = parsed
<1>1. index \in Nat \ {0} /\ index + 1 \in Nat \ {0}
  BY DEF Turns
<1> QED BY <1>1 DEF FoldStep, Duplicate, FirstSeen, VisitAssignments, VisitFunctions,
                    AtAssignment, Fixing, NewScope

\* A step of the generator.
LEMMA GenTurn ==
  ASSUME GenInv, GenStep
  PROVE  GenInv' /\ unit' = unit /\ phase # "idle" /\ phase' # "idle"
<1>1. CASE DeclareFunction \/ DeclareGlobal
  BY <1>1, DeclareStep DEF DeclareFunction, DeclareGlobal, Advance
<1>2. CASE BeginFunction
  BY <1>2, BeginFunctionStep DEF BeginFunction
<1>3. CASE EndFunction
  BY <1>3, EndFunctionStep DEF EndFunction
<1>4. CASE EndUnit
  BY <1>4, EndUnitStep DEF EndUnit
<1>5. CASE VisitExpr
  <2>1. work # <<>>
    BY <1>5 DEF VisitExpr, VisitNumber, VisitString, VisitUndef, VisitConfigVar, VisitIdent,
                VisitOperator, Operate, VisitOther, VisitCall, Call, VisitIfExpr, IfThen,
                IfElse, IfJoin, Visiting, Doing
  <2>2. phase = "body"
    BY <2>1 DEF GenInv, Body
  <2>3. unit' = unit /\ phase' \in {phase, "failed"}
    BY <1>5 DEF VisitExpr, VisitNumber, VisitString, VisitUndef, VisitConfigVar, VisitIdent,
                VisitOperator, Operate, VisitOther, VisitCall, Call, VisitIfExpr, IfThen,
                IfElse, IfJoin, Add, Emit, Schedule, NextBlock, Throw, loop
  <2> QED BY <1>5, <2>2, <2>3, ExprStep
<1> QED BY <1>1, <1>2, <1>3, <1>4, <1>5 DEF GenStep

\* While the generator is idle, its invariant asks of the unit that it is one.
LEMMA GenRests ==
  ASSUME GenInv, phase = "idle", UNCHANGED genLocals, IsUnit(unit')
  PROVE  GenInv' /\ phase' = "idle"
BY GenUnit DEF genLocals, names, IsUnit

\* What folding keeps for itself is not touched by the others.
LEMMA FixRests ==
  ASSUME FixInv, UNCHANGED unit, UNCHANGED foldLocals
  PROVE  FixInv'
BY DEF FixInv, Scopes, foldLocals

-----------------------------------------------------------------------------
(* The host. *)

\* It hands over a unit.
LEMMA ParseStep ==
  ASSUME CompilerInv, NEW u \in Units, Parse(u)
  PROVE  CompilerInv'
<1>1. /\ host = "ready" /\ compiled < MaxUnits /\ host' = "folding" /\ compiled' = compiled + 1
      /\ FoldUnit(u) /\ UNCHANGED genLocals
  BY DEF Parse
<1>2. /\ pass = "idle" /\ pass' = "fix" /\ unit' = u /\ parsed' = u /\ index' = 1
  BY <1>1 DEF FoldUnit, NewScope
<1>3. FixInv' /\ IsUnit(unit')
  BY <1>1, <1>2, FixStart, UnitsThere DEF CompilerInv
<1>4. GenInv' /\ phase' = "idle"
  BY <1>1, <1>3, GenRests DEF CompilerInv, Turns
<1>5. Turns'
  BY <1>1, <1>2, <1>4, MaxUnitsAssumption DEF CompilerInv, Turns
<1> QED BY <1>2, <1>3, <1>4, <1>5 DEF CompilerInv

\* One of the passes goes on.
LEMMA PassStep ==
  ASSUME CompilerInv, Folding \/ Generating
  PROVE  CompilerInv'
<1>1. CASE Folding
  <2>1. FoldStep /\ UNCHANGED genLocals /\ UNCHANGED <<host, compiled>>
    BY <1>1 DEF Folding, hostVars
  <2>2. /\ pass = "fix" /\ pass' \in {"fix", "done"} /\ index' \in Nat \ {0}
        /\ parsed' = parsed
    BY <2>1, FoldPlaces DEF CompilerInv
  <2>3. FixInv' /\ IsUnit(unit')
    BY <2>1, FoldTurn DEF CompilerInv
  <2>4. GenInv' /\ phase' = "idle" /\ phase = "idle"
    BY <2>1, <2>2, <2>3, GenRests DEF CompilerInv, Turns
  <2>5. Turns'
    BY <2>1, <2>2, <2>4 DEF CompilerInv, Turns
  <2> QED BY <2>2, <2>3, <2>4, <2>5 DEF CompilerInv
<1>2. CASE Generating
  <2>1. GenStep /\ UNCHANGED foldLocals /\ UNCHANGED <<host, compiled>>
    BY <1>2 DEF Generating, hostVars
  <2>2. GenInv' /\ unit' = unit /\ phase # "idle" /\ phase' # "idle"
    BY <2>1, GenTurn DEF CompilerInv
  <2>3. FixInv'
    BY <2>1, <2>2, FixRests DEF CompilerInv
  <2>4. Turns' /\ parsed' = parsed
    BY <2>1, <2>2 DEF CompilerInv, Turns, foldLocals
  <2> QED BY <2>2, <2>3, <2>4 DEF CompilerInv
<1> QED BY <1>1, <1>2

\* Folding returns, and the generator begins.
LEMMA GenerateStep ==
  ASSUME CompilerInv, Generate
  PROVE  CompilerInv'
<1>1. /\ host = "folding" /\ host' = "generating" /\ compiled' = compiled
      /\ pass' = "idle" /\ UNCHANGED <<unit, parsed, scope, index, localIndices>>
      /\ Begin /\ phase' = "functions"
  BY DEF Generate, FoldReturn, Begin
<1>2. FixInv'
  BY <1>1 DEF CompilerInv, FixInv, Scopes
<1>3. GenInv'
  BY <1>1, BeginStep DEF CompilerInv, IsUnit
<1>4. Turns'
  BY <1>1 DEF CompilerInv, Turns
<1> QED BY <1>1, <1>2, <1>3, <1>4 DEF CompilerInv

\* The generator returns: its code is linked, or there is none.
LEMMA ReturnsStep ==
  ASSUME CompilerInv, Link \/ GiveUp
  PROVE  CompilerInv'
<1>1. /\ host = "generating" /\ host' \in {"running", "ready"} /\ compiled' = compiled
      /\ Return /\ phase' = "idle" /\ UNCHANGED <<pass, scope, index, localIndices>>
      /\ \/ UNCHANGED <<unit, parsed>>
         \/ unit' = NoUnit /\ parsed' = NoUnit
  BY DEF Link, GiveUp, Return, Forget, foldLocals
<1>2. IsUnit(unit') /\ parsed' \in Units \cup {NoUnit}
  BY <1>1, UnitsThere DEF CompilerInv
<1>3. GenInv'
  BY <1>1, <1>2, ReturnStep DEF CompilerInv, IsUnit
<1>4. FixInv'
  BY <1>1, ShapedNoUnit DEF CompilerInv, Turns, FixInv, Scopes
<1>5. Turns'
  BY <1>1 DEF CompilerInv, Turns
<1> QED BY <1>2, <1>3, <1>4, <1>5 DEF CompilerInv

\* The program runs, and the host is done with it.
LEMMA RunStep ==
  ASSUME CompilerInv, Run \/ Execute \/ Finish
  PROVE  CompilerInv'
<1>1. /\ UNCHANGED genLocals /\ UNCHANGED <<compiled, pass, scope, index, localIndices>>
      /\ \/ UNCHANGED <<unit, parsed, host>>
         \/ host = "running" /\ host' = "ready" /\ unit' = NoUnit /\ parsed' = NoUnit
  BY DEF Run, Execute, Finish, Forget, foldLocals, hostVars
<1>2. IsUnit(unit') /\ parsed' \in Units \cup {NoUnit}
  BY <1>1, UnitsThere DEF CompilerInv
<1>3. GenInv' /\ phase' = phase
  <2>1. CASE UNCHANGED unit
    BY <1>1, <2>1, GenStutter DEF CompilerInv, genLocals, genVars
  <2>2. CASE phase = "idle"
    BY <1>1, <1>2, <2>2, GenRests DEF CompilerInv
  <2> QED BY <1>1, <2>1, <2>2 DEF CompilerInv, Turns
<1>4. FixInv'
  BY <1>1, ShapedNoUnit DEF CompilerInv, Turns, FixInv, Scopes
<1>5. Turns'
  BY <1>1, <1>3 DEF CompilerInv, Turns
<1> QED BY <1>2, <1>3, <1>4, <1>5 DEF CompilerInv

\* Nothing happens.
LEMMA CompilerStutter ==
  ASSUME CompilerInv, UNCHANGED vars
  PROVE  CompilerInv'
<1>1. UNCHANGED unit /\ UNCHANGED foldLocals /\ UNCHANGED genLocals /\ UNCHANGED <<host, compiled>>
  BY DEF vars, hostVars
<1>2. FixInv' /\ GenInv'
  BY <1>1, FixRests, GenStutter DEF CompilerInv, genLocals, genVars
<1> QED BY <1>1, <1>2 DEF CompilerInv, Turns, foldLocals, genLocals

\* CompilerInv is inductive.
LEMMA CompilerAlways == Spec => []CompilerInv
<1>1. Init => CompilerInv
  <2> SUFFICES ASSUME Init PROVE CompilerInv
    OBVIOUS
  <2>1. FixInv /\ GenInv
    BY FixInit, InitGenInv DEF Init
  <2>2. Turns /\ unit = NoUnit /\ parsed = NoUnit
    BY MaxUnitsAssumption DEF Init, FoldInit, GenInit, Turns
  <2> QED BY <2>1, <2>2, UnitsThere DEF CompilerInv
<1>2. CompilerInv /\ [Next]_vars => CompilerInv'
  BY ParseStep, PassStep, GenerateStep, ReturnsStep, RunStep, CompilerStutter DEF Next, Step
<1> QED BY <1>1, <1>2, PTL DEF Spec

\* Beside the host and the folding, BalanceInv stays: the generator has printed
\* nothing while they have the unit.
LEMMA CompilerBalance ==
  ASSUME CompilerInv, BalanceInv, [Next]_vars
  PROVE  BalanceInv'
<1>1. ASSUME phase = "idle", UNCHANGED genLocals
      PROVE  BalanceInv'
  <2>1. phase' = "idle" /\ listings' = listings
    BY <1>1 DEF genLocals
  <2> QED BY <1>1, <2>1, BalanceRests
<1>2. ASSUME UNCHANGED genLocals, UNCHANGED unit
      PROVE  BalanceInv'
  BY <1>2, BalanceStutter DEF genLocals, genVars
<1>3. CASE \E u \in Units : Parse(u)
  <2>1. UNCHANGED genLocals /\ host = "ready"
    BY <1>3 DEF Parse
  <2>2. phase = "idle"
    BY <2>1 DEF CompilerInv, Turns
  <2> QED BY <1>1, <2>1, <2>2
<1>4. CASE Folding
  <2>1. FoldStep /\ UNCHANGED genLocals
    BY <1>4 DEF Folding
  <2>2. pass = "fix"
    BY <2>1, FoldPlaces DEF CompilerInv
  <2>3. phase = "idle"
    BY <2>2 DEF CompilerInv, Turns
  <2> QED BY <1>1, <2>1, <2>3
<1>5. CASE Generating
  BY <1>5, BalanceStep DEF Generating, CompilerInv
<1>6. CASE Generate \/ Link \/ GiveUp
  BY <1>6, BalanceTurns DEF Generate, Link, GiveUp
<1>7. CASE Run \/ Execute \/ Finish
  <2>1. UNCHANGED genLocals /\ (UNCHANGED unit \/ host = "running")
    BY <1>7 DEF Run, Execute, Finish, Forget, foldLocals, hostVars
  <2>2. host = "running" => phase = "idle"
    BY DEF CompilerInv, Turns
  <2> QED BY <1>1, <1>2, <2>1, <2>2
<1>8. CASE UNCHANGED vars
  BY <1>2, <1>8 DEF vars
<1> QED BY <1>3, <1>4, <1>5, <1>6, <1>7, <1>8 DEF Next, Step

-----------------------------------------------------------------------------
\* However many units one ConstEvaluator and one BytecodeGen are given
\* (test/parser_test.cpp:80), and whether or not the generator throws, the variables
\* of both keep their types: folding (const_eval.h:58) leaves a tree the generator can
\* walk, with as many scopes as were parsed.
THEOREM CompilerTypes == Spec => []TypeOK
<1>1. CompilerInv => TypeOK
  <2> SUFFICES ASSUME CompilerInv PROVE TypeOK
    OBVIOUS
  <2>1. GenTypeOK
    BY GenTypes DEF CompilerInv
  <2>2. Len(unit.scopes) = Len(parsed.scopes)
    BY ShapedLen DEF CompilerInv, FixInv, Scopes
  <2>3. FoldTypeOK
    BY <2>2 DEF CompilerInv, Turns, FixInv, FoldTypeOK
  <2> QED BY <2>1, <2>3 DEF TypeOK, CompilerInv, Turns
<1> QED BY <1>1, CompilerAlways, PTL

\* In the composition too, functions and globals are numbered densely
\* (bytecode_gen.h:65, 161 and 165), across all units and exceptions.
THEOREM CompiledNumbers == Spec => []Numbered
<1>1. CompilerInv => Numbered
  BY DEF CompilerInv, GenInv, Maps, Numbered
<1> QED BY <1>1, CompilerAlways, PTL

\* What is printed for the folded functions is closed (bytecode_gen.h:131-190).
THEOREM CompiledListings == Spec => []ListingsClosed
<1>1. CompilerInv => ListingsClosed
  BY ClosedListings DEF CompilerInv
<1> QED BY <1>1, CompilerAlways, PTL

\* What is printed for a body that folding made translatable is code for a stack
\* machine (bytecode_gen.h:43-190), whatever was compiled before.
THEOREM CompiledIsBalanced == Spec => []Balanced
<1>1. Init => BalanceInv
  BY BalanceInit DEF Init
<1>2. CompilerInv /\ BalanceInv /\ [Next]_vars => BalanceInv'
  BY CompilerBalance
<1>3. BalanceInv => Balanced
  BY DEF BalanceInv
<1> QED BY <1>1, <1>2, <1>3, CompilerAlways, PTL DEF Spec

\* Before the second loop of fixAssignments (const_eval.h:144), each name of a scope is
\* assigned once, with its last value, whatever was compiled before.
THEOREM CompiledAssignments == Spec => []LastAssignmentWins
<1>1. CompilerInv => LastAssignmentWins
  BY FixedAssignments DEF CompilerInv
<1> QED BY <1>1, CompilerAlways, PTL

=============================================================================
