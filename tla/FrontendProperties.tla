------------------------- MODULE FrontendProperties -------------------------
(***************************************************************************)
(* The properties of Frontend.                                             *)
(***************************************************************************)
EXTENDS Frontend

\* Every variable has its type; in particular no more Locations are held than
\* enclose the current one.
TypeOK ==
  /\ contents \in [Files -> Seq(Lexeme)]
  /\ DOMAIN units \subseteq Files /\ units \in [DOMAIN units -> TranslationUnit]
  /\ status \in {"idle", "running", "ub"}
  /\ results \in Seq({"return", "throw"})
  /\ calls \in Seq([file : Files, pending : SUBSET Files])
  /\ istreams \in Seq([file : Files, rest : Seq(Lexeme)])
  /\ loc \in Seq(Position)
  /\ held \in Nat /\ (istreams # <<>> => held < Len(loc))

\* The stack of streams and the chain of Locations, which lexerInclude and
\* lexerFileEnd maintain side by side, name the same files from the unit's file
\* down, and no file is on them twice: a cycle of includes is cut whatever its
\* length.
IncludeStack ==
  /\ Len(istreams) = Len(loc)
  /\ \A i \in 1..Len(loc) : istreams[i].file = loc[i].src
  /\ \A i, j \in 1..Len(loc) : loc[i].src = loc[j].src => i = j
  /\ loc # <<>> => calls # <<>> /\ loc[1].src = calls[Len(calls)].file

\* Files that use each other are each parsed once: no file is being parsed by two
\* of the nested calls, and each of these has its unit in the table, where the
\* next one finds it.
ParsedOnce ==
  /\ \A i, j \in 1..Len(calls) : calls[i].file = calls[j].file => i = j
  /\ \A i \in 1..Len(calls) : calls[i].file \in DOMAIN units
  /\ status = "running" => calls # <<>>

-----------------------------------------------------------------------------
\* What files add to a unit.
Nothing == [uses |-> {}, statements |-> <<>>]
Behind(a, b) == [uses |-> a.uses \cup b.uses, statements |-> a.statements \o b.statements]

\* The Location of lexeme number i of the file that begins at `at'.
Here(c, at, i) ==
  LET breaks == {j \in 1..(i - 1) : c[Last(at).src][j].kind = "newline"}
  IN SetLast(at, [Last(at) EXCEPT !.line = @ + Cardinality(breaks)])

\* What lexeme x at `at' adds, given what included files add.
Adds(at, x, included) ==
  CASE x.kind = "statement" -> [uses |-> {}, statements |-> <<at>>]
    [] x.kind = "use"       -> [uses |-> {x.file}, statements |-> <<>>]
    [] x.kind = "include"   -> included[Append(at, Start(x.file))]
    [] OTHER                -> Nothing

\* What the lexemes up to number i add, of the file that begins at `at'.
Upto(c, at, included) ==
  LET s == c[Last(at).src]
      upto[i \in 0..Len(s)] ==
        IF i = 0 THEN Nothing
        ELSE Behind(upto[i - 1], Adds(Here(c, at, i), s[i], included))
  IN upto

At == Seq(Position) \ {<<>>}

\* What the file that begins at `at' adds, with includes expanded in place d deep.
Expand(c) ==
  LET expand[d \in 0..Cardinality(Files)] ==
        [at \in At |->
           IF d = 0 THEN Nothing
           ELSE Upto(c, at, expand[d - 1])[Len(c[Last(at).src])]]
  IN expand

\* What a file adds.  Includes are as deep as there are files, or deeper in a file
\* that the scanner refuses.
Expansion(c, f) == Expand(c)[Cardinality(Files)][<<Start(f)>>]

ASSUME FilesAssumption == IsFiniteSet(Files)

BeingScanned == IF istreams = <<>> THEN {} ELSE {Last(calls).file}
AllReturned == \A i \in 1..Len(results) : results[i] = "return"

\* Unless an exception has left the table as it was, every unit in it that is not
\* being scanned has every statement and every use of its file and of what that
\* includes, the statements in order and each at its own location.
WholeUnits ==
  AllReturned => \A f \in DOMAIN units \ BeingScanned : units[f] = Expansion(contents, f)

\* When parse has returned, the units its files use are there too, and the units
\* that those use (Frontend::parse, the loop over the uses).
UsesClosed ==
  AllReturned /\ status = "idle" => \A f \in DOMAIN units : units[f].uses \subseteq DOMAIN units

\* parse ends, whatever the files use and include (or has run into undefined
\* behaviour).
ParseEnds == (status = "running") ~> (status # "running")

=============================================================================
