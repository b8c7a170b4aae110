------------------------------- MODULE Frontend -------------------------------
(***************************************************************************)
(* Frontend::parse (src/src/parsing/frontend.cpp), which parses a file and *)
(* then every file it uses, and the scanner's stack of included files      *)
(* (src/src/parsing/scanner_helper.cpp, scanner.l, location.h).            *)
(*                                                                         *)
(* A file is a sequence of lexemes: a statement, a line break, include<f>, *)
(* use<f>, or an error.  Tokens within a statement, and which of the four  *)
(* vectors of the unit a statement goes to, are left out; file names stand *)
(* for the handles the host's resolver gives them.  The host's resolver    *)
(* and provider may throw whenever they are called.                        *)
(*                                                                         *)
(* A Location is the sequence of positions [src, line] from the file of    *)
(* the unit, through the places of the include statements, to the current  *)
(* position.                                                               *)
(***************************************************************************)
EXTENDS Integers, SequencesExt, FiniteSets

CONSTANTS
  Files,        \* FileHandle
  FileSystems,  \* the contents of the files explored
  MaxParses     \* bound: calls of parse by the host

Lexeme == [kind : {"statement", "newline", "error"}]
            \cup [kind : {"include", "use"}, file : Files]

ASSUME FileSystemsAssumption == FileSystems \subseteq [Files -> Seq(Lexeme)]
ASSUME MaxParsesAssumption == MaxParses \in Nat

VARIABLES
  contents,  \* what the provider's streams deliver
  units,     \* TranslationUnit of the handles in its domain
  status,    \* "idle", "running", or "ub"
  results,   \* how the host's calls of parse ended
  calls,     \* nested calls of parse: [file, pending], pending the uses to visit
  istreams,  \* the scanner's streams, [file, rest]; <<>> when there is no scanner
  loc,       \* the scanner's Location
  held       \* how many of the enclosing Locations syntax nodes keep alive

scanner == <<istreams, loc, held>>
vars == <<contents, units, status, results, calls, istreams, loc, held>>

Position == [src : Files, line : Nat \ {0}]
TranslationUnit == [uses : SUBSET Files, statements : Seq(Seq(Position))]

-----------------------------------------------------------------------------
\* Mutant of Start: lines are counted from 0.
StartAtZero(f) == [src |-> f, line |-> 0]

Start(f) == [src |-> f, line |-> 1]

\* Mutant of Known: a unit is entered in the table once it is parsed.
KnownWhenParsed(f) == f \in DOMAIN units /\ \A i \in 1..Len(calls) : calls[i].file # f

\* units.insert does not succeed.
Known(f) == f \in DOMAIN units

SetUnit(f, u) == [g \in DOMAIN units \cup {f} |-> IF g = f THEN u ELSE units[g]]

NoScanner == istreams' = <<>> /\ loc' = <<>> /\ held' = 0

\* An exception unwinds every call of parse; the table keeps what is in it.
Throw(us) == /\ units' = us /\ status' = "idle"
             /\ results' = Append(results, "throw")
             /\ calls' = <<>> /\ NoScanner
             /\ UNCHANGED contents

Undefined == /\ status' = "ub"
             /\ UNCHANGED <<contents, units, results, calls>> /\ UNCHANGED scanner

SetLast(s, x) == Append(Front(s), x)

-----------------------------------------------------------------------------
Init == /\ contents \in FileSystems
        /\ units = <<>> /\ status = "idle" /\ results = <<>>
        /\ calls = <<>> /\ istreams = <<>> /\ loc = <<>> /\ held = 0

\* parse(f), called from the calls in c, of a file that has no unit yet: the
\* unit enters the table, then the provider is asked for the file.
ParseNew(f, c) ==
  LET us == SetUnit(f, [uses |-> {}, statements |-> <<>>])
  IN \/ Throw(us)
     \/ /\ units' = us /\ status' = "running"
        /\ calls' = Append(c, [file |-> f, pending |-> {}])
        /\ istreams' = <<[file |-> f, rest |-> contents[f]]>>
        /\ loc' = <<Start(f)>> /\ held' = 0
        /\ UNCHANGED <<contents, results>>

\* The host calls parse(f).
Parse(f) ==
  /\ status = "idle" /\ Len(results) < MaxParses
  /\ \/ /\ Known(f)
        /\ results' = Append(results, "return")
        /\ UNCHANGED <<contents, units, status, calls>> /\ UNCHANGED scanner
     \/ ~Known(f) /\ ParseNew(f, calls)

-----------------------------------------------------------------------------
(* The scanner and the parser, over the file on top of istreams. *)

Scanning == status = "running" /\ istreams # <<>>
Rest == Last(istreams).rest
Upcoming(kind) == Scanning /\ Rest # <<>> /\ Head(Rest).kind = kind
Consumed == SetLast(istreams, [Last(istreams) EXCEPT !.rest = Tail(Rest)])
ThisFile == Last(calls).file
ThisUnit == units[ThisFile]

\* A statement is added to the unit; its nodes keep a copy of loc, and with it
\* every Location that encloses loc.
Statement ==
  /\ Upcoming("statement")
  /\ units' = SetUnit(ThisFile, [ThisUnit EXCEPT !.statements = Append(@, loc)])
  /\ istreams' = Consumed /\ held' = Len(loc) - 1
  /\ UNCHANGED <<contents, status, results, calls, loc>>

Newline ==
  /\ Upcoming("newline")
  /\ istreams' = Consumed
  /\ loc' = SetLast(loc, [Last(loc) EXCEPT !.line = @ + 1])
  /\ UNCHANGED <<contents, units, status, results, calls, held>>

\* A lexical or a syntax error, which Parser::error throws on.
Error == Upcoming("error") /\ Throw(units)

\* numGraphemes measures the name of the file to use or include with an iterator
\* that is null if the uninitialized status it was created with reads as a failure.
NumGraphemesFails == Undefined

\* addUse; the resolver may throw.
Use ==
  /\ Upcoming("use")
  /\ \/ NumGraphemesFails
     \/ Throw(units)
     \/ /\ units' = SetUnit(ThisFile, [ThisUnit EXCEPT !.uses = @ \cup {Head(Rest).file}])
        /\ istreams' = Consumed
        /\ UNCHANGED <<contents, status, results, calls, loc, held>>

\* Mutant of Cyclic: only the file that includes is compared.
CyclicHere(f) == Last(loc).src = f

\* The walk along begin.parent meets f.
Cyclic(f) == \E i \in 1..Len(loc) : loc[i].src = f

\* lexerInclude; the resolver and the provider may throw.
Include ==
  /\ Upcoming("include")
  /\ LET f == Head(Rest).file
     IN \/ NumGraphemesFails
        \/ Throw(units)
        \/ /\ ~Cyclic(f)
           /\ istreams' = Append(Consumed, [file |-> f, rest |-> contents[f]])
           /\ loc' = Append(loc, Start(f))
           /\ UNCHANGED <<contents, units, status, results, calls, held>>

\* Mutant of Outer: the includer's position starts anew.
OuterRestarts == SetLast(Front(loc), Start(Last(Front(loc)).src))

\* loc = *loc.begin.parent
Outer == Front(loc)

\* The assignment to loc.begin releases one of loc's two references to the
\* enclosing Location, that to loc.end.parent the other one.  When no syntax
\* node has a third, the Location is freed before end.src, line and column are
\* read from it: they may be intact, or anything may happen.
FileEnd ==
  /\ Scanning /\ Rest = <<>>
  /\ \/ /\ Len(istreams) = 1
        /\ calls' = SetLast(calls, [Last(calls) EXCEPT !.pending = ThisUnit.uses])
        /\ NoScanner
        /\ UNCHANGED <<contents, units, status, results>>
     \/ /\ Len(istreams) > 1
        /\ istreams' = Front(istreams) /\ loc' = Outer
        /\ held' = IF held < Len(loc) - 1 THEN held ELSE Len(loc) - 2
        /\ UNCHANGED <<contents, units, status, results, calls>>
     \/ Len(istreams) > 1 /\ held < Len(loc) - 1 /\ Undefined

-----------------------------------------------------------------------------
(* The loop over the unit's uses, once its file is parsed. *)

\* Mutant of Others: the use stays to be visited.
OthersAndThis(f) == Last(calls).pending

\* Mutant of Others: the loop ends behind the first use.
NoOthers(f) == {}

Others(f) == Last(calls).pending \ {f}

InLoop == status = "running" /\ istreams = <<>>

VisitUse ==
  /\ InLoop
  /\ \E f \in Last(calls).pending :
       LET c == SetLast(calls, [Last(calls) EXCEPT !.pending = Others(f)])
       IN \/ /\ Known(f)
             /\ calls' = c
             /\ UNCHANGED <<contents, units, status, results>> /\ UNCHANGED scanner
          \/ ~Known(f) /\ ParseNew(f, c)

Return ==
  /\ InLoop /\ Last(calls).pending = {}
  /\ calls' = Front(calls)
  /\ \/ /\ Len(calls) = 1
        /\ status' = "idle" /\ results' = Append(results, "return")
     \/ /\ Len(calls) > 1
        /\ UNCHANGED <<status, results>>
  /\ UNCHANGED <<contents, units>> /\ UNCHANGED scanner

Step == \/ Statement \/ Newline \/ Error \/ Use \/ Include \/ FileEnd
        \/ VisitUse \/ Return

Next == Step \/ \E f \in Files : Parse(f)

Spec == Init /\ [][Next]_vars

\* The thread inside parse goes on; streams deliver what they have.
FairSpec == Spec /\ WF_vars(Step)

=============================================================================
