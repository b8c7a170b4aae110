--------------------------- MODULE FrontendProofs ---------------------------
(***************************************************************************)
(* What holds of Frontend for every set of files, whatever they use and    *)
(* include: the types, the agreement of the include stacks, that no file   *)
(* is parsed twice, that the units in the table are closed under use, and  *)
(* that each has what its file says, with includes put in place.           *)
(***************************************************************************)
EXTENDS FrontendProperties, SequenceTheorems, FiniteSetTheorems,
        WellFoundedInduction, TLAPS

FInv == TypeOK /\ IncludeStack /\ ParsedOnce

Call == [file : Files, pending : SUBSET Files]
Stream == [file : Files, rest : Seq(Lexeme)]
Table(us) == DOMAIN us \subseteq Files /\ us \in [DOMAIN us -> TranslationUnit]

-----------------------------------------------------------------------------
\* All but the last element of a sequence, and the last one replaced.

LEMMA FrontType ==
  ASSUME NEW S, NEW s \in Seq(S), s # <<>>
  PROVE  /\ Front(s) \in Seq(S) /\ Len(Front(s)) = Len(s) - 1
         /\ \A i \in 1..(Len(s) - 1) : Front(s)[i] = s[i]
         /\ Last(s) \in S /\ Len(s) \in Nat \ {0}
<1> DEFINE m == Len(s) - 1
<1>1. Len(s) \in Nat \ {0} /\ m \in Nat /\ m <= Len(s)
  BY EmptySeq
<1>2. Front(s) = SubSeq(s, 1, m)
  BY DEF Front
<1>3. Last(s) \in S
  BY <1>1 DEF Last
<1> HIDE DEF m
<1>4. /\ SubSeq(s, 1, m) \in Seq(S) /\ Len(SubSeq(s, 1, m)) = m
      /\ \A i \in 1..m : SubSeq(s, 1, m)[i] = s[i]
  BY <1>1
<1> QED BY <1>1, <1>2, <1>3, <1>4 DEF m

LEMMA SetLastType ==
  ASSUME NEW S, NEW s \in Seq(S), s # <<>>, NEW x \in S
  PROVE  /\ SetLast(s, x) \in Seq(S) /\ Len(SetLast(s, x)) = Len(s)
         /\ SetLast(s, x)[Len(s)] = x
         /\ \A i \in 1..Len(s) : i # Len(s) => SetLast(s, x)[i] = s[i]
<1>1. /\ Front(s) \in Seq(S) /\ Len(Front(s)) = Len(s) - 1
      /\ \A i \in 1..(Len(s) - 1) : Front(s)[i] = s[i]
      /\ Len(s) \in Nat \ {0}
  BY FrontType
<1>2. /\ SetLast(s, x) \in Seq(S) /\ Len(SetLast(s, x)) = Len(s)
      /\ SetLast(s, x)[Len(s)] = x
      /\ \A i \in 1..(Len(s) - 1) : SetLast(s, x)[i] = Front(s)[i]
  BY <1>1, AppendProperties DEF SetLast
<1> QED BY <1>1, <1>2

-----------------------------------------------------------------------------
\* Steps that several actions share.

LEMMA SetUnitType ==
  ASSUME FInv, NEW f \in Files, NEW u \in TranslationUnit
  PROVE  /\ Table(SetUnit(f, u))
         /\ DOMAIN SetUnit(f, u) = DOMAIN units \cup {f}
  BY DEF FInv, TypeOK, Table, SetUnit

\* An exception empties the stacks.
LEMMA ThrowKeeps ==
  ASSUME FInv, NEW us, Table(us), Throw(us)
  PROVE  FInv'
<1>1. results' \in Seq({"return", "throw"})
  BY AppendProperties DEF FInv, TypeOK, Throw
<1>2. TypeOK'
  BY <1>1, EmptySeq DEF FInv, TypeOK, Throw, NoScanner, Table
<1>3. IncludeStack'
  BY DEF IncludeStack, Throw, NoScanner
<1>4. ParsedOnce'
  BY DEF ParsedOnce, Throw, NoScanner
<1> QED BY <1>2, <1>3, <1>4 DEF FInv

LEMMA UndefinedKeeps == FInv /\ Undefined => FInv'
  BY DEF FInv, Undefined, TypeOK, IncludeStack, ParsedOnce, scanner

\* A call of parse on a new file, from calls c whose units are in the table.
LEMMA ParseNewKeeps ==
  ASSUME FInv, NEW f \in Files, ~Known(f), NEW c \in Seq(Call),
         \A i, j \in 1..Len(c) : c[i].file = c[j].file => i = j,
         \A i \in 1..Len(c) : c[i].file \in DOMAIN units,
         ParseNew(f, c)
  PROVE  FInv'
<1> DEFINE us == SetUnit(f, [uses |-> {}, statements |-> <<>>])
           e == [file |-> f, pending |-> {}]
<1>1. Table(us) /\ DOMAIN us = DOMAIN units \cup {f}
  <2>1. [uses |-> {}, statements |-> <<>>] \in TranslationUnit
    BY EmptySeq DEF TranslationUnit
  <2> QED BY <2>1, SetUnitType
<1>2. CASE Throw(us)
  BY <1>1, <1>2, ThrowKeeps
<1>3. CASE /\ units' = us /\ status' = "running"
           /\ calls' = Append(c, e)
           /\ istreams' = <<[file |-> f, rest |-> contents[f]]>>
           /\ loc' = <<Start(f)>> /\ held' = 0
           /\ UNCHANGED <<contents, results>>
  <2>1. e \in Call
    BY DEF Call
  <2>2. /\ calls' \in Seq(Call) /\ Len(calls') = Len(c) + 1
        /\ calls'[Len(c) + 1] = e /\ \A i \in 1..Len(c) : calls'[i] = c[i]
        /\ Len(c) \in Nat
    BY <1>3, <2>1, AppendProperties, LenProperties
  <2>3. Start(f) \in Position
    BY DEF Start, Position
  <2>4. [file |-> f, rest |-> contents[f]] \in Stream
    BY DEF FInv, TypeOK, Stream
  <2>5. TypeOK'
    BY <1>1, <1>3, <2>2, <2>3, <2>4 DEF FInv, TypeOK, Table, Call, Stream
  <2>6. IncludeStack'
    <3>1. calls'[Len(calls')].file = f /\ calls' # <<>>
      BY <2>2, EmptySeq
    <3> QED BY <1>3, <3>1 DEF IncludeStack, Start
  <2>7. ParsedOnce'
    <3>1. \A i \in 1..Len(c) : c[i].file # f
      BY DEF Known
    <3>2. \A i \in 1..Len(calls') : i \in 1..Len(c) \/ i = Len(c) + 1
      BY <2>2
    <3>3. \A i \in 1..Len(calls') : calls'[i].file \in DOMAIN units'
      BY <1>1, <1>3, <2>2, <3>2
    <3>4. \A i, j \in 1..Len(calls') : calls'[i].file = calls'[j].file => i = j
      BY <2>2, <3>1, <3>2
    <3>5. calls' # <<>>
      BY <2>2, EmptySeq
    <3> QED BY <3>3, <3>4, <3>5 DEF ParsedOnce
  <2> QED BY <2>5, <2>6, <2>7 DEF FInv
<1> QED BY <1>2, <1>3 DEF ParseNew

\* What the scanner works on.
LEMMA ScannerType ==
  ASSUME FInv, Scanning
  PROVE  /\ istreams \in Seq(Stream) /\ istreams # <<>> /\ Rest \in Seq(Lexeme)
         /\ loc \in Seq(Position) /\ loc # <<>> /\ Len(loc) = Len(istreams)
         /\ calls \in Seq(Call) /\ calls # <<>>
         /\ ThisFile \in Files /\ ThisFile \in DOMAIN units
         /\ ThisUnit \in TranslationUnit
<1>1. istreams \in Seq(Stream) /\ istreams # <<>> /\ Last(istreams) \in Stream
  BY FrontType DEF FInv, TypeOK, Scanning, Stream
<1>2. Rest \in Seq(Lexeme)
  BY <1>1 DEF Rest, Stream
<1>3. loc \in Seq(Position) /\ Len(loc) = Len(istreams)
  BY DEF FInv, TypeOK, IncludeStack
<1>4. loc # <<>>
  BY <1>1, <1>3, EmptySeq
<1>5. calls \in Seq(Call) /\ calls # <<>>
  BY DEF FInv, TypeOK, ParsedOnce, Scanning, Call
<1>6. Last(calls) \in Call /\ Len(calls) \in 1..Len(calls)
  BY <1>5, FrontType
<1>7. ThisFile \in Files /\ ThisFile \in DOMAIN units
  BY <1>6 DEF ThisFile, Last, Call, FInv, ParsedOnce
<1>8. ThisUnit \in TranslationUnit
  BY <1>7 DEF ThisUnit, FInv, TypeOK
<1> QED BY <1>1, <1>2, <1>3, <1>4, <1>5, <1>7, <1>8

\* Reading a lexeme leaves the stack of streams at its height and on its files.
LEMMA ConsumedType ==
  ASSUME FInv, NEW kind, Upcoming(kind)
  PROVE  /\ Consumed \in Seq(Stream) /\ Len(Consumed) = Len(istreams)
         /\ \A i \in 1..Len(istreams) : Consumed[i].file = istreams[i].file
         /\ Head(Rest) \in Lexeme /\ Head(Rest).kind = kind
<1>1. /\ istreams \in Seq(Stream) /\ istreams # <<>>
      /\ Rest \in Seq(Lexeme) /\ Rest # <<>> /\ Head(Rest).kind = kind
  BY ScannerType DEF Upcoming
<1>2. Head(Rest) \in Lexeme /\ Tail(Rest) \in Seq(Lexeme)
  BY <1>1
<1> DEFINE x == [Last(istreams) EXCEPT !.rest = Tail(Rest)]
<1>3. x \in Stream /\ x.file = Last(istreams).file
  <2>1. \A l \in Stream : \A r \in Seq(Lexeme) :
          [l EXCEPT !.rest = r] \in Stream /\ [l EXCEPT !.rest = r].file = l.file
    BY DEF Stream
  <2>2. Last(istreams) \in Stream
    BY <1>1, FrontType
  <2> QED BY <1>2, <2>1, <2>2
<1>4. Consumed = SetLast(istreams, x)
  BY DEF Consumed
<1> HIDE DEF x
<1>5. /\ SetLast(istreams, x) \in Seq(Stream)
      /\ Len(SetLast(istreams, x)) = Len(istreams)
      /\ SetLast(istreams, x)[Len(istreams)] = x
      /\ \A i \in 1..Len(istreams) :
           i # Len(istreams) => SetLast(istreams, x)[i] = istreams[i]
  BY <1>1, <1>3, SetLastType
<1>6. \A i \in 1..Len(istreams) : Consumed[i].file = istreams[i].file
  BY <1>3, <1>4, <1>5 DEF Last
<1> QED BY <1>1, <1>2, <1>4, <1>5, <1>6

\* The unit being parsed changes; nothing of the nested calls does.
LEMMA UnitChanges ==
  ASSUME FInv, Scanning, NEW u \in TranslationUnit, units' = SetUnit(ThisFile, u)
  PROVE  Table(units') /\ DOMAIN units' = DOMAIN units
<1>1. ThisFile \in Files /\ ThisFile \in DOMAIN units
  BY ScannerType
<1>2. Table(SetUnit(ThisFile, u)) /\ DOMAIN SetUnit(ThisFile, u) = DOMAIN units \cup {ThisFile}
  BY <1>1, SetUnitType
<1>3. DOMAIN units \cup {ThisFile} = DOMAIN units
  BY <1>1
<1> QED BY <1>2, <1>3

-----------------------------------------------------------------------------
\* The actions of the scanner.

LEMMA StatementKeeps ==
  ASSUME FInv, Statement
  PROVE  FInv'
<1>1. Upcoming("statement") /\ Scanning
  BY DEF Statement, Upcoming
<1>2. /\ loc \in Seq(Position) /\ Len(loc) \in Nat \ {0}
      /\ ThisUnit \in TranslationUnit
  BY <1>1, ScannerType, FrontType
<1>3. [ThisUnit EXCEPT !.statements = Append(@, loc)] \in TranslationUnit
  BY <1>2, AppendProperties DEF TranslationUnit
<1>4. Table(units') /\ DOMAIN units' = DOMAIN units
  BY <1>1, <1>3, UnitChanges DEF Statement
<1>5. TypeOK'
  <2>1. istreams' \in Seq(Stream) /\ held' \in Nat /\ held' < Len(loc')
    BY <1>1, <1>2, ConsumedType DEF Statement
  <2> QED BY <1>4, <2>1 DEF FInv, TypeOK, Statement, Table, Stream
<1>6. IncludeStack'
  BY <1>1, ConsumedType, ScannerType DEF FInv, IncludeStack, Statement
<1>7. ParsedOnce'
  BY <1>4 DEF FInv, ParsedOnce, Statement
<1> QED BY <1>5, <1>6, <1>7 DEF FInv

LEMMA NewlineKeeps ==
  ASSUME FInv, Newline
  PROVE  FInv'
<1> DEFINE p == [Last(loc) EXCEPT !.line = @ + 1]
<1>1. Upcoming("newline") /\ Scanning
  BY DEF Newline, Upcoming
<1>2. loc \in Seq(Position) /\ loc # <<>> /\ Last(loc) \in Position
  BY <1>1, ScannerType, FrontType
<1>3. p \in Position /\ p.src = Last(loc).src
  BY <1>2 DEF Position
<1>4. loc' = SetLast(loc, p)
  BY DEF Newline
<1> HIDE DEF p
<1>5. /\ loc' \in Seq(Position) /\ Len(loc') = Len(loc)
      /\ \A i \in 1..Len(loc) : loc'[i].src = loc[i].src
  <2>1. /\ SetLast(loc, p) \in Seq(Position) /\ Len(SetLast(loc, p)) = Len(loc)
        /\ SetLast(loc, p)[Len(loc)] = p
        /\ \A i \in 1..Len(loc) : i # Len(loc) => SetLast(loc, p)[i] = loc[i]
    BY <1>2, <1>3, SetLastType
  <2> QED BY <1>3, <1>4, <2>1 DEF Last
<1>6. TypeOK'
  BY <1>1, <1>5, ConsumedType DEF FInv, TypeOK, Newline, Stream
<1>7. IncludeStack'
  <2>1. 1 \in 1..Len(loc)
    BY <1>2, FrontType
  <2>2. /\ Len(Consumed) = Len(istreams) /\ calls # <<>>
        /\ \A i \in 1..Len(istreams) : Consumed[i].file = istreams[i].file
    BY <1>1, ConsumedType, ScannerType
  <2>3. istreams' = Consumed /\ calls' = calls
    BY DEF Newline
  <2> QED BY <1>2, <1>5, <2>1, <2>2, <2>3 DEF FInv, IncludeStack
<1>8. ParsedOnce'
  BY DEF FInv, ParsedOnce, Newline
<1> QED BY <1>6, <1>7, <1>8 DEF FInv

LEMMA UseKeeps ==
  ASSUME FInv, Use
  PROVE  FInv'
<1>1. Upcoming("use") /\ Scanning
  BY DEF Use, Upcoming
<1>2. CASE Throw(units)
  BY <1>2, ThrowKeeps DEF FInv, TypeOK, Table
<1>3. CASE /\ units' = SetUnit(ThisFile, [ThisUnit EXCEPT !.uses = @ \cup {Head(Rest).file}])
           /\ istreams' = Consumed
           /\ UNCHANGED <<contents, status, results, calls, loc, held>>
  <2>1. Head(Rest).file \in Files
    BY <1>1, ConsumedType DEF Lexeme
  <2>2. [ThisUnit EXCEPT !.uses = @ \cup {Head(Rest).file}] \in TranslationUnit
    BY <1>1, <2>1, ScannerType DEF TranslationUnit
  <2>3. Table(units') /\ DOMAIN units' = DOMAIN units
    BY <1>1, <1>3, <2>2, UnitChanges
  <2>4. TypeOK'
    BY <1>1, <1>3, <2>3, ConsumedType, ScannerType DEF FInv, TypeOK, Table, Stream
  <2>5. IncludeStack'
    BY <1>1, <1>3, ConsumedType, ScannerType DEF FInv, IncludeStack
  <2>6. ParsedOnce'
    BY <1>3, <2>3 DEF FInv, ParsedOnce
  <2> QED BY <2>4, <2>5, <2>6 DEF FInv
<1>4. CASE NumGraphemesFails
  BY <1>4, UndefinedKeeps DEF NumGraphemesFails
<1> QED BY <1>2, <1>3, <1>4 DEF Use

\* The new file is on top of both stacks, and not below it.
LEMMA IncludeKeeps ==
  ASSUME FInv, Include
  PROVE  FInv'
<1> DEFINE f == Head(Rest).file
           stream == [file |-> f, rest |-> contents[f]]
<1>1. Upcoming("include") /\ Scanning
  BY DEF Include, Upcoming
<1>2. CASE Throw(units)
  BY <1>2, ThrowKeeps DEF FInv, TypeOK, Table
<1>3. CASE /\ ~Cyclic(f)
           /\ istreams' = Append(Consumed, stream)
           /\ loc' = Append(loc, Start(f))
           /\ UNCHANGED <<contents, units, status, results, calls, held>>
  <2>1. f \in Files
    BY <1>1, ConsumedType DEF Lexeme
  <2>2. stream \in Stream /\ Start(f) \in Position
    BY <2>1 DEF Stream, Start, Position, FInv, TypeOK
  <2>3. /\ loc \in Seq(Position) /\ Len(loc) \in Nat \ {0}
        /\ Consumed \in Seq(Stream) /\ Len(Consumed) = Len(loc)
        /\ \A i \in 1..Len(loc) : Consumed[i].file = loc[i].src
    BY <1>1, ScannerType, ConsumedType, FrontType DEF FInv, IncludeStack
  <2>4. /\ loc' \in Seq(Position) /\ Len(loc') = Len(loc) + 1
        /\ loc'[Len(loc) + 1].src = f /\ \A i \in 1..Len(loc) : loc'[i] = loc[i]
    BY <1>3, <2>2, <2>3, AppendProperties DEF Start
  <2>5. /\ istreams' \in Seq(Stream) /\ Len(istreams') = Len(loc) + 1
        /\ istreams'[Len(loc) + 1].file = f
        /\ \A i \in 1..Len(loc) : istreams'[i].file = loc[i].src
    BY <1>3, <2>2, <2>3, AppendProperties
  <2>6. TypeOK'
    <3>1. held' < Len(loc')
      BY <1>1, <1>3, <2>3, <2>4 DEF FInv, TypeOK, Scanning
    <3> QED BY <1>3, <2>4, <2>5, <3>1 DEF FInv, TypeOK, Stream
  <2>7. IncludeStack'
    <3>1. \A i \in 1..Len(loc) : loc[i].src # f
      BY <1>3 DEF Cyclic
    <3>2. \A i \in 1..Len(loc') : i \in 1..Len(loc) \/ i = Len(loc) + 1
      BY <2>3, <2>4
    <3>3. \A i, j \in 1..Len(loc') : loc'[i].src = loc'[j].src => i = j
      BY <2>4, <3>1, <3>2 DEF FInv, IncludeStack
    <3>4. \A i \in 1..Len(loc') : istreams'[i].file = loc'[i].src
      BY <2>4, <2>5, <3>2
    <3>5. calls' # <<>> /\ loc'[1].src = calls'[Len(calls')].file
      BY <1>1, <1>3, <2>3, <2>4, ScannerType DEF FInv, IncludeStack
    <3> QED BY <2>4, <2>5, <3>3, <3>4, <3>5 DEF IncludeStack
  <2>8. ParsedOnce'
    BY <1>3 DEF FInv, ParsedOnce
  <2> QED BY <2>6, <2>7, <2>8 DEF FInv
<1>4. CASE NumGraphemesFails
  BY <1>4, UndefinedKeeps DEF NumGraphemesFails
<1> QED BY <1>2, <1>3, <1>4 DEF Include

\* The innermost call changes its pending uses: the files of the calls stay.
LEMMA PendingChanges ==
  ASSUME FInv, calls # <<>>, NEW P, P \in SUBSET Files
  PROVE  LET c == SetLast(calls, [Last(calls) EXCEPT !.pending = P])
         IN /\ c \in Seq(Call) /\ Len(c) = Len(calls) /\ c # <<>>
            /\ \A i \in 1..Len(calls) : c[i].file = calls[i].file
<1> DEFINE x == [Last(calls) EXCEPT !.pending = P]
<1>1. calls \in Seq(Call) /\ Last(calls) \in Call /\ Len(calls) \in Nat \ {0}
  BY FrontType DEF FInv, TypeOK, Call
<1>2. x \in Call /\ x.file = Last(calls).file
  BY <1>1 DEF Call
<1> HIDE DEF x
<1>3. /\ SetLast(calls, x) \in Seq(Call) /\ Len(SetLast(calls, x)) = Len(calls)
      /\ SetLast(calls, x)[Len(calls)] = x
      /\ \A i \in 1..Len(calls) : i # Len(calls) => SetLast(calls, x)[i] = calls[i]
  BY <1>1, <1>2, SetLastType
<1>4. \A i \in 1..Len(calls) : SetLast(calls, x)[i].file = calls[i].file
  BY <1>2, <1>3 DEF Last
<1>5. SetLast(calls, x) # <<>>
  BY <1>1, <1>3, EmptySeq
<1> QED BY <1>3, <1>4, <1>5 DEF x

LEMMA FileEndKeeps ==
  ASSUME FInv, FileEnd
  PROVE  FInv'
<1>1. Scanning
  BY DEF FileEnd
<1>2. CASE /\ Len(istreams) = 1
           /\ calls' = SetLast(calls, [Last(calls) EXCEPT !.pending = ThisUnit.uses])
           /\ NoScanner
           /\ UNCHANGED <<contents, units, status, results>>
  <2>1. ThisUnit.uses \in SUBSET Files
    BY <1>1, ScannerType DEF TranslationUnit
  <2>2. /\ calls' \in Seq(Call) /\ Len(calls') = Len(calls) /\ calls' # <<>>
        /\ \A i \in 1..Len(calls) : calls'[i].file = calls[i].file
    BY <1>1, <1>2, <2>1, PendingChanges, ScannerType
  <2>3. TypeOK'
    BY <1>2, <2>2, EmptySeq DEF FInv, TypeOK, NoScanner, Call
  <2>4. IncludeStack'
    BY <1>2 DEF IncludeStack, NoScanner
  <2>5. ParsedOnce'
    BY <1>2, <2>2 DEF FInv, ParsedOnce
  <2> QED BY <2>3, <2>4, <2>5 DEF FInv
<1>3. CASE /\ Len(istreams) > 1
           /\ istreams' = Front(istreams) /\ loc' = Outer
           /\ held' = IF held < Len(loc) - 1 THEN held ELSE Len(loc) - 2
           /\ UNCHANGED <<contents, units, status, results, calls>>
  <2>1. /\ istreams' \in Seq(Stream) /\ Len(istreams') = Len(istreams) - 1
        /\ \A i \in 1..(Len(istreams) - 1) : istreams'[i] = istreams[i]
        /\ Len(istreams) \in Nat
    BY <1>1, <1>3, ScannerType, FrontType
  <2>2. /\ loc' \in Seq(Position) /\ Len(loc') = Len(loc) - 1
        /\ \A i \in 1..(Len(loc) - 1) : loc'[i] = loc[i]
    BY <1>1, <1>3, ScannerType, FrontType DEF Outer
  <2>3. Len(loc) = Len(istreams)
    BY <1>1, ScannerType
  <2>4. held' \in Nat /\ held' < Len(loc')
    BY <1>1, <1>3, <2>1, <2>2, <2>3 DEF FInv, TypeOK, Scanning
  <2>5. TypeOK'
    BY <1>3, <2>1, <2>2, <2>4 DEF FInv, TypeOK, Stream
  <2>6. IncludeStack'
    <3>1. calls # <<>> /\ loc # <<>> /\ calls' = calls
      BY <1>1, <1>3, ScannerType
    <3>2. loc'[1] = loc[1] /\ loc[1].src = calls[Len(calls)].file
      BY <1>3, <2>1, <2>2, <2>3, <3>1 DEF FInv, IncludeStack
    <3>3. /\ Len(istreams') = Len(loc')
          /\ \A i \in 1..Len(loc') : istreams'[i].file = loc'[i].src
      BY <2>1, <2>2, <2>3 DEF FInv, IncludeStack
    <3>4. \A i, j \in 1..Len(loc') : loc'[i].src = loc'[j].src => i = j
      BY <2>1, <2>2, <2>3 DEF FInv, IncludeStack
    <3> QED BY <3>1, <3>2, <3>3, <3>4 DEF IncludeStack
  <2>7. ParsedOnce'
    BY <1>3 DEF FInv, ParsedOnce
  <2> QED BY <2>5, <2>6, <2>7 DEF FInv
<1>4. CASE Undefined
  BY <1>4, UndefinedKeeps
<1> QED BY <1>2, <1>3, <1>4 DEF FileEnd

-----------------------------------------------------------------------------
\* The loop over the uses, and the host.

LEMMA LoopType ==
  ASSUME FInv, InLoop
  PROVE  /\ calls \in Seq(Call) /\ calls # <<>> /\ Last(calls) \in Call
         /\ Len(calls) \in Nat \ {0} /\ istreams = <<>> /\ loc = <<>>
<1>1. calls \in Seq(Call) /\ calls # <<>> /\ istreams = <<>>
  BY DEF FInv, TypeOK, ParsedOnce, InLoop, Call
<1>2. loc \in Seq(Position) /\ Len(loc) = 0
  BY <1>1, EmptySeq DEF FInv, TypeOK, IncludeStack
<1> QED BY <1>1, <1>2, FrontType, EmptySeq

LEMMA VisitUseKeeps ==
  ASSUME FInv, VisitUse
  PROVE  FInv'
<1>1. InLoop
  BY DEF VisitUse
<1>2. PICK f \in Last(calls).pending :
        LET c == SetLast(calls, [Last(calls) EXCEPT !.pending = Others(f)])
        IN \/ /\ Known(f) /\ calls' = c
              /\ UNCHANGED <<contents, units, status, results>> /\ UNCHANGED scanner
           \/ ~Known(f) /\ ParseNew(f, c)
  BY DEF VisitUse
<1> DEFINE c == SetLast(calls, [Last(calls) EXCEPT !.pending = Others(f)])
<1>3. f \in Files /\ Others(f) \in SUBSET Files
  BY <1>1, LoopType DEF Others, Call
<1>4. /\ c \in Seq(Call) /\ Len(c) = Len(calls) /\ c # <<>>
      /\ \A i \in 1..Len(calls) : c[i].file = calls[i].file
  BY <1>1, <1>3, LoopType, PendingChanges
<1>5. /\ \A i, j \in 1..Len(c) : c[i].file = c[j].file => i = j
      /\ \A i \in 1..Len(c) : c[i].file \in DOMAIN units
  BY <1>4 DEF FInv, ParsedOnce
<1> HIDE DEF c
<1>6. CASE /\ calls' = c
           /\ UNCHANGED <<contents, units, status, results>> /\ UNCHANGED scanner
  <2>1. TypeOK'
    BY <1>4, <1>6 DEF FInv, TypeOK, Call, scanner
  <2>2. IncludeStack'
    BY <1>1, <1>6, LoopType DEF FInv, IncludeStack, scanner
  <2>3. ParsedOnce'
    BY <1>4, <1>5, <1>6 DEF ParsedOnce
  <2> QED BY <2>1, <2>2, <2>3 DEF FInv
<1>7. CASE ~Known(f) /\ ParseNew(f, c)
  BY <1>3, <1>4, <1>5, <1>7, ParseNewKeeps
<1> QED BY <1>2, <1>6, <1>7 DEF c

LEMMA ReturnKeeps ==
  ASSUME FInv, Return
  PROVE  FInv'
<1>1. InLoop /\ calls' = Front(calls) /\ UNCHANGED <<contents, units>> /\ UNCHANGED scanner
  BY DEF Return
<1>2. /\ calls' \in Seq(Call) /\ Len(calls') = Len(calls) - 1
      /\ \A i \in 1..(Len(calls) - 1) : calls'[i] = calls[i]
      /\ Len(calls) \in Nat \ {0}
  BY <1>1, LoopType, FrontType
<1>3. results' \in Seq({"return", "throw"}) /\ status' \in {"idle", "running", "ub"}
  BY AppendProperties DEF FInv, TypeOK, Return
<1>4. TypeOK'
  BY <1>1, <1>2, <1>3 DEF FInv, TypeOK, Call, scanner
<1>5. IncludeStack'
  BY <1>1, LoopType DEF FInv, IncludeStack, scanner
<1>6. status' = "running" => calls' # <<>>
  BY <1>2, EmptySeq DEF Return
<1>7. ParsedOnce'
  BY <1>1, <1>2, <1>6 DEF FInv, ParsedOnce
<1> QED BY <1>4, <1>5, <1>7 DEF FInv

LEMMA ParseKeeps ==
  ASSUME FInv, NEW f \in Files, Parse(f)
  PROVE  FInv'
<1>1. CASE /\ results' = Append(results, "return")
           /\ UNCHANGED <<contents, units, status, calls>> /\ UNCHANGED scanner
  <2>1. results' \in Seq({"return", "throw"})
    BY <1>1, AppendProperties DEF FInv, TypeOK
  <2> QED BY <1>1, <2>1 DEF FInv, TypeOK, IncludeStack, ParsedOnce, scanner
<1>2. CASE ~Known(f) /\ ParseNew(f, calls)
  BY <1>2, ParseNewKeeps DEF FInv, TypeOK, ParsedOnce, Call
<1> QED BY <1>1, <1>2 DEF Parse

-----------------------------------------------------------------------------
LEMMA InitEstablishes == Init => FInv
<1> SUFFICES ASSUME Init PROVE FInv
  OBVIOUS
<1>1. TypeOK
  BY FileSystemsAssumption, EmptySeq DEF Init, TypeOK
<1>2. IncludeStack /\ ParsedOnce
  BY EmptySeq DEF Init, IncludeStack, ParsedOnce
<1> QED BY <1>1, <1>2 DEF FInv

LEMMA NextKeeps == FInv /\ [Next]_vars => FInv'
<1> SUFFICES ASSUME FInv, [Next]_vars PROVE FInv'
  OBVIOUS
<1>1. CASE Statement
  BY <1>1, StatementKeeps
<1>2. CASE Newline
  BY <1>2, NewlineKeeps
<1>3. CASE Error
  BY <1>3, ThrowKeeps DEF Error, FInv, TypeOK, Table
<1>4. CASE Use
  BY <1>4, UseKeeps
<1>5. CASE Include
  BY <1>5, IncludeKeeps
<1>6. CASE FileEnd
  BY <1>6, FileEndKeeps
<1>7. CASE VisitUse
  BY <1>7, VisitUseKeeps
<1>8. CASE Return
  BY <1>8, ReturnKeeps
<1>9. CASE \E f \in Files : Parse(f)
  BY <1>9, ParseKeeps
<1>10. CASE UNCHANGED vars
  BY <1>10 DEF FInv, TypeOK, IncludeStack, ParsedOnce, vars
<1> QED BY <1>1, <1>2, <1>3, <1>4, <1>5, <1>6, <1>7, <1>8, <1>9, <1>10 DEF Next, Step

LEMMA Always == Spec => []FInv
  BY InitEstablishes, NextKeeps, PTL DEF Spec

\* Whatever the files hold and whenever the host's functions throw, the variables
\* keep their types.
THEOREM FrontendTypes == Spec => []TypeOK
<1>1. FInv => TypeOK
  BY DEF FInv
<1> QED BY <1>1, Always, PTL

\* The scanner's streams and its Locations name the same files, and no file
\* includes itself through any number of others (lexerInclude, lexerFileEnd).
THEOREM NoCyclicInclude == Spec => []IncludeStack
<1>1. FInv => IncludeStack
  BY DEF FInv
<1> QED BY <1>1, Always, PTL

\* No file is parsed by two nested calls of parse, however the files use each
\* other (Frontend::parse).
THEOREM EachFileParsedOnce == Spec => []ParsedOnce
<1>1. FInv => ParsedOnce
  BY DEF FInv
<1> QED BY <1>1, Always, PTL

-----------------------------------------------------------------------------
(* The loop over the uses.                                                  *)

\* The uses of units that no call is at are in the table; those of a unit whose
\* file is parsed are there or still pending in its call.
Closing ==
  /\ \A f \in DOMAIN units :
       (\A i \in 1..Len(calls) : calls[i].file # f) => units[f].uses \subseteq DOMAIN units
  /\ \A i \in 1..Len(calls) :
       i < Len(calls) \/ istreams = <<>>
         => units[calls[i].file].uses \subseteq DOMAIN units \cup calls[i].pending

UInv == /\ FInv
        /\ status = "idle" => calls = <<>>
        /\ AllReturned /\ status # "ub" => Closing

\* A further result leaves the earlier ones.
LEMMA ResultsGrow ==
  ASSUME NEW r \in {"return", "throw"}, results \in Seq({"return", "throw"}),
         results' = Append(results, r), AllReturned'
  PROVE  AllReturned /\ r = "return"
<1>1. /\ Len(results') = Len(results) + 1 /\ Len(results) \in Nat
      /\ results'[Len(results) + 1] = r
      /\ \A i \in 1..Len(results) : results'[i] = results[i]
  BY AppendProperties, LenProperties
<1> QED BY <1>1 DEF AllReturned

LEMMA ThrowClosing ==
  ASSUME UInv, NEW us, Throw(us)
  PROVE  (status = "idle" => calls = <<>>)' /\ (AllReturned /\ status # "ub" => Closing)'
<1>1. ~AllReturned'
  BY ResultsGrow DEF Throw, UInv, FInv, TypeOK
<1> QED BY <1>1 DEF Throw

LEMMA UndefinedClosing ==
  ASSUME UInv, Undefined
  PROVE  (status = "idle" => calls = <<>>)' /\ (AllReturned /\ status # "ub" => Closing)'
  BY DEF Undefined

\* The unit being scanned changes: it is the last call's, and promises nothing yet.
LEMMA ScanningClosing ==
  ASSUME UInv, Scanning, NEW u \in TranslationUnit,
         units' = SetUnit(ThisFile, u), istreams' # <<>>,
         UNCHANGED <<status, results, calls>>
  PROVE  (status = "idle" => calls = <<>>)' /\ (AllReturned /\ status # "ub" => Closing)'
<1>1. FInv /\ status = "running"
  BY DEF UInv, Scanning
<1>2. DOMAIN units' = DOMAIN units
  BY <1>1, UnitChanges
<1>3. calls \in Seq(Call) /\ calls # <<>> /\ Len(calls) \in Nat \ {0}
      /\ ThisFile = calls[Len(calls)].file
  BY <1>1, ScannerType, FrontType DEF ThisFile, Last
<1>4. \A f \in DOMAIN units : f # ThisFile => units'[f] = units[f]
  BY DEF SetUnit
<1>5. \A i \in 1..Len(calls) : i < Len(calls) => calls[i].file # ThisFile
  BY <1>1, <1>3 DEF FInv, ParsedOnce
<1>6. \A i \in 1..Len(calls) : calls[i].file \in DOMAIN units
  BY <1>1 DEF FInv, ParsedOnce
<1>7. ASSUME Closing PROVE Closing'
  BY <1>2, <1>3, <1>4, <1>5, <1>6, <1>7 DEF Closing
<1> QED BY <1>1, <1>7 DEF UInv, AllReturned

\* Nothing but the scanner's own state changes.
LEMMA ScannerClosing ==
  ASSUME UInv, Scanning, istreams' # <<>>, UNCHANGED <<units, status, results, calls>>
  PROVE  (status = "idle" => calls = <<>>)' /\ (AllReturned /\ status # "ub" => Closing)'
  BY DEF UInv, Scanning, Closing, AllReturned

LEMMA ConsumedNotEmpty ==
  ASSUME UInv, NEW kind, Upcoming(kind)
  PROVE  Scanning /\ Consumed # <<>>
  BY ConsumedType, ScannerType, FrontType, EmptySeq DEF UInv, Upcoming

LEMMA UseClosing ==
  ASSUME UInv, Use
  PROVE  (status = "idle" => calls = <<>>)' /\ (AllReturned /\ status # "ub" => Closing)'
<1>1. Upcoming("use") /\ Scanning /\ FInv
  BY DEF Use, Upcoming, UInv
<1>2. CASE Throw(units)
  BY <1>2, ThrowClosing
<1>3. CASE NumGraphemesFails
  BY <1>3, UndefinedClosing DEF NumGraphemesFails
<1>4. CASE /\ units' = SetUnit(ThisFile, [ThisUnit EXCEPT !.uses = @ \cup {Head(Rest).file}])
           /\ istreams' = Consumed
           /\ UNCHANGED <<contents, status, results, calls, loc, held>>
  <2>1. Head(Rest).file \in Files
    BY <1>1, ConsumedType DEF Lexeme
  <2>2. [ThisUnit EXCEPT !.uses = @ \cup {Head(Rest).file}] \in TranslationUnit
    BY <1>1, <2>1, ScannerType DEF TranslationUnit
  <2> QED BY <1>1, <1>4, <2>2, ConsumedNotEmpty, ScanningClosing
<1> QED BY <1>2, <1>3, <1>4 DEF Use

LEMMA StatementClosing ==
  ASSUME UInv, Statement
  PROVE  (status = "idle" => calls = <<>>)' /\ (AllReturned /\ status # "ub" => Closing)'
<1>1. Upcoming("statement") /\ Scanning /\ FInv
  BY DEF Statement, Upcoming, UInv
<1>2. [ThisUnit EXCEPT !.statements = Append(@, loc)] \in TranslationUnit
  BY <1>1, ScannerType, AppendProperties DEF TranslationUnit
<1> QED BY <1>1, <1>2, ConsumedNotEmpty, ScanningClosing DEF Statement

LEMMA IncludeClosing ==
  ASSUME UInv, Include
  PROVE  (status = "idle" => calls = <<>>)' /\ (AllReturned /\ status # "ub" => Closing)'
<1> DEFINE f == Head(Rest).file
           stream == [file |-> f, rest |-> contents[f]]
<1>1. Upcoming("include") /\ Scanning /\ FInv
  BY DEF Include, Upcoming, UInv
<1>2. CASE Throw(units)
  BY <1>2, ThrowClosing
<1>3. CASE NumGraphemesFails
  BY <1>3, UndefinedClosing DEF NumGraphemesFails
<1>4. CASE /\ ~Cyclic(f)
           /\ istreams' = Append(Consumed, stream)
           /\ loc' = Append(loc, Start(f))
           /\ UNCHANGED <<contents, units, status, results, calls, held>>
  <2>1. f \in Files
    BY <1>1, ConsumedType DEF Lexeme
  <2>2. stream \in Stream
    BY <1>1, <2>1 DEF Stream, FInv, TypeOK
  <2>3. istreams' # <<>>
    BY <1>1, <1>4, <2>2, ConsumedType, AppendProperties
  <2> QED BY <1>1, <1>4, <2>3, ScannerClosing
<1> QED BY <1>2, <1>3, <1>4 DEF Include

\* Behind its file, a unit's uses are all pending.
LEMMA FileEndClosing ==
  ASSUME UInv, FileEnd
  PROVE  (status = "idle" => calls = <<>>)' /\ (AllReturned /\ status # "ub" => Closing)'
<1>1. Scanning /\ FInv
  BY DEF FileEnd, UInv
<1>2. CASE /\ Len(istreams) = 1
           /\ calls' = SetLast(calls, [Last(calls) EXCEPT !.pending = ThisUnit.uses])
           /\ NoScanner
           /\ UNCHANGED <<contents, units, status, results>>
  <2> DEFINE x == [Last(calls) EXCEPT !.pending = ThisUnit.uses]
  <2>1. calls \in Seq(Call) /\ calls # <<>> /\ Len(calls) \in Nat \ {0} /\ Last(calls) \in Call
        /\ ThisUnit \in TranslationUnit
    BY <1>1, ScannerType, FrontType
  <2>2. x \in Call /\ x.pending = ThisUnit.uses /\ x.file = ThisFile
    BY <2>1 DEF Call, TranslationUnit, ThisFile
  <2>3. calls' = SetLast(calls, x)
    BY <1>2
  <2> HIDE DEF x
  <2>a. /\ Len(SetLast(calls, x)) = Len(calls) /\ SetLast(calls, x)[Len(calls)] = x
        /\ \A i \in 1..Len(calls) : i # Len(calls) => SetLast(calls, x)[i] = calls[i]
    BY <2>1, <2>2, SetLastType
  <2>4. /\ Len(calls') = Len(calls) /\ calls'[Len(calls)] = x
        /\ \A i \in 1..Len(calls) : i # Len(calls) => calls'[i] = calls[i]
    BY <2>a, <2>3
  <2>5. \A i \in 1..Len(calls) : calls'[i].file = calls[i].file
    BY <2>2, <2>4 DEF ThisFile, Last
  <2>6. ASSUME Closing PROVE Closing'
    <3>1. units'[calls'[Len(calls)].file].uses \subseteq calls'[Len(calls)].pending
      BY <1>2, <2>2, <2>4 DEF ThisUnit
    <3>2. \A i \in 1..Len(calls) : i # Len(calls) =>
            units'[calls'[i].file].uses \subseteq DOMAIN units' \cup calls'[i].pending
      BY <1>2, <2>1, <2>4, <2>6 DEF Closing
    <3>3. \A f \in DOMAIN units' :
            (\A i \in 1..Len(calls') : calls'[i].file # f) => units'[f].uses \subseteq DOMAIN units'
      BY <1>2, <2>4, <2>5, <2>6 DEF Closing
    <3> QED BY <2>4, <3>1, <3>2, <3>3 DEF Closing
  <2> QED BY <1>1, <1>2, <2>6 DEF UInv, AllReturned, Scanning
<1>3. CASE /\ Len(istreams) > 1
           /\ istreams' = Front(istreams) /\ loc' = Outer
           /\ held' = IF held < Len(loc) - 1 THEN held ELSE Len(loc) - 2
           /\ UNCHANGED <<contents, units, status, results, calls>>
  <2>1. istreams' # <<>>
    <3>1. istreams \in Seq(Stream) /\ istreams # <<>>
      BY <1>1, ScannerType
    <3>2. Len(Front(istreams)) = Len(istreams) - 1 /\ Len(istreams) \in Nat
      BY <3>1, FrontType
    <3> QED BY <1>3, <3>2, EmptySeq
  <2> QED BY <1>1, <1>3, <2>1, ScannerClosing
<1>4. CASE Undefined
  BY <1>4, UndefinedClosing
<1> QED BY <1>2, <1>3, <1>4 DEF FileEnd

\* The file that is parsed next is one that the calls in c may be waiting for.
LEMMA ParseNewClosing ==
  ASSUME UInv, status # "ub", NEW f \in Files, ~Known(f), NEW c \in Seq(Call),
         \A i \in 1..Len(c) : c[i].file \in DOMAIN units,
         AllReturned =>
           /\ \A g \in DOMAIN units :
                (\A i \in 1..Len(c) : c[i].file # g) => units[g].uses \subseteq DOMAIN units
           /\ \A i \in 1..Len(c) :
                units[c[i].file].uses \subseteq DOMAIN units \cup {f} \cup c[i].pending,
         ParseNew(f, c)
  PROVE  (status = "idle" => calls = <<>>)' /\ (AllReturned /\ status # "ub" => Closing)'
<1> DEFINE us == SetUnit(f, [uses |-> {}, statements |-> <<>>])
           e == [file |-> f, pending |-> {}]
<1>1. CASE Throw(us)
  BY <1>1, ThrowClosing
<1>2. CASE /\ units' = us /\ status' = "running"
           /\ calls' = Append(c, e)
           /\ istreams' = <<[file |-> f, rest |-> contents[f]]>>
           /\ loc' = <<Start(f)>> /\ held' = 0
           /\ UNCHANGED <<contents, results>>
  <2>1. /\ Len(calls') = Len(c) + 1 /\ Len(c) \in Nat
        /\ calls'[Len(c) + 1] = e /\ \A i \in 1..Len(c) : calls'[i] = c[i]
    BY <1>2, AppendProperties, LenProperties DEF Call
  <2>2. /\ DOMAIN units' = DOMAIN units \cup {f} /\ f \notin DOMAIN units
        /\ \A g \in DOMAIN units : units'[g] = units[g]
    BY <1>2 DEF SetUnit, Known
  <2>3. ASSUME AllReturned PROVE Closing'
    <3>1. \A i \in 1..Len(c) :
            units'[calls'[i].file].uses \subseteq DOMAIN units' \cup calls'[i].pending
      BY <2>1, <2>2, <2>3
    <3>2. istreams' # <<>>
      BY <1>2
    <3>3. \A g \in DOMAIN units' :
            (\A i \in 1..Len(calls') : calls'[i].file # g) => units'[g].uses \subseteq DOMAIN units'
      <4> SUFFICES ASSUME NEW g \in DOMAIN units', \A i \in 1..Len(calls') : calls'[i].file # g
                   PROVE  units'[g].uses \subseteq DOMAIN units'
        OBVIOUS
      <4>1. g # f /\ \A i \in 1..Len(c) : c[i].file # g
        BY <2>1
      <4> QED BY <2>2, <2>3, <4>1
    <3> QED BY <2>1, <3>1, <3>2, <3>3 DEF Closing
  <2> QED BY <1>2, <2>3 DEF AllReturned
<1> QED BY <1>1, <1>2 DEF ParseNew

LEMMA VisitUseClosing ==
  ASSUME UInv, VisitUse
  PROVE  (status = "idle" => calls = <<>>)' /\ (AllReturned /\ status # "ub" => Closing)'
<1>1. InLoop /\ FInv /\ status = "running"
  BY DEF VisitUse, UInv, InLoop
<1>2. PICK f \in Last(calls).pending :
        LET c == SetLast(calls, [Last(calls) EXCEPT !.pending = Others(f)])
        IN \/ /\ Known(f) /\ calls' = c
              /\ UNCHANGED <<contents, units, status, results>> /\ UNCHANGED scanner
           \/ ~Known(f) /\ ParseNew(f, c)
  BY DEF VisitUse
<1> DEFINE x == [Last(calls) EXCEPT !.pending = Others(f)]
           c == SetLast(calls, x)
<1>3. /\ calls \in Seq(Call) /\ calls # <<>> /\ Last(calls) \in Call
      /\ Len(calls) \in Nat \ {0} /\ istreams = <<>>
  BY <1>1, LoopType
<1>4. f \in Files /\ Others(f) \in SUBSET Files
  BY <1>3 DEF Others, Call
<1>5. x \in Call /\ x.file = Last(calls).file /\ x.pending = Last(calls).pending \ {f}
  BY <1>3, <1>4 DEF Call, Others
<1> HIDE DEF x
<1>6. /\ c \in Seq(Call) /\ Len(c) = Len(calls) /\ c[Len(calls)] = x
      /\ \A i \in 1..Len(calls) : i # Len(calls) => c[i] = calls[i]
  <2> HIDE DEF c
  <2>1. /\ SetLast(calls, x) \in Seq(Call) /\ Len(SetLast(calls, x)) = Len(calls)
        /\ SetLast(calls, x)[Len(calls)] = x
        /\ \A i \in 1..Len(calls) : i # Len(calls) => SetLast(calls, x)[i] = calls[i]
    <3>1. calls \in Seq(Call) /\ calls # <<>> /\ x \in Call
      BY <1>3, <1>5
    <3>2. \A T, s, y : (s \in Seq(T) /\ s # <<>> /\ y \in T) =>
            /\ SetLast(s, y) \in Seq(T) /\ Len(SetLast(s, y)) = Len(s)
            /\ SetLast(s, y)[Len(s)] = y
            /\ \A i \in 1..Len(s) : i # Len(s) => SetLast(s, y)[i] = s[i]
      BY SetLastType
    <3> QED BY ONLY <3>1, <3>2
  <2>2. c = SetLast(calls, x)
    BY DEF c
  <2> QED BY <2>1, <2>2
<1>7. /\ \A i \in 1..Len(calls) : c[i].file = calls[i].file
      /\ \A i \in 1..Len(calls) : calls[i].pending \subseteq c[i].pending \cup {f}
  BY <1>5, <1>6 DEF Last
<1>8. \A i \in 1..Len(c) : c[i].file \in DOMAIN units
  BY <1>1, <1>6, <1>7 DEF FInv, ParsedOnce
<1>9. AllReturned =>
           /\ \A g \in DOMAIN units :
                (\A i \in 1..Len(c) : c[i].file # g) => units[g].uses \subseteq DOMAIN units
           /\ \A i \in 1..Len(c) :
                units[c[i].file].uses \subseteq DOMAIN units \cup {f} \cup c[i].pending
  <2> SUFFICES ASSUME AllReturned
               PROVE  /\ \A g \in DOMAIN units : (\A i \in 1..Len(c) : c[i].file # g)
                           => units[g].uses \subseteq DOMAIN units
                      /\ \A i \in 1..Len(c) :
                           units[c[i].file].uses \subseteq DOMAIN units \cup {f} \cup c[i].pending
    OBVIOUS
  <2>1. Closing
    BY <1>1 DEF UInv
  <2>2. \A i \in 1..Len(c) : units[calls[i].file].uses \subseteq DOMAIN units \cup calls[i].pending
    BY <1>3, <1>6, <2>1 DEF Closing
  <2>3. \A g \in DOMAIN units : (\A i \in 1..Len(c) : c[i].file # g)
                           => units[g].uses \subseteq DOMAIN units
    BY <1>6, <1>7, <2>1 DEF Closing
  <2>4. ASSUME NEW i \in 1..Len(c)
        PROVE units[c[i].file].uses \subseteq DOMAIN units \cup {f} \cup c[i].pending
    <3>1. c[i].file = calls[i].file /\ calls[i].pending \subseteq c[i].pending \cup {f}
      BY <1>6, <1>7
    <3> QED BY <2>2, <3>1
  <2> QED BY <2>3, <2>4
<1> HIDE DEF c
<1>10. CASE /\ Known(f) /\ calls' = c
            /\ UNCHANGED <<contents, units, status, results>> /\ UNCHANGED scanner
  <2>1. \A i \in 1..Len(c) : AllReturned =>
          units[c[i].file].uses \subseteq DOMAIN units \cup c[i].pending
    BY <1>9, <1>10 DEF Known
  <2> QED BY <1>1, <1>9, <1>10, <2>1 DEF Closing, AllReturned
<1>11. CASE ~Known(f) /\ ParseNew(f, c)
  BY <1>1, <1>4, <1>6, <1>8, <1>9, <1>11, ParseNewClosing
<1> QED BY <1>2, <1>10, <1>11 DEF c, x

LEMMA ReturnClosing ==
  ASSUME UInv, Return
  PROVE  (status = "idle" => calls = <<>>)' /\ (AllReturned /\ status # "ub" => Closing)'
<1>1. /\ InLoop /\ FInv /\ Last(calls).pending = {} /\ status = "running"
      /\ calls' = Front(calls) /\ UNCHANGED <<contents, units>> /\ UNCHANGED scanner
  BY DEF Return, UInv, InLoop
<1>2. /\ calls' \in Seq(Call) /\ Len(calls') = Len(calls) - 1
      /\ \A i \in 1..(Len(calls) - 1) : calls'[i] = calls[i]
      /\ Len(calls) \in Nat \ {0} /\ istreams = <<>>
  BY <1>1, LoopType, FrontType
<1>3. status' = "idle" => calls' = <<>>
  BY <1>1, <1>2, EmptySeq DEF Return
<1>4. AllReturned' => AllReturned
  BY ResultsGrow DEF Return, FInv, TypeOK, UInv, AllReturned
<1>5. ASSUME Closing PROVE Closing'
  <2>1. units[calls[Len(calls)].file].uses \subseteq DOMAIN units
    BY <1>1, <1>2, <1>5 DEF Closing, Last
  <2>2. ASSUME NEW g \in DOMAIN units, \A i \in 1..Len(calls') : calls'[i].file # g
        PROVE  units[g].uses \subseteq DOMAIN units
    <3>1. CASE g = calls[Len(calls)].file
      BY <2>1, <3>1
    <3>2. CASE g # calls[Len(calls)].file
      <4>1. \A i \in 1..Len(calls) : calls[i].file # g
        BY <1>2, <2>2, <3>2
      <4> QED BY <1>5, <4>1 DEF Closing
    <3> QED BY <3>1, <3>2
  <2>3. ASSUME NEW i \in 1..Len(calls')
        PROVE  units[calls'[i].file].uses \subseteq DOMAIN units \cup calls'[i].pending
    BY <1>2, <1>5 DEF Closing
  <2> QED BY <1>1, <2>2, <2>3 DEF Closing
<1> QED BY <1>1, <1>3, <1>4, <1>5 DEF UInv

LEMMA ParseClosing ==
  ASSUME UInv, NEW f \in Files, Parse(f)
  PROVE  (status = "idle" => calls = <<>>)' /\ (AllReturned /\ status # "ub" => Closing)'
<1>1. FInv /\ status = "idle" /\ calls = <<>> /\ Len(calls) = 0
  BY EmptySeq DEF Parse, UInv
<1>2. CASE /\ results' = Append(results, "return")
           /\ UNCHANGED <<contents, units, status, calls>> /\ UNCHANGED scanner
  <2>1. AllReturned' => AllReturned
    BY <1>1, <1>2, ResultsGrow DEF FInv, TypeOK
  <2> QED BY <1>1, <1>2, <2>1 DEF UInv, Closing, scanner
<1>3. CASE ~Known(f) /\ ParseNew(f, calls)
  <2>1. calls \in Seq(Call)
    BY <1>1 DEF FInv, TypeOK, Call
  <2>2. AllReturned =>
          /\ \A g \in DOMAIN units :
               (\A i \in 1..Len(calls) : calls[i].file # g) => units[g].uses \subseteq DOMAIN units
          /\ \A i \in 1..Len(calls) :
               units[calls[i].file].uses \subseteq DOMAIN units \cup {f} \cup calls[i].pending
    BY <1>1 DEF UInv, Closing
  <2>3. status # "ub" /\ \A i \in 1..Len(calls) : calls[i].file \in DOMAIN units
    BY <1>1
  <2> QED BY <1>3, <2>1, <2>2, <2>3, ParseNewClosing
<1> QED BY <1>2, <1>3 DEF Parse

LEMMA ClosingKeeps == UInv /\ [Next]_vars => UInv'
<1> SUFFICES ASSUME UInv, [Next]_vars PROVE UInv'
  OBVIOUS
<1>1. FInv'
  BY NextKeeps DEF UInv
<1>2. (status = "idle" => calls = <<>>)' /\ (AllReturned /\ status # "ub" => Closing)'
  <2>1. CASE Statement
    BY <2>1, StatementClosing
  <2>2. CASE Newline
    BY <2>2, ConsumedNotEmpty, ScannerClosing DEF Newline
  <2>3. CASE Error
    BY <2>3, ThrowClosing DEF Error
  <2>4. CASE Use
    BY <2>4, UseClosing
  <2>5. CASE Include
    BY <2>5, IncludeClosing
  <2>6. CASE FileEnd
    BY <2>6, FileEndClosing
  <2>7. CASE VisitUse
    BY <2>7, VisitUseClosing
  <2>8. CASE Return
    BY <2>8, ReturnClosing
  <2>9. CASE \E f \in Files : Parse(f)
    BY <2>9, ParseClosing
  <2>10. CASE UNCHANGED vars
    BY <2>10 DEF UInv, Closing, AllReturned, vars
  <2> QED BY <2>1, <2>2, <2>3, <2>4, <2>5, <2>6, <2>7, <2>8, <2>9, <2>10 DEF Next, Step
<1> QED BY <1>1, <1>2 DEF UInv

LEMMA ClosingAlways == Spec => []UInv
<1>1. Init => UInv
  <2> SUFFICES ASSUME Init PROVE UInv
    OBVIOUS
  <2> QED BY InitEstablishes, EmptySeq DEF UInv, Init, Closing
<1> QED BY <1>1, ClosingKeeps, PTL DEF Spec

\* When parse has returned, and no call of it has thrown, every unit that is used
\* from a unit in the table is in the table: the loop over the uses goes on until
\* nothing is left to visit, although units enter the table while it runs and
\* nested calls return early (Frontend::parse).
THEOREM UsesAreClosed == Spec => []UsesClosed
<1>1. UInv => UsesClosed
  <2> SUFFICES ASSUME UInv, AllReturned, status = "idle"
               PROVE  \A f \in DOMAIN units : units[f].uses \subseteq DOMAIN units
    BY DEF UsesClosed
  <2>1. Closing /\ Len(calls) = 0
    BY EmptySeq DEF UInv
  <2> QED BY <2>1 DEF Closing
<1> QED BY <1>1, ClosingAlways, PTL

-----------------------------------------------------------------------------
(* What a file adds to a unit.                                              *)

\* Every set of numbers has a least element: induction.
LEMMA Least ==
  ASSUME NEW T, T \subseteq Nat, T # {}
  PROVE  \E n \in T : \A m \in T : n <= m
<1> DEFINE R == OpToRel(<, Nat)
<1>1. IsWellFoundedOn(R, Nat)
  BY NatLessThanWellFounded
<1>2. \A x, y \in Nat : <<x, y>> \in R <=> x < y
  BY DEF OpToRel
<1> HIDE DEF R
<1>3. PICK n \in T : \A m \in T : <<m, n>> \notin R
  BY <1>1, WFMin
<1>4. n \in Nat /\ \A m \in T : m \in Nat /\ ~(m < n)
  BY <1>2, <1>3
<1> QED BY <1>4

\* f goes from a by the steps of G, over the values in V.
Steps(V, a, G, n, f) ==
  /\ f \in [0..n -> V] /\ f[0] = a
  /\ \A i \in 1..n : f[i] = G[<<i, f[i - 1]>>]

\* There is a function that is defined by recursion.
LEMMA Recursion ==
  ASSUME NEW V, NEW a \in V, NEW G \in [Nat \X V -> V]
  PROVE  \A n \in Nat : \E f : Steps(V, a, G, n, f)
<1> DEFINE P(n) == \E f : Steps(V, a, G, n, f)
<1>1. P(0)
  <2> DEFINE f == [i \in 0..0 |-> a]
  <2>1. f \in [0..0 -> V] /\ f[0] = a /\ \A i \in 1..0 : FALSE
    OBVIOUS
  <2> QED BY <2>1 DEF Steps
<1>2. ASSUME NEW n \in Nat, P(n) PROVE P(n + 1)
  <2>1. PICK f : Steps(V, a, G, n, f)
    BY <1>2
  <2> DEFINE next == G[<<n + 1, f[n]>>]
             g == [i \in 0..(n + 1) |-> IF i = n + 1 THEN next ELSE f[i]]
  <2>2. next \in V
    BY <2>1 DEF Steps
  <2> HIDE DEF next
  <2>3. /\ g \in [0..(n + 1) -> V] /\ g[0] = a
        /\ g[n + 1] = next /\ \A i \in 0..n : g[i] = f[i]
    BY <2>1, <2>2 DEF Steps
  <2> HIDE DEF g
  <2>4. \A i \in 1..(n + 1) : g[i] = G[<<i, g[i - 1]>>]
    <3> TAKE i \in 1..(n + 1)
    <3>1. CASE i \in 1..n
      BY <2>1, <2>3, <3>1 DEF Steps
    <3>2. CASE i = n + 1
      BY <2>3, <3>2 DEF next
    <3> QED BY <3>1, <3>2
  <2> QED BY <2>3, <2>4 DEF Steps
<1> HIDE DEF P
<1>3. \A n \in Nat : P(n)
  <2> DEFINE T == {k \in Nat : ~P(k)}
  <2> SUFFICES ASSUME T # {} PROVE FALSE
    OBVIOUS
  <2>1. T \subseteq Nat
    OBVIOUS
  <2> HIDE DEF T
  <2>2. PICK n \in T : \A m \in T : n <= m
    BY <2>1, Least
  <2>3. n \in Nat /\ ~P(n) /\ n # 0
    BY <1>1, <2>2 DEF T
  <2>4. n - 1 \in Nat /\ P(n - 1)
    <3>1. n - 1 \in Nat /\ ~(n <= n - 1)
      BY <2>3
    <3>2. n - 1 \notin T
      BY <2>2, <3>1
    <3> QED BY <3>1, <3>2 DEF T
  <2>5. n = (n - 1) + 1
    BY <2>3
  <2> QED BY <1>2, <2>3, <2>4, <2>5
<1> QED BY <1>3 DEF P

LEMMA BehindType ==
  ASSUME NEW u \in TranslationUnit, NEW v \in TranslationUnit, NEW w \in TranslationUnit
  PROVE  /\ Nothing \in TranslationUnit /\ Behind(u, v) \in TranslationUnit
         /\ Behind(Nothing, u) = u /\ Behind(u, Nothing) = u
         /\ Behind(Behind(u, v), w) = Behind(u, Behind(v, w))
<1> DEFINE S == Seq(Position)
<1>1. /\ u = [uses |-> u.uses, statements |-> u.statements]
      /\ u.uses \in SUBSET Files /\ v.uses \in SUBSET Files /\ w.uses \in SUBSET Files
      /\ u.statements \in Seq(S) /\ v.statements \in Seq(S) /\ w.statements \in Seq(S)
  BY DEF TranslationUnit
<1> HIDE DEF S
<1>2. \A r, s, t \in Seq(S) : /\ r \o s \in Seq(S) /\ <<>> \o s = s /\ s \o <<>> = s
                              /\ (r \o s) \o t = r \o (s \o t) /\ <<>> \in Seq(S)
  <2> SUFFICES ASSUME NEW r \in Seq(S), NEW s \in Seq(S), NEW t \in Seq(S)
               PROVE  /\ r \o s \in Seq(S) /\ <<>> \o s = s /\ s \o <<>> = s
                      /\ (r \o s) \o t = r \o (s \o t) /\ <<>> \in Seq(S)
    OBVIOUS
  <2>1. r \o s \in Seq(S) /\ <<>> \in Seq(S)
    BY ConcatProperties, EmptySeq
  <2>2. <<>> \o s = s /\ s \o <<>> = s
    BY ConcatEmptySeq
  <2>3. (r \o s) \o t = r \o (s \o t)
    BY ConcatAssociative
  <2> QED BY <2>1, <2>2, <2>3
<1>3. Nothing \in TranslationUnit
  BY <1>1, <1>2 DEF Nothing, TranslationUnit, S
<1>4. Behind(u, v) \in TranslationUnit
  <2>1. u.uses \cup v.uses \in SUBSET Files /\ u.statements \o v.statements \in Seq(S)
    BY <1>1, <1>2
  <2> QED BY <2>1 DEF Behind, TranslationUnit, S
<1>5. Behind(Nothing, u) = u /\ Behind(u, Nothing) = u
  <2>1. /\ {} \cup u.uses = u.uses /\ u.uses \cup {} = u.uses
        /\ <<>> \o u.statements = u.statements /\ u.statements \o <<>> = u.statements
    BY <1>1, <1>2
  <2> QED BY <1>1, <2>1 DEF Behind, Nothing
<1>6. Behind(Behind(u, v), w) = Behind(u, Behind(v, w))
  <2>1. (u.uses \cup v.uses) \cup w.uses = u.uses \cup (v.uses \cup w.uses)
    OBVIOUS
  <2>2. (u.statements \o v.statements) \o w.statements
          = u.statements \o (v.statements \o w.statements)
    <3>1. \A r, s, t \in Seq(S) : (r \o s) \o t = r \o (s \o t)
      BY <1>2
    <3>2. u.statements \in Seq(S) /\ v.statements \in Seq(S) /\ w.statements \in Seq(S)
      BY <1>1
    <3> QED BY <3>1, <3>2, Zenon
  <2> QED BY <2>1, <2>2 DEF Behind
<1> QED BY <1>3, <1>4, <1>5, <1>6

\* The line breaks among the first i lexemes of s.
Breaks(s, i) == {j \in 1..i : s[j].kind = "newline"}

LEMMA BreaksStep ==
  ASSUME NEW s, NEW i \in Nat
  PROVE  /\ Cardinality(Breaks(s, i)) \in Nat
         /\ Cardinality(Breaks(s, 0)) = 0
         /\ Cardinality(Breaks(s, i + 1))
              = Cardinality(Breaks(s, i)) + IF s[i + 1].kind = "newline" THEN 1 ELSE 0
<1>1. IsFiniteSet(Breaks(s, i)) /\ Cardinality(Breaks(s, i)) \in Nat
  <2>1. Breaks(s, i) \in SUBSET (1..i) /\ IsFiniteSet(1..i)
    BY FS_Interval DEF Breaks
  <2> QED BY <2>1, FS_Subset, FS_CardinalityType
<1>2. Cardinality(Breaks(s, 0)) = 0
  BY FS_EmptySet DEF Breaks
<1>3. CASE s[i + 1].kind = "newline"
  <2>1. Breaks(s, i + 1) = Breaks(s, i) \cup {i + 1} /\ i + 1 \notin Breaks(s, i)
    BY <1>3 DEF Breaks
  <2> QED BY <1>1, <1>2, <1>3, <2>1, FS_AddElement
<1>4. CASE s[i + 1].kind # "newline"
  <2>1. Breaks(s, i + 1) = Breaks(s, i)
    BY <1>4 DEF Breaks
  <2> QED BY <1>1, <1>2, <1>4, <2>1
<1> QED BY <1>3, <1>4

\* Where lexeme number i + 1 is, in the file that is entered from b.
LEMMA HereIs ==
  ASSUME NEW c, NEW b \in Seq(Position), NEW f \in Files, NEW i \in Nat
  PROVE  LET p == [src |-> f, line |-> 1 + Cardinality(Breaks(c[f], i))]
         IN /\ Here(c, Append(b, Start(f)), i + 1) = Append(b, p)
            /\ p \in Position /\ Append(b, Start(f)) \in At
            /\ Last(Append(b, Start(f))).src = f
<1> DEFINE at == Append(b, Start(f))
           k == Cardinality(Breaks(c[f], i))
           p == [src |-> f, line |-> 1 + k]
<1>1. Start(f) \in Position
  BY DEF Start, Position
<1>2. at \in Seq(Position) /\ at # <<>> /\ Last(at) = Start(f) /\ Front(at) = b
  <2>1. /\ at \in Seq(Position) /\ Len(at) = Len(b) + 1 /\ Len(b) \in Nat
        /\ at[Len(b) + 1] = Start(f) /\ \A j \in 1..Len(b) : at[j] = b[j]
    BY <1>1, AppendProperties, LenProperties
  <2> HIDE DEF at
  <2>2. at # <<>>
    BY <2>1, EmptySeq
  <2>3. Last(at) = Start(f)
    BY <2>1 DEF Last
  <2>4. /\ Front(at) \in Seq(Position) /\ Len(Front(at)) = Len(b)
        /\ \A j \in 1..Len(b) : Front(at)[j] = b[j]
    BY <2>1, <2>2, FrontType
  <2>5. Front(at) = b
    BY <2>4, SeqEqual
  <2> QED BY <2>1, <2>2, <2>3, <2>5
<1>3. k \in Nat
  BY BreaksStep
<1>4. Last(at).src = f /\ Last(at).line = 1
  BY <1>2 DEF Start
<1> HIDE DEF at
<1>5. Here(c, at, i + 1) = SetLast(at, [Last(at) EXCEPT !.line = @ + k])
  <2>1. (i + 1) - 1 = i
    OBVIOUS
  <2> QED BY <1>4, <2>1 DEF Here, Breaks
<1> HIDE DEF k
<1>6. [Last(at) EXCEPT !.line = @ + k] = p
  BY <1>2 DEF Start
<1>7. Here(c, at, i + 1) = Append(b, p)
  BY <1>2, <1>5, <1>6 DEF SetLast
<1>8. p \in Position
  BY <1>3 DEF Position
<1> QED BY <1>2, <1>4, <1>7, <1>8 DEF at, k, At

-----------------------------------------------------------------------------
\* What a lexeme adds is a part of a unit, if what files add is.
LEMMA AddsType ==
  ASSUME NEW at \in Seq(Position), NEW x \in Lexeme,
         NEW included \in [At -> TranslationUnit]
  PROVE  Adds(at, x, included) \in TranslationUnit
<1>1. x.kind \in {"statement", "use", "include"} => TRUE
  OBVIOUS
<1>2. CASE x.kind = "statement"
  <2>1. <<at>> \in Seq(Seq(Position))
    OBVIOUS
  <2> QED BY <1>2, <2>1 DEF Adds, TranslationUnit
<1>3. CASE x.kind = "use"
  <2>1. x.file \in Files
    BY <1>3 DEF Lexeme
  <2> QED BY <1>3, <2>1, EmptySeq DEF Adds, TranslationUnit
<1>4. CASE x.kind = "include"
  <2>1. x.file \in Files
    BY <1>4 DEF Lexeme
  <2>2. Append(at, Start(x.file)) \in At
    BY <2>1, HereIs
  <2> QED BY <1>4, <2>2 DEF Adds
<1>5. CASE x.kind \notin {"statement", "use", "include"}
  <2>1. Adds(at, x, included) = Nothing
    BY <1>5 DEF Adds
  <2>2. Nothing \in TranslationUnit
    BY EmptySeq DEF Nothing, TranslationUnit
  <2> QED BY <2>1, <2>2
<1> QED BY <1>2, <1>3, <1>4, <1>5

\* What the first i lexemes of a file add is what its first i - 1 add, and then what
\* number i does.
LEMMA UptoIs ==
  ASSUME NEW c \in [Files -> Seq(Lexeme)], NEW at \in At,
         NEW included \in [At -> TranslationUnit]
  PROVE  LET s == c[Last(at).src]
             u == Upto(c, at, included)
         IN /\ Len(s) \in Nat
            /\ u \in [0..Len(s) -> TranslationUnit] /\ u[0] = Nothing
            /\ \A i \in 1..Len(s) :
                 u[i] = Behind(u[i - 1], Adds(Here(c, at, i), s[i], included))
<1> DEFINE s == c[Last(at).src]
           b == Front(at)
           f == Last(at).src
           n == Len(s)
           a(i) == Adds(Here(c, at, i), s[i], included)
           is(u) == u = [i \in 0..n |-> IF i = 0 THEN Nothing ELSE Behind(u[i - 1], a(i))]
           V == TranslationUnit
           G == [p \in Nat \X V |-> IF p[1] \in 1..n THEN Behind(p[2], a(p[1])) ELSE p[2]]
<1>1. at \in Seq(Position) /\ at # <<>> /\ Last(at) \in Position /\ b \in Seq(Position)
  BY FrontType DEF At
<1>2. f \in Files /\ s \in Seq(Lexeme) /\ n \in Nat
  BY <1>1 DEF Position
<1>3. \A i \in 1..n : a(i) \in V
  <2> TAKE i \in 1..n
  <2>1. Here(c, at, i) \in Seq(Position)
    <3> DEFINE k == Cardinality(Breaks(s, i - 1))
               x == [Last(at) EXCEPT !.line = @ + k]
    <3>1. i - 1 \in Nat /\ k \in Nat
      BY BreaksStep
    <3> HIDE DEF k
    <3>2. x \in Position
      <4>1. Last(at).src \in Files /\ Last(at).line \in Nat \ {0}
        BY <1>1 DEF Position
      <4>2. Last(at).line + k \in Nat \ {0}
        BY <3>1, <4>1
      <4>3. x = [src |-> Last(at).src, line |-> Last(at).line + k]
        <5>1. \A p \in Position : [p EXCEPT !.line = p.line + k] = [src |-> p.src, line |-> p.line + k]
          BY DEF Position
        <5>2. Last(at) \in Position
          BY <1>1
        <5> QED BY <5>1, <5>2
      <4> HIDE DEF x
      <4> QED BY <4>1, <4>2, <4>3 DEF Position
    <3> HIDE DEF x
    <3>3. SetLast(at, x) \in Seq(Position)
      BY <1>1, <3>2, SetLastType
    <3>4. Here(c, at, i) = SetLast(at, x)
      BY DEF Here, Breaks, k, x
    <3> QED BY <3>3, <3>4
  <2>2. s[i] \in Lexeme
    BY <1>2
  <2> HIDE DEF s
  <2> QED BY <2>1, <2>2, AddsType
<1> HIDE DEF a, f, n, s
<1>4. Nothing \in V /\ \A u \in V : \A i \in 1..n : Behind(u, a(i)) \in V
  BY <1>3, BehindType
<1>5. G \in [Nat \X V -> V]
  BY <1>4
<1>6. \A i \in 1..n : \A v \in V : G[<<i, v>>] = Behind(v, a(i))
  BY <1>2
<1> HIDE DEF G, V
<1>7. PICK u : Steps(V, Nothing, G, n, u)
  BY <1>2, <1>4, <1>5, Recursion
<1>8. is(u)
  <2>1. u \in [0..n -> V] /\ u[0] = Nothing
    BY <1>7 DEF Steps
  <2>2. \A i \in 1..n : u[i] = Behind(u[i - 1], a(i))
    <3> TAKE i \in 1..n
    <3>1. i - 1 \in 0..n
      BY <1>2
    <3>2. u[i] = G[<<i, u[i - 1]>>] /\ u[i - 1] \in V
      BY <1>7, <2>1, <3>1 DEF Steps
    <3> QED BY <1>6, <3>2
  <2>3. \A i \in 0..n : u[i] = IF i = 0 THEN Nothing ELSE Behind(u[i - 1], a(i))
    BY <1>2, <2>1, <2>2
  <2>4. u = [i \in 0..n |-> u[i]]
    BY <2>1
  <2> QED BY <2>3, <2>4
<1> DEFINE w == Upto(c, at, included)
<1>9. w = CHOOSE v : is(v)
  BY DEF Upto, a, n, s
<1>10. is(w)
  BY <1>8, <1>9
<1> HIDE DEF w
<1>11. /\ w[0] = Nothing /\ DOMAIN w = 0..n
       /\ \A i \in 1..n : w[i] = Behind(w[i - 1], a(i))
  BY <1>2, <1>10
<1>12. \A i \in 0..n : w[i] \in V
  <2> DEFINE T == {i \in 0..n : w[i] \notin V}
  <2> SUFFICES ASSUME T # {} PROVE FALSE
    OBVIOUS
  <2>1. T \subseteq Nat
    BY <1>2
  <2> HIDE DEF T
  <2>2. PICK i \in T : \A m \in T : i <= m
    BY <2>1, Least
  <2>3. i \in 0..n /\ w[i] \notin V
    BY <2>2 DEF T
  <2>4. i # 0 /\ i \in 1..n /\ i - 1 \in 0..n /\ ~(i <= i - 1)
    BY <1>2, <1>4, <1>11, <2>3
  <2>5. w[i - 1] \in V
    BY <2>2, <2>4 DEF T
  <2> QED BY <1>4, <1>11, <2>3, <2>4, <2>5
<1>13. w \in [0..n -> V]
  <2>1. w = [i \in 0..n |-> w[i]]
    <3>1. w = [i \in 0..n |-> IF i = 0 THEN Nothing ELSE Behind(w[i - 1], a(i))]
      BY <1>10
    <3> QED BY <3>1
  <2> QED BY <1>12, <2>1
<1> QED BY <1>2, <1>11, <1>13 DEF V, a, n, s, w, f

\* The same, of files with what they include.
LEMMA ExpandIs ==
  ASSUME NEW c \in [Files -> Seq(Lexeme)]
  PROVE  LET e == Expand(c)
             N == Cardinality(Files)
         IN /\ N \in Nat
            /\ e \in [0..N -> [At -> TranslationUnit]]
            /\ \A d \in 1..N : \A at \in At :
                 e[d][at] = Upto(c, at, e[d - 1])[Len(c[Last(at).src])]
<1> DEFINE N == Cardinality(Files)
           V == [At -> TranslationUnit]
           a == [at \in At |-> Nothing]
           step(g) == [at \in At |-> Upto(c, at, g)[Len(c[Last(at).src])]]
           is(e) == e = [d \in 0..N |-> IF d = 0 THEN a ELSE step(e[d - 1])]
           G == [p \in Nat \X V |-> step(p[2])]
<1>1. N \in Nat
  BY FilesAssumption, FS_CardinalityType
<1>2. a \in V
  BY BehindType, EmptySeq DEF Nothing, TranslationUnit
<1>3. \A g \in V : step(g) \in V
  <2> SUFFICES ASSUME NEW g \in V, NEW at \in At
               PROVE  Upto(c, at, g)[Len(c[Last(at).src])] \in TranslationUnit
    OBVIOUS
  <2> DEFINE u == Upto(c, at, g)
             n == Len(c[Last(at).src])
  <2>1. n \in Nat /\ u \in [0..n -> TranslationUnit]
    BY UptoIs
  <2> HIDE DEF u, n
  <2>2. u[n] \in TranslationUnit
    BY <2>1
  <2> QED BY <2>2 DEF u, n
<1>4. Expand(c) = CHOOSE e : is(e)
  <2>1. \A e : is(e) <=> e = [d \in 0..N |-> [at \in At |->
                 IF d = 0 THEN Nothing
                 ELSE Upto(c, at, e[d - 1])[Len(c[Last(at).src])]]]
    <3> TAKE e
    <3>1. \A d : (IF d = 0 THEN a ELSE step(e[d - 1]))
                 = [at \in At |-> IF d = 0 THEN Nothing
                                  ELSE Upto(c, at, e[d - 1])[Len(c[Last(at).src])]]
      OBVIOUS
    <3> HIDE DEF a, step
    <3> QED BY <3>1
  <2> HIDE DEF is
  <2> QED BY <2>1 DEF Expand
<1> HIDE DEF a, step
<1>5. G \in [Nat \X V -> V] /\ \A i \in Nat : \A v \in V : G[<<i, v>>] = step(v)
  BY <1>3
<1> HIDE DEF G, V, N
<1>6. PICK e : Steps(V, a, G, N, e)
  BY <1>1, <1>2, <1>5, Recursion
<1>7. is(e)
  <2>1. e \in [0..N -> V] /\ e[0] = a
    BY <1>6 DEF Steps
  <2>2. \A i \in 1..N : e[i] = step(e[i - 1])
    <3> TAKE i \in 1..N
    <3>1. i - 1 \in 0..N /\ i \in Nat
      BY <1>1
    <3>2. e[i] = G[<<i, e[i - 1]>>] /\ e[i - 1] \in V
      BY <1>6, <2>1, <3>1 DEF Steps
    <3> QED BY <1>5, <3>1, <3>2
  <2>3. \A i \in 0..N : e[i] = IF i = 0 THEN a ELSE step(e[i - 1])
    BY <1>1, <2>1, <2>2
  <2>4. e = [i \in 0..N |-> e[i]]
    BY <2>1
  <2> QED BY <2>3, <2>4
<1> DEFINE w == Expand(c)
<1>8. is(w)
  BY <1>4, <1>7
<1> HIDE DEF w
<1>9. /\ w[0] = a /\ \A i \in 1..N : w[i] = step(w[i - 1])
  BY <1>1, <1>8
<1>10. \A i \in 0..N : w[i] \in V
  <2> DEFINE T == {i \in 0..N : w[i] \notin V}
  <2> SUFFICES ASSUME T # {} PROVE FALSE
    OBVIOUS
  <2>1. T \subseteq Nat
    BY <1>1
  <2> HIDE DEF T
  <2>2. PICK i \in T : \A m \in T : i <= m
    BY <2>1, Least
  <2>3. i \in 0..N /\ w[i] \notin V
    BY <2>2 DEF T
  <2>4. i # 0 /\ i \in 1..N /\ i - 1 \in 0..N /\ ~(i <= i - 1)
    BY <1>1, <1>2, <1>9, <2>3
  <2>5. w[i - 1] \in V
    BY <2>2, <2>4 DEF T
  <2> QED BY <1>3, <1>9, <2>3, <2>4, <2>5 DEF V
<1>11. w \in [0..N -> V]
  <2>1. w = [i \in 0..N |-> w[i]]
    BY <1>8
  <2> QED BY <1>10, <2>1
<1>12. \A d \in 1..N : \A at \in At :
         w[d][at] = Upto(c, at, w[d - 1])[Len(c[Last(at).src])]
  BY <1>9 DEF step
<1> QED BY <1>1, <1>11, <1>12 DEF V, N, w

-----------------------------------------------------------------------------
(* The stacks of streams is and of positions lo, of the scanner of contents c. *)

\* Where the file on level k of the stacks began.
Base(lo, k) == Append(SubSeq(lo, 1, k - 1), Start(lo[k].src))

\* How many of its lexemes have been read.
Read(c, is, k) == Len(c[is[k].file]) - Len(is[k].rest)

\* What its lexemes add.
Part(c, lo, k) == Upto(c, Base(lo, k), Expand(c)[Cardinality(Files) - k])

Stacks(c, is, lo) ==
  /\ c \in [Files -> Seq(Lexeme)] /\ is \in Seq(Stream) /\ lo \in Seq(Position)
  /\ Len(is) = Len(lo) /\ Len(lo) \in 1..Cardinality(Files)
  /\ \A k \in 1..Len(lo) : is[k].file = lo[k].src

\* r is what is left of s when i of its elements have been read.
Left(s, r, i) ==
  i \in Nat /\ i + Len(r) = Len(s) /\ \A j \in 1..Len(r) : r[j] = s[i + j]

\* A stream holds the end of its file; a position is behind the line breaks that
\* have been read; and a file below the top has just included the one above.
Placed(c, is, lo) ==
  /\ \A k \in 1..Len(lo) :
       /\ Left(c[is[k].file], is[k].rest, Read(c, is, k))
       /\ lo[k].line = 1 + Cardinality(Breaks(c[is[k].file], Read(c, is, k)))
  /\ \A k \in 1..(Len(lo) - 1) :
       LET x == c[is[k].file][Read(c, is, k)]
       IN Read(c, is, k) # 0 /\ x.kind = "include" /\ x.file = is[k + 1].file

\* u is what the files have added so far: done[k] before the file of level k began.
Added(c, is, lo, u) ==
  \E done \in Seq(TranslationUnit) :
    /\ Len(done) = Len(lo) /\ done[1] = Nothing
    /\ \A k \in 1..(Len(lo) - 1) :
         done[k + 1] = Behind(done[k], Part(c, lo, k)[Read(c, is, k) - 1])
    /\ u = Behind(done[Len(lo)], Part(c, lo, Len(lo))[Read(c, is, Len(lo))])

Scanned(c, is, lo, u) == Stacks(c, is, lo) /\ Placed(c, is, lo) /\ Added(c, is, lo, u)

LEMMA BelowIs ==
  ASSUME NEW lo \in Seq(Position), NEW k \in 1..Len(lo)
  PROVE  /\ SubSeq(lo, 1, k - 1) \in Seq(Position) /\ Len(SubSeq(lo, 1, k - 1)) = k - 1
         /\ \A j \in 1..(k - 1) : SubSeq(lo, 1, k - 1)[j] = lo[j]
         /\ lo[k] \in Position /\ lo[k].src \in Files /\ k - 1 \in Nat
<1> DEFINE m == k - 1
<1>1. k \in Nat /\ k <= Len(lo) /\ Len(lo) \in Nat /\ m \in Nat /\ m <= Len(lo)
  BY LenProperties
<1>2. lo[k] \in Position
  BY ElementOfSeq
<1> HIDE DEF m
<1>3. /\ SubSeq(lo, 1, m) \in Seq(Position) /\ Len(SubSeq(lo, 1, m)) = m
      /\ \A i \in 1..m : SubSeq(lo, 1, m)[i] = lo[i]
  BY <1>1
<1> QED BY <1>1, <1>2, <1>3 DEF m, Position

\* Where a file began depends on what is below it.
LEMMA BaseIs ==
  ASSUME NEW lo \in Seq(Position), NEW k \in 1..Len(lo)
  PROVE  /\ Base(lo, k) \in At /\ Last(Base(lo, k)).src = lo[k].src
         /\ \A lp \in Seq(Position) :
              /\ k <= Len(lp) /\ lp[k].src = lo[k].src
              /\ \A j \in 1..(k - 1) : lp[j] = lo[j]
              => Base(lp, k) = Base(lo, k)
<1>1. Base(lo, k) \in At /\ Last(Base(lo, k)).src = lo[k].src
  BY BelowIs, HereIs DEF Base
<1>2. ASSUME NEW lp \in Seq(Position), k <= Len(lp), lp[k].src = lo[k].src,
             \A j \in 1..(k - 1) : lp[j] = lo[j]
      PROVE  Base(lp, k) = Base(lo, k)
  <2>1. k \in 1..Len(lp)
    BY <1>2, LenProperties
  <2>2. SubSeq(lp, 1, k - 1) = SubSeq(lo, 1, k - 1)
    <3> DEFINE a == SubSeq(lp, 1, k - 1)
               b == SubSeq(lo, 1, k - 1)
    <3>1. /\ a \in Seq(Position) /\ b \in Seq(Position) /\ Len(a) = k - 1 /\ Len(b) = k - 1
          /\ \A j \in 1..(k - 1) : a[j] = b[j]
      BY <1>2, <2>1, BelowIs
    <3> HIDE DEF a, b
    <3>2. a = b
      BY <3>1, SeqEqual
    <3> QED BY <3>2 DEF a, b
  <2> QED BY <1>2, <2>2 DEF Base
<1> QED BY <1>1, <1>2

\* The scanner is where the next lexeme is.
LEMMA TopIsHere ==
  ASSUME NEW c, NEW is, NEW lo, Stacks(c, is, lo), NEW n \in Nat, n = Len(lo), NEW i \in Nat,
         lo[n].line = 1 + Cardinality(Breaks(c[is[n].file], i))
  PROVE  Here(c, Base(lo, n), i + 1) = lo
<1> DEFINE b == SubSeq(lo, 1, n - 1)
           f == lo[n].src
           p == [src |-> f, line |-> 1 + Cardinality(Breaks(c[f], i))]
<1>1. /\ n \in 1..Len(lo) /\ n \in Nat \ {0} /\ lo \in Seq(Position) /\ is[n].file = f
  BY DEF Stacks
<1>2. /\ b \in Seq(Position) /\ Len(b) = n - 1 /\ \A j \in 1..(n - 1) : b[j] = lo[j]
      /\ lo[n] \in Position /\ f \in Files
  BY <1>1, BelowIs
<1>3. Here(c, Base(lo, n), i + 1) = Append(b, p) /\ p \in Position
  <2> HIDE DEF b, f
  <2>1. Here(c, Append(b, Start(f)), i + 1) = Append(b, p) /\ p \in Position
    BY <1>2, HereIs
  <2>2. Base(lo, n) = Append(b, Start(f))
    BY DEF Base, b, f
  <2> QED BY <2>1, <2>2
<1>4. p = lo[n]
  BY <1>1, <1>2 DEF Position
<1> HIDE DEF b, p
<1>5. /\ Append(b, p) \in Seq(Position) /\ Len(Append(b, p)) = n
      /\ Append(b, p)[n] = p /\ \A j \in 1..(n - 1) : Append(b, p)[j] = lo[j]
  BY <1>1, <1>2, <1>3, AppendProperties
<1>6. \A j \in 1..Len(lo) : Append(b, p)[j] = lo[j]
  BY <1>1, <1>4, <1>5
<1>7. Append(b, p) = lo
  BY <1>1, <1>5, <1>6, SeqEqual
<1> QED BY <1>3, <1>7

LEMMA PartIs ==
  ASSUME NEW c, NEW is, NEW lo, Stacks(c, is, lo), NEW k \in 1..Len(lo)
  PROVE  LET s == c[is[k].file]
             P == Part(c, lo, k)
         IN /\ s \in Seq(Lexeme) /\ Len(s) \in Nat
            /\ P \in [0..Len(s) -> TranslationUnit] /\ P[0] = Nothing
            /\ \A i \in 1..Len(s) :
                 P[i] = Behind(P[i - 1], Adds(Here(c, Base(lo, k), i), s[i],
                                              Expand(c)[Cardinality(Files) - k]))
            /\ Expand(c)[Cardinality(Files) - k] \in [At -> TranslationUnit]
<1> DEFINE N == Cardinality(Files)
           e == Expand(c)[N - k]
           at == Base(lo, k)
<1>1. /\ c \in [Files -> Seq(Lexeme)] /\ lo \in Seq(Position) /\ Len(lo) \in 1..N
      /\ is[k].file = lo[k].src
  BY DEF Stacks
<1>2. N \in Nat /\ Expand(c) \in [0..N -> [At -> TranslationUnit]]
  BY <1>1, ExpandIs
<1>3. N - k \in 0..N
  BY <1>1, <1>2
<1>4. e \in [At -> TranslationUnit]
  BY <1>2, <1>3
<1>5. at \in At /\ Last(at).src = is[k].file /\ is[k].file \in Files
  BY <1>1, BaseIs, BelowIs
<1>6. c[is[k].file] \in Seq(Lexeme)
  BY <1>1, <1>5
<1> HIDE DEF e, at
<1> DEFINE s == c[is[k].file]
           P == Upto(c, at, e)
<1>7. /\ Len(s) \in Nat /\ P \in [0..Len(s) -> TranslationUnit] /\ P[0] = Nothing
      /\ \A i \in 1..Len(s) : P[i] = Behind(P[i - 1], Adds(Here(c, at, i), s[i], e))
  BY <1>1, <1>4, <1>5, UptoIs
<1> QED BY <1>4, <1>6, <1>7 DEF Part, e, at

-----------------------------------------------------------------------------
(* What the scanner does to the stacks.                                     *)

\* What there is to read next, and what is left then.
Comes(s, r, i) ==
  /\ i \in Nat /\ i + 1 \in 1..Len(s) /\ Head(r) = s[i + 1] /\ Head(r) \in Lexeme
  /\ Left(s, Tail(r), i + 1) /\ Len(s) - Len(Tail(r)) = i + 1

LEMMA LeftNext ==
  ASSUME NEW s \in Seq(Lexeme), NEW r \in Seq(Lexeme), r # <<>>, NEW i, Left(s, r, i)
  PROVE  Comes(s, r, i)
<1> DEFINE l == Len(r)
           m == Len(s)
           q == Tail(r)
<1>1. /\ l \in Nat \ {0} /\ Len(q) = l - 1 /\ Head(r) = r[1]
      /\ \A j \in 1..(l - 1) : q[j] = r[j + 1]
  BY EmptySeq, HeadTailProperties
<1>2. m \in Nat
  BY LenProperties
<1>3. i \in Nat /\ i + l = m /\ \A j \in 1..l : r[j] = s[i + j]
  BY DEF Left
<1>4. Head(r) \in Lexeme
  BY HeadTailProperties
<1> HIDE DEF l, m, q
<1>5. /\ (i + 1) + (l - 1) = m /\ m - (l - 1) = i + 1 /\ i + 1 \in 1..m /\ 1 \in 1..l
      /\ i + 1 \in Nat
  BY <1>1, <1>2, <1>3
<1>6. \A j \in 1..(l - 1) : q[j] = s[(i + 1) + j]
  <2> TAKE j \in 1..(l - 1)
  <2>1. j + 1 \in 1..l /\ i + (j + 1) = (i + 1) + j
    BY <1>1, <1>3
  <2> QED BY <1>1, <1>3, <2>1
<1>7. Head(r) = s[i + 1]
  BY <1>1, <1>3, <1>5
<1> QED BY <1>1, <1>3, <1>4, <1>5, <1>6, <1>7 DEF Left, Comes, l, m, q

\* The next lexeme of the file on top.
LEMMA ReadOne ==
  ASSUME NEW c, NEW is, NEW lo, Stacks(c, is, lo), Placed(c, is, lo), NEW n \in Nat, n = Len(lo),
         is[n].rest # <<>>
  PROVE  /\ c[is[n].file] \in Seq(Lexeme)
         /\ Comes(c[is[n].file], is[n].rest, Read(c, is, n))
<1> DEFINE s == c[is[n].file]
           i == Read(c, is, n)
           r == is[n].rest
<1>1. n \in 1..n /\ n \in Nat \ {0} /\ is \in Seq(Stream) /\ Len(is) = n /\ n \in 1..Len(lo)
  BY DEF Stacks
<1>2. s \in Seq(Lexeme) /\ r \in Seq(Lexeme)
  <2>1. is[n] \in Stream
    BY <1>1, ElementOfSeq
  <2> QED BY <1>1, <2>1, PartIs DEF Stream
<1>3. Left(s, r, i) /\ i \in Nat
  BY <1>1 DEF Placed, Left
<1>4. r # <<>>
  OBVIOUS
<1> HIDE DEF i, r, s
<1>5. Comes(s, r, i)
  BY <1>2, <1>3, <1>4, LeftNext
<1> QED BY <1>2, <1>5 DEF i, r, s

\* What files that are included from level n add.
Included(c, n) == Expand(c)[Cardinality(Files) - n]

\* The next lexeme of level n, the top, is read from the streams is: they become it.
Takes(is, it, n) ==
  /\ is[n].rest # <<>> /\ it \in Seq(Stream) /\ Len(it) = n
  /\ it[n].file = is[n].file /\ it[n].rest = Tail(is[n].rest)
  /\ \A k \in 1..(n - 1) : it[k] = is[k]

\* The position lo goes behind a lexeme of that kind: it becomes lp.
Moves(lo, lp, n, kind) ==
  /\ lp \in Seq(Position) /\ Len(lp) = n
  /\ lp[n].src = lo[n].src /\ lp[n].line = lo[n].line + (IF kind = "newline" THEN 1 ELSE 0)
  /\ \A k \in 1..(n - 1) : lp[k] = lo[k]

\* A lexeme that is no include is read, and adds what it adds.
LEMMA Advance ==
  ASSUME NEW c, NEW is, NEW lo, NEW u, Scanned(c, is, lo, u), NEW n \in Nat, n = Len(lo),
         NEW it, Takes(is, it, n), NEW x, x = Head(is[n].rest),
         NEW lp, Moves(lo, lp, n, x.kind),
         NEW v, v = Behind(u, Adds(lo, x, Included(c, n)))
  PROVE  Scanned(c, it, lp, v)
<1> DEFINE s == c[is[n].file]
           i == Read(c, is, n)
           e == Included(c, n)
<1>f. /\ lp \in Seq(Position) /\ Len(lp) = n
      /\ lp[n].src = lo[n].src /\ lp[n].line = lo[n].line + (IF x.kind = "newline" THEN 1 ELSE 0)
      /\ \A k \in 1..(n - 1) : lp[k] = lo[k]
  BY DEF Moves
<1>t. /\ is[n].rest # <<>> /\ it \in Seq(Stream) /\ Len(it) = n
      /\ it[n].file = is[n].file /\ it[n].rest = Tail(is[n].rest)
      /\ \A k \in 1..(n - 1) : it[k] = is[k]
  BY DEF Takes
<1> USE <1>f, <1>t
<1>1. /\ Stacks(c, is, lo) /\ Placed(c, is, lo) /\ Added(c, is, lo, u)
      /\ n \in 1..Len(lo) /\ n \in Nat \ {0} /\ is \in Seq(Stream) /\ lo \in Seq(Position)
      /\ Len(is) = n
      /\ \A k \in 1..n : k = n \/ k \in 1..(n - 1)
  BY DEF Scanned, Stacks
<1>0. /\ \A k \in 1..n :
           /\ Left(c[is[k].file], is[k].rest, Read(c, is, k))
           /\ lo[k].line = 1 + Cardinality(Breaks(c[is[k].file], Read(c, is, k)))
      /\ \A k \in 1..(n - 1) :
           LET y == c[is[k].file][Read(c, is, k)]
           IN Read(c, is, k) # 0 /\ y.kind = "include" /\ y.file = is[k + 1].file
  BY <1>1 DEF Placed
<1>2. /\ s \in Seq(Lexeme) /\ i \in Nat /\ i + 1 \in 1..Len(s)
      /\ Left(s, it[n].rest, i + 1) /\ Read(c, it, n) = i + 1
      /\ x = s[i + 1] /\ x \in Lexeme
      /\ \A k \in 1..(n - 1) : Read(c, it, k) = Read(c, is, k)
  <2>1. /\ s \in Seq(Lexeme) /\ i \in Nat /\ i + 1 \in 1..Len(s)
        /\ Left(s, Tail(is[n].rest), i + 1) /\ Len(s) - Len(Tail(is[n].rest)) = i + 1
        /\ Head(is[n].rest) = s[i + 1] /\ Head(is[n].rest) \in Lexeme
    <3>1. Stacks(c, is, lo) /\ Placed(c, is, lo) /\ n = Len(lo) /\ is[n].rest # <<>>
      BY <1>1
    <3>2. s \in Seq(Lexeme) /\ Comes(s, is[n].rest, i)
      BY <3>1, ReadOne
    <3> HIDE DEF s, i, e
    <3> QED BY <3>2 DEF Comes
  <2>2. Read(c, it, n) = i + 1 /\ \A k \in 1..(n - 1) : Read(c, it, k) = Read(c, is, k)
    BY <2>1 DEF Read
  <2> QED BY <2>1, <2>2
<1>3. i \in 0..Len(s) /\ (i + 1) - 1 = i
  BY <1>2
<1>4. /\ \A k \in 1..n : is[k].file = it[k].file /\ Base(lp, k) = Base(lo, k)
      /\ c[it[n].file] = s
  <2>1. \A k \in 1..n : is[k].file = it[k].file
    BY <1>1
  <2>2. ASSUME NEW k \in 1..n PROVE Base(lp, k) = Base(lo, k)
    <3>1. /\ k \in 1..Len(lo) /\ k <= Len(lp) /\ lp[k].src = lo[k].src
          /\ \A j \in 1..(k - 1) : lp[j] = lo[j]
      BY <1>1, <1>f
    <3> QED BY <1>1, <3>1, BaseIs
  <2> QED BY <2>1, <2>2, <1>1
<1>5. Stacks(c, it, lp)
  <2>1. /\ c \in [Files -> Seq(Lexeme)] /\ n \in 1..Cardinality(Files)
        /\ \A k \in 1..n : is[k].file = lo[k].src
    BY <1>1, <1>f DEF Stacks
  <2>2. \A k \in 1..n : it[k].file = lp[k].src
    BY <1>1, <1>f, <2>1
  <2> HIDE DEF s, i, e
  <2> QED BY <2>1, <2>2 DEF Stacks
<1>6. Placed(c, it, lp)
  <2>3. lp[n].line = 1 + Cardinality(Breaks(s, i + 1))
    <3>1. lo[n].line = 1 + Cardinality(Breaks(s, i)) /\ lp[n].line = lo[n].line + (IF x.kind = "newline" THEN 1 ELSE 0)
      BY <1>0, <1>1, <1>f
    <3>2. /\ Cardinality(Breaks(s, i)) \in Nat
          /\ Cardinality(Breaks(s, i + 1))
               = Cardinality(Breaks(s, i)) + IF s[i + 1].kind = "newline" THEN 1 ELSE 0
      BY <1>2, BreaksStep
    <3> HIDE DEF i, s, e
    <3> QED BY <1>2, <3>1, <3>2
  <2>4. \A k \in 1..(n - 1) : k \in 1..n /\ k + 1 \in 1..n
    BY <1>1
  <2>6. \A k \in 1..n :
          /\ Left(c[it[k].file], it[k].rest, Read(c, it, k))
          /\ lp[k].line = 1 + Cardinality(Breaks(c[it[k].file], Read(c, it, k)))
    <3> TAKE k \in 1..n
    <3>1. CASE k = n
      BY <1>2, <1>4, <2>3, <3>1
    <3>2. CASE k \in 1..(n - 1)
      <4>1. it[k] = is[k] /\ lp[k] = lo[k] /\ Read(c, it, k) = Read(c, is, k) /\ k \in 1..n
        BY <1>2, <3>2
      <4> HIDE DEF i, s, e
      <4> QED BY <1>0, <4>1
    <3> QED BY <1>1, <3>1, <3>2
  <2>7. \A k \in 1..(n - 1) :
          LET y == c[it[k].file][Read(c, it, k)]
          IN Read(c, it, k) # 0 /\ y.kind = "include" /\ y.file = it[k + 1].file
    BY <1>0, <1>2, <1>4, <2>4
  <2> QED BY <2>6, <2>7 DEF Placed
<1>7. Added(c, it, lp, v)
  <2>1. PICK done \in Seq(TranslationUnit) :
          /\ Len(done) = n /\ done[1] = Nothing
          /\ \A k \in 1..(n - 1) :
               done[k + 1] = Behind(done[k], Part(c, lo, k)[Read(c, is, k) - 1])
          /\ u = Behind(done[n], Part(c, lo, n)[i])
    BY <1>1 DEF Added
  <2>2. \A k \in 1..n : Part(c, lp, k) = Part(c, lo, k)
    BY <1>4 DEF Part
  <2> DEFINE P == Part(c, lo, n)
  <2>3. /\ P \in [0..Len(s) -> TranslationUnit] /\ e \in [At -> TranslationUnit]
        /\ P[i + 1] = Behind(P[(i + 1) - 1], Adds(Here(c, Base(lo, n), i + 1), s[i + 1], e))
    BY <1>1, <1>2, PartIs DEF Included
  <2>4. Here(c, Base(lo, n), i + 1) = lo
    <3>1. lo[n].line = 1 + Cardinality(Breaks(c[is[n].file], i))
      BY <1>0, <1>1, <1>f
    <3> HIDE DEF i
    <3> QED BY <1>1, <1>2, <3>1, TopIsHere
  <2>5. P[i + 1] = Behind(P[i], Adds(lo, x, e))
    BY <1>2, <1>3, <2>3, <2>4
  <2> HIDE DEF P
  <2>6. v = Behind(done[n], P[i + 1])
    <3>1. done[n] \in TranslationUnit
      BY <1>1, <2>1, ElementOfSeq
    <3>2. P[i] \in TranslationUnit
      BY <1>3, <2>3
    <3>3. Adds(lo, x, e) \in TranslationUnit
      <4> HIDE DEF e
      <4> QED BY <1>1, <1>2, <2>3, AddsType
    <3>4. v = Behind(Behind(done[n], P[i]), Adds(lo, x, e))
      BY <2>1 DEF P
    <3> DEFINE a == Adds(lo, x, e)
               p == P[i]
               d == done[n]
    <3>5. d \in TranslationUnit /\ p \in TranslationUnit /\ a \in TranslationUnit
      BY <3>1, <3>2, <3>3
    <3> HIDE DEF a, p, d
    <3>6. Behind(Behind(d, p), a) = Behind(d, Behind(p, a))
      BY <3>5, BehindType
    <3> QED BY <2>5, <3>4, <3>6 DEF a, p, d
  <2>7. \A k \in 1..(n - 1) :
          done[k + 1] = Behind(done[k], Part(c, lp, k)[Read(c, it, k) - 1])
    <3> TAKE k \in 1..(n - 1)
    <3>1. k \in 1..n /\ Read(c, it, k) = Read(c, is, k)
      BY <1>1, <1>2
    <3> QED BY <2>1, <2>2, <3>1
  <2>8. v = Behind(done[Len(lp)], Part(c, lp, Len(lp))[Read(c, it, Len(lp))])
    BY <1>1, <1>2, <2>2, <2>6 DEF P
  <2> QED BY <2>1, <2>7, <2>8 DEF Added
<1> QED BY <1>5, <1>6, <1>7 DEF Scanned

\* The next lexeme of level n, the top, includes f, which is opened.
Opens(c, is, it, n, f) ==
  /\ is[n].rest # <<>> /\ Head(is[n].rest).kind = "include" /\ Head(is[n].rest).file = f
  /\ it \in Seq(Stream) /\ Len(it) = n + 1 /\ it[n].file = is[n].file
  /\ it[n].rest = Tail(is[n].rest) /\ \A k \in 1..(n - 1) : it[k] = is[k]
  /\ it[n + 1] = [file |-> f, rest |-> c[f]]

Descends(lo, lp, n, f) ==
  /\ lp \in Seq(Position) /\ Len(lp) = n + 1 /\ lp[n + 1] = Start(f)
  /\ \A k \in 1..n : lp[k] = lo[k]

\* t is s without its last element, number n.
Shortens(S, s, t, n) ==
  t \in Seq(S) /\ Len(t) = n - 1 /\ \A k \in 1..(n - 1) : t[k] = s[k]

\* An included file begins: the stacks grow, and nothing is added yet.
LEMMA Enter ==
  ASSUME NEW c, NEW is, NEW lo, NEW u, Scanned(c, is, lo, u), NEW n \in Nat, n = Len(lo),
         NEW f \in Files, n + 1 <= Cardinality(Files),
         NEW it, Opens(c, is, it, n, f), NEW lp, Descends(lo, lp, n, f)
  PROVE  Scanned(c, it, lp, u)
<1> DEFINE s == c[is[n].file]
           i == Read(c, is, n)
           x == Head(is[n].rest)
<1>a. /\ is[n].rest # <<>> /\ x.kind = "include" /\ x.file = f
      /\ it \in Seq(Stream) /\ Len(it) = n + 1 /\ it[n].file = is[n].file
      /\ it[n].rest = Tail(is[n].rest) /\ \A k \in 1..(n - 1) : it[k] = is[k]
      /\ it[n + 1] = [file |-> f, rest |-> c[f]]
  BY DEF Opens
<1>b. /\ lp \in Seq(Position) /\ Len(lp) = n + 1 /\ lp[n + 1] = Start(f)
      /\ \A k \in 1..n : lp[k] = lo[k]
  BY DEF Descends
<1> HIDE DEF x
<1> USE <1>a, <1>b
<1>1. /\ Stacks(c, is, lo) /\ Placed(c, is, lo) /\ Added(c, is, lo, u)
      /\ n \in 1..Len(lo) /\ n \in Nat \ {0} /\ is \in Seq(Stream) /\ lo \in Seq(Position)
      /\ Len(is) = n /\ c \in [Files -> Seq(Lexeme)]
      /\ \A k \in 1..n : is[k].file = lo[k].src
  <2> HIDE DEF s, i
  <2>1. Stacks(c, is, lo) /\ Placed(c, is, lo) /\ Added(c, is, lo, u)
    BY DEF Scanned
  <2> QED BY <2>1 DEF Stacks
<1>2. \A k \in 1..(n + 1) : k = n + 1 \/ k = n \/ k \in 1..(n - 1)
  BY <1>1
<1>3. /\ \A k \in 1..n :
           /\ Left(c[is[k].file], is[k].rest, Read(c, is, k))
           /\ lo[k].line = 1 + Cardinality(Breaks(c[is[k].file], Read(c, is, k)))
      /\ \A k \in 1..(n - 1) :
           LET y == c[is[k].file][Read(c, is, k)]
           IN Read(c, is, k) # 0 /\ y.kind = "include" /\ y.file = is[k + 1].file
  BY <1>1 DEF Placed
<1>4. s \in Seq(Lexeme) /\ Comes(s, is[n].rest, i)
  BY <1>1, ReadOne
<1>5. /\ i \in Nat /\ i + 1 \in 1..Len(s) /\ s[i + 1] = x
      /\ Left(s, it[n].rest, i + 1) /\ Len(s) - Len(it[n].rest) = i + 1
  <2> HIDE DEF s, i
  <2> QED BY <1>4 DEF Comes, x
<1>6. Read(c, it, n) = i + 1 /\ \A k \in 1..(n - 1) : Read(c, it, k) = Read(c, is, k)
  BY <1>5 DEF Read
<1>7. c[f] \in Seq(Lexeme) /\ Len(c[f]) \in Nat
  BY <1>1, LenProperties
<1>8. Read(c, it, n + 1) = 0
  <2>1. Read(c, it, n + 1) = Len(c[f]) - Len(c[f])
    BY DEF Read
  <2> QED BY <1>7, <2>1
<1>9. /\ \A k \in 1..n : it[k].file = is[k].file /\ k \in 1..Len(lo) /\ k <= Len(lp)
      /\ it[n + 1].file = f
  BY <1>1, <1>2
<1>10. Stacks(c, it, lp)
  <2>1. \A k \in 1..(n + 1) : it[k].file = lp[k].src
    <3>1. it[n + 1].file = lp[n + 1].src
      BY DEF Start
    <3>2. \A k \in 1..n : it[k].file = lp[k].src
      BY <1>1, <1>9
    <3> QED BY <1>2, <3>1, <3>2
  <2>2. Cardinality(Files) \in Nat
    BY FilesAssumption, FS_CardinalityType
  <2>3. n + 1 \in 1..Cardinality(Files)
    BY <2>2
  <2> HIDE DEF s, i
  <2> QED BY <1>1, <2>1, <2>3 DEF Stacks
<1>11. Placed(c, it, lp)
  <2>1. lp[n].line = 1 + Cardinality(Breaks(s, i + 1))
    <3>1. lo[n].line = 1 + Cardinality(Breaks(s, i)) /\ lp[n].line = lo[n].line
      BY <1>1, <1>3
    <3>2. /\ Cardinality(Breaks(s, i)) \in Nat
          /\ Cardinality(Breaks(s, i + 1))
               = Cardinality(Breaks(s, i)) + IF s[i + 1].kind = "newline" THEN 1 ELSE 0
      BY <1>5, BreaksStep
    <3> HIDE DEF i, s
    <3> QED BY <1>5, <3>1, <3>2
  <2>2. Left(c[f], c[f], 0)
    BY <1>7 DEF Left
  <2>3. lp[n + 1].line = 1 + Cardinality(Breaks(c[f], 0))
    <3>1. Cardinality(Breaks(c[f], 0)) = 0
      BY BreaksStep
    <3> QED BY <3>1 DEF Start
  <2>4. \A k \in 1..(n + 1) :
          /\ Left(c[it[k].file], it[k].rest, Read(c, it, k))
          /\ lp[k].line = 1 + Cardinality(Breaks(c[it[k].file], Read(c, it, k)))
    <3> TAKE k \in 1..(n + 1)
    <3>1. CASE k = n + 1
      <4> HIDE DEF i, s
      <4>1. it[k].file = f /\ it[k].rest = c[f] /\ Read(c, it, k) = 0
        BY <1>8, <3>1
      <4> QED BY <2>2, <2>3, <3>1, <4>1
    <3>2. CASE k = n
      BY <1>5, <1>6, <2>1, <3>2
    <3>3. CASE k \in 1..(n - 1)
      <4>1. it[k] = is[k] /\ lp[k] = lo[k] /\ Read(c, it, k) = Read(c, is, k) /\ k \in 1..n
        BY <1>6, <3>3
      <4> HIDE DEF i, s
      <4> QED BY <1>3, <4>1
    <3> QED BY <1>2, <3>1, <3>2, <3>3
  <2>5. \A k \in 1..n :
          LET y == c[it[k].file][Read(c, it, k)]
          IN Read(c, it, k) # 0 /\ y.kind = "include" /\ y.file = it[k + 1].file
    <3> TAKE k \in 1..n
    <3>1. CASE k = n
      BY <1>5, <1>6, <1>9, <3>1
    <3>2. CASE k \in 1..(n - 1)
      <4>1. k \in 1..n /\ k + 1 \in 1..n
        BY <1>1, <3>2
      <4>2. /\ it[k].file = is[k].file /\ it[k + 1].file = is[k + 1].file
            /\ Read(c, it, k) = Read(c, is, k)
        BY <1>6, <1>9, <3>2, <4>1
      <4> HIDE DEF i, s
      <4> QED BY <1>3, <3>2, <4>2
    <3> QED BY <1>1, <3>1, <3>2
  <2>6. (n + 1) - 1 = n
    OBVIOUS
  <2> QED BY <2>4, <2>5, <2>6 DEF Placed
<1>12. Added(c, it, lp, u)
  <2>1. PICK done \in Seq(TranslationUnit) :
          /\ Len(done) = n /\ done[1] = Nothing
          /\ \A k \in 1..(n - 1) :
               done[k + 1] = Behind(done[k], Part(c, lo, k)[Read(c, is, k) - 1])
          /\ u = Behind(done[n], Part(c, lo, n)[i])
    BY <1>1 DEF Added
  <2>2. u \in TranslationUnit
    <3> DEFINE P == Part(c, lo, n)
    <3>1. P \in [0..Len(s) -> TranslationUnit] /\ done[n] \in TranslationUnit
      BY <1>1, <2>1, PartIs, ElementOfSeq
    <3> HIDE DEF P
    <3>2. P[i] \in TranslationUnit
      BY <1>5, <3>1
    <3> QED BY <2>1, <3>1, <3>2, BehindType DEF P
  <2> DEFINE more == Append(done, u)
  <2>3. /\ more \in Seq(TranslationUnit) /\ Len(more) = n + 1 /\ more[n + 1] = u
        /\ \A k \in 1..n : more[k] = done[k]
    BY <2>1, <2>2, AppendProperties
  <2> HIDE DEF more
  <2>4. \A k \in 1..n : Part(c, lp, k) = Part(c, lo, k)
    <3> TAKE k \in 1..n
    <3>1. lp[k].src = lo[k].src /\ \A j \in 1..(k - 1) : lp[j] = lo[j]
      BY <1>1
    <3>2. Base(lp, k) = Base(lo, k)
      BY <1>1, <1>9, <3>1, BaseIs
    <3> QED BY <3>2 DEF Part
  <2>5. more[1] = Nothing
    BY <1>1, <2>1, <2>3
  <2>6. \A k \in 1..n : more[k + 1] = Behind(more[k], Part(c, lp, k)[Read(c, it, k) - 1])
    <3> TAKE k \in 1..n
    <3>1. CASE k = n
      <4>1. Read(c, it, k) - 1 = i
        BY <1>5, <1>6, <3>1
      <4> HIDE DEF i, s
      <4> QED BY <2>1, <2>3, <2>4, <3>1, <4>1
    <3>2. CASE k \in 1..(n - 1)
      <4>1. k \in 1..n /\ k + 1 \in 1..n /\ Read(c, it, k) = Read(c, is, k)
        BY <1>1, <1>6, <3>2
      <4> HIDE DEF i, s
      <4> QED BY <2>1, <2>3, <2>4, <3>2, <4>1
    <3> QED BY <1>1, <3>1, <3>2
  <2>7. u = Behind(more[n + 1], Part(c, lp, n + 1)[Read(c, it, n + 1)])
    <3>1. Part(c, lp, n + 1)[0] = Nothing
      <4>1. n + 1 \in 1..Len(lp)
        OBVIOUS
      <4> QED BY <1>10, <4>1, PartIs
    <3>2. Behind(u, Nothing) = u
      BY <2>2, BehindType
    <3> QED BY <1>8, <2>3, <3>1, <3>2
  <2>8. (n + 1) - 1 = n
    OBVIOUS
  <2> QED BY <2>3, <2>5, <2>6, <2>7, <2>8 DEF Added
<1> QED BY <1>10, <1>11, <1>12 DEF Scanned

\* What a whole file adds.
LEMMA WholePart ==
  ASSUME NEW c, NEW is, NEW lo, Stacks(c, is, lo), NEW n \in 1..Len(lo)
  PROVE  /\ Part(c, lo, n)[Len(c[is[n].file])]
              = Expand(c)[Cardinality(Files) - (n - 1)][Base(lo, n)]
         /\ Cardinality(Files) \in Nat
<1> DEFINE N == Cardinality(Files)
           d == N - (n - 1)
           at == Base(lo, n)
<1>1. /\ c \in [Files -> Seq(Lexeme)] /\ lo \in Seq(Position) /\ Len(lo) \in 1..N
      /\ is[n].file = lo[n].src
  BY DEF Stacks
<1>2. at \in At /\ Last(at).src = is[n].file
  BY <1>1, BaseIs
<1>3. N \in Nat /\ d \in 1..N /\ d - 1 = N - n
  <2>1. N \in Nat
    BY <1>1, ExpandIs
  <2> HIDE DEF N
  <2>2. n \in 1..N
    BY <1>1, <2>1
  <2> QED BY <2>1, <2>2
<1> HIDE DEF at, d
<1>4. Expand(c)[d][at] = Upto(c, at, Expand(c)[d - 1])[Len(c[Last(at).src])]
  BY <1>1, <1>2, <1>3, ExpandIs
<1> QED BY <1>2, <1>3, <1>4 DEF Part, at, d

\* An included file ends: what it has added is what its include stands for.
LEMMA Leave ==
  ASSUME NEW c, NEW is, NEW lo, NEW u, Scanned(c, is, lo, u), NEW n \in Nat, n = Len(lo),
         n > 1, is[n].rest = <<>>,
         NEW it, Shortens(Stream, is, it, n), NEW lp, Shortens(Position, lo, lp, n)
  PROVE  Scanned(c, it, lp, u)
<1>a. /\ it \in Seq(Stream) /\ Len(it) = n - 1 /\ \A k \in 1..(n - 1) : it[k] = is[k]
      /\ lp \in Seq(Position) /\ Len(lp) = n - 1 /\ \A k \in 1..(n - 1) : lp[k] = lo[k]
  BY DEF Shortens
<1> USE <1>a
<1> DEFINE m == n - 1
           N == Cardinality(Files)
           s == c[is[m].file]
           i == Read(c, is, m)
           f == is[n].file
           e == Expand(c)[N - m]
           P == Part(c, lo, m)
<1>1. /\ Stacks(c, is, lo) /\ Placed(c, is, lo) /\ Added(c, is, lo, u)
      /\ is \in Seq(Stream) /\ lo \in Seq(Position) /\ Len(is) = n /\ c \in [Files -> Seq(Lexeme)]
      /\ \A k \in 1..n : is[k].file = lo[k].src
  <2> HIDE DEF m, N, s, i, f, e, P
  <2>1. Stacks(c, is, lo) /\ Placed(c, is, lo) /\ Added(c, is, lo, u)
    BY DEF Scanned
  <2> QED BY <2>1 DEF Stacks
<1>2. /\ m \in Nat /\ m # 0 /\ m + 1 = n /\ m \in 1..n /\ n \in 1..n
      /\ \A k \in 1..m : k \in 1..n /\ (k = m \/ k \in 1..(m - 1))
      /\ \A k \in 1..(m - 1) : k \in 1..m /\ k + 1 \in 1..m
  OBVIOUS
<1>3. /\ \A k \in 1..n :
           /\ Left(c[is[k].file], is[k].rest, Read(c, is, k))
           /\ lo[k].line = 1 + Cardinality(Breaks(c[is[k].file], Read(c, is, k)))
      /\ \A k \in 1..m :
           LET y == c[is[k].file][Read(c, is, k)]
           IN Read(c, is, k) # 0 /\ y.kind = "include" /\ y.file = is[k + 1].file
  BY <1>1 DEF Placed
<1>4. /\ Len(it) = m /\ Len(lp) = m
      /\ \A k \in 1..m : it[k] = is[k] /\ lp[k] = lo[k] /\ Read(c, it, k) = Read(c, is, k)
  BY DEF Read
<1> HIDE DEF m
<1>5. Stacks(c, it, lp)
  <2>1. m \in 1..N
    <3>1. n \in 1..N /\ N \in Nat
      BY <1>1, <1>2, WholePart DEF Stacks
    <3> HIDE DEF N
    <3> QED BY <1>2, <3>1
  <2>2. \A k \in 1..m : it[k].file = lp[k].src
    BY <1>1, <1>2, <1>4
  <2> HIDE DEF s, i, f, e, P
  <2> QED BY <1>1, <1>4, <2>1, <2>2 DEF Stacks
<1>6. Placed(c, it, lp)
  <2>1. \A k \in 1..m :
          /\ Left(c[it[k].file], it[k].rest, Read(c, it, k))
          /\ lp[k].line = 1 + Cardinality(Breaks(c[it[k].file], Read(c, it, k)))
    BY <1>2, <1>3, <1>4
  <2>2. \A k \in 1..(m - 1) :
          LET y == c[it[k].file][Read(c, it, k)]
          IN Read(c, it, k) # 0 /\ y.kind = "include" /\ y.file = it[k + 1].file
    BY <1>2, <1>3, <1>4
  <2> QED BY <1>4, <2>1, <2>2 DEF Placed
<1>7. /\ s \in Seq(Lexeme) /\ i \in 1..Len(s) /\ s[i].kind = "include" /\ s[i].file = f
      /\ i - 1 \in Nat /\ i \in Nat /\ Len(s) \in Nat /\ i - 1 \in 0..Len(s)
  <2>1. s \in Seq(Lexeme) /\ is[m].rest \in Seq(Lexeme)
    <3>1. is[m] \in Stream
      BY <1>1, <1>2, ElementOfSeq
    <3> QED BY <1>1, <1>2, <3>1, PartIs DEF Stream
  <2>2. Left(s, is[m].rest, i) /\ i # 0 /\ s[i].kind = "include" /\ s[i].file = f
    BY <1>2, <1>3
  <2>3. Len(s) \in Nat /\ Len(is[m].rest) \in Nat
    BY <2>1, LenProperties
  <2> DEFINE l == Len(is[m].rest)
             q == Len(s)
  <2>4. i \in Nat /\ i + l = q
    BY <2>2 DEF Left
  <2> HIDE DEF i, l, q
  <2>5. i \in 1..q /\ i - 1 \in Nat /\ i - 1 \in 0..q
    BY <2>2, <2>3, <2>4 DEF l, q
  <2> QED BY <2>1, <2>2, <2>3, <2>4, <2>5 DEF q
<1>8. /\ P \in [0..Len(s) -> TranslationUnit]
      /\ P[i] = Behind(P[i - 1], Adds(Here(c, Base(lo, m), i), s[i], e))
      /\ e \in [At -> TranslationUnit]
  BY <1>1, <1>2, <1>7, PartIs
<1>9. Here(c, Base(lo, m), i) = lp
  <2>1. lp[m].line = 1 + Cardinality(Breaks(c[it[m].file], i - 1))
    <3>1. lp[m].line = 1 + Cardinality(Breaks(s, i)) /\ it[m].file = is[m].file
      BY <1>2, <1>3, <1>4
    <3>2. Cardinality(Breaks(s, (i - 1) + 1)) = Cardinality(Breaks(s, i - 1))
      <4>1. /\ Cardinality(Breaks(s, i - 1)) \in Nat
            /\ Cardinality(Breaks(s, (i - 1) + 1))
                 = Cardinality(Breaks(s, i - 1))
                     + IF s[(i - 1) + 1].kind = "newline" THEN 1 ELSE 0
        BY <1>7, BreaksStep
      <4>2. s[(i - 1) + 1].kind # "newline"
        <5>1. (i - 1) + 1 = i
          BY <1>7
        <5> QED BY <1>7, <5>1
      <4> HIDE DEF s, i
      <4> QED BY <4>1, <4>2
    <3>3. (i - 1) + 1 = i
      BY <1>7
    <3> QED BY <3>1, <3>2, <3>3
  <2>2. Base(lp, m) = Base(lo, m)
    <3>1. m \in 1..Len(lo) /\ m <= Len(lp) /\ lp[m].src = lo[m].src /\ \A j \in 1..(m - 1) : lp[j] = lo[j]
      BY <1>2, <1>4
    <3> QED BY <1>1, <3>1, BaseIs
  <2> DEFINE j == i - 1
  <2>3. j \in Nat /\ j + 1 = i /\ m \in Nat /\ m = Len(lp)
    BY <1>2, <1>4, <1>7
  <2>4. lp[m].line = 1 + Cardinality(Breaks(c[it[m].file], j))
    BY <2>1
  <2> HIDE DEF i, j, s, e, P
  <2>5. Here(c, Base(lp, m), j + 1) = lp
    BY <1>5, <2>3, <2>4, TopIsHere
  <2> QED BY <2>2, <2>3, <2>5
<1>10. Adds(lp, s[i], e) = e[Base(lo, n)]
  <2>1. Adds(lp, s[i], e) = e[Append(lp, Start(f))]
    BY <1>7 DEF Adds
  <2>2. Append(lp, Start(f)) = Base(lo, n)
    <3> DEFINE b == SubSeq(lo, 1, n - 1)
    <3>1. b \in Seq(Position) /\ Len(b) = n - 1 /\ \A j \in 1..(n - 1) : b[j] = lo[j]
      BY <1>1, <1>2, BelowIs
    <3>2. f = lo[n].src
      BY <1>1, <1>2
    <3> HIDE DEF b
    <3>3. b = lp
      BY <3>1, SeqEqual
    <3> QED BY <3>2, <3>3 DEF Base, b
  <2> QED BY <2>1, <2>2
<1>11. Part(c, lo, n)[Read(c, is, n)] = e[Base(lo, n)]
  <2>1. Read(c, is, n) = Len(c[f])
    <3>1. is[n] \in Stream /\ is[n].rest = <<>> /\ c[f] \in Seq(Lexeme)
      BY <1>1, <1>2, ElementOfSeq, PartIs
    <3>2. Len(c[f]) \in Nat /\ Len(is[n].rest) = 0
      BY <3>1, EmptySeq, LenProperties
    <3>3. Read(c, is, n) = Len(c[f]) - Len(is[n].rest)
      BY DEF Read
    <3> QED BY <3>2, <3>3
  <2>2. n \in 1..Len(lo) /\ n - 1 = m
    BY <1>2 DEF m
  <2>3. Stacks(c, is, lo) /\ f = is[n].file /\ e = Expand(c)[N - m]
    BY <1>1
  <2> HIDE DEF f, e, m, s, i, P
  <2>4. Part(c, lo, n)[Len(c[is[n].file])] = Expand(c)[N - (n - 1)][Base(lo, n)]
    BY <2>2, <2>3, WholePart
  <2> QED BY <2>1, <2>2, <2>3, <2>4
<1>12. Added(c, it, lp, u)
  <2>1. PICK done \in Seq(TranslationUnit) :
          /\ Len(done) = n /\ done[1] = Nothing
          /\ \A k \in 1..m :
               done[k + 1] = Behind(done[k], Part(c, lo, k)[Read(c, is, k) - 1])
          /\ u = Behind(done[n], Part(c, lo, n)[Read(c, is, n)])
    BY <1>1 DEF Added, m
  <2> DEFINE b == e[Base(lo, n)]
             p == P[i - 1]
             t == done[m]
  <2>2. b \in TranslationUnit
    <3>1. Base(lo, n) \in At
      BY <1>1, <1>2, BaseIs
    <3> QED BY <1>8, <3>1
  <2>3. p \in TranslationUnit
    BY <1>7, <1>8
  <2>4. t \in TranslationUnit
    BY <1>2, <2>1, ElementOfSeq
  <2>5. P[i] = Behind(p, b)
    BY <1>8, <1>9, <1>10
  <2>6. u = Behind(Behind(t, p), b)
    <3>1. u = Behind(done[n], b)
      BY <1>11, <2>1
    <3>2. done[m + 1] = Behind(t, p)
      BY <1>2, <2>1
    <3> HIDE DEF b, t, p
    <3> QED BY <1>2, <3>1, <3>2
  <2>7. u = Behind(done[m], P[i])
    <3> HIDE DEF b, p, t
    <3>1. Behind(Behind(t, p), b) = Behind(t, Behind(p, b))
      BY <2>2, <2>3, <2>4, BehindType
    <3> QED BY <2>5, <2>6, <3>1 DEF t
  <2> DEFINE less == SubSeq(done, 1, m)
  <2>8. /\ less \in Seq(TranslationUnit) /\ Len(less) = m
        /\ \A k \in 1..m : less[k] = done[k]
    BY <1>2, <2>1, SubSeqProperties
  <2> HIDE DEF less
  <2>9. \A k \in 1..m : Part(c, lp, k) = Part(c, lo, k)
    <3> TAKE k \in 1..m
    <3>1. k \in 1..Len(lo) /\ k <= Len(lp) /\ lp[k].src = lo[k].src /\ \A j \in 1..(k - 1) : lp[j] = lo[j]
      BY <1>2, <1>4
    <3>2. Base(lp, k) = Base(lo, k)
      BY <1>1, <3>1, BaseIs
    <3> QED BY <3>2 DEF Part
  <2>10. less[1] = Nothing
    BY <1>2, <2>1, <2>8
  <2>11. \A k \in 1..(m - 1) : less[k + 1] = Behind(less[k], Part(c, lp, k)[Read(c, it, k) - 1])
    BY <1>2, <1>4, <2>1, <2>8, <2>9
  <2>12. u = Behind(less[m], Part(c, lp, m)[Read(c, it, m)])
    BY <1>2, <1>4, <2>7, <2>8, <2>9
  <2> QED BY <1>4, <2>8, <2>10, <2>11, <2>12 DEF Added
<1> QED BY <1>5, <1>6, <1>12 DEF Scanned

\* A stack on which no file is twice is at most as high as there are files.
LEMMA Shallow ==
  ASSUME NEW lo \in Seq(Position), \A i, j \in 1..Len(lo) : lo[i].src = lo[j].src => i = j
  PROVE  Len(lo) <= Cardinality(Files) /\ Cardinality(Files) \in Nat
<1> DEFINE n == Len(lo)
           g == [i \in 1..n |-> lo[i].src]
<1>1. n \in Nat
  BY LenProperties
<1>2. \A i \in 1..n : lo[i].src \in Files
  <2>1. \A i \in 1..n : lo[i] \in Position
    BY ElementOfSeq
  <2> QED BY <2>1 DEF Position
<1>3. g \in Injection(1..n, Files)
  BY <1>2 DEF Injection, IsInjective
<1> HIDE DEF g, n
<1>4. Cardinality(1..n) <= Cardinality(Files)
  BY <1>3, FilesAssumption, FS_Injection
<1>5. Cardinality(1..n) = n
  BY <1>1, FS_Interval
<1> QED BY <1>4, <1>5, FilesAssumption, FS_CardinalityType DEF n

\* The file of a unit begins.
LEMMA Begin ==
  ASSUME NEW c \in [Files -> Seq(Lexeme)], NEW f \in Files
  PROVE  Scanned(c, <<[file |-> f, rest |-> c[f]]>>, <<Start(f)>>, Nothing)
<1> DEFINE is == <<[file |-> f, rest |-> c[f]]>>
           lo == <<Start(f)>>
<1>1. c[f] \in Seq(Lexeme) /\ Len(c[f]) \in Nat
  BY LenProperties
<1>2. /\ is \in Seq(Stream) /\ lo \in Seq(Position) /\ Len(is) = 1 /\ Len(lo) = 1
      /\ is[1] = [file |-> f, rest |-> c[f]] /\ lo[1] = Start(f)
  <2>1. [file |-> f, rest |-> c[f]] \in Stream /\ Start(f) \in Position
    BY <1>1 DEF Stream, Start, Position
  <2> QED BY <2>1
<1> HIDE DEF is, lo
<1>3. Stacks(c, is, lo)
  <2>1. 1 <= Cardinality(Files) /\ Cardinality(Files) \in Nat
    <3>1. \A i, j \in 1..Len(lo) : lo[i].src = lo[j].src => i = j
      BY <1>2
    <3>2. Len(lo) <= Cardinality(Files) /\ Cardinality(Files) \in Nat
      BY <1>2, <3>1, Shallow
    <3> QED BY <1>2, <3>2
  <2> QED BY <1>2, <2>1 DEF Stacks, Start
<1>4. Read(c, is, 1) = 0
  <2>1. Read(c, is, 1) = Len(c[f]) - Len(c[f])
    BY <1>2 DEF Read
  <2> QED BY <1>1, <2>1
<1>5. Placed(c, is, lo)
  <2>1. Left(c[f], c[f], 0)
    BY <1>1 DEF Left
  <2>2. Cardinality(Breaks(c[f], 0)) = 0
    BY BreaksStep
  <2>3. lo[1].line = 1 + Cardinality(Breaks(c[f], 0))
    BY <1>2, <2>2 DEF Start
  <2>4. \A k \in 1..Len(lo) : k = 1
    BY <1>2
  <2>5. 1..(Len(lo) - 1) = {}
    BY <1>2
  <2>6. is[1].file = f /\ is[1].rest = c[f]
    BY <1>2
  <2> QED BY <1>2, <1>4, <2>1, <2>3, <2>4, <2>5, <2>6 DEF Placed
<1>6. Added(c, is, lo, Nothing)
  <2> DEFINE done == <<Nothing>>
  <2>1. Nothing \in TranslationUnit
    BY EmptySeq DEF Nothing, TranslationUnit
  <2>2. done \in Seq(TranslationUnit) /\ Len(done) = 1 /\ done[1] = Nothing
    BY <2>1
  <2>3. Part(c, lo, 1)[0] = Nothing
    <3>1. 1 \in 1..Len(lo)
      BY <1>2
    <3> QED BY <1>3, <3>1, PartIs
  <2>4. Behind(Nothing, Nothing) = Nothing
    BY <2>1, BehindType
  <2>5. 1..(Len(lo) - 1) = {}
    BY <1>2
  <2> HIDE DEF done
  <2> QED BY <1>2, <1>4, <2>2, <2>3, <2>4, <2>5 DEF Added
<1> QED BY <1>3, <1>5, <1>6 DEF Scanned, is, lo

\* The file of a unit has been read.
LEMMA Finish ==
  ASSUME NEW c, NEW is, NEW lo, NEW u, Scanned(c, is, lo, u), Len(lo) = 1,
         is[1].rest = <<>>
  PROVE  u = Expansion(c, is[1].file)
<1> DEFINE f == is[1].file
           N == Cardinality(Files)
<1>1. /\ Stacks(c, is, lo) /\ Added(c, is, lo, u)
      /\ is \in Seq(Stream) /\ lo \in Seq(Position) /\ Len(is) = 1 /\ 1 \in 1..Len(lo)
      /\ is[1].file = lo[1].src /\ c \in [Files -> Seq(Lexeme)]
  <2> HIDE DEF f, N
  <2>1. Stacks(c, is, lo) /\ Added(c, is, lo, u)
    BY DEF Scanned
  <2> QED BY <2>1 DEF Stacks
<1>2. is[1] \in Stream /\ f \in Files /\ c[f] \in Seq(Lexeme)
  <2>1. is[1] \in Stream
    BY <1>1, ElementOfSeq
  <2>2. f \in Files
    BY <2>1 DEF Stream
  <2> QED BY <1>1, <2>1, <2>2
<1>3. Read(c, is, 1) = Len(c[f])
  <2>1. Read(c, is, 1) = Len(c[f]) - Len(is[1].rest)
    BY DEF Read
  <2>2. Len(is[1].rest) = 0 /\ Len(c[f]) \in Nat
    BY <1>2, EmptySeq, LenProperties
  <2> QED BY <2>1, <2>2
<1>4. Part(c, lo, 1)[Len(c[f])] = Expand(c)[N][Base(lo, 1)] /\ Expand(c)[N] \in [At -> TranslationUnit]
  <2>1. /\ Part(c, lo, 1)[Len(c[f])] = Expand(c)[N - (1 - 1)][Base(lo, 1)] /\ N \in Nat
    BY <1>1, WholePart
  <2>2. N - (1 - 1) = N /\ N \in 0..N
    BY <2>1
  <2>3. Expand(c) \in [0..N -> [At -> TranslationUnit]]
    BY <1>1, ExpandIs
  <2> HIDE DEF N
  <2> QED BY <2>1, <2>2, <2>3
<1>5. Base(lo, 1) = <<Start(f)>>
  <2>1. SubSeq(lo, 1, 1 - 1) = <<>>
    <3> DEFINE b == SubSeq(lo, 1, 1 - 1)
    <3>1. b \in Seq(Position) /\ Len(b) = 1 - 1
      BY <1>1, BelowIs
    <3> HIDE DEF b
    <3>2. b = <<>>
      BY <3>1, EmptySeq
    <3> QED BY <3>2 DEF b
  <2>2. lo[1].src = f
    BY <1>1
  <2> HIDE DEF f
  <2>3. Append(<<>>, Start(f)) = <<Start(f)>>
    OBVIOUS
  <2> QED BY <2>1, <2>2, <2>3 DEF Base
<1>6. PICK done \in Seq(TranslationUnit) :
        /\ done[1] = Nothing /\ u = Behind(done[1], Part(c, lo, 1)[Read(c, is, 1)])
  BY <1>1 DEF Added
<1>7. Base(lo, 1) \in At
  BY <1>1, BaseIs
<1> DEFINE p == Expand(c)[N][Base(lo, 1)]
<1>8. p \in TranslationUnit /\ u = Behind(Nothing, p)
  BY <1>3, <1>4, <1>6, <1>7
<1> HIDE DEF p, f, N
<1>9. u = p
  BY <1>8, BehindType
<1> QED BY <1>5, <1>9 DEF Expansion, p, f, N

-----------------------------------------------------------------------------
(* The scanner of Frontend.                                                 *)

\* The unit that is being scanned has what has been read.
InProgress ==
  status = "running" /\ istreams # <<>> => Scanned(contents, istreams, loc, ThisUnit)

WInv == UInv /\ WholeUnits /\ InProgress

LEMMA ThrowWhole ==
  ASSUME WInv, NEW us, Throw(us)
  PROVE  WholeUnits' /\ InProgress'
<1>1. ~AllReturned'
  BY ResultsGrow DEF Throw, WInv, UInv, FInv, TypeOK
<1> QED BY <1>1 DEF Throw, WholeUnits, InProgress

LEMMA UndefinedWhole ==
  ASSUME WInv, Undefined
  PROVE  WholeUnits' /\ InProgress'
<1>1. /\ status' = "ub" /\ contents' = contents /\ units' = units /\ results' = results
      /\ calls' = calls /\ istreams' = istreams
  BY DEF Undefined, scanner
<1>2. BeingScanned' = BeingScanned /\ AllReturned' = AllReturned
  BY <1>1 DEF BeingScanned, AllReturned
<1>3. WholeUnits'
  BY <1>1, <1>2 DEF WInv, WholeUnits
<1> QED BY <1>1, <1>3 DEF InProgress

\* While a file is scanned the other units stay.
LEMMA OthersWhole ==
  ASSUME WInv, Scanning, UNCHANGED <<contents, results, calls>>, istreams' # <<>>,
         DOMAIN units' = DOMAIN units,
         \A g \in DOMAIN units : g # ThisFile => units'[g] = units[g]
  PROVE  WholeUnits'
<1>1. BeingScanned = {ThisFile} /\ BeingScanned' = {ThisFile}
  BY DEF BeingScanned, Scanning, ThisFile
<1>2. AllReturned' = AllReturned
  BY DEF AllReturned
<1>3. \A g \in DOMAIN units' \ BeingScanned' : units'[g] = units[g] /\ g \in DOMAIN units \ BeingScanned
  BY <1>1
<1> QED BY <1>2, <1>3 DEF WInv, WholeUnits

\* The scanner's stacks.
LEMMA TopIs ==
  ASSUME WInv, Scanning
  PROVE  /\ Scanned(contents, istreams, loc, ThisUnit) /\ FInv
         /\ Len(istreams) \in Nat \ {0} /\ Len(loc) = Len(istreams)
         /\ istreams[Len(istreams)].rest = Rest /\ Rest \in Seq(Lexeme)
         /\ ThisUnit \in TranslationUnit /\ ThisFile \in DOMAIN units
<1>1. FInv
  BY DEF WInv, UInv
<1>2. Scanned(contents, istreams, loc, ThisUnit)
  BY DEF WInv, InProgress, Scanning
<1> QED BY <1>1, <1>2, ScannerType, FrontType DEF Rest, Last

LEMMA ConsumedIs ==
  ASSUME WInv, NEW kind, Upcoming(kind), NEW n \in Nat, n = Len(istreams)
  PROVE  /\ Consumed \in Seq(Stream) /\ Len(Consumed) = n
         /\ Consumed[n].file = istreams[n].file /\ Consumed[n].rest = Tail(istreams[n].rest)
         /\ \A k \in 1..(n - 1) : Consumed[k] = istreams[k]
         /\ Consumed # <<>> /\ n # 0
<1> DEFINE x == [Last(istreams) EXCEPT !.rest = Tail(Rest)]
<1>1. Scanning /\ FInv
  BY DEF Upcoming, WInv, UInv
<1>2. /\ istreams \in Seq(Stream) /\ istreams # <<>> /\ Last(istreams) \in Stream
      /\ Last(istreams) = istreams[n] /\ Rest \in Seq(Lexeme) /\ Rest # <<>> /\ n # 0
  BY <1>1, ScannerType, FrontType DEF Upcoming, Last
<1>3. x \in Stream /\ x.file = istreams[n].file /\ x.rest = Tail(istreams[n].rest)
  <2>1. Tail(Rest) \in Seq(Lexeme)
    BY <1>2
  <2>2. \A l \in Stream : \A r \in Seq(Lexeme) : /\ [l EXCEPT !.rest = r] \in Stream
                                                 /\ [l EXCEPT !.rest = r].file = l.file
                                                 /\ [l EXCEPT !.rest = r].rest = r
    BY DEF Stream
  <2>3. x \in Stream /\ x.file = Last(istreams).file /\ x.rest = Tail(Rest)
    BY <1>2, <2>1, <2>2
  <2> QED BY <1>2, <2>3 DEF Rest
<1>4. Consumed = SetLast(istreams, x)
  BY DEF Consumed
<1> HIDE DEF x
<1>5. /\ SetLast(istreams, x) \in Seq(Stream) /\ Len(SetLast(istreams, x)) = n
      /\ SetLast(istreams, x)[n] = x
      /\ \A i \in 1..n : i # n => SetLast(istreams, x)[i] = istreams[i]
  BY <1>2, <1>3, SetLastType
<1>6. Consumed # <<>>
  BY <1>2, <1>4, <1>5, EmptySeq
<1> QED BY <1>2, <1>3, <1>4, <1>5, <1>6

LEMMA UnitExcept ==
  ASSUME NEW u \in TranslationUnit, NEW a
  PROVE  /\ [u EXCEPT !.uses = a] = [uses |-> a, statements |-> u.statements]
         /\ [u EXCEPT !.statements = a] = [uses |-> u.uses, statements |-> a]
<1>1. u = [uses |-> u.uses, statements |-> u.statements]
  BY DEF TranslationUnit
<1> QED BY <1>1

\* A lexeme that is read adds what it adds to the unit, which becomes v.
LEMMA LexemeWhole ==
  ASSUME WInv, NEW kind, Upcoming(kind), kind # "include",
         UNCHANGED <<contents, status, results, calls>>, istreams' = Consumed,
         NEW v \in TranslationUnit, units' = SetUnit(ThisFile, v),
         v = Behind(ThisUnit, Adds(loc, Head(Rest), Included(contents, Len(loc)))),
         Moves(loc, loc', Len(loc), kind)
  PROVE  WholeUnits' /\ InProgress'
<1> DEFINE n == Len(loc)
           x == Head(Rest)
<1>1. Scanning /\ Rest # <<>> /\ x.kind = kind
  BY DEF Upcoming
<1>2. /\ Scanned(contents, istreams, loc, ThisUnit) /\ FInv
      /\ n \in Nat /\ n = Len(istreams) /\ istreams[n].rest = Rest
      /\ ThisFile \in DOMAIN units
  BY <1>1, TopIs
<1>3. /\ Consumed \in Seq(Stream) /\ Len(Consumed) = n
      /\ Consumed[n].file = istreams[n].file /\ Consumed[n].rest = Tail(istreams[n].rest)
      /\ \A k \in 1..(n - 1) : Consumed[k] = istreams[k]
      /\ Consumed # <<>>
  BY <1>2, ConsumedIs
<1>4. Scanned(contents, Consumed, loc', v)
  <2> DEFINE lp == loc'
  <2>1. Moves(loc, lp, n, x.kind)
    BY <1>1
  <2>2. n = Len(loc) /\ Takes(istreams, Consumed, n) /\ x = Head(istreams[n].rest)
    BY <1>1, <1>2, <1>3 DEF Takes
  <2>3. v = Behind(ThisUnit, Adds(loc, x, Included(contents, n)))
    OBVIOUS
  <2> HIDE DEF lp, n, x
  <2>4. Scanned(contents, Consumed, lp, v)
    BY <1>2, <2>1, <2>2, <2>3, Advance
  <2> QED BY <2>4 DEF lp
<1>5. ThisUnit' = v /\ ThisFile' = ThisFile
  BY DEF ThisUnit, ThisFile, SetUnit
<1>6. InProgress'
  BY <1>4, <1>5 DEF InProgress
<1>7. /\ DOMAIN units' = DOMAIN units
      /\ \A g \in DOMAIN units : g # ThisFile => units'[g] = units[g]
  BY <1>2 DEF SetUnit
<1>8. WholeUnits'
  BY <1>1, <1>3, <1>7, OthersWhole
<1> QED BY <1>6, <1>8

LEMMA StatementWhole ==
  ASSUME WInv, Statement
  PROVE  WholeUnits' /\ InProgress'
<1>1. Upcoming("statement") /\ Scanning
  BY DEF Statement, Upcoming
<1>2. FInv /\ loc \in Seq(Position) /\ ThisUnit \in TranslationUnit /\ Len(loc) \in Nat
  BY <1>1, TopIs, ScannerType
<1> DEFINE v == [ThisUnit EXCEPT !.statements = Append(@, loc)]
           e == Included(contents, Len(loc))
<1>3. v \in TranslationUnit
  BY <1>2, AppendProperties DEF TranslationUnit
<1>4. v = Behind(ThisUnit, Adds(loc, Head(Rest), e))
  <2>1. Adds(loc, Head(Rest), e) = [uses |-> {}, statements |-> <<loc>>]
    BY <1>1 DEF Adds, Upcoming
  <2>2. /\ ThisUnit = [uses |-> ThisUnit.uses, statements |-> ThisUnit.statements]
        /\ ThisUnit.statements \in Seq(Seq(Position))
    BY <1>2 DEF TranslationUnit
  <2>3. Append(ThisUnit.statements, loc) = ThisUnit.statements \o <<loc>>
    BY <1>2, <2>2, AppendIsConcat
  <2>4. v = [uses |-> ThisUnit.uses, statements |-> Append(ThisUnit.statements, loc)]
    BY <1>2, UnitExcept
  <2>5. ThisUnit.uses \cup {} = ThisUnit.uses
    OBVIOUS
  <2> HIDE DEF v
  <2>6. v = Behind(ThisUnit, [uses |-> {}, statements |-> <<loc>>])
    BY <2>3, <2>4, <2>5 DEF Behind
  <2> QED BY <2>1, <2>6
<1>5. /\ units' = SetUnit(ThisFile, v) /\ istreams' = Consumed /\ loc' = loc
      /\ UNCHANGED <<contents, status, results, calls>>
  BY DEF Statement
<1> HIDE DEF v, e
<1>7. Moves(loc, loc', Len(loc), "statement")
  <2>1. loc[Len(loc)].line \in Nat
    <3>1. Last(loc) \in Position
      BY <1>1, <1>2, ScannerType, FrontType
    <3> QED BY <3>1 DEF Last, Position
  <2> QED BY <1>2, <1>5, <2>1 DEF Moves
<1> QED BY <1>1, <1>2, <1>3, <1>4, <1>5, <1>7, LexemeWhole DEF e

LEMMA NewlineWhole ==
  ASSUME WInv, Newline
  PROVE  WholeUnits' /\ InProgress'
<1>1. Upcoming("newline") /\ Scanning
  BY DEF Newline, Upcoming
<1>2. /\ FInv /\ loc \in Seq(Position) /\ loc # <<>> /\ ThisUnit \in TranslationUnit
      /\ ThisFile \in DOMAIN units /\ Len(loc) \in Nat /\ Last(loc) \in Position
  BY <1>1, TopIs, ScannerType, FrontType
<1> DEFINE e == Included(contents, Len(loc))
           p == [Last(loc) EXCEPT !.line = @ + 1]
<1>3. ThisUnit = Behind(ThisUnit, Adds(loc, Head(Rest), e))
  <2>1. Adds(loc, Head(Rest), e) = Nothing
    BY <1>1 DEF Adds, Upcoming
  <2> QED BY <1>2, <2>1, BehindType
<1>4. units' = SetUnit(ThisFile, ThisUnit)
  <2>1. units' = units
    BY DEF Newline
  <2>2. units = [g \in DOMAIN units |-> units[g]]
    BY <1>2 DEF FInv, TypeOK
  <2>3. SetUnit(ThisFile, ThisUnit) = [g \in DOMAIN units |-> units[g]]
    BY <1>2 DEF SetUnit, ThisUnit
  <2> QED BY <2>1, <2>2, <2>3
<1>5. p \in Position /\ p.src = loc[Len(loc)].src /\ p.line = loc[Len(loc)].line + 1
  <2>1. \A q \in Position : /\ [q EXCEPT !.line = @ + 1] \in Position
                            /\ [q EXCEPT !.line = @ + 1].src = q.src
                            /\ [q EXCEPT !.line = @ + 1].line = q.line + 1
    BY DEF Position
  <2> QED BY <1>2, <2>1 DEF Last
<1>6. loc' = SetLast(loc, p) /\ istreams' = Consumed /\ UNCHANGED <<contents, status, results, calls>>
  BY DEF Newline
<1> HIDE DEF e, p
<1>7. /\ SetLast(loc, p) \in Seq(Position) /\ Len(SetLast(loc, p)) = Len(loc)
      /\ SetLast(loc, p)[Len(loc)] = p
      /\ \A i \in 1..Len(loc) : i # Len(loc) => SetLast(loc, p)[i] = loc[i]
  BY <1>2, <1>5, SetLastType
<1>8. /\ loc' \in Seq(Position) /\ Len(loc') = Len(loc)
      /\ loc'[Len(loc)] = p
      /\ \A k \in 1..(Len(loc) - 1) : loc'[k] = loc[k]
  BY <1>2, <1>6, <1>7
<1>9. Moves(loc, loc', Len(loc), "newline")
  BY <1>5, <1>8 DEF Moves
<1> QED BY <1>1, <1>2, <1>3, <1>4, <1>6, <1>9, LexemeWhole DEF e

LEMMA UseWhole ==
  ASSUME WInv, Use
  PROVE  WholeUnits' /\ InProgress'
<1>1. Upcoming("use") /\ Scanning
  BY DEF Use, Upcoming
<1>2. CASE Throw(units)
  BY <1>2, ThrowWhole
<1>3. CASE NumGraphemesFails
  BY <1>3, UndefinedWhole DEF NumGraphemesFails
<1>4. CASE /\ units' = SetUnit(ThisFile, [ThisUnit EXCEPT !.uses = @ \cup {Head(Rest).file}])
           /\ istreams' = Consumed
           /\ UNCHANGED <<contents, status, results, calls, loc, held>>
  <2> DEFINE x == Head(Rest)
             v == [ThisUnit EXCEPT !.uses = @ \cup {x.file}]
             e == Included(contents, Len(loc))
  <2>1. /\ FInv /\ loc \in Seq(Position) /\ loc # <<>> /\ ThisUnit \in TranslationUnit
        /\ Len(loc) \in Nat /\ Last(loc) \in Position
    BY <1>1, TopIs, ScannerType, FrontType
  <2>2. x.kind = "use" /\ x.file \in Files
    BY <1>1, <2>1, ConsumedType DEF Lexeme
  <2>3. v \in TranslationUnit
    BY <2>1, <2>2 DEF TranslationUnit
  <2>4. v = Behind(ThisUnit, Adds(loc, x, e))
    <3>1. Adds(loc, x, e) = [uses |-> {x.file}, statements |-> <<>>]
      BY <2>2 DEF Adds
    <3>2. ThisUnit.statements \in Seq(Seq(Position))
      BY <2>1 DEF TranslationUnit
    <3>3. ThisUnit.statements \o <<>> = ThisUnit.statements
      BY <3>2, ConcatEmptySeq
    <3>4. v = [uses |-> ThisUnit.uses \cup {x.file}, statements |-> ThisUnit.statements]
      BY <2>1, UnitExcept
    <3> HIDE DEF v
    <3>5. v = Behind(ThisUnit, [uses |-> {x.file}, statements |-> <<>>])
      BY <3>3, <3>4 DEF Behind
    <3> QED BY <3>1, <3>5
  <2>5. units' = SetUnit(ThisFile, v)
    BY <1>4
  <2> HIDE DEF v, e
  <2>7. Moves(loc, loc', Len(loc), "use")
    <3>1. loc[Len(loc)].line \in Nat
      BY <2>1 DEF Last, Position
    <3> QED BY <1>4, <2>1, <3>1 DEF Moves
  <2> QED BY <1>1, <1>4, <2>1, <2>3, <2>4, <2>5, <2>7, LexemeWhole DEF e
<1> QED BY <1>2, <1>3, <1>4 DEF Use

LEMMA IncludeWhole ==
  ASSUME WInv, Include
  PROVE  WholeUnits' /\ InProgress'
<1> DEFINE f == Head(Rest).file
           n == Len(loc)
           stream == [file |-> f, rest |-> contents[f]]
<1>1. Upcoming("include") /\ Scanning
  BY DEF Include, Upcoming
<1>2. CASE Throw(units)
  BY <1>2, ThrowWhole
<1>3. CASE NumGraphemesFails
  BY <1>3, UndefinedWhole DEF NumGraphemesFails
<1>4. CASE /\ ~Cyclic(f)
           /\ istreams' = Append(Consumed, stream)
           /\ loc' = Append(loc, Start(f))
           /\ UNCHANGED <<contents, units, status, results, calls, held>>
  <2>1. /\ Scanned(contents, istreams, loc, ThisUnit) /\ FInv
        /\ n \in Nat /\ n = Len(istreams) /\ istreams[n].rest = Rest
        /\ loc \in Seq(Position) /\ Rest # <<>> /\ Head(Rest).kind = "include"
    BY <1>1, TopIs, ScannerType DEF Upcoming
  <2>2. /\ Consumed \in Seq(Stream) /\ Len(Consumed) = n
        /\ Consumed[n].file = istreams[n].file /\ Consumed[n].rest = Tail(istreams[n].rest)
        /\ \A k \in 1..(n - 1) : Consumed[k] = istreams[k]
        /\ n # 0
    BY <1>1, <2>1, ConsumedIs
  <2>3. f \in Files
    BY <1>1, <2>1, ConsumedType DEF Lexeme
  <2>4. stream \in Stream /\ Start(f) \in Position
    BY <2>1, <2>3 DEF Stream, Start, Position, FInv, TypeOK
  <2> DEFINE it == Append(Consumed, stream)
             lp == Append(loc, Start(f))
  <2>5. Opens(contents, istreams, it, n, f)
    <3>1. /\ it \in Seq(Stream) /\ Len(it) = n + 1 /\ it[n + 1] = stream
          /\ \A k \in 1..n : it[k] = Consumed[k]
      BY <2>1, <2>2, <2>4, AppendProperties
    <3>2. n \in 1..n /\ \A k \in 1..(n - 1) : k \in 1..n
      BY <2>1, <2>2
    <3> HIDE DEF it
    <3> QED BY <2>1, <2>2, <3>1, <3>2 DEF Opens
  <2>6. Descends(loc, lp, n, f)
    <3>1. /\ lp \in Seq(Position) /\ Len(lp) = n + 1 /\ lp[n + 1] = Start(f)
          /\ \A k \in 1..n : lp[k] = loc[k]
      BY <2>1, <2>4, AppendProperties
    <3> HIDE DEF lp
    <3> QED BY <3>1 DEF Descends
  <2>7. n + 1 <= Cardinality(Files)
    <3>1. FInv'
      BY <1>1, <2>1, IncludeKeeps
    <3>2. lp \in Seq(Position) /\ Len(lp) = n + 1 /\ \A i, j \in 1..Len(lp) : lp[i].src = lp[j].src => i = j
      BY <1>4, <2>6, <3>1 DEF FInv, IncludeStack, Descends
    <3> HIDE DEF lp
    <3> QED BY <3>2, Shallow
  <2> HIDE DEF it, lp, n, f
  <2>8. Scanned(contents, it, lp, ThisUnit)
    BY <2>1, <2>3, <2>5, <2>6, <2>7, Enter DEF n
  <2>9. istreams' = it /\ loc' = lp /\ ThisUnit' = ThisUnit /\ contents' = contents
    BY <1>4 DEF it, lp, f, ThisUnit, ThisFile
  <2>10. InProgress'
    BY <2>8, <2>9 DEF InProgress
  <2>11. istreams' # <<>>
    <3>1. Len(it) = n + 1
      BY <2>5 DEF Opens
    <3> QED BY <2>1, <2>9, <3>1, EmptySeq
  <2>12. WholeUnits'
    BY <1>1, <1>4, <2>11, OthersWhole
  <2> QED BY <2>10, <2>12
<1> QED BY <1>2, <1>3, <1>4 DEF Include

\* When the unit's own file ends, the unit is whole.
LEMMA FileEndWhole ==
  ASSUME WInv, FileEnd
  PROVE  WholeUnits' /\ InProgress'
<1> DEFINE n == Len(istreams)
<1>1. Scanning /\ Rest = <<>>
  BY DEF FileEnd
<1>2. /\ Scanned(contents, istreams, loc, ThisUnit) /\ FInv
      /\ n \in Nat /\ n = Len(loc) /\ istreams[n].rest = <<>>
      /\ loc \in Seq(Position) /\ istreams \in Seq(Stream) /\ istreams # <<>> /\ loc # <<>>
  BY <1>1, TopIs, ScannerType
<1>3. CASE /\ Len(istreams) = 1
           /\ calls' = SetLast(calls, [Last(calls) EXCEPT !.pending = ThisUnit.uses])
           /\ NoScanner
           /\ UNCHANGED <<contents, units, status, results>>
  <2>1. ThisUnit = Expansion(contents, istreams[1].file)
    <3>1. Len(loc) = 1 /\ istreams[1].rest = <<>>
      BY <1>2, <1>3
    <3> QED BY <1>2, <3>1, Finish
  <2>2. istreams[1].file = ThisFile
    <3>1. istreams[1].file = loc[1].src /\ loc[1].src = calls[Len(calls)].file
      BY <1>2, <1>3 DEF FInv, IncludeStack
    <3> QED BY <3>1 DEF ThisFile, Last
  <2>3. BeingScanned = {ThisFile} /\ BeingScanned' = {}
    BY <1>1, <1>3 DEF BeingScanned, Scanning, ThisFile, NoScanner
  <2>4. AllReturned' = AllReturned
    BY <1>3 DEF AllReturned
  <2>5. \A g \in DOMAIN units : g = ThisFile \/ g \in DOMAIN units \ BeingScanned
    BY <2>3
  <2>6. AllReturned => \A g \in DOMAIN units : units[g] = Expansion(contents, g)
    BY <2>1, <2>2, <2>5 DEF WInv, WholeUnits, ThisUnit
  <2>7. WholeUnits'
    BY <1>3, <2>4, <2>6 DEF WholeUnits
  <2> QED BY <1>3, <2>7 DEF InProgress, NoScanner
<1>4. CASE /\ Len(istreams) > 1
           /\ istreams' = Front(istreams) /\ loc' = Outer
           /\ held' = IF held < Len(loc) - 1 THEN held ELSE Len(loc) - 2
           /\ UNCHANGED <<contents, units, status, results, calls>>
  <2> DEFINE it == Front(istreams)
             lp == Front(loc)
  <2>1. Shortens(Stream, istreams, it, n)
    BY <1>2, FrontType DEF Shortens
  <2>2. Shortens(Position, loc, lp, n)
    BY <1>2, FrontType DEF Shortens
  <2>3. istreams' = it /\ loc' = lp /\ ThisUnit' = ThisUnit /\ contents' = contents
    BY <1>4 DEF ThisUnit, ThisFile, Outer
  <2>4. n > 1
    BY <1>4
  <2> HIDE DEF it, lp, n
  <2>5. Scanned(contents, it, lp, ThisUnit)
    BY <1>2, <2>1, <2>2, <2>4, Leave
  <2>6. InProgress'
    BY <2>3, <2>5 DEF InProgress
  <2>7. istreams' # <<>>
    <3>1. Len(it) = n - 1
      BY <2>1 DEF Shortens
    <3> QED BY <1>2, <2>3, <2>4, <3>1, EmptySeq
  <2>8. WholeUnits'
    BY <1>1, <1>4, <2>7, OthersWhole
  <2> QED BY <2>6, <2>8
<1>5. CASE Undefined
  BY <1>5, UndefinedWhole
<1> QED BY <1>3, <1>4, <1>5 DEF FileEnd

-----------------------------------------------------------------------------
\* A unit that is new has nothing, and its file is at its beginning.
LEMMA ParseNewWhole ==
  ASSUME WInv, istreams = <<>>, NEW f \in Files, ~Known(f), NEW c \in Seq(Call), ParseNew(f, c)
  PROVE  WholeUnits' /\ InProgress'
<1> DEFINE us == SetUnit(f, [uses |-> {}, statements |-> <<>>])
           e == [file |-> f, pending |-> {}]
<1>1. CASE Throw(us)
  BY <1>1, ThrowWhole
<1>2. CASE /\ units' = us /\ status' = "running"
           /\ calls' = Append(c, e)
           /\ istreams' = <<[file |-> f, rest |-> contents[f]]>>
           /\ loc' = <<Start(f)>> /\ held' = 0
           /\ UNCHANGED <<contents, results>>
  <2>1. Last(calls') = e
    <3>1. e \in Call
      BY DEF Call
    <3>2. /\ Len(Append(c, e)) = Len(c) + 1 /\ Append(c, e)[Len(c) + 1] = e
      BY <3>1, AppendProperties
    <3> QED BY <1>2, <3>2 DEF Last
  <2>2. istreams' # <<>>
    BY <1>2
  <2>3. BeingScanned' = {f} /\ BeingScanned = {}
    BY <2>1, <2>2 DEF BeingScanned
  <2>4. AllReturned' = AllReturned
    BY <1>2 DEF AllReturned
  <2>5. \A g \in DOMAIN units' \ BeingScanned' :
          units'[g] = units[g] /\ g \in DOMAIN units \ BeingScanned
    BY <1>2, <2>3 DEF SetUnit
  <2>6. WholeUnits'
    BY <1>2, <2>4, <2>5 DEF WInv, WholeUnits
  <2>7. ThisUnit' = Nothing
    BY <1>2, <2>1 DEF ThisUnit, ThisFile, SetUnit, Nothing
  <2>8. contents \in [Files -> Seq(Lexeme)]
    BY DEF WInv, UInv, FInv, TypeOK
  <2>9. InProgress'
    BY <1>2, <2>7, <2>8, Begin DEF InProgress
  <2> QED BY <2>6, <2>9
<1> QED BY <1>1, <1>2 DEF ParseNew

LEMMA VisitUseWhole ==
  ASSUME WInv, VisitUse
  PROVE  WholeUnits' /\ InProgress'
<1>1. InLoop /\ FInv /\ istreams = <<>>
  BY DEF VisitUse, WInv, UInv, InLoop
<1>2. PICK f \in Last(calls).pending :
        LET c == SetLast(calls, [Last(calls) EXCEPT !.pending = Others(f)])
        IN \/ /\ Known(f) /\ calls' = c
              /\ UNCHANGED <<contents, units, status, results>> /\ UNCHANGED scanner
           \/ ~Known(f) /\ ParseNew(f, c)
  BY DEF VisitUse
<1> DEFINE c == SetLast(calls, [Last(calls) EXCEPT !.pending = Others(f)])
<1>3. f \in Files /\ Others(f) \in SUBSET Files /\ calls # <<>>
  BY <1>1, LoopType DEF Others, Call
<1>4. c \in Seq(Call)
  BY <1>1, <1>3, PendingChanges
<1> HIDE DEF c
<1>5. CASE /\ Known(f) /\ calls' = c
           /\ UNCHANGED <<contents, units, status, results>> /\ UNCHANGED scanner
  <2>1. istreams' = <<>>
    BY <1>1, <1>5 DEF scanner
  <2> QED BY <1>1, <1>5, <2>1 DEF WInv, WholeUnits, InProgress, BeingScanned, AllReturned
<1>6. CASE ~Known(f) /\ ParseNew(f, c)
  BY <1>1, <1>3, <1>4, <1>6, ParseNewWhole
<1> QED BY <1>2, <1>5, <1>6 DEF c

LEMMA ReturnWhole ==
  ASSUME WInv, Return
  PROVE  WholeUnits' /\ InProgress'
<1>1. FInv /\ istreams = <<>> /\ istreams' = <<>> /\ UNCHANGED <<contents, units>>
  BY DEF Return, WInv, UInv, InLoop, scanner
<1>2. AllReturned' => AllReturned
  BY ResultsGrow DEF Return, FInv, TypeOK, WInv, UInv, AllReturned
<1> QED BY <1>1, <1>2 DEF WInv, WholeUnits, InProgress, BeingScanned

LEMMA ParseWhole ==
  ASSUME WInv, NEW f \in Files, Parse(f)
  PROVE  WholeUnits' /\ InProgress'
<1>1. FInv /\ status = "idle" /\ calls = <<>>
  BY DEF Parse, WInv, UInv
<1>2. istreams = <<>>
  <2>1. loc = <<>>
    BY <1>1 DEF FInv, IncludeStack
  <2>2. istreams \in Seq(Stream) /\ Len(istreams) = 0
    BY <1>1, <2>1, EmptySeq DEF FInv, TypeOK, IncludeStack, Stream
  <2> QED BY <2>2, EmptySeq
<1>3. CASE /\ results' = Append(results, "return")
           /\ UNCHANGED <<contents, units, status, calls>> /\ UNCHANGED scanner
  <2>1. AllReturned' => AllReturned
    BY <1>1, <1>3, ResultsGrow DEF FInv, TypeOK
  <2> QED BY <1>1, <1>2, <1>3, <2>1 DEF WInv, WholeUnits, InProgress, BeingScanned, scanner
<1>4. CASE ~Known(f) /\ ParseNew(f, calls)
  <2>1. calls \in Seq(Call)
    BY <1>1 DEF FInv, TypeOK, Call
  <2> QED BY <1>2, <1>4, <2>1, ParseNewWhole
<1> QED BY <1>3, <1>4 DEF Parse

LEMMA WholeAlways == Spec => []WInv
<1>1. Init => WInv
  <2> SUFFICES ASSUME Init PROVE WInv
    OBVIOUS
  <2>1. UInv
    BY InitEstablishes, EmptySeq DEF UInv, Init, Closing
  <2>2. WholeUnits /\ InProgress
    BY DEF Init, WholeUnits, InProgress
  <2> QED BY <2>1, <2>2 DEF WInv
<1>2. WInv /\ [Next]_vars => WInv'
  <2> SUFFICES ASSUME WInv, [Next]_vars PROVE WInv'
    OBVIOUS
  <2>1. UInv'
    BY ClosingKeeps DEF WInv
  <2>2. WholeUnits' /\ InProgress'
    <3>1. CASE Statement
      BY <3>1, StatementWhole
    <3>2. CASE Newline
      BY <3>2, NewlineWhole
    <3>3. CASE Error
      BY <3>3, ThrowWhole DEF Error
    <3>4. CASE Use
      BY <3>4, UseWhole
    <3>5. CASE Include
      BY <3>5, IncludeWhole
    <3>6. CASE FileEnd
      BY <3>6, FileEndWhole
    <3>7. CASE VisitUse
      BY <3>7, VisitUseWhole
    <3>8. CASE Return
      BY <3>8, ReturnWhole
    <3>9. CASE \E f \in Files : Parse(f)
      BY <3>9, ParseWhole
    <3>10. CASE UNCHANGED vars
      BY <3>10 DEF WInv, WholeUnits, InProgress, BeingScanned, AllReturned, ThisUnit, ThisFile, vars
    <3> QED BY <3>1, <3>2, <3>3, <3>4, <3>5, <3>6, <3>7, <3>8, <3>9, <3>10 DEF Next, Step
  <2> QED BY <2>1, <2>2 DEF WInv
<1> QED BY <1>1, <1>2, PTL DEF Spec

\* As long as no call of parse has thrown, every unit in the table but the one that is
\* being scanned is what its file says with its includes put in place: every statement
\* and every use, in order, at the location where it is read.  No lexeme is read twice
\* or skipped when the scanner enters and leaves included files (Frontend::parse,
\* lexerInclude, lexerFileEnd, and the actions of scanner.l).
THEOREM UnitsAreWhole == Spec => []WholeUnits
<1>1. WInv => WholeUnits
  BY DEF WInv
<1> QED BY <1>1, WholeAlways, PTL

=============================================================================
