--------------------------- MODULE ConstEvalProofs --------------------------
(***************************************************************************)
(* Theorem about ConstEval, for every unit: fixAssignments leaves each     *)
(* name once, with its last value, in the order in which the names occur   *)
(* first.  Fixes, which says so of the whole scope, is also what the loop  *)
(* keeps true of the part that it has walked.                              *)
(***************************************************************************)
EXTENDS ConstEval, SequenceTheorems, TLAPS

-----------------------------------------------------------------------------
(* What a turn of the loop makes of the prefix it has walked. *)

\* An assignment overwrites the one of its name.
LEMMA FixesDuplicate ==
  ASSUME NEW a, NEW b, NEW s, NEW p \in Nat, NEW n \in Nat, NEW o \in 1..p,
         Fixes(a, p, s, n), a[o].ident = s[n + 1].ident,
         b[o] = s[n + 1], \A k \in 1..p : k # o => b[k] = a[k]
  PROVE  Fixes(b, p, s, n + 1)
<1>1. \A k \in 1..p : b[k].ident = a[k].ident
  OBVIOUS
<1>2. ASSUME NEW k \in 1..p, NEW l \in (k + 1)..p
      PROVE  a[k].ident # a[l].ident
  <2>1. PICK i \in 1..n : /\ s[i].ident = a[k].ident
                          /\ \A j \in 1..i : s[j].ident # a[l].ident
    BY DEF Fixes
  <2> QED BY <2>1
<1>3. ASSUME NEW k \in 1..p, k # o
      PROVE  a[k].ident # s[n + 1].ident
  <2>1. k \in (o + 1)..p \/ o \in (k + 1)..p
    BY <1>3
  <2> QED BY <2>1, <1>2
<1>4. ASSUME NEW i \in 1..(n + 1)
      PROVE  \E k \in 1..p : b[k].ident = s[i].ident
  <2>1. CASE i = n + 1
    BY <2>1, <1>1
  <2>2. CASE i # n + 1
    <3>1. i \in 1..n
      BY <2>2
    <3> QED BY <3>1, <1>1 DEF Fixes
  <2> QED BY <2>1, <2>2
<1>5. ASSUME NEW k \in 1..p
      PROVE  \E j \in 1..(n + 1) : b[k] = s[j] /\ IsLast(s, j, n + 1)
  <2>1. CASE k = o
    <3>1. b[k] = s[n + 1] /\ n + 1 \in 1..(n + 1) /\ IsLast(s, n + 1, n + 1)
      BY <2>1 DEF IsLast
    <3> QED BY <3>1
  <2>2. CASE k # o
    <3>1. PICK j \in 1..n : a[k] = s[j] /\ IsLast(s, j, n)
      BY DEF Fixes
    <3>2. s[j].ident # s[n + 1].ident
      BY <3>1, <2>2, <1>3
    <3>3. IsLast(s, j, n + 1) /\ j \in 1..(n + 1)
      BY <3>1, <3>2 DEF IsLast
    <3> QED BY <3>1, <3>3, <2>2
  <2> QED BY <2>1, <2>2
<1>6. ASSUME NEW k \in 1..p, NEW l \in (k + 1)..p
      PROVE  \E i \in 1..(n + 1) : /\ s[i].ident = b[k].ident
                                   /\ \A j \in 1..i : s[j].ident # b[l].ident
  <2>1. PICK i \in 1..n : /\ s[i].ident = a[k].ident
                          /\ \A j \in 1..i : s[j].ident # a[l].ident
    BY DEF Fixes
  <2>2. i \in 1..(n + 1) /\ l \in 1..p
    OBVIOUS
  <2> QED BY <2>1, <2>2, <1>1
<1> QED BY <1>4, <1>5, <1>6 DEF Fixes

\* An assignment with a new name stays.
LEMMA FixesFirstSeen ==
  ASSUME NEW a, NEW s, NEW p \in Nat, NEW n \in Nat,
         Fixes(a, p, s, n), a[p + 1] = s[n + 1],
         \A k \in 1..p : a[k].ident # s[n + 1].ident
  PROVE  Fixes(a, p + 1, s, n + 1)
<1>1. ASSUME NEW i \in 1..(n + 1)
      PROVE  \E k \in 1..(p + 1) : a[k].ident = s[i].ident
  <2>1. CASE i = n + 1
    <3>1. p + 1 \in 1..(p + 1) /\ a[p + 1].ident = s[i].ident
      BY <2>1
    <3> QED BY <3>1
  <2>2. CASE i # n + 1
    <3>1. PICK k \in 1..p : a[k].ident = s[i].ident
      BY <2>2 DEF Fixes
    <3>2. k \in 1..(p + 1)
      OBVIOUS
    <3> QED BY <3>1, <3>2
  <2> QED BY <2>1, <2>2
<1>2. ASSUME NEW k \in 1..(p + 1)
      PROVE  \E j \in 1..(n + 1) : a[k] = s[j] /\ IsLast(s, j, n + 1)
  <2>1. CASE k = p + 1
    <3>1. a[k] = s[n + 1] /\ n + 1 \in 1..(n + 1) /\ IsLast(s, n + 1, n + 1)
      BY <2>1 DEF IsLast
    <3> QED BY <3>1
  <2>2. CASE k # p + 1
    <3>1. k \in 1..p
      BY <2>2
    <3>2. PICK j \in 1..n : a[k] = s[j] /\ IsLast(s, j, n)
      BY <3>1 DEF Fixes
    <3>3. IsLast(s, j, n + 1) /\ j \in 1..(n + 1)
      BY <3>1, <3>2 DEF IsLast
    <3> QED BY <3>2, <3>3
  <2> QED BY <2>1, <2>2
<1>3. ASSUME NEW k \in 1..(p + 1), NEW l \in (k + 1)..(p + 1)
      PROVE  \E i \in 1..(n + 1) : /\ s[i].ident = a[k].ident
                                   /\ \A j \in 1..i : s[j].ident # a[l].ident
  <2>1. k \in 1..p
    OBVIOUS
  <2>2. CASE l = p + 1
    <3>1. PICK i \in 1..n : a[k] = s[i]
      BY <2>1 DEF Fixes
    <3>2. ASSUME NEW j \in 1..i
          PROVE  s[j].ident # a[l].ident
      <4> j \in 1..n
        OBVIOUS
      <4>1. PICK m \in 1..p : a[m].ident = s[j].ident
        BY DEF Fixes
      <4> QED BY <4>1, <2>2
    <3>3. i \in 1..(n + 1)
      OBVIOUS
    <3> QED BY <3>1, <3>2, <3>3
  <2>3. CASE l # p + 1
    <3>1. l \in (k + 1)..p
      BY <2>3
    <3>2. PICK i \in 1..n : /\ s[i].ident = a[k].ident
                            /\ \A j \in 1..i : s[j].ident # a[l].ident
      BY <2>1, <3>1 DEF Fixes
    <3>3. i \in 1..(n + 1)
      OBVIOUS
    <3> QED BY <3>2, <3>3
  <2> QED BY <2>2, <2>3
<1> QED BY <1>1, <1>2, <1>3 DEF Fixes

-----------------------------------------------------------------------------
(* The loop.  It has reached i in a, which was s: behind i nothing has     *)
(* changed but the place, before i is what s says so far, and seen knows   *)
(* where.                                                                  *)

Removed(a, s) == Len(s) - Len(a)
Remembers(seen, a, p) ==
  /\ DOMAIN seen = {a[k].ident : k \in 1..p}
  /\ \A k \in 1..p : seen[a[k].ident] = k
Progress(a, i, seen, s) ==
  /\ a \in Seq(AssignNode) /\ s \in Seq(AssignNode) /\ Len(a) <= Len(s)
  /\ i \in 1..(Len(a) + 1)
  /\ \A k \in i..Len(a) : a[k] = s[k + Removed(a, s)]
  /\ Fixes(a, i - 1, s, i - 1 + Removed(a, s))
  /\ Remembers(seen, a, i - 1)

\* Before the first turn nothing has been walked.
LEMMA ProgressStart ==
  ASSUME NEW s \in Seq(AssignNode)
  PROVE  Progress(s, 1, <<>>, s)
<1>1. Removed(s, s) = 0 /\ Len(s) \in Nat
  BY DEF Removed
<1>2. Fixes(s, 0, s, 0)
  BY DEF Fixes
<1>3. Remembers(<<>>, s, 0)
  BY DEF Remembers
<1> QED BY <1>1, <1>2, <1>3 DEF Progress

\* Overwriting assignment o by assignment i, which is erased.
LEMMA OverwriteElements ==
  ASSUME NEW S, NEW a \in Seq(S), NEW i \in 1..Len(a), NEW o \in 1..(i - 1)
  PROVE  LET b == Overwrite(a, i, o)
         IN /\ b \in Seq(S) /\ Len(b) = Len(a) - 1
            /\ b[o] = a[i]
            /\ \A k \in 1..(i - 1) : k # o => b[k] = a[k]
            /\ \A k \in i..(Len(a) - 1) : b[k] = a[k + 1]
<1> DEFINE c == [a EXCEPT ![o] = a[i]]
           left == SubSeq(c, 1, i - 1)
           right == SubSeq(c, i + 1, Len(c))
<1>1. a[i] \in S /\ o \in 1..Len(a) /\ Len(a) \in Nat
  OBVIOUS
<1>2. c \in Seq(S) /\ Len(c) = Len(a)
  BY <1>1
<1>3. c[o] = a[i] /\ \A k \in 1..Len(a) : k # o => c[k] = a[k]
  BY <1>1
<1> HIDE DEF c
<1>4. left \in Seq(S) /\ Len(left) = i - 1 /\ \A k \in 1..(i - 1) : left[k] = c[k]
  BY <1>1, <1>2
<1>5. /\ right \in Seq(S) /\ Len(right) = Len(a) - i
      /\ \A k \in 1..(Len(a) - i) : right[k] = c[k + i]
  BY <1>1, <1>2
<1>6. Overwrite(a, i, o) = left \o right
  BY DEF Overwrite, RemoveAt, c
<1> HIDE DEF left, right
<1> DEFINE b == left \o right
<1>7. b \in Seq(S) /\ Len(b) = Len(a) - 1
  <2>1. b \in Seq(S) /\ Len(b) = Len(left) + Len(right)
    BY <1>4, <1>5, ConcatProperties
  <2> QED BY <2>1, <1>1, <1>4, <1>5
<1>8. \A k \in 1..(Len(a) - 1) : b[k] = IF k <= i - 1 THEN left[k] ELSE right[k - (i - 1)]
  <2>1. \A k \in 1..(Len(left) + Len(right)) :
          b[k] = IF k <= Len(left) THEN left[k] ELSE right[k - Len(left)]
    BY <1>4, <1>5, ConcatProperties
  <2> QED BY <2>1, <1>1, <1>4, <1>5
<1>9. ASSUME NEW k \in i..(Len(a) - 1)
      PROVE  b[k] = a[k + 1]
  <2>1. /\ k \in 1..(Len(a) - 1) /\ ~(k <= i - 1) /\ k - (i - 1) \in 1..(Len(a) - i)
        /\ k + 1 \in 1..Len(a) /\ k + 1 # o /\ k - (i - 1) + i = k + 1
    BY <1>1
  <2>2. b[k] = right[k - (i - 1)]
    BY <2>1, <1>8
  <2>3. right[k - (i - 1)] = c[k - (i - 1) + i]
    BY <2>1, <1>5
  <2> QED BY <2>1, <2>2, <2>3, <1>3
<1>10. ASSUME NEW k \in 1..(i - 1)
       PROVE  b[k] = c[k] /\ k \in 1..Len(a)
  BY <1>4, <1>8, <1>1
<1> QED BY <1>3, <1>6, <1>7, <1>9, <1>10

\* A turn that erases a duplicate makes progress.
LEMMA ProgressDuplicate ==
  ASSUME NEW a, NEW i, NEW seen, NEW s, Progress(a, i, seen, s),
         i <= Len(a), a[i].ident \in DOMAIN seen
  PROVE  Progress(Overwrite(a, i, seen[a[i].ident]), i, seen, s)
<1> DEFINE o == seen[a[i].ident]
           b == Overwrite(a, i, o)
           n == i - 1 + Removed(a, s)
<1>1. /\ a \in Seq(AssignNode) /\ s \in Seq(AssignNode) /\ Len(a) \in Nat /\ Len(s) \in Nat
      /\ Len(a) <= Len(s) /\ i \in 1..Len(a) /\ i - 1 \in Nat
      /\ Removed(a, s) \in Nat /\ n \in Nat
  BY DEF Progress, Removed
<1>2. PICK k \in 1..(i - 1) : a[k].ident = a[i].ident
  BY DEF Progress, Remembers
<1>3. o = k
  BY <1>2 DEF Progress, Remembers
<1>4. o \in 1..(i - 1) /\ a[o].ident = a[i].ident
  BY <1>2, <1>3
<1> HIDE DEF o
<1>5. /\ b \in Seq(AssignNode) /\ Len(b) = Len(a) - 1 /\ b[o] = a[i]
      /\ \A j \in 1..(i - 1) : j # o => b[j] = a[j]
      /\ \A j \in i..(Len(a) - 1) : b[j] = a[j + 1]
  BY <1>1, <1>4, OverwriteElements, ZenonT(30)
<1> HIDE DEF b
<1>6. Removed(b, s) = Removed(a, s) + 1
  BY <1>1, <1>5 DEF Removed
<1>7. a[i] = s[n + 1]
  BY <1>1 DEF Progress
<1>8. Fixes(b, i - 1, s, n + 1)
  <2>1. Fixes(a, i - 1, s, n)
    BY DEF Progress
  <2> HIDE DEF n
  <2> QED BY <2>1, <1>1, <1>4, <1>5, <1>7, FixesDuplicate
<1>9. i - 1 + Removed(b, s) = n + 1
  BY <1>1, <1>6
<1>10. ASSUME NEW j \in i..Len(b)
       PROVE  b[j] = s[j + Removed(b, s)]
  <2>1. b[j] = a[j + 1] /\ j + 1 \in i..Len(a)
    BY <1>1, <1>5
  <2>2. a[j + 1] = s[(j + 1) + Removed(a, s)]
    BY <2>1 DEF Progress
  <2>3. (j + 1) + Removed(a, s) = j + Removed(b, s)
    BY <1>1, <1>6
  <2> QED BY <2>1, <2>2, <2>3
<1>11. \A j \in 1..(i - 1) : b[j].ident = a[j].ident
  BY <1>4, <1>5
<1>12. Remembers(seen, b, i - 1)
  <2>1. Remembers(seen, a, i - 1)
    BY DEF Progress
  <2>2. {b[j].ident : j \in 1..(i - 1)} = {a[j].ident : j \in 1..(i - 1)}
    BY <1>11
  <2> QED BY <2>1, <2>2, <1>11 DEF Remembers
<1>13. Len(b) <= Len(s) /\ i \in 1..(Len(b) + 1)
  BY <1>1, <1>5
<1> QED BY <1>1, <1>5, <1>8, <1>9, <1>10, <1>12, <1>13 DEF Progress, b, o

\* A turn that meets a new name makes progress.
LEMMA ProgressFirstSeen ==
  ASSUME NEW a, NEW i, NEW seen, NEW s, Progress(a, i, seen, s),
         i <= Len(a), a[i].ident \notin DOMAIN seen
  PROVE  Progress(a, i + 1, [x \in DOMAIN seen \cup {a[i].ident} |->
                               IF x = a[i].ident THEN i ELSE seen[x]], s)
<1> DEFINE now == [x \in DOMAIN seen \cup {a[i].ident} |->
                     IF x = a[i].ident THEN i ELSE seen[x]]
           n == i - 1 + Removed(a, s)
<1>1. /\ a \in Seq(AssignNode) /\ s \in Seq(AssignNode) /\ Len(a) \in Nat /\ Len(s) \in Nat
      /\ Len(a) <= Len(s) /\ i \in 1..Len(a) /\ i - 1 \in Nat
      /\ Removed(a, s) \in Nat /\ n \in Nat
  BY DEF Progress, Removed
<1>2. Remembers(seen, a, i - 1) /\ Fixes(a, i - 1, s, n)
  BY DEF Progress
<1>3. \A k \in 1..(i - 1) : a[k].ident # a[i].ident
  BY <1>2 DEF Remembers
<1>4. a[i] = s[n + 1]
  BY <1>1 DEF Progress
<1>5. Fixes(a, i, s, n + 1)
  <2>1. (i - 1) + 1 = i
    BY <1>1
  <2> HIDE DEF n
  <2>2. Fixes(a, (i - 1) + 1, s, n + 1)
    BY <1>1, <1>2, <1>3, <1>4, <2>1, FixesFirstSeen
  <2> QED BY <2>1, <2>2
<1>6. Remembers(now, a, i)
  <2>1. DOMAIN now = {a[k].ident : k \in 1..i}
    <3>1. DOMAIN now = {a[k].ident : k \in 1..(i - 1)} \cup {a[i].ident}
      BY <1>2 DEF Remembers
    <3>2. 1..i = 1..(i - 1) \cup {i}
      BY <1>1
    <3> QED BY <3>1, <3>2
  <2>2. ASSUME NEW k \in 1..i
        PROVE  now[a[k].ident] = k
    <3>1. CASE k = i
      BY <3>1
    <3>2. CASE k # i
      <4>1. k \in 1..(i - 1)
        BY <3>2, <1>1
      <4>2. a[k].ident \in DOMAIN seen /\ seen[a[k].ident] = k
        BY <4>1, <1>2 DEF Remembers
      <4> QED BY <4>1, <4>2, <1>3
    <3> QED BY <3>1, <3>2
  <2> QED BY <2>1, <2>2 DEF Remembers
<1> HIDE DEF now
<1>7. (i + 1) - 1 = i /\ i + Removed(a, s) = n + 1 /\ i + 1 \in 1..(Len(a) + 1)
  BY <1>1
<1>8. \A k \in (i + 1)..Len(a) : a[k] = s[k + Removed(a, s)]
  BY <1>1 DEF Progress
<1>9. Progress(a, i + 1, now, s)
  BY <1>1, <1>5, <1>6, <1>7, <1>8 DEF Progress
<1> QED BY <1>9 DEF now

-----------------------------------------------------------------------------
(* The pass. *)

\* A unit and its scopes, of which nothing but the number is said.
Shaped(u, n) == /\ u = [functions |-> u.functions, scopes |-> u.scopes]
                /\ u.scopes = [c \in 1..n |-> u.scopes[c]]
SetScope(u, c, a) == [u EXCEPT !.scopes[c] = a]
Scopes == Len(parsed.scopes)

\* The scopes before this one are done, this one is in progress, and those behind
\* it are as they were.
FixInv ==
  /\ parsed.scopes \in Seq(Seq(AssignNode)) /\ Shaped(unit, Scopes)
  /\ scope \in Nat \ {0}
  /\ pass = "fix" =>
       /\ \A c \in (scope + 1)..Scopes : unit.scopes[c] = parsed.scopes[c]
       /\ scope <= Scopes =>
            Progress(unit.scopes[scope], index, localIndices, parsed.scopes[scope])

\* A unit of n scopes has n scopes.
LEMMA ShapedLen ==
  ASSUME NEW u, NEW n \in Nat, Shaped(u, n)
  PROVE  Len(u.scopes) = n
BY DEF Shaped

\* Replacing a scope leaves the others.
LEMMA ShapedScope ==
  ASSUME NEW u, NEW n \in Nat, Shaped(u, n), NEW c \in 1..n, NEW a
  PROVE  LET v == SetScope(u, c, a)
         IN
         /\ Shaped(v, n) /\ v.scopes[c] = a
         /\ \A d \in 1..n : d # c => v.scopes[d] = u.scopes[d]
<1>1. PICK f, t : u = [functions |-> f, scopes |-> t]
  BY DEF Shaped
<1>2. u.scopes = t /\ t = [d \in 1..n |-> t[d]]
  BY <1>1 DEF Shaped
<1> DEFINE w == [t EXCEPT ![c] = a]
           v == SetScope(u, c, a)
<1>3. /\ w = [d \in 1..n |-> w[d]] /\ w[c] = a
      /\ \A d \in 1..n : d # c => w[d] = t[d]
  BY <1>2
<1>4. v = [functions |-> f, scopes |-> w]
  BY <1>1 DEF SetScope
<1> HIDE DEF v, w
<1>5. v.functions = f /\ v.scopes = w
  BY <1>4
<1> QED BY <1>2, <1>3, <1>4, <1>5 DEF Shaped, v

\* The units the host hands over are of that shape.
LEMMA ShapedUnit ==
  ASSUME NEW u \in TranslationUnit
  PROVE  u.scopes \in Seq(Seq(AssignNode)) /\ Shaped(u, Len(u.scopes))
<1>1. u.scopes \in Seq(Seq(AssignNode)) /\ u = [functions |-> u.functions, scopes |-> u.scopes]
  BY DEF TranslationUnit
<1>2. u.scopes = [c \in 1..Len(u.scopes) |-> u.scopes[c]]
  BY <1>1
<1> QED BY <1>1, <1>2 DEF Shaped

\* So is what there is before the first one.
LEMMA ShapedNoUnit ==
  NoUnit.scopes \in Seq(Seq(AssignNode)) /\ Shaped(NoUnit, Len(NoUnit.scopes))
<1>1. NoUnit.scopes = <<<<>>>> /\ Len(NoUnit.scopes) = 1
  BY DEF NoUnit
<1>2. <<<<>>>> \in Seq(Seq(AssignNode))
  OBVIOUS
<1>3. NoUnit = [functions |-> NoUnit.functions, scopes |-> NoUnit.scopes]
  BY DEF NoUnit
<1>4. NoUnit.scopes = [c \in 1..1 |-> NoUnit.scopes[c]]
  BY <1>1
<1> QED BY <1>1, <1>2, <1>3, <1>4 DEF Shaped

\* FixInv holds when the evaluator is constructed.
LEMMA FixInit == FoldInit => FixInv
BY ShapedNoUnit DEF FoldInit, FixInv, Scopes

\* A new unit starts with its first scope.
LEMMA FixStart ==
  ASSUME FixInv, NEW u \in Units, FoldUnit(u)
  PROVE  FixInv'
<1>1. u.scopes \in Seq(Seq(AssignNode)) /\ Shaped(u, Len(u.scopes))
  BY UnitsAssumption, ShapedUnit
<1>2. unit' = u /\ parsed' = u /\ scope' = 1 /\ index' = 1 /\ localIndices' = <<>>
  BY DEF FoldUnit, NewScope
<1>3. ASSUME 1 <= Len(u.scopes)
      PROVE  Progress(u.scopes[1], 1, <<>>, u.scopes[1])
  <2>1. u.scopes[1] \in Seq(AssignNode)
    BY <1>1, <1>3
  <2> QED BY <2>1, ProgressStart
<1> QED BY <1>1, <1>2, <1>3 DEF FixInv, Scopes

\* The current assignments and their progress.
LEMMA FixHere ==
  ASSUME FixInv, AtAssignment
  PROVE  /\ scope \in 1..Scopes /\ Scopes \in Nat
         /\ Progress(assignments, index, localIndices, parsed.scopes[scope])
<1>1. Scopes \in Nat
  BY DEF FixInv, Scopes
<1>2. Len(unit.scopes) = Scopes
  BY <1>1, ShapedLen DEF FixInv
<1> QED BY <1>1, <1>2 DEF FixInv, AtAssignment, Fixing, assignments

\* Erasing a duplicate keeps FixInv.
LEMMA FixDuplicate ==
  ASSUME FixInv, Duplicate
  PROVE  FixInv'
<1>1. /\ AtAssignment /\ Known(index)
      /\ UNCHANGED <<parsed, pass, scope, index, localIndices>>
      /\ unit' = SetScope(unit, scope,
                     Overwrite(assignments, index, localIndices[assignments[index].ident]))
  BY DEF Duplicate, SetScope, assignments
<1>2. /\ scope \in 1..Scopes /\ Scopes \in Nat
      /\ Progress(assignments, index, localIndices, parsed.scopes[scope])
  BY <1>1, FixHere
<1> DEFINE a == Overwrite(assignments, index, localIndices[assignments[index].ident])
<1>3. Progress(a, index, localIndices, parsed.scopes[scope])
  BY <1>1, <1>2, ProgressDuplicate DEF AtAssignment, Known
<1>4. unit' = SetScope(unit, scope, a) /\ Shaped(unit, Scopes)
  BY <1>1 DEF FixInv
<1> HIDE DEF a
<1>5. /\ Shaped(unit', Scopes) /\ unit'.scopes[scope] = a
      /\ \A d \in 1..Scopes : d # scope => unit'.scopes[d] = unit.scopes[d]
  BY <1>2, <1>4, ShapedScope
<1>6. \A c \in (scope + 1)..Scopes : c \in 1..Scopes /\ c # scope
  BY <1>2
<1> QED BY <1>1, <1>2, <1>3, <1>5, <1>6 DEF FixInv, Scopes, AtAssignment, Fixing

\* Remembering a name keeps FixInv.
LEMMA FixFirstSeen ==
  ASSUME FixInv, FirstSeen
  PROVE  FixInv'
<1>1. AtAssignment /\ ~Known(index) /\ UNCHANGED <<unit, parsed, pass, scope>>
  BY DEF FirstSeen
<1>2. /\ scope \in 1..Scopes
      /\ Progress(assignments, index, localIndices, parsed.scopes[scope])
  BY <1>1, FixHere
<1>3. Progress(assignments, index', localIndices', parsed.scopes[scope])
  <2>1. /\ index' = index + 1
        /\ localIndices' = [x \in DOMAIN localIndices \cup {assignments[index].ident} |->
                              IF x = assignments[index].ident THEN index ELSE localIndices[x]]
    BY DEF FirstSeen
  <2> QED BY <1>1, <1>2, <2>1, ProgressFirstSeen DEF AtAssignment, Known
<1> QED BY <1>1, <1>2, <1>3 DEF FixInv, Scopes, assignments

\* Mapping the expressions of a scope goes on to the next one.
LEMMA FixVisitAssignments ==
  ASSUME FixInv, VisitAssignments
  PROVE  FixInv'
<1>1. /\ Fixing /\ UNCHANGED <<parsed, pass>>
      /\ scope' = scope + 1 /\ index' = 1 /\ localIndices' = <<>>
      /\ unit' = SetScope(unit, scope, Mapped(assignments))
  BY DEF VisitAssignments, NewScope, SetScope, assignments
<1>2. Scopes \in Nat /\ Len(unit.scopes) = Scopes
  BY ShapedLen DEF FixInv, Scopes
<1>3. scope \in 1..Scopes
  BY <1>1, <1>2 DEF Fixing, FixInv
<1>4. Shaped(unit, Scopes)
  BY DEF FixInv
<1>5. /\ Shaped(unit', Scopes)
      /\ \A d \in 1..Scopes : d # scope => unit'.scopes[d] = unit.scopes[d]
  BY <1>1, <1>2, <1>3, <1>4, ShapedScope
<1>6. \A c \in (scope + 1)..Scopes :
        c \in 1..Scopes /\ c # scope /\ unit'.scopes[c] = parsed.scopes[c]
  BY <1>1, <1>2, <1>3, <1>5 DEF FixInv, Fixing
<1>7. ASSUME scope + 1 <= Scopes
      PROVE  Progress(unit'.scopes[scope + 1], 1, <<>>, parsed.scopes[scope + 1])
  <2>1. scope + 1 \in (scope + 1)..Scopes /\ scope + 1 \in 1..Scopes
    BY <1>2, <1>3, <1>7
  <2>2. parsed.scopes[scope + 1] \in Seq(AssignNode)
    BY <2>1 DEF FixInv, Scopes
  <2> QED BY <2>1, <2>2, <1>6, ProgressStart
<1>8. \A c \in (scope + 2)..Scopes : c \in (scope + 1)..Scopes
  BY <1>2, <1>3
<1>9. scope' \in Nat \ {0} /\ scope' + 1 = scope + 2
  BY <1>1, <1>3
<1> QED BY <1>1, <1>5, <1>6, <1>7, <1>8, <1>9 DEF FixInv, Scopes

\* Visiting the functions leaves the scopes.
LEMMA FixVisitFunctions ==
  ASSUME FixInv, VisitFunctions
  PROVE  FixInv'
<1>1. /\ UNCHANGED <<parsed, scope>> /\ pass' = "done"
      /\ unit' = [unit EXCEPT !.functions = VisitedBodies(@)]
  BY DEF VisitFunctions
<1>2. unit'.scopes = unit.scopes /\ unit' = [functions |-> unit'.functions, scopes |-> unit'.scopes]
  BY <1>1 DEF FixInv, Shaped
<1> QED BY <1>1, <1>2 DEF FixInv, Scopes, Shaped

\* FixInv is inductive.
LEMMA FixAlways == FoldSpec => []FixInv
<1>1. FixInv /\ [FoldNext]_foldVars => FixInv'
  <2> SUFFICES ASSUME FixInv, [FoldNext]_foldVars PROVE FixInv'
    OBVIOUS
  <2>1. CASE \E u \in Units : FoldUnit(u)
    BY <2>1, FixStart
  <2>2. CASE Duplicate
    BY <2>2, FixDuplicate
  <2>3. CASE FirstSeen
    BY <2>3, FixFirstSeen
  <2>4. CASE VisitAssignments
    BY <2>4, FixVisitAssignments
  <2>5. CASE VisitFunctions
    BY <2>5, FixVisitFunctions
  <2>6. CASE FoldReturn
    BY <2>6 DEF FoldReturn, FixInv, Scopes
  <2>7. CASE UNCHANGED foldVars
    BY <2>7 DEF foldVars, FixInv, Scopes
  <2> QED BY <2>1, <2>2, <2>3, <2>4, <2>5, <2>6, <2>7 DEF FoldNext, FoldStep
<1> QED BY <1>1, FixInit, PTL DEF FoldSpec

\* What the invariant says of a scope behind the first loop.
LEMMA FixedAssignments == FixInv => LastAssignmentWins
<1> SUFFICES ASSUME FixInv, Fixing, index > Len(assignments)
             PROVE  Fixes(assignments, Len(assignments), parsed.scopes[scope],
                          Len(parsed.scopes[scope]))
  BY DEF LastAssignmentWins
<1> DEFINE s == parsed.scopes[scope]
<1>1. Len(unit.scopes) = Scopes
  BY ShapedLen DEF FixInv, Scopes
<1>2. Progress(assignments, index, localIndices, s)
  BY <1>1 DEF FixInv, Fixing, assignments
<1> HIDE DEF s
<1>3. Len(assignments) \in Nat /\ Len(s) \in Nat /\ index \in 1..(Len(assignments) + 1)
  BY <1>2 DEF Progress
<1>4. index - 1 = Len(assignments) /\ index - 1 + Removed(assignments, s) = Len(s)
  BY <1>3 DEF Removed
<1>5. Fixes(assignments, index - 1, s, index - 1 + Removed(assignments, s))
  BY <1>2 DEF Progress
<1> QED BY <1>4, <1>5 DEF s

\* Whatever a file or a module assigns and in whatever order, what fixAssignments
\* leaves (const_eval.h:144) has each name once, with its last value, in the order
\* in which the names occur first.
THEOREM AssignmentsAreFixed == FoldSpec => []LastAssignmentWins
BY FixedAssignments, FixAlways, PTL

=============================================================================
