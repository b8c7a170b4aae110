--------------------------- MODULE OwnershipProofs --------------------------
(***************************************************************************)
(* Unique ownership, for every program that keeps the stack discipline:    *)
(* every pointer in a slot is live, and no other slot and no list has it.  *)
(***************************************************************************)
EXTENDS EvaluatorProofs, WellFoundedInduction

-----------------------------------------------------------------------------
\* Values on their own: x may join the values of s.

Joins(h, s, x) ==
  isAllocated(x) => /\ Live(h, x)
                    /\ x.v \notin Pointers(s) /\ x.v \notin ElementPointers(h)

Apart(s, t) == Pointers(s) \cap Pointers(t) = {}

LEMMA PointersFact ==
  ASSUME NEW s
  PROVE  \A p : p \in Pointers(s) <=>
                  \E i \in 1..Len(s) : isAllocated(s[i]) /\ s[i].v = p
  BY DEF Pointers

LEMMA ElementFact ==
  ASSUME NEW h
  PROVE  \A p : p \in ElementPointers(h) <=>
                  \E a \in DOMAIN h.vec : p \in Pointers(Elements(h, a))
  BY DEF ElementPointers

LEMMA OwnedEmpty ==
  ASSUME NEW h
  PROVE  Owned(h, <<>>) /\ Pointers(<<>>) = {}
  BY DEF Owned, AllLive, Pointers

\* What s points to is in the heap.
LEMMA OwnedLive ==
  ASSUME NEW h, NEW s, AllLive(h, s)
  PROVE  Pointers(s) \subseteq Boxes(h)
  BY DEF AllLive, Pointers, Boxes, Live

LEMMA OwnedAppend ==
  ASSUME NEW h, NEW s \in Seq(ValuePair), NEW x \in ValuePair
  PROVE  /\ Owned(h, Append(s, x)) <=> Owned(h, s) /\ Joins(h, s, x)
         /\ AllLive(h, Append(s, x)) <=> AllLive(h, s) /\ (isAllocated(x) => Live(h, x))
         /\ Pointers(Append(s, x)) = Pointers(s) \cup (IF isAllocated(x) THEN {x.v} ELSE {})
<1> DEFINE t == Append(s, x)
           n == Len(s)
<1>1. /\ t \in Seq(ValuePair) /\ Len(t) = n + 1 /\ t[n + 1] = x /\ n \in Nat
      /\ \A i \in 1..n : t[i] = s[i]
  BY AppendProperties
<1> HIDE DEF t, n
<1>2. \A i : i \in 1..(n + 1) <=> i \in 1..n \/ i = n + 1
  BY <1>1
<1>3. Pointers(t) = Pointers(s) \cup (IF isAllocated(x) THEN {x.v} ELSE {})
  BY <1>1, <1>2 DEF Pointers, n
<1>4. AllLive(h, t) <=> AllLive(h, s) /\ (isAllocated(x) => Live(h, x))
  BY <1>1, <1>2 DEF AllLive, n
<1>5. ASSUME Owned(h, t) PROVE Owned(h, s) /\ Joins(h, s, x)
  <2>1. \A i, j \in 1..(n + 1) :
          isAllocated(t[i]) /\ isAllocated(t[j]) /\ t[i].v = t[j].v => i = j
    BY <1>1, <1>5 DEF Owned
  <2>2. Owned(h, s)
    BY <1>1, <1>2, <1>3, <1>4, <1>5, <2>1 DEF Owned, n
  <2>3. isAllocated(x) => x.v \notin Pointers(s)
    <3>1. \A i \in 1..n : i # n + 1 /\ i \in 1..(n + 1) /\ n + 1 \in 1..(n + 1)
      BY <1>1
    <3> QED BY <1>1, <2>1, <3>1, PointersFact DEF n
  <2> QED BY <1>3, <1>4, <1>5, <2>2, <2>3 DEF Owned, Joins
<1>6. ASSUME Owned(h, s), Joins(h, s, x) PROVE Owned(h, t)
  <2>1. ASSUME NEW i \in 1..(n + 1), NEW j \in 1..(n + 1),
               isAllocated(t[i]), isAllocated(t[j]), t[i].v = t[j].v
        PROVE  i = j
    <3>1. CASE i \in 1..n /\ j \in 1..n
      BY <1>1, <1>6, <2>1, <3>1 DEF Owned, n
    <3>2. CASE i \in 1..n /\ j = n + 1
      <4>1. t[j].v \in Pointers(s)
        BY <1>1, <2>1, <3>2, PointersFact DEF n
      <4> QED BY <1>1, <1>6, <2>1, <3>2, <4>1 DEF Joins
    <3>3. CASE j \in 1..n /\ i = n + 1
      <4>1. t[i].v \in Pointers(s)
        BY <1>1, <2>1, <3>3, PointersFact DEF n
      <4> QED BY <1>1, <1>6, <2>1, <3>3, <4>1 DEF Joins
    <3> QED BY <1>2, <3>1, <3>2, <3>3
  <2>2. Pointers(t) \cap ElementPointers(h) = {} /\ AllLive(h, t)
    BY <1>3, <1>4, <1>6 DEF Owned, Joins
  <2> QED BY <1>1, <2>1, <2>2 DEF Owned
<1> QED BY <1>3, <1>4, <1>5, <1>6 DEF t

LEMMA OwnedConcat ==
  ASSUME NEW h, NEW s \in Seq(ValuePair), NEW t \in Seq(ValuePair)
  PROVE  /\ Owned(h, s \o t) <=> Owned(h, s) /\ Owned(h, t) /\ Apart(s, t)
         /\ AllLive(h, s) /\ AllLive(h, t) => AllLive(h, s \o t)
         /\ Pointers(s \o t) = Pointers(s) \cup Pointers(t)
<1> DEFINE u == s \o t
           m == Len(s)
           n == Len(t)
<1>1. /\ Len(u) = m + n /\ m \in Nat /\ n \in Nat
      /\ \A i \in 1..m : u[i] = s[i]
      /\ \A i \in 1..n : u[m + i] = t[i]
  BY ConcatProperties
<1> HIDE DEF u
<1>2. \A i \in 1..(m + n) : i \in 1..m \/ (i - m \in 1..n /\ i = m + (i - m))
  BY <1>1
<1>3. \A i \in 1..m : i \in 1..(m + n)
  BY <1>1
<1>4. \A i \in 1..n : m + i \in 1..(m + n)
  BY <1>1
<1>8. \A i \in 1..(m + n) : i - m \in 1..n => u[i] = t[i - m] /\ i \notin 1..m
  <2> TAKE i \in 1..(m + n)
  <2> HAVE i - m \in 1..n
  <2>1. u[m + (i - m)] = t[i - m]
    BY <1>1
  <2> QED BY <1>1, <2>1
<1>5. Pointers(u) = Pointers(s) \cup Pointers(t)
  <2>1. ASSUME NEW p \in Pointers(u) PROVE p \in Pointers(s) \cup Pointers(t)
    <3>1. PICK i \in 1..(m + n) : isAllocated(u[i]) /\ u[i].v = p
      BY <1>1, PointersFact
    <3>2. CASE i \in 1..m
      BY <1>1, <3>1, <3>2, PointersFact
    <3>3. CASE i - m \in 1..n /\ i = m + (i - m)
      <4>1. u[i] = t[i - m]
        BY <1>1, <3>3
      <4> QED BY <3>1, <3>3, <4>1, PointersFact
    <3> QED BY <1>2, <3>2, <3>3
  <2>2. ASSUME NEW i \in 1..m, isAllocated(s[i]) PROVE s[i].v \in Pointers(u)
    BY <1>1, <1>3, <2>2, PointersFact
  <2>3. ASSUME NEW i \in 1..n, isAllocated(t[i]) PROVE t[i].v \in Pointers(u)
    BY <1>1, <1>4, <2>3, PointersFact
  <2> QED BY <2>1, <2>2, <2>3, PointersFact
<1>6. ASSUME Owned(h, u) PROVE Owned(h, s) /\ Owned(h, t) /\ Apart(s, t)
  <2>1. /\ AllLive(h, u)
        /\ \A i, j \in 1..(m + n) :
             isAllocated(u[i]) /\ isAllocated(u[j]) /\ u[i].v = u[j].v => i = j
    BY <1>1, <1>6 DEF Owned
  <2>2. AllLive(h, s)
    BY <1>1, <1>3, <2>1 DEF AllLive
  <2>3. AllLive(h, t)
    BY <1>1, <1>4, <2>1 DEF AllLive
  <2>4. \A i, j \in 1..m :
          isAllocated(s[i]) /\ isAllocated(s[j]) /\ s[i].v = s[j].v => i = j
    BY <1>1, <1>3, <2>1
  <2>5. ASSUME NEW i \in 1..n, NEW j \in 1..n,
               isAllocated(t[i]), isAllocated(t[j]), t[i].v = t[j].v
        PROVE  i = j
    <3>1. m + i = m + j
      BY <1>1, <1>4, <2>1, <2>5
    <3> QED BY <1>1, <3>1
  <2>6. Apart(s, t)
    <3>1. ASSUME NEW i \in 1..m, NEW j \in 1..n,
                 isAllocated(s[i]), isAllocated(t[j]), s[i].v = t[j].v
          PROVE  FALSE
      <4>1. i = m + j
        BY <1>1, <1>3, <1>4, <2>1, <3>1
      <4> QED BY <1>1, <4>1
    <3> QED BY <3>1, PointersFact DEF Apart
  <2> QED BY <1>5, <1>6, <2>2, <2>3, <2>4, <2>5, <2>6 DEF Owned
<1>7. ASSUME Owned(h, s), Owned(h, t), Apart(s, t) PROVE Owned(h, u)
  <2>1. ASSUME NEW i \in 1..(m + n), isAllocated(u[i])
        PROVE  /\ Live(h, u[i])
               /\ i \in 1..m => u[i].v \in Pointers(s)
               /\ i - m \in 1..n => u[i].v \in Pointers(t)
    <3>1. CASE i \in 1..m
      <4>1. u[i] = s[i] /\ i - m \notin 1..n
        BY <1>1, <3>1
      <4> QED BY <1>7, <2>1, <3>1, <4>1, PointersFact DEF Owned, AllLive
    <3>2. CASE i - m \in 1..n
      <4>1. u[i] = t[i - m] /\ i \notin 1..m
        BY <1>8, <3>2
      <4> QED BY <1>7, <2>1, <3>2, <4>1, PointersFact DEF Owned, AllLive
    <3> QED BY <1>2, <3>1, <3>2
  <2>2. ASSUME NEW i \in 1..(m + n), NEW j \in 1..(m + n),
               isAllocated(u[i]), isAllocated(u[j]), u[i].v = u[j].v
        PROVE  i = j
    <3>1. CASE i \in 1..m /\ j \in 1..m
      BY <1>1, <1>7, <2>2, <3>1 DEF Owned
    <3>2. CASE i - m \in 1..n /\ j - m \in 1..n
      <4>1. u[i] = t[i - m] /\ u[j] = t[j - m]
        BY <1>8, <3>2
      <4>2. i - m = j - m
        BY <1>7, <2>2, <3>2, <4>1 DEF Owned
      <4> QED BY <1>1, <4>2
    <3>3. CASE (i \in 1..m /\ j - m \in 1..n) \/ (j \in 1..m /\ i - m \in 1..n)
      BY <1>7, <2>1, <2>2, <3>3 DEF Apart
    <3> QED BY <1>2, <3>1, <3>2, <3>3
  <2> QED BY <1>1, <1>5, <1>7, <2>1, <2>2 DEF Owned, AllLive
<1>9. AllLive(h, s) /\ AllLive(h, t) => AllLive(h, u)
  <2> HAVE AllLive(h, s) /\ AllLive(h, t)
  <2>1. ASSUME NEW i \in 1..(m + n), isAllocated(u[i]) PROVE Live(h, u[i])
    <3>1. CASE i \in 1..m
      BY <1>1, <2>1, <3>1 DEF AllLive
    <3>2. CASE i - m \in 1..n
      <4>1. u[i] = t[i - m]
        BY <1>8, <3>2
      <4> QED BY <2>1, <3>2, <4>1 DEF AllLive
    <3> QED BY <1>2, <3>1, <3>2
  <2> QED BY <1>1, <2>1 DEF AllLive
<1> QED BY <1>5, <1>6, <1>7, <1>9 DEF u

\* Dropping slots from the end of a sequence, or replacing one.
LEMMA OwnedFront ==
  ASSUME NEW h, NEW s \in Seq(ValuePair), s # <<>>
  PROVE  /\ Front(s) \in Seq(ValuePair) /\ Last(s) \in ValuePair
         /\ s = Append(Front(s), Last(s))
         /\ Owned(h, s) => Owned(h, Front(s)) /\ Joins(h, Front(s), Last(s))
         /\ Pointers(s) = Pointers(Front(s))
                            \cup (IF isAllocated(Last(s)) THEN {Last(s).v} ELSE {})
<1>1. Front(s) \in Seq(ValuePair) /\ Len(Front(s)) = Len(s) - 1
      /\ \A i \in 1..(Len(s) - 1) : Front(s)[i] = s[i]
  BY FrontOK
<1>2. Len(s) \in Nat /\ Len(s) > 0
  BY EmptySeq, LenProperties
<1>3. Last(s) = s[Len(s)] /\ Last(s) \in ValuePair
  BY <1>2 DEF Last
<1> HIDE DEF Front, Last
<1>4. /\ Append(Front(s), Last(s)) \in Seq(ValuePair)
      /\ Len(Append(Front(s), Last(s))) = Len(s)
      /\ Append(Front(s), Last(s))[Len(s)] = Last(s)
      /\ \A i \in 1..(Len(s) - 1) : Append(Front(s), Last(s))[i] = Front(s)[i]
  <2>1. Len(s) - 1 + 1 = Len(s)
    BY <1>2
  <2> QED BY <1>1, <1>3, <2>1, AppendProperties
<1>5. s = Append(Front(s), Last(s))
  <2>1. \A i \in 1..Len(s) : Append(Front(s), Last(s))[i] = s[i]
    BY <1>1, <1>2, <1>3, <1>4
  <2> QED BY <1>4, <2>1, SeqEqual
<1> QED BY <1>1, <1>3, <1>5, OwnedAppend

\* s is a followed by b.
LEMMA Joined ==
  ASSUME NEW S, NEW a \in Seq(S), NEW b \in Seq(S), NEW s \in Seq(S),
         Len(s) = Len(a) + Len(b),
         \A i \in 1..Len(a) : s[i] = a[i],
         \A i \in 1..Len(b) : s[Len(a) + i] = b[i]
  PROVE  s = a \o b
<1> DEFINE c == a \o b
<1>1. Len(a) \in Nat /\ Len(b) \in Nat
  BY LenProperties
<1>2. /\ c \in Seq(S) /\ Len(c) = Len(a) + Len(b)
      /\ \A i \in 1..Len(a) : c[i] = a[i]
      /\ \A i \in 1..Len(b) : c[Len(a) + i] = b[i]
  BY ConcatProperties
<1> HIDE DEF c
<1>3. \A i \in 1..Len(s) : s[i] = c[i]
  <2> TAKE i \in 1..Len(s)
  <2>1. CASE i \in 1..Len(a)
    BY <1>2, <2>1
  <2>2. CASE i \notin 1..Len(a)
    <3>1. PICK j \in 1..Len(b) : i = Len(a) + j
      <4>1. i - Len(a) \in 1..Len(b) /\ i = Len(a) + (i - Len(a))
        BY <1>1, <2>2
      <4> QED BY <4>1
    <3> QED BY <1>2, <3>1
  <2> QED BY <2>1, <2>2
<1>4. s = c
  BY <1>2, <1>3, SeqEqual
<1> QED BY <1>4 DEF c

\* The parts of a sequence up to m, from there to n, and behind n.
LEMMA OwnedPart ==
  ASSUME NEW h, NEW s \in Seq(ValuePair), NEW m \in 0..Len(s), NEW n \in m..Len(s),
         Owned(h, s)
  PROVE  /\ SubSeq(s, 1, m) \in Seq(ValuePair) /\ Owned(h, SubSeq(s, 1, m))
         /\ SubSeq(s, m + 1, n) \in Seq(ValuePair) /\ Owned(h, SubSeq(s, m + 1, n))
         /\ SubSeq(s, n + 1, Len(s)) \in Seq(ValuePair)
         /\ Owned(h, SubSeq(s, n + 1, Len(s)))
         /\ Apart(SubSeq(s, 1, m), SubSeq(s, m + 1, n))
         /\ Apart(SubSeq(s, 1, m), SubSeq(s, n + 1, Len(s)))
         /\ Apart(SubSeq(s, m + 1, n), SubSeq(s, n + 1, Len(s)))
         /\ Pointers(SubSeq(s, 1, m)) \subseteq Pointers(s)
         /\ Pointers(SubSeq(s, m + 1, n)) \subseteq Pointers(s)
         /\ Pointers(SubSeq(s, n + 1, Len(s))) \subseteq Pointers(s)
<1> DEFINE a == SubSeq(s, 1, m)
           b == SubSeq(s, m + 1, n)
           c == SubSeq(s, n + 1, Len(s))
<1>1. Len(s) \in Nat /\ m \in Nat /\ n \in Nat /\ m <= n /\ n <= Len(s)
  BY LenProperties
<1>2. a \in Seq(ValuePair) /\ b \in Seq(ValuePair) /\ c \in Seq(ValuePair)
  BY <1>1, SubSeqProperties
<1>7. /\ Len(a) = m /\ Len(b) = n - m /\ Len(c) = Len(s) - n
      /\ \A i \in 1..m : a[i] = s[i]
      /\ \A i \in 1..(n - m) : b[i] = s[m + i]
      /\ \A i \in 1..(Len(s) - n) : c[i] = s[n + i]
  BY <1>1
<1> HIDE DEF a, b, c
<1>3. s = (a \o b) \o c
  <2> DEFINE p == SubSeq(s, 1, n)
  <2>1. p \in Seq(ValuePair) /\ Len(p) = n /\ \A i \in 1..n : p[i] = s[i]
    BY <1>1
  <2> HIDE DEF p
  <2>2. \A i \in 1..(n - m) : m + i \in 1..n
    BY <1>1
  <2>3. \A i \in 1..m : i \in 1..n
    BY <1>1
  <2>4. p = a \o b
    <3>1. Len(p) = Len(a) + Len(b)
      BY <1>1, <1>7, <2>1
    <3>2. \A i \in 1..Len(a) : p[i] = a[i]
      BY <1>7, <2>1, <2>3
    <3>3. \A i \in 1..Len(b) : p[Len(a) + i] = b[i]
      BY <1>7, <2>1, <2>2
    <3> QED BY <1>2, <2>1, <3>1, <3>2, <3>3, Joined
  <2>5. s = p \o c
    <3>1. Len(s) = Len(p) + Len(c)
      BY <1>1, <1>7, <2>1
    <3>2. \A i \in 1..Len(p) : s[i] = p[i]
      BY <2>1
    <3>3. \A i \in 1..Len(c) : s[Len(p) + i] = c[i]
      BY <1>7, <2>1
    <3> QED BY <1>2, <2>1, <3>1, <3>2, <3>3, Joined
  <2> QED BY <2>4, <2>5
<1>8. a \o b \in Seq(ValuePair)
  BY <1>2, ConcatProperties
<1>4. Owned(h, a \o b) /\ Owned(h, c) /\ Apart(a \o b, c)
      /\ Pointers(s) = Pointers(a \o b) \cup Pointers(c)
  BY <1>2, <1>3, <1>8, OwnedConcat
<1>5. Owned(h, a) /\ Owned(h, b) /\ Apart(a, b)
      /\ Pointers(a \o b) = Pointers(a) \cup Pointers(b)
  BY <1>2, <1>4, OwnedConcat
<1>6. Apart(a, c) /\ Apart(b, c)
  BY <1>4, <1>5 DEF Apart
<1> QED BY <1>2, <1>4, <1>5, <1>6 DEF a, b, c

-----------------------------------------------------------------------------
\* Acyclic heaps.

LEMMA HeapFact ==
  ASSUME NEW h, IsHeap(h)
  PROVE  /\ h.next \in Nat \ {0}
         /\ \A a \in Boxes(h) : a \in Nat /\ a # 0 /\ a < h.next
         /\ \A a \in DOMAIN h.vec : Elements(h, a) \in Seq(ValuePair)
         /\ DOMAIN h.vec \cap DOMAIN h.range = {}
  BY DEF IsHeap, Boxes, Elements

\* The box t, new or written to, is in no list and goes to the end of the order.
LEMMA AcyclicTop ==
  ASSUME NEW h, IsHeap(h), Acyclic(h), NEW g, IsHeap(g), NEW t,
         (t \in Boxes(h) /\ h.next <= g.next) \/ h.next < g.next,
         Boxes(g) \subseteq Boxes(h) \cup {t},
         \A x \in DOMAIN g.vec \ {t} : /\ x \in DOMAIN h.vec
                                      /\ Pointers(Elements(g, x)) \subseteq Pointers(Elements(h, x)),
         \A x \in DOMAIN g.vec : /\ Pointers(Elements(g, x)) \subseteq Boxes(g)
                                 /\ t \notin Pointers(Elements(g, x))
  PROVE  Acyclic(g)
<1>1. PICK rank \in [Boxes(h) -> 1..(h.next - 1)] : Orders(h, rank)
  BY DEF Acyclic
<1>2. /\ \A a \in Boxes(h) : rank[a] \in 1..(h.next - 1)
      /\ \A a, b \in Boxes(h) : rank[a] = rank[b] => a = b
      /\ \A a \in DOMAIN h.vec : \A b \in Pointers(Elements(h, a)) : rank[b] < rank[a]
  BY <1>1 DEF Orders
<1>3. h.next \in Nat /\ g.next \in Nat
  BY HeapFact
<1> DEFINE move(x) == IF x = t THEN g.next - 1
                      ELSE IF t \in Boxes(h) /\ rank[x] > rank[t] THEN rank[x] - 1
                      ELSE rank[x]
           new == [x \in Boxes(g) |-> move(x)]
<1>4. \A x \in Boxes(g) : x # t => /\ x \in Boxes(h) /\ move(x) \in 1..(g.next - 2)
  <2> TAKE x \in Boxes(g)
  <2> HAVE x # t
  <2>1. x \in Boxes(h) /\ rank[x] \in 1..(h.next - 1)
    BY <1>2
  <2>2. CASE t \in Boxes(h)
    <3>1. rank[t] \in 1..(h.next - 1) /\ rank[x] # rank[t] /\ h.next <= g.next
      BY <1>2, <1>3, <2>1, <2>2
    <3> QED BY <1>3, <2>1, <2>2, <3>1
  <2>3. CASE t \notin Boxes(h)
    BY <1>3, <2>1, <2>3
  <2> QED BY <2>2, <2>3
<1>5. t \in Boxes(g) => move(t) = g.next - 1 /\ move(t) \in 1..(g.next - 1)
  <2> HAVE t \in Boxes(g)
  <2>1. g.next - 1 >= 1
    <3>1. t \in Nat /\ t # 0 /\ t < g.next
      BY HeapFact
    <3> QED BY <1>3, <3>1
  <2> QED BY <1>3, <2>1
<1>6. new \in [Boxes(g) -> 1..(g.next - 1)]
  <2>1. \A x \in Boxes(g) : move(x) \in 1..(g.next - 1)
    BY <1>3, <1>4, <1>5
  <2> HIDE DEF move
  <2> QED BY <2>1
<1>7. \A x, y \in Boxes(g) : x # t /\ y # t =>
        /\ move(x) = move(y) => x = y
        /\ rank[x] < rank[y] => move(x) < move(y)
  <2> TAKE x, y \in Boxes(g)
  <2> HAVE x # t /\ y # t
  <2>1. x \in Boxes(h) /\ y \in Boxes(h) /\ rank[x] \in Int /\ rank[y] \in Int
    BY <1>2, <1>3, <1>4
  <2>2. rank[x] = rank[y] => x = y
    BY <1>2, <2>1
  <2>3. t \in Boxes(h) => rank[t] \in Int /\ rank[x] # rank[t] /\ rank[y] # rank[t]
    BY <1>2, <1>3, <2>1
  <2> QED BY <2>1, <2>2, <2>3
<1> HIDE DEF move
<1>8. \A a, b \in Boxes(g) : new[a] = new[b] => a = b
  <2> TAKE a, b \in Boxes(g)
  <2> HAVE new[a] = new[b]
  <2>1. move(a) = move(b)
    OBVIOUS
  <2>2. CASE a # t /\ b # t
    BY <1>7, <2>1, <2>2
  <2>3. CASE a # t /\ b = t
    BY <1>3, <1>4, <1>5, <2>1, <2>3
  <2>4. CASE a = t /\ b # t
    BY <1>3, <1>4, <1>5, <2>1, <2>4
  <2> QED BY <2>2, <2>3, <2>4
<1>9. \A a \in DOMAIN g.vec : \A b \in Pointers(Elements(g, a)) : new[b] < new[a]
  <2> TAKE a \in DOMAIN g.vec
  <2> TAKE b \in Pointers(Elements(g, a))
  <2>1. a \in Boxes(g) /\ b \in Boxes(g) /\ b # t
    BY DEF Boxes
  <2>2. move(b) \in 1..(g.next - 2)
    BY <1>4, <2>1
  <2>3. CASE a = t
    BY <1>3, <1>5, <2>1, <2>2, <2>3
  <2>4. CASE a # t
    <3>1. rank[b] < rank[a]
      BY <1>2, <2>4
    <3> QED BY <1>7, <2>1, <2>4, <3>1
  <2> QED BY <2>3, <2>4
<1> HIDE DEF new
<1>10. Orders(g, new)
  BY <1>6, <1>8, <1>9 DEF Orders
<1> QED BY <1>6, <1>10 DEF Acyclic

\* With boxes gone the rest keeps its order.
LEMMA AcyclicPart ==
  ASSUME NEW h, IsHeap(h), Acyclic(h), NEW g, IsHeap(g), h.next <= g.next,
         Boxes(g) \subseteq Boxes(h),
         \A x \in DOMAIN g.vec : /\ x \in DOMAIN h.vec
                                 /\ Pointers(Elements(g, x)) \subseteq Pointers(Elements(h, x))
                                 /\ Pointers(Elements(g, x)) \subseteq Boxes(g)
  PROVE  Acyclic(g)
<1>1. PICK rank \in [Boxes(h) -> 1..(h.next - 1)] : Orders(h, rank)
  BY DEF Acyclic
<1>2. /\ \A a \in Boxes(h) : rank[a] \in 1..(h.next - 1)
      /\ \A a, b \in Boxes(h) : rank[a] = rank[b] => a = b
      /\ \A a \in DOMAIN h.vec : \A b \in Pointers(Elements(h, a)) : rank[b] < rank[a]
  BY <1>1 DEF Orders
<1>3. h.next \in Nat /\ g.next \in Nat
  BY HeapFact
<1> DEFINE new == [x \in Boxes(g) |-> rank[x]]
<1>4. new \in [Boxes(g) -> 1..(g.next - 1)]
  BY <1>2, <1>3
<1>5. \A a, b \in Boxes(g) : new[a] = new[b] => a = b
  BY <1>2
<1>6. \A a \in DOMAIN g.vec : \A b \in Pointers(Elements(g, a)) : new[b] < new[a]
  <2> TAKE a \in DOMAIN g.vec
  <2> TAKE b \in Pointers(Elements(g, a))
  <2>1. a \in Boxes(g) /\ b \in Boxes(g)
    BY DEF Boxes
  <2> QED BY <1>2, <2>1
<1> HIDE DEF new
<1> QED BY <1>4, <1>5, <1>6 DEF Orders, Acyclic

-----------------------------------------------------------------------------
\* From one heap to the next.

Good(h) == IsHeap(h) /\ ElementsLive(h) /\ Acyclic(h)

PointerOf(x) == IF isAllocated(x) THEN {x.v} ELSE {}

\* g is what an operation that owns the boxes P leaves of h: it frees no others, and
\* no others become elements.
Moves(h, g, P) ==
  /\ Good(g) /\ h.next <= g.next
  /\ \A x \in ValuePair : Live(h, x) /\ x.v \notin P => Live(g, x)
  /\ ElementPointers(g) \subseteq ElementPointers(h) \cup P

\* What the operation computes is one of the boxes it owned, or a new one.
Transfers(h, P, r) ==
  /\ Moves(h, r.heap, P)
  /\ r.exit = "ok" /\ isAllocated(r.val) =>
       /\ Live(r.heap, r.val) /\ r.val.v \notin ElementPointers(r.heap)
       /\ r.val.v \in P \/ r.val.v >= h.next

LEMMA MovesItself ==
  ASSUME NEW h, Good(h), NEW P
  PROVE  Moves(h, h, P)
  BY DEF Moves, Good, IsHeap

LEMMA MovesFewer ==
  ASSUME NEW h, NEW g, NEW P, NEW Q, P \subseteq Q, Moves(h, g, P)
  PROVE  Moves(h, g, Q)
  BY DEF Moves

LEMMA MovesChain ==
  ASSUME NEW f, NEW g, NEW h, NEW P, Good(f), Moves(f, g, P), Moves(g, h, P)
  PROVE  Moves(f, h, P)
<1>1. f.next \in Nat /\ g.next \in Nat /\ h.next \in Nat
  BY HeapFact DEF Moves, Good
<1> QED BY <1>1 DEF Moves

\* What others own, they own after it.
LEMMA MovesKeep ==
  ASSUME NEW h, Good(h), NEW g, NEW P, Moves(h, g, P), NEW s \in Seq(ValuePair),
         Owned(h, s), Pointers(s) \cap P = {}
  PROVE  Owned(g, s)
<1>1. \A i \in 1..Len(s) : isAllocated(s[i]) => s[i] \in ValuePair /\ s[i].v \in Pointers(s)
  BY PointersFact
<1>2. AllLive(g, s)
  BY <1>1 DEF Owned, AllLive, Moves
<1>3. Pointers(s) \cap ElementPointers(g) = {}
  BY DEF Owned, Moves
<1> QED BY <1>2, <1>3 DEF Owned

\* The result of an operation joins what is left of its owner's slots.
LEMMA TransfersJoin ==
  ASSUME NEW h, Good(h), NEW P, NEW r, Transfers(h, P, r), r.exit = "ok",
         r.val \in ValuePair, NEW s \in Seq(ValuePair), Owned(h, s), Pointers(s) \cap P = {}
  PROVE  Owned(r.heap, Append(s, r.val)) /\ PointerOf(r.val) \cap Pointers(s) = {}
<1>1. Owned(r.heap, s)
  BY MovesKeep DEF Transfers
<1>2. \A p \in Pointers(s) : p \in Nat /\ p < h.next
  BY OwnedLive, HeapFact DEF Owned, Good
<1>3. isAllocated(r.val) => r.val.v \notin Pointers(s)
  <2>1. h.next \in Nat
    BY HeapFact DEF Good
  <2> QED BY <1>2, <2>1 DEF Transfers
<1>4. Joins(r.heap, s, r.val)
  BY <1>3 DEF Joins, Transfers
<1> QED BY <1>1, <1>3, <1>4, OwnedAppend DEF PointerOf

LEMMA LiveOnes ==
  ASSUME NEW h, IsHeap(h), NEW g, IsHeap(g), ElementsLive(g)
  PROVE  \A x \in DOMAIN g.vec : Pointers(Elements(g, x)) \subseteq Boxes(g)
  BY OwnedLive DEF ElementsLive

LEMMA FreeAllMoves ==
  ASSUME NEW h, Good(h), NEW A, A \cap ElementPointers(h) = {}
  PROVE  Moves(h, FreeAll(h, A), A)
<1> DEFINE g == FreeAll(h, A)
<1>1. IsHeap(h) /\ ElementsLive(h) /\ Acyclic(h) /\ h.next \in Nat
  BY HeapFact DEF Good
<1>2. IsHeap(g) /\ Preserves(h, g)
  BY <1>1, FreeAllOK, FreeAllPreserves
<1>3. /\ g.next = h.next /\ DOMAIN g.vec = DOMAIN h.vec \ A
      /\ DOMAIN g.range = DOMAIN h.range \ A
  BY DEF FreeAll, Heap, Without, Restrict
<1> HIDE DEF g
<1>4. \A x \in DOMAIN g.vec : Elements(g, x) = Elements(h, x)
  <2>1. \A x \in DOMAIN g.vec : x < h.next
    BY <1>1, <1>3, HeapFact DEF Boxes
  <2> QED BY <1>1, <1>2, <2>1, PreservesFacts
<1>5. \A x \in ValuePair : Live(h, x) /\ x.v \notin A => Live(g, x)
  BY <1>3 DEF Live
<1>6. ElementPointers(g) \subseteq ElementPointers(h)
  BY <1>3, <1>4, ElementFact
<1>7. ElementsLive(g)
  <2> SUFFICES ASSUME NEW a \in DOMAIN g.vec, NEW i \in 1..Len(Elements(g, a)),
                      isAllocated(Elements(g, a)[i])
               PROVE  Live(g, Elements(g, a)[i])
    BY DEF ElementsLive, AllLive
  <2> DEFINE x == Elements(h, a)[i]
  <2>1. a \in DOMAIN h.vec /\ Elements(g, a) = Elements(h, a)
    BY <1>3, <1>4
  <2>2. Live(h, x) /\ x.v \in Pointers(Elements(h, a))
    BY <1>1, <2>1, PointersFact DEF ElementsLive, AllLive
  <2>3. x.v \in ElementPointers(h)
    BY <2>1, <2>2, ElementFact
  <2>4. x \in ValuePair
    BY <1>1, <2>1, HeapFact
  <2> QED BY <1>5, <2>1, <2>2, <2>3, <2>4
<1>8. Acyclic(g)
  <2>1. Boxes(g) \subseteq Boxes(h)
    BY <1>3 DEF Boxes
  <2>2. \A x \in DOMAIN g.vec : Pointers(Elements(g, x)) \subseteq Boxes(g)
    BY <1>1, <1>2, <1>7, LiveOnes
  <2> QED BY <1>1, <1>2, <1>3, <1>4, <2>1, <2>2, AcyclicPart
<1>9. Moves(h, g, A)
  BY <1>1, <1>2, <1>3, <1>5, <1>6, <1>7, <1>8 DEF Moves, Good
<1> QED BY <1>9 DEF g

\* A new list whose elements are in a list already, or that has none.
LEMMA NewBoxMoves ==
  ASSUME NEW h, Good(h), NEW g, IsHeap(g), g.next = h.next + 1,
         DOMAIN g.vec = DOMAIN h.vec \cup {h.next}, DOMAIN g.range = DOMAIN h.range,
         \A x \in DOMAIN h.vec : Elements(g, x) = Elements(h, x),
         Pointers(Elements(g, h.next)) \subseteq ElementPointers(h),
         AllLive(h, Elements(g, h.next))
  PROVE  Moves(h, g, {}) /\ h.next \notin ElementPointers(g)
<1> DEFINE n == h.next
<1>1. IsHeap(h) /\ ElementsLive(h) /\ Acyclic(h) /\ n \in Nat
  BY HeapFact DEF Good
<1>2. \A x \in ValuePair : Live(h, x) => Live(g, x)
  BY DEF Live
<1>3. ElementPointers(g) \subseteq ElementPointers(h)
  BY ElementFact
<1>4. ElementPointers(h) \subseteq Boxes(h)
  BY <1>1, LiveOnes, ElementFact
<1>5. n \notin Boxes(h)
  BY <1>1, HeapFact
<1>6. ElementsLive(g)
  <2> SUFFICES ASSUME NEW a \in DOMAIN g.vec, NEW i \in 1..Len(Elements(g, a)),
                      isAllocated(Elements(g, a)[i])
               PROVE  Live(g, Elements(g, a)[i])
    BY DEF ElementsLive, AllLive
  <2>1. Elements(g, a)[i] \in ValuePair
    BY HeapFact
  <2>2. Live(h, Elements(g, a)[i])
    BY <1>1 DEF ElementsLive, AllLive
  <2> QED BY <1>2, <2>1, <2>2
<1>7. Acyclic(g)
  <2>1. Boxes(g) = Boxes(h) \cup {n} /\ h.next < g.next
    BY <1>1 DEF Boxes
  <2>2. \A x \in DOMAIN g.vec : Pointers(Elements(g, x)) \subseteq Boxes(g)
    BY <1>1, <1>6, LiveOnes
  <2>3. \A x \in DOMAIN g.vec : n \notin Pointers(Elements(g, x))
    BY <1>3, <1>4, <1>5, ElementFact
  <2>4. \A x \in DOMAIN g.vec \ {n} :
          x \in DOMAIN h.vec /\ Pointers(Elements(g, x)) \subseteq Pointers(Elements(h, x))
    OBVIOUS
  <2> QED BY <1>1, <2>1, <2>2, <2>3, <2>4, AcyclicTop
<1> QED BY <1>1, <1>2, <1>3, <1>4, <1>5, <1>6, <1>7 DEF Moves, Good

LEMMA NewRangeMoves ==
  ASSUME NEW h, Good(h), NEW r \in SRange
  PROVE  Transfers(h, {}, NewRange(h, r)) /\ NewRange(h, r).exit = "ok"
<1> DEFINE n == h.next
           g == Heap(h.vec, Put(h.range, n, r), h.buf, n + 1)
<1>1. IsHeap(h) /\ ElementsLive(h) /\ Acyclic(h) /\ n \in Nat
  BY HeapFact DEF Good
<1>2. NewRange(h, r) = Ok(g, Rng(n))
  BY DEF NewRange
<1>3. IsHeap(g)
  BY <1>1, <1>2, NewRangeOK DEF IsOutcome, Ok
<1>4. /\ g.next = n + 1 /\ g.vec = h.vec /\ g.buf = h.buf
      /\ DOMAIN g.range = DOMAIN h.range \cup {n}
  BY DEF Heap, Put
<1> HIDE DEF g
<1>5. \A x \in DOMAIN g.vec : x \in DOMAIN h.vec /\ Elements(g, x) = Elements(h, x)
  BY <1>4 DEF Elements
<1>6. \A x \in ValuePair : Live(h, x) => Live(g, x)
  BY <1>4 DEF Live
<1>7. ElementPointers(g) \subseteq ElementPointers(h)
  BY <1>5, ElementFact
<1>8. n \notin ElementPointers(h)
  <2>1. ElementPointers(h) \subseteq Boxes(h)
    BY <1>1, LiveOnes, ElementFact
  <2> QED BY <1>1, <2>1, HeapFact
<1>9. ElementsLive(g)
  <2> SUFFICES ASSUME NEW a \in DOMAIN g.vec, NEW i \in 1..Len(Elements(g, a)),
                      isAllocated(Elements(g, a)[i])
               PROVE  Live(g, Elements(g, a)[i])
    BY DEF ElementsLive, AllLive
  <2>1. Elements(g, a)[i] \in ValuePair
    BY <1>3, HeapFact
  <2>2. Live(h, Elements(g, a)[i])
    BY <1>1, <1>5 DEF ElementsLive, AllLive
  <2> QED BY <1>6, <2>1, <2>2
<1>10. Acyclic(g)
  <2>1. Boxes(g) = Boxes(h) \cup {n} /\ h.next < g.next
    BY <1>1, <1>4 DEF Boxes
  <2>2. \A x \in DOMAIN g.vec : Pointers(Elements(g, x)) \subseteq Boxes(g)
    BY <1>1, <1>3, <1>9, LiveOnes
  <2>3. \A x \in DOMAIN g.vec : n \notin Pointers(Elements(g, x))
    BY <1>7, <1>8, ElementFact
  <2> QED BY <1>1, <1>3, <1>5, <2>1, <2>2, <2>3, AcyclicTop
<1>11. Live(g, Rng(n))
  BY <1>4 DEF Live, Rng
<1>12. Moves(h, g, {})
  BY <1>1, <1>3, <1>4, <1>6, <1>7, <1>9, <1>10 DEF Moves, Good
<1> QED BY <1>1, <1>2, <1>7, <1>8, <1>11, <1>12 DEF Transfers, Ok, Rng

-----------------------------------------------------------------------------
\* The operations on values.

\* An operation that only ends, in one way or another.
LEMMA EndTransfers ==
  ASSUME NEW h, Good(h), NEW P, NEW g, Moves(h, g, P), NEW x, ~isAllocated(x)
  PROVE  Transfers(h, P, Ok(g, x)) /\ Transfers(h, P, Throws(g)) /\ Transfers(h, P, UB(g))
  BY DEF Transfers, Ok, Throws, UB

LEMMA Scalars ==
  /\ ~isAllocated(Undef)
  /\ \A n : ~isAllocated(Num(n))
  /\ \A b : ~isAllocated(Bool(b))
  BY DEF isAllocated, AllocatedTag, Undef, Num, Bool

LEMMA NewListTransfers ==
  ASSUME NEW h, Good(h)
  PROVE  Transfers(h, {}, NewList(h))
<1> DEFINE n == h.next
           none == <<>>
           g == Heap(Put(h.vec, n, n), h.range, Put(h.buf, n, none), n + 1)
<1>1. NewList(h) = Ok(g, Vec(n))
  BY DEF NewList
<1>2. IsHeap(g)
  BY <1>1, NewListOK DEF IsOutcome, Ok, Good
<1>3. /\ g.next = n + 1 /\ DOMAIN g.vec = DOMAIN h.vec \cup {n}
      /\ DOMAIN g.range = DOMAIN h.range /\ Elements(g, n) = none
  BY DEF Heap, Put, Elements
<1>4. \A x \in DOMAIN h.vec : Elements(g, x) = Elements(h, x)
  <2>1. Preserves(h, g)
    BY <1>1, NewListPreserves DEF Ok, Good
  <2>2. \A x \in DOMAIN h.vec : x < h.next
    BY HeapFact DEF Good, Boxes
  <2> HIDE DEF g
  <2> QED BY <1>2, <1>3, <2>1, <2>2, PreservesFacts DEF Good
<1>5. Pointers(none) = {} /\ AllLive(h, none)
  BY OwnedEmpty DEF Owned
<1> HIDE DEF g, none
<1>6. Moves(h, g, {}) /\ n \notin ElementPointers(g)
  BY <1>2, <1>3, <1>4, <1>5, NewBoxMoves
<1>7. Live(g, Vec(n)) /\ n >= n
  <2>1. n \in Nat
    BY HeapFact DEF Good
  <2> QED BY <1>3, <2>1 DEF Live, Vec
<1> QED BY <1>1, <1>6, <1>7 DEF Transfers, Ok, Vec

LEMMA CopyTransfers ==
  ASSUME NEW h, Good(h), NEW x \in ValuePair
  PROVE  /\ Transfers(h, {}, Copy(h, x))
         /\ (isAllocated(x) => Live(h, x)) => Copy(h, x).exit = "ok"
<1>1. CASE ~isAllocated(x)
  <2>1. Copy(h, x) = Ok(h, x)
    BY <1>1 DEF Copy, isAllocated, AllocatedTag
  <2> QED BY <1>1, <2>1, MovesItself, EndTransfers DEF Ok
<1>2. CASE x.tag = "VECTOR" /\ Live(h, x)
  <2> DEFINE n == h.next
             g == Heap(Put(h.vec, n, h.vec[x.v]), h.range, h.buf, n + 1)
  <2>1. Copy(h, x) = Ok(g, Vec(n))
    BY <1>2 DEF Copy, isAllocated, AllocatedTag
  <2>2. IsHeap(g)
    BY <2>1, CopyOK DEF IsOutcome, Ok, Good
  <2>3. x.v \in DOMAIN h.vec
    BY <1>2, LiveParts DEF Good
  <2>4. /\ g.next = n + 1 /\ DOMAIN g.vec = DOMAIN h.vec \cup {n}
        /\ DOMAIN g.range = DOMAIN h.range /\ Elements(g, n) = Elements(h, x.v)
    BY DEF Heap, Put, Elements
  <2>5. \A y \in DOMAIN h.vec : Elements(g, y) = Elements(h, y)
    <3>1. Preserves(h, g)
      BY <2>1, CopyPreserves DEF Ok, Good
    <3>2. \A y \in DOMAIN h.vec : y < h.next
      BY HeapFact DEF Good, Boxes
    <3> HIDE DEF g
    <3> QED BY <2>2, <2>4, <3>1, <3>2, PreservesFacts DEF Good
  <2> HIDE DEF g
  <2>6. Pointers(Elements(g, n)) \subseteq ElementPointers(h) /\ AllLive(h, Elements(g, n))
    BY <2>3, <2>4, ElementFact DEF Good, ElementsLive
  <2>7. Moves(h, g, {}) /\ n \notin ElementPointers(g)
    BY <2>2, <2>4, <2>5, <2>6, NewBoxMoves
  <2>8. Live(g, Vec(n)) /\ n >= n
    <3>1. n \in Nat
      BY HeapFact DEF Good
    <3> QED BY <2>4, <3>1 DEF Live, Vec
  <2> QED BY <2>1, <2>7, <2>8 DEF Transfers, Ok, Vec
<1>3. CASE x.tag = "RANGE" /\ Live(h, x)
  <2>1. h.range[x.v] \in SRange
    BY <1>3, LiveParts DEF Good
  <2>2. Copy(h, x) = NewRange(h, h.range[x.v])
    BY <1>3 DEF Copy, isAllocated, AllocatedTag
  <2> QED BY <2>1, <2>2, NewRangeMoves
<1>4. CASE isAllocated(x) /\ ~Live(h, x)
  <2>1. Copy(h, x) \in {Throws(h), UB(h)}
    BY <1>4 DEF Copy, isAllocated, AllocatedTag
  <2> QED BY <1>4, <2>1, MovesItself, EndTransfers, Scalars
<1> QED BY <1>1, <1>2, <1>3, <1>4 DEF Live

LEMMA DropTransfers ==
  ASSUME NEW h, Good(h), NEW x \in ValuePair, PointerOf(x) \cap ElementPointers(h) = {}
  PROVE  /\ Transfers(h, PointerOf(x), Drop(h, x))
         /\ ~isAllocated(Drop(h, x).val)
         /\ (isAllocated(x) => Live(h, x)) => Drop(h, x).exit = "ok"
<1>1. CASE ~isAllocated(x)
  <2>1. Drop(h, x) = Ok(h, Undef)
    BY <1>1 DEF Drop, isAllocated, AllocatedTag, Live
  <2> QED BY <1>1, <2>1, MovesItself, EndTransfers, Scalars DEF Ok
<1>2. CASE isAllocated(x) /\ Live(h, x)
  <2>1. Drop(h, x) = Ok(FreeAll(h, {x.v}), Undef)
    BY <1>2 DEF Drop, isAllocated, AllocatedTag, Live
  <2>2. PointerOf(x) = {x.v}
    BY <1>2 DEF PointerOf
  <2>3. Moves(h, FreeAll(h, {x.v}), {x.v})
    BY <2>2, FreeAllMoves
  <2> QED BY <2>1, <2>2, <2>3, EndTransfers, Scalars DEF Ok
<1>3. CASE isAllocated(x) /\ ~Live(h, x)
  <2>1. Drop(h, x) \in {Throws(h), UB(h)}
    BY <1>3 DEF Drop, Live
  <2>2. Transfers(h, PointerOf(x), Throws(h)) /\ Transfers(h, PointerOf(x), UB(h))
    BY MovesItself, EndTransfers, Scalars
  <2>3. ~isAllocated(Throws(h).val) /\ ~isAllocated(UB(h).val)
    BY Scalars DEF Throws, UB
  <2> QED BY <1>3, <2>1, <2>2, <2>3
<1> QED BY <1>1, <1>2, <1>3

\* Slots that own what they point to can be dropped one after the other.
LEMMA DropAllTransfers ==
  ASSUME NEW h, Good(h), NEW s \in Seq(ValuePair), Owned(h, s)
  PROVE  /\ Transfers(h, Pointers(s), DropAll(h, s))
         /\ DropAll(h, s).exit = "ok" /\ ~isAllocated(DropAll(h, s).val)
<1> DEFINE Fails(i) == /\ isAllocated(s[i])
                       /\ \/ ~Live(h, s[i])
                          \/ \E j \in 1..(i - 1) : isAllocated(s[j]) /\ s[j].v = s[i].v
           dropped == {i \in 1..Len(s) : \A j \in 1..i : ~Fails(j)}
           A == {s[i].v : i \in {j \in dropped : isAllocated(s[j])}}
<1>1. Len(s) \in Nat
  BY LenProperties
<1>2. ASSUME NEW i \in 1..Len(s) PROVE ~Fails(i)
  <2>1. isAllocated(s[i]) => Live(h, s[i])
    BY DEF Owned, AllLive
  <2>2. \A j \in 1..(i - 1) : j \in 1..Len(s) /\ j # i
    BY <1>1
  <2>3. \A j \in 1..Len(s) :
          isAllocated(s[i]) /\ isAllocated(s[j]) /\ s[i].v = s[j].v => i = j
    BY DEF Owned
  <2> QED BY <2>1, <2>2, <2>3
<1> HIDE DEF Fails
<1>3. DropAll(h, s) = Ok(FreeAll(h, A), Undef)
  BY <1>2 DEF DropAll, Fails
<1>4. A \subseteq Pointers(s)
  BY PointersFact
<1>5. A \cap ElementPointers(h) = {}
  BY <1>4 DEF Owned
<1> HIDE DEF A
<1>6. Moves(h, FreeAll(h, A), A)
  BY <1>5, FreeAllMoves
<1>7. Moves(h, FreeAll(h, A), Pointers(s))
  BY <1>4, <1>6, MovesFewer
<1> QED BY <1>3, <1>7, EndTransfers, Scalars DEF Ok

\* The operands of a binary operation.
LEMMA PairFacts ==
  ASSUME NEW h, NEW l \in ValuePair, NEW r \in ValuePair, Owned(h, <<l, r>>)
  PROVE  /\ Pointers(<<l, r>>) = PointerOf(l) \cup PointerOf(r)
         /\ PointerOf(l) \cap PointerOf(r) = {}
         /\ (PointerOf(l) \cup PointerOf(r)) \cap ElementPointers(h) = {}
         /\ isAllocated(l) => Live(h, l)
         /\ isAllocated(r) => Live(h, r)
         /\ Owned(h, <<r, l>>)
<1> DEFINE s == <<l, r>>
           t == <<r, l>>
<1>1. /\ Len(s) = 2 /\ s[1] = l /\ s[2] = r
      /\ Len(t) = 2 /\ t[1] = r /\ t[2] = l
  OBVIOUS
<1> HIDE DEF s, t
<1>2. \A i : i \in 1..2 <=> i = 1 \/ i = 2
  OBVIOUS
<1>3. \A p : p \in Pointers(s) <=> p \in PointerOf(l) \cup PointerOf(r)
  BY <1>1, <1>2, PointersFact DEF PointerOf
<1>4. \A p : p \in Pointers(t) <=> p \in PointerOf(l) \cup PointerOf(r)
  BY <1>1, <1>2, PointersFact DEF PointerOf
<1>5. /\ \A i \in 1..2 : isAllocated(s[i]) => Live(h, s[i])
      /\ Pointers(s) \cap ElementPointers(h) = {}
      /\ \A i, j \in 1..2 :
           isAllocated(s[i]) /\ isAllocated(s[j]) /\ s[i].v = s[j].v => i = j
  BY <1>1 DEF Owned, AllLive, s
<1>6. isAllocated(l) /\ isAllocated(r) => l.v # r.v
  BY <1>1, <1>2, <1>5
<1>7. (isAllocated(l) => Live(h, l)) /\ (isAllocated(r) => Live(h, r))
  BY <1>1, <1>2, <1>5
<1>8. \A i, j \in 1..2 :
        isAllocated(t[i]) /\ isAllocated(t[j]) /\ t[i].v = t[j].v => i = j
  BY <1>1, <1>2, <1>6
<1>9. AllLive(h, t)
  BY <1>1, <1>2, <1>7 DEF AllLive
<1>10. Owned(h, t)
  BY <1>1, <1>3, <1>4, <1>5, <1>8, <1>9 DEF Owned
<1> QED BY <1>3, <1>5, <1>6, <1>7, <1>10 DEF s, t, PointerOf

LEMMA DropBothTransfers ==
  ASSUME NEW h, Good(h), NEW l \in ValuePair, NEW r \in ValuePair, Owned(h, <<l, r>>),
         NEW d \in {DropBoth(h, l, r), DropBoth(h, r, l)}
  PROVE  /\ Transfers(h, PointerOf(l) \cup PointerOf(r), d)
         /\ d.exit = "ok" /\ ~isAllocated(d.val)
<1> DEFINE s == <<l, r>>
           t == <<r, l>>
<1>1. s \in Seq(ValuePair) /\ t \in Seq(ValuePair)
  OBVIOUS
<1>2. Owned(h, s) /\ Owned(h, t)
  BY PairFacts
<1>3. Pointers(s) = PointerOf(l) \cup PointerOf(r)
      /\ Pointers(t) = PointerOf(l) \cup PointerOf(r)
  <2>1. Pointers(t) = PointerOf(r) \cup PointerOf(l)
    BY <1>2, PairFacts
  <2> QED BY <2>1, PairFacts
<1>4. d \in {DropAll(h, s), DropAll(h, t)}
  BY DEF DropBoth
<1> HIDE DEF s, t
<1> QED BY <1>1, <1>2, <1>3, <1>4, DropAllTransfers

LEMMA UnaryTransfers ==
  ASSUME NEW h, Good(h), NEW x \in ValuePair, PointerOf(x) \cap ElementPointers(h) = {},
         NEW op \in BuiltinUnary
  PROVE  /\ Transfers(h, PointerOf(x), HandleUnary(h, x, op))
         /\ (isAllocated(x) => Live(h, x)) => HandleUnary(h, x, op).exit # "ub"
<1> DEFINE P == PointerOf(x)
           u == HandleUnary(h, x, op)
<1>1. \/ u = Throws(h)
      \/ u = Drop(h, x)
      \/ \E y : ~isAllocated(y) /\ u = Ok(h, y)
      \/ \E y : ~isAllocated(y) /\ isAllocated(x) /\ u = Ok(FreeAll(h, {x.v}), y)
  <2>1. x.tag = "VECTOR" \/ x.tag = "RANGE" => isAllocated(x)
    BY DEF isAllocated, AllocatedTag
  <2>2. CASE op = "NOT"
    BY <2>2, Scalars DEF HandleUnary, RangeGetter, NumericUnary
  <2>3. CASE op = "NORM"
    BY <2>3 DEF HandleUnary, RangeGetter, NumericUnary
  <2>4. CASE op = "LEN"
    BY <2>1, <2>4, Scalars DEF HandleUnary, RangeGetter, NumericUnary
  <2>5. CASE op \in RangeGetter
    BY <2>1, <2>5, Scalars DEF HandleUnary, RangeGetter, NumericUnary
  <2>6. CASE op \in NumericUnary
    BY <2>6, Scalars DEF HandleUnary, RangeGetter, NumericUnary
  <2> QED BY <2>2, <2>3, <2>4, <2>5, <2>6 DEF BuiltinUnary
<1> HIDE DEF u
<1>2. Moves(h, h, P)
  BY MovesItself
<1>3. Transfers(h, P, u) /\ ((isAllocated(x) => Live(h, x)) => u.exit # "ub")
  <2>1. CASE u = Throws(h)
    <3>1. Transfers(h, P, Throws(h))
      BY <1>2, EndTransfers, Scalars
    <3> QED BY <2>1, <3>1 DEF Throws
  <2>2. CASE u = Drop(h, x)
    BY <2>2, DropTransfers
  <2>3. CASE \E y : ~isAllocated(y) /\ u = Ok(h, y)
    <3>1. \A y : ~isAllocated(y) => Transfers(h, P, Ok(h, y)) /\ Ok(h, y).exit = "ok"
      BY <1>2, EndTransfers DEF Ok
    <3> QED BY <2>3, <3>1
  <2>4. CASE \E y : ~isAllocated(y) /\ isAllocated(x) /\ u = Ok(FreeAll(h, {x.v}), y)
    <3> DEFINE g == FreeAll(h, {x.v})
    <3>1. P = {x.v}
      BY <2>4 DEF PointerOf
    <3>2. Moves(h, g, P)
      BY <3>1, FreeAllMoves
    <3> HIDE DEF g
    <3>3. \A y : ~isAllocated(y) => Transfers(h, P, Ok(g, y)) /\ Ok(g, y).exit = "ok"
      BY <3>2, EndTransfers DEF Ok
    <3> QED BY <2>4, <3>3 DEF g
  <2> QED BY <1>1, <2>1, <2>2, <2>3, <2>4
<1> QED BY <1>3 DEF u

-----------------------------------------------------------------------------
\* Comparing values.  Every set of numbers has a least element: induction.
LEMMA Least ==
  ASSUME NEW T, T \subseteq Nat, T # {}
  PROVE  \E n \in T : \A m \in T : n <= m
<1> DEFINE R == OpToRel(<, Nat)
<1>1. IsWellFoundedOn(R, Nat)
  BY NatLessThanWellFounded
<1>2. \A x, y \in Nat : <<x, y>> \in R <=> x < y
  BY DEF OpToRel
<1> HIDE DEF R
<1>3. PICK n \in T : \A m \in T : <<m, n>> \notin R
  BY <1>1, WFMin
<1>4. n \in Nat /\ \A m \in T : m \in Nat /\ ~(m < n)
  BY <1>2, <1>3
<1> QED BY <1>4

\* f is the function by which Equal recurses, n deep.
Recurses(h, n, f) ==
  f = [d \in 0..n |->
        [p \in ValuePair \X ValuePair |->
          IF d = 0 THEN "ub" ELSE EqualBy(h, f[d - 1], p[1], p[2])]]

\* The recursive function exists, for every depth.
LEMMA EqualExists ==
  ASSUME NEW h
  PROVE  \A n \in Nat : \E f : Recurses(h, n, f)
<1> DEFINE Pairs == ValuePair \X ValuePair
           start == [p \in Pairs |-> "ub"]
           step(g) == [p \in Pairs |-> EqualBy(h, g, p[1], p[2])]
           is(f, n) == f = [d \in 0..n |-> IF d = 0 THEN start ELSE step(f[d - 1])]
           P(n) == \E f : is(f, n)
<1>1. \A f, n : is(f, n) <=> Recurses(h, n, f)
  <2> TAKE f, n
  <2>1. \A d : (IF d = 0 THEN start ELSE step(f[d - 1]))
               = [p \in Pairs |-> IF d = 0 THEN "ub" ELSE EqualBy(h, f[d - 1], p[1], p[2])]
    OBVIOUS
  <2> QED BY <2>1 DEF Recurses
<1> HIDE DEF start, step
<1>2. P(0)
  <2>1. is([d \in 0..0 |-> start], 0)
    OBVIOUS
  <2> QED BY <2>1
<1>3. ASSUME NEW n \in Nat, P(n) PROVE P(n + 1)
  <2>1. PICK f : f = [d \in 0..n |-> IF d = 0 THEN start ELSE step(f[d - 1])]
    BY <1>3
  <2> DEFINE g == [d \in 0..(n + 1) |-> IF d = n + 1 THEN step(f[n]) ELSE f[d]]
  <2>2. \A d \in 0..n : f[d] = IF d = 0 THEN start ELSE step(f[d - 1])
    BY <2>1
  <2>3. \A d \in 0..(n + 1) : g[d] = IF d = 0 THEN start ELSE step(g[d - 1])
    <3> TAKE d \in 0..(n + 1)
    <3>1. CASE d = 0
      BY <2>2, <3>1
    <3>2. CASE d \in 1..n
      <4>1. d \in 0..n /\ d - 1 \in 0..n /\ d # n + 1 /\ d - 1 # n + 1 /\ d - 1 \in 0..(n + 1)
        BY <3>2
      <4>2. g[d] = f[d] /\ g[d - 1] = f[d - 1]
        BY <4>1
      <4> HIDE DEF g
      <4> QED BY <2>2, <3>2, <4>1, <4>2
    <3>3. CASE d = n + 1
      <4>1. d - 1 = n /\ n \in 0..(n + 1) /\ n # n + 1 /\ d # 0
        BY <3>3
      <4>2. g[d] = step(f[n]) /\ g[d - 1] = f[n]
        BY <3>3, <4>1
      <4> HIDE DEF g
      <4> QED BY <4>1, <4>2
    <3> QED BY <3>1, <3>2, <3>3
  <2>4. g = [d \in 0..(n + 1) |-> IF d = 0 THEN start ELSE step(g[d - 1])]
    <3>1. g = [d \in 0..(n + 1) |-> g[d]]
      OBVIOUS
    <3> HIDE DEF g
    <3> QED BY <2>3, <3>1
  <2> HIDE DEF g
  <2>5. is(g, n + 1)
    BY <2>4
  <2> QED BY <2>5
<1> HIDE DEF P
<1>4. \A n \in Nat : P(n)
  <2> SUFFICES ASSUME {n \in Nat : ~P(n)} # {} PROVE FALSE
    OBVIOUS
  <2>1. PICK n \in {k \in Nat : ~P(k)} : \A m \in {k \in Nat : ~P(k)} : n <= m
    <3> DEFINE T == {k \in Nat : ~P(k)}
    <3>1. T \subseteq Nat /\ T # {}
      OBVIOUS
    <3> HIDE DEF T
    <3>2. \E n \in T : \A m \in T : n <= m
      BY <3>1, Least
    <3> QED BY <3>2 DEF T
  <2>2. n # 0
    BY <1>2, <2>1
  <2>3. n - 1 \in Nat /\ P(n - 1) /\ n = n - 1 + 1
    BY <2>1, <2>2
  <2> QED BY <1>3, <2>1, <2>3
<1> QED BY <1>1, <1>4 DEF P

\* Nothing on the way to the first difference is undefined behaviour.
LEMMA VerdictDefined ==
  ASSUME NEW n \in Nat, NEW e, Len(e) = n, \A i \in 1..n : e[i] # "ub"
  PROVE  Verdict(e) # "ub"
<1> DEFINE T == {i \in 1..n : e[i] # "yes"}
           first(i) == e[i] # "yes" /\ \A j \in 1..(i - 1) : e[j] = "yes"
<1>1. CASE T = {}
  BY <1>1 DEF Verdict
<1>2. CASE T # {}
  <2>1. T \subseteq Nat
    OBVIOUS
  <2> HIDE DEF T
  <2>2. PICK i \in T : \A j \in T : i <= j
    BY <1>2, <2>1, Least
  <2>3. i \in 1..n /\ first(i)
    BY <2>2 DEF T
  <2> DEFINE c == CHOOSE k \in 1..n : first(k)
  <2>4. c \in 1..n /\ first(c)
    BY <2>3
  <2>5. Verdict(e) = e[c]
    BY <2>4 DEF Verdict
  <2> QED BY <2>4, <2>5
<1> QED BY <1>1, <1>2

\* Comparing two live values ends, without meeting a dangling pointer: the lists it
\* goes down into come ever earlier in the order.
LEMMA EqualDefined ==
  ASSUME NEW h, Good(h), NEW l \in ValuePair, NEW r \in ValuePair,
         isAllocated(l) => Live(h, l), isAllocated(r) => Live(h, r)
  PROVE  Equal(h, l, r) # "ub"
<1> DEFINE n == h.next
           eq == CHOOSE f : Recurses(h, n, f)
           fine(x) == x \in ValuePair /\ (isAllocated(x) => Live(h, x))
<1>1. IsHeap(h) /\ ElementsLive(h) /\ Acyclic(h) /\ n \in Nat
  BY HeapFact DEF Good
<1>2. Equal(h, l, r) = eq[n][<<l, r>>]
  BY DEF Equal, Recurses
<1>3. eq = [d \in 0..n |->
             [p \in ValuePair \X ValuePair |->
               IF d = 0 THEN "ub" ELSE EqualBy(h, eq[d - 1], p[1], p[2])]]
  <2>1. Recurses(h, n, eq)
    BY <1>1, EqualExists
  <2> HIDE DEF eq
  <2> QED BY <2>1 DEF Recurses
<1> HIDE DEF eq
<1>4. \A d \in 1..n : \A x, y \in ValuePair : eq[d][<<x, y>>] = EqualBy(h, eq[d - 1], x, y)
  <2> TAKE d \in 1..n
  <2> TAKE x, y \in ValuePair
  <2>1. d \in 0..n /\ d # 0
    OBVIOUS
  <2>2. eq[d] = [p \in ValuePair \X ValuePair |-> EqualBy(h, eq[d - 1], p[1], p[2])]
    BY <1>3, <2>1
  <2> QED BY <2>2
<1>5. PICK rank \in [Boxes(h) -> 1..(n - 1)] : Orders(h, rank)
  BY <1>1 DEF Acyclic
<1> DEFINE level(x) == IF x.tag = "VECTOR" THEN rank[x.v] ELSE 0
           T == {d \in 1..n : \E x, y \in ValuePair :
                   fine(x) /\ fine(y) /\ level(x) < d /\ eq[d][<<x, y>>] = "ub"}
<1>6. \A x : fine(x) => level(x) \in 0..(n - 1) /\ (x.tag = "VECTOR" => level(x) >= 1)
  <2> TAKE x
  <2> HAVE fine(x)
  <2>1. CASE x.tag = "VECTOR"
    <3>1. x.v \in Boxes(h)
      BY <2>1 DEF isAllocated, AllocatedTag, Live, Boxes
    <3>2. rank[x.v] \in 1..(n - 1)
      BY <3>1
    <3> QED BY <1>1, <2>1, <3>2
  <2>2. CASE x.tag # "VECTOR"
    <3>1. n >= 1
      BY <1>1, HeapFact
    <3> QED BY <1>1, <2>2, <3>1
  <2> QED BY <2>1, <2>2
<1>7. T = {}
  <2> SUFFICES ASSUME T # {} PROVE FALSE
    OBVIOUS
  <2>1. T \subseteq Nat
    OBVIOUS
  <2> HIDE DEF T
  <2>2. PICK d \in T : \A c \in T : d <= c
    BY <2>1, Least
  <2>3. PICK x, y \in ValuePair :
          fine(x) /\ fine(y) /\ level(x) < d /\ eq[d][<<x, y>>] = "ub"
    BY <2>2 DEF T
  <2>4. d \in 1..n
    BY <2>2 DEF T
  <2>5. EqualBy(h, eq[d - 1], x, y) = "ub"
    BY <1>4, <2>3, <2>4
  <2> DEFINE s == Elements(h, x.v)
             t == Elements(h, y.v)
             e == [i \in 1..Len(s) |-> eq[d - 1][<<s[i], t[i]>>]]
  <2>6. \A z : fine(z) /\ z.tag = "RANGE" => Live(h, z)
    BY DEF isAllocated, AllocatedTag
  <2>7. \A z : fine(z) /\ z.tag = "VECTOR" => Live(h, z)
    BY DEF isAllocated, AllocatedTag
  <2>8. x.tag = "VECTOR" /\ y.tag = "VECTOR" /\ Len(s) = Len(t) /\ Verdict(e) = "ub"
    <3>1. x.tag \in {"STRING", "VECTOR", "RANGE", "NUMBER", "GEOMETRY", "UNDEF", "BOOLEAN"}
      BY DEF ValuePair, ValueTag, AllocatedTag
    <3> HIDE DEF e
    <3>2. CASE x.tag # y.tag \/ x.tag \in {"STRING", "NUMBER", "BOOLEAN", "GEOMETRY", "UNDEF"}
      BY <2>5, <3>2 DEF EqualBy
    <3>3. CASE x.tag = y.tag /\ x.tag = "RANGE"
      BY <2>3, <2>5, <2>6, <3>3 DEF EqualBy
    <3>4. CASE x.tag = y.tag /\ x.tag = "VECTOR"
      <4>1. Live(h, x) /\ Live(h, y)
        BY <2>3, <2>7, <3>4
      <4>2. EqualBy(h, eq[d - 1], x, y) = IF Len(s) # Len(t) THEN "no" ELSE Verdict(e)
        BY <3>4, <4>1 DEF EqualBy, e
      <4> QED BY <2>5, <3>4, <4>2
    <3> QED BY <3>1, <3>2, <3>3, <3>4
  <2>9. x.v \in DOMAIN h.vec /\ y.v \in DOMAIN h.vec
    BY <1>1, <2>3, <2>7, <2>8, LiveParts
  <2>10. s \in Seq(ValuePair) /\ t \in Seq(ValuePair) /\ Len(s) \in Nat
    BY <1>1, <2>9, HeapFact, LenProperties
  <2>11. \A i \in 1..Len(s) : fine(s[i]) /\ fine(t[i])
    BY <1>1, <2>8, <2>9, <2>10 DEF ElementsLive, AllLive
  <2>12. \A i \in 1..Len(s) : level(s[i]) < level(x)
    <3> TAKE i \in 1..Len(s)
    <3>1. CASE s[i].tag = "VECTOR"
      <4>1. s[i].v \in Pointers(s)
        BY <3>1, PointersFact DEF isAllocated, AllocatedTag
      <4>2. rank[s[i].v] < rank[x.v]
        BY <1>5, <2>9, <4>1 DEF Orders
      <4> QED BY <2>8, <3>1, <4>2
    <3>2. CASE s[i].tag # "VECTOR"
      BY <1>6, <2>3, <2>8, <3>2
    <3> QED BY <3>1, <3>2
  <2>13. \A i \in 1..Len(s) : eq[d - 1][<<s[i], t[i]>>] # "ub"
    <3> TAKE i \in 1..Len(s)
    <3>1. level(s[i]) \in Nat /\ level(x) \in Nat
      BY <1>6, <2>3, <2>11
    <3>2. d - 1 \in 1..n /\ level(s[i]) < d - 1 /\ ~(d <= d - 1)
      BY <1>1, <2>3, <2>4, <2>12, <3>1
    <3>3. d - 1 \notin T
      BY <2>2, <3>2
    <3> QED BY <2>10, <2>11, <3>2, <3>3, <2>8 DEF T
  <2>14. Len(e) = Len(s) /\ \A i \in 1..Len(s) : e[i] # "ub"
    BY <2>10, <2>13
  <2> HIDE DEF e
  <2> QED BY <2>8, <2>10, <2>14, VerdictDefined
<1>8. n \in 1..n /\ fine(l) /\ fine(r) /\ level(l) < n
  BY <1>1, <1>6, HeapFact
<1> QED BY <1>2, <1>7, <1>8

-----------------------------------------------------------------------------
\* Writing into a list that is no element: the list at b is a, or a clone of it.
LEMMA WriteTransfers ==
  ASSUME NEW h, Good(h), NEW a \in DOMAIN h.vec, a \notin ElementPointers(h),
         NEW s \in Seq(ValuePair), AllLive(h, s), a \notin Pointers(s),
         NEW Q, Pointers(s) \subseteq ElementPointers(h) \cup Q
  PROVE  Transfers(h, {a} \cup Q,
                   Ok(SetElements(Unshare(h, a).heap, Unshare(h, a).val.v, s),
                      Unshare(h, a).val))
<1> DEFINE u == Unshare(h, a)
           n == h.next
           b == u.val.v
           k == SetElements(u.heap, b, s)
<1>1. /\ IsHeap(h) /\ ElementsLive(h) /\ Acyclic(h) /\ n \in Nat
      /\ a \in Nat /\ a # 0 /\ a < n
  BY HeapFact DEF Good, Boxes
<1>2. /\ IsHeap(u.heap) /\ u.val \in ValuePair /\ b \in DOMAIN u.heap.vec
      /\ PreservesBut(h, k, a)
  BY <1>1, UnshareOK, WritePreserves
<1>3. /\ u.val = Vec(b)
      /\ DOMAIN u.heap.range = DOMAIN h.range
      /\ DOMAIN u.heap.vec = (DOMAIN h.vec \ {a}) \cup {b}
      /\ \/ b = a /\ u.heap.next = n
         \/ b = n /\ u.heap.next = n + 1
  <2>1. CASE UseCountIsOne(h, a)
    BY <2>1 DEF Unshare, Ok, Vec
  <2>2. CASE ~UseCountIsOne(h, a)
    <3> DEFINE g == Heap(Put(h.vec, n, n), h.range, Put(h.buf, n, Elements(h, a)), n + 1)
    <3>1. u = Ok(FreeAll(g, {a}), Vec(n))
      BY <2>2 DEF Unshare
    <3>2. DOMAIN g.vec = DOMAIN h.vec \cup {n} /\ g.range = h.range /\ g.next = n + 1
      BY DEF Heap, Put
    <3> HIDE DEF g
    <3>3. /\ DOMAIN FreeAll(g, {a}).vec = DOMAIN g.vec \ {a}
          /\ DOMAIN FreeAll(g, {a}).range = DOMAIN g.range \ {a}
          /\ FreeAll(g, {a}).next = g.next
      BY DEF FreeAll, Heap, Without, Restrict
    <3>4. a \notin DOMAIN h.range
      BY <1>1, HeapFact
    <3>5. u.heap = FreeAll(g, {a}) /\ u.val = Vec(n) /\ b = n
      BY <3>1 DEF Ok, Vec
    <3> HIDE DEF u, b
    <3>6. DOMAIN u.heap.range = DOMAIN h.range
      BY <3>2, <3>3, <3>4, <3>5
    <3>7. n # a
      BY <1>1
    <3>8. DOMAIN u.heap.vec = (DOMAIN h.vec \ {a}) \cup {b}
      BY <3>2, <3>3, <3>5, <3>7
    <3> QED BY <3>2, <3>3, <3>5, <3>6, <3>8
  <2> QED BY <2>1, <2>2
<1>4. IsHeap(k)
  BY <1>2, SetElementsOK
<1>5. k.next = u.heap.next /\ k.vec = u.heap.vec /\ k.range = u.heap.range /\ Elements(k, b) = s
  BY DEF SetElements, Heap, Put, Elements
<1> HIDE DEF u, b, k
<1>6. \A x \in DOMAIN k.vec : x # b => x \in DOMAIN h.vec /\ x # a /\ Elements(k, x) = Elements(h, x)
  <2> TAKE x \in DOMAIN k.vec
  <2> HAVE x # b
  <2>1. x \in DOMAIN h.vec /\ x # a
    BY <1>3, <1>5
  <2>2. x < n
    BY <1>1, <2>1, HeapFact DEF Boxes
  <2> QED BY <1>2, <2>1, <2>2 DEF PreservesBut
<1>7. \A x \in ValuePair : Live(h, x) /\ x.v # a => Live(k, x)
  BY <1>3, <1>5 DEF Live
<1>8. ElementPointers(k) \subseteq ElementPointers(h) \cup Q
  <2>1. ASSUME NEW x \in DOMAIN k.vec, NEW p \in Pointers(Elements(k, x))
        PROVE  p \in ElementPointers(h) \cup Q
    <3>1. CASE x = b
      BY <1>5, <2>1, <3>1
    <3>2. CASE x # b
      BY <1>6, <2>1, <3>2, ElementFact
    <3> QED BY <3>1, <3>2
  <2> QED BY <2>1, ElementFact
<1>9. ElementPointers(h) \subseteq Boxes(h) /\ Pointers(s) \subseteq Boxes(h)
  BY <1>1, LiveOnes, ElementFact, OwnedLive
<1>10. b \notin ElementPointers(h) /\ b \notin Pointers(s)
  <2>1. n \notin Boxes(h)
    BY <1>1, HeapFact
  <2> QED BY <1>3, <1>9, <2>1
<1>11. b \notin ElementPointers(k)
  <2>1. ASSUME NEW x \in DOMAIN k.vec PROVE b \notin Pointers(Elements(k, x))
    <3>1. CASE x = b
      BY <1>5, <1>10, <3>1
    <3>2. CASE x # b
      BY <1>6, <1>10, <3>2, ElementFact
    <3> QED BY <3>1, <3>2
  <2> QED BY <2>1, ElementFact
<1>12. ElementsLive(k)
  <2> SUFFICES ASSUME NEW x \in DOMAIN k.vec, NEW i \in 1..Len(Elements(k, x)),
                      isAllocated(Elements(k, x)[i])
               PROVE  Live(k, Elements(k, x)[i])
    BY DEF ElementsLive, AllLive
  <2> DEFINE y == Elements(k, x)[i]
  <2>1. y \in ValuePair
    BY <1>4, HeapFact
  <2>2. CASE x = b
    <3>1. y = s[i] /\ i \in 1..Len(s)
      BY <1>5, <2>2
    <3>2. Live(h, y) /\ y.v \in Pointers(s)
      BY <3>1, PointersFact DEF AllLive
    <3> QED BY <1>7, <2>1, <3>2
  <2>3. CASE x # b
    <3>1. y = Elements(h, x)[i] /\ i \in 1..Len(Elements(h, x)) /\ x \in DOMAIN h.vec
      BY <1>6, <2>3
    <3>2. Live(h, y) /\ y.v \in Pointers(Elements(h, x))
      BY <1>1, <3>1, PointersFact DEF ElementsLive, AllLive
    <3>3. y.v \in ElementPointers(h)
      BY <3>1, <3>2, ElementFact
    <3> QED BY <1>7, <2>1, <3>2, <3>3
  <2> QED BY <2>2, <2>3
<1>13. Acyclic(k)
  <2>1. Boxes(k) \subseteq Boxes(h) \cup {b}
    BY <1>3, <1>5 DEF Boxes
  <2>2. (b \in Boxes(h) /\ n <= k.next) \/ n < k.next
    BY <1>1, <1>3, <1>5 DEF Boxes
  <2>3. \A x \in DOMAIN k.vec \ {b} :
          x \in DOMAIN h.vec /\ Pointers(Elements(k, x)) \subseteq Pointers(Elements(h, x))
    BY <1>6
  <2>4. \A x \in DOMAIN k.vec :
          Pointers(Elements(k, x)) \subseteq Boxes(k) /\ b \notin Pointers(Elements(k, x))
    BY <1>4, <1>11, <1>12, LiveOnes, ElementFact
  <2> QED BY <1>1, <1>4, <2>1, <2>2, <2>3, <2>4, AcyclicTop
<1>14. Moves(h, k, {a} \cup Q)
  <2>1. n <= k.next
    BY <1>1, <1>3, <1>5
  <2> QED BY <1>4, <1>7, <1>8, <1>12, <1>13, <2>1 DEF Moves, Good
<1>15. Live(k, Vec(b)) /\ (b \in {a} \cup Q \/ b >= n)
  BY <1>1, <1>3, <1>5 DEF Live, Vec
<1> QED BY <1>3, <1>11, <1>14, <1>15 DEF Transfers, Ok, Vec, u, b, k

LEMMA TransfersFewer ==
  ASSUME NEW h, NEW P, NEW r, Transfers(h, P, r), NEW Q, P \subseteq Q
  PROVE  Transfers(h, Q, r)
  BY MovesFewer DEF Transfers

LEMMA ListOf ==
  ASSUME NEW h, Good(h), NEW l \in ValuePair, Live(h, l), l.tag = "VECTOR"
  PROVE  /\ l.v \in DOMAIN h.vec /\ PointerOf(l) = {l.v}
         /\ Elements(h, l.v) \in Seq(ValuePair) /\ AllLive(h, Elements(h, l.v))
         /\ Pointers(Elements(h, l.v)) \subseteq ElementPointers(h)
  BY LiveParts, ElementFact DEF Good, ElementsLive, PointerOf, isAllocated, AllocatedTag

LEMMA AppendTransfers ==
  ASSUME NEW h, Good(h), NEW l \in ValuePair, NEW r \in ValuePair, Owned(h, <<l, r>>)
  PROVE  /\ Transfers(h, PointerOf(l) \cup PointerOf(r), AppendTo(h, l, r))
         /\ AppendTo(h, l, r).exit = "ok"
<1>1. CASE l.tag # "VECTOR"
  <2>1. AppendTo(h, l, r) = DropBoth(h, l, r)
    BY <1>1 DEF AppendTo
  <2> QED BY <2>1, DropBothTransfers
<1>2. CASE l.tag = "VECTOR"
  <2> DEFINE u == Unshare(h, l.v)
             e == Elements(h, l.v)
             s == Append(e, r)
             w == Ok(SetElements(u.heap, u.val.v, s), u.val)
  <2>1. Live(h, l)
    BY <1>2, PairFacts DEF isAllocated, AllocatedTag
  <2>2. AppendTo(h, l, r) = w
    BY <1>2, <2>1 DEF AppendTo
  <2>3. l.v \in DOMAIN h.vec /\ PointerOf(l) = {l.v} /\ e \in Seq(ValuePair) /\ AllLive(h, e)
        /\ Pointers(e) \subseteq ElementPointers(h)
    BY <1>2, <2>1, ListOf
  <2> HIDE DEF e
  <2>4. /\ s \in Seq(ValuePair)
        /\ AllLive(h, s) <=> AllLive(h, e) /\ (isAllocated(r) => Live(h, r))
        /\ Pointers(s) = Pointers(e) \cup PointerOf(r)
    BY <2>3, OwnedAppend, AppendProperties DEF PointerOf
  <2> HIDE DEF s
  <2>5. AllLive(h, s) /\ l.v \notin ElementPointers(h) /\ l.v \notin Pointers(s)
    BY <2>3, <2>4, PairFacts
  <2>6. Transfers(h, {l.v} \cup PointerOf(r), w)
    BY <2>3, <2>4, <2>5, WriteTransfers
  <2> QED BY <2>2, <2>3, <2>6 DEF Ok
<1> QED BY <1>1, <1>2

LEMMA ConcatTransfers ==
  ASSUME NEW h, Good(h), NEW l \in ValuePair, NEW r \in ValuePair, Owned(h, <<l, r>>)
  PROVE  /\ Transfers(h, PointerOf(l) \cup PointerOf(r), Concat(h, l, r))
         /\ Concat(h, l, r).exit = "ok"
<1>1. CASE l.tag # "VECTOR" \/ r.tag # "VECTOR"
  <2>1. Concat(h, l, r) = DropBoth(h, l, r)
    BY <1>1 DEF Concat
  <2> QED BY <2>1, DropBothTransfers
<1>2. CASE l.tag = "VECTOR" /\ r.tag = "VECTOR"
  <2> DEFINE u == Unshare(h, l.v)
             e == Elements(h, l.v)
             f == Elements(h, r.v)
             s == e \o f
             w == Ok(SetElements(u.heap, u.val.v, s), u.val)
  <2>1. Live(h, l) /\ Live(h, r)
    BY <1>2, PairFacts DEF isAllocated, AllocatedTag
  <2>2. l.v \in DOMAIN h.vec /\ PointerOf(l) = {l.v} /\ e \in Seq(ValuePair) /\ AllLive(h, e)
        /\ Pointers(e) \subseteq ElementPointers(h)
    BY <1>2, <2>1, ListOf
  <2>3. PointerOf(r) = {r.v} /\ f \in Seq(ValuePair) /\ AllLive(h, f)
        /\ Pointers(f) \subseteq ElementPointers(h)
    BY <1>2, <2>1, ListOf
  <2>4. l.v # r.v
    BY <2>2, <2>3, PairFacts
  <2>5. Concat(h, l, r) = w
    BY <1>2, <2>1, <2>4 DEF Concat
  <2> HIDE DEF e, f
  <2>6. s \in Seq(ValuePair) /\ AllLive(h, s) /\ Pointers(s) = Pointers(e) \cup Pointers(f)
    BY <2>2, <2>3, OwnedConcat, ConcatProperties
  <2> HIDE DEF s
  <2>7. l.v \notin ElementPointers(h) /\ l.v \notin Pointers(s)
    BY <2>2, <2>3, <2>6, PairFacts
  <2>8. Transfers(h, {l.v} \cup PointerOf(r), w)
    BY <2>2, <2>3, <2>6, <2>7, WriteTransfers
  <2> QED BY <2>2, <2>5, <2>8 DEF Ok
<1> QED BY <1>1, <1>2

LEMMA IndexTransfers ==
  ASSUME NEW h, Good(h), NEW l \in ValuePair, NEW r \in ValuePair, Owned(h, <<l, r>>)
  PROVE  /\ Transfers(h, PointerOf(l) \cup PointerOf(r), Index(h, l, r))
         /\ Index(h, l, r).exit = "ub" => r.v < 0
<1> DEFINE P == PointerOf(l) \cup PointerOf(r)
<1>1. CASE l.tag # "VECTOR" \/ r.tag # "NUMBER"
  <2>1. Index(h, l, r) = DropBoth(h, l, r)
    BY <1>1 DEF Index
  <2> QED BY <2>1, DropBothTransfers
<1>2. CASE l.tag = "VECTOR" /\ r.tag = "NUMBER"
  <2> DEFINE s == Elements(h, l.v)
             c == Copy(h, s[r.v + 1])
  <2>1. Live(h, l) /\ r.v \in Int
    BY <1>2, PairFacts DEF isAllocated, AllocatedTag, ValuePair
  <2>2. l.v \in DOMAIN h.vec /\ PointerOf(l) = {l.v} /\ s \in Seq(ValuePair) /\ AllLive(h, s)
        /\ l.v \notin ElementPointers(h) /\ Len(s) \in Nat
    BY <1>2, <2>1, ListOf, PairFacts, LenProperties
  <2>3. CASE r.v < 0
    <3>1. Index(h, l, r) = UB(h)
      BY <1>2, <2>1, <2>3 DEF Index
    <3> QED BY <2>3, <3>1, MovesItself, EndTransfers, Scalars
  <2>4. CASE r.v >= Len(s)
    <3>1. Index(h, l, r) = Drop(h, l)
      BY <1>2, <2>1, <2>2, <2>4 DEF Index
    <3>2. Transfers(h, PointerOf(l), Drop(h, l)) /\ Drop(h, l).exit = "ok"
      BY <2>1, PairFacts, DropTransfers
    <3> QED BY <3>1, <3>2, TransfersFewer
  <2>5. CASE r.v >= 0 /\ r.v < Len(s)
    <3> DEFINE g == FreeAll(c.heap, {l.v})
    <3>1. s[r.v + 1] \in ValuePair /\ (isAllocated(s[r.v + 1]) => Live(h, s[r.v + 1]))
      BY <2>1, <2>2, <2>5 DEF AllLive
    <3>2. Transfers(h, {}, c) /\ c.exit = "ok" /\ c.val \in ValuePair
      BY <3>1, CopyTransfers, CopyOK DEF IsOutcome, Good
    <3>3. Index(h, l, r) = Ok(g, c.val)
      <4>1. ~(r.v >= Len(s)) /\ ~(r.v < 0)
        BY <2>1, <2>2, <2>5
      <4> QED BY <1>2, <2>1, <2>5, <3>2, <4>1 DEF Index
    <3> HIDE DEF c
    <3>4. Good(c.heap) /\ {l.v} \cap ElementPointers(c.heap) = {}
      BY <2>2, <3>2 DEF Transfers, Moves
    <3>5. Moves(c.heap, g, {l.v})
      BY <3>4, FreeAllMoves
    <3>6. Moves(h, g, P)
      <4>1. Moves(h, c.heap, {l.v})
        BY <3>2, MovesFewer DEF Transfers
      <4>2. Moves(h, g, {l.v})
        BY <3>5, <4>1, MovesChain
      <4> QED BY <2>2, <4>2, MovesFewer
    <3>7. ASSUME isAllocated(c.val)
          PROVE  /\ Live(g, c.val) /\ c.val.v \notin ElementPointers(g)
                 /\ c.val.v >= h.next
      <4>1. Live(c.heap, c.val) /\ c.val.v \notin ElementPointers(c.heap) /\ c.val.v >= h.next
        BY <3>2, <3>7 DEF Transfers
      <4>2. l.v < h.next /\ l.v \in Nat /\ h.next \in Nat
        BY <2>2, HeapFact DEF Good, Boxes
      <4>3. c.val.v # l.v
        BY <4>1, <4>2
      <4>4. Live(g, c.val)
        BY <3>2, <3>5, <4>1, <4>3 DEF Moves
      <4>5. DOMAIN g.vec = DOMAIN c.heap.vec \ {l.v} /\ c.val.v \notin ElementPointers(g)
        <5>1. DOMAIN g.vec = DOMAIN c.heap.vec \ {l.v}
          BY DEF FreeAll, Heap, Without, Restrict
        <5>2. ElementPointers(g) \subseteq ElementPointers(c.heap) \cup {l.v}
          BY <3>5 DEF Moves
        <5> QED BY <4>1, <4>3, <5>1, <5>2
      <4> QED BY <4>1, <4>4, <4>5
    <3> HIDE DEF g
    <3>8. Transfers(h, P, Ok(g, c.val))
      BY <3>6, <3>7 DEF Transfers, Ok
    <3> QED BY <3>3, <3>8 DEF Ok
  <2> QED BY <2>1, <2>2, <2>3, <2>4, <2>5
<1> QED BY <1>1, <1>2

LEMMA BinaryTransfers ==
  ASSUME NEW h, Good(h), NEW l \in ValuePair, NEW r \in ValuePair, Owned(h, <<l, r>>),
         NEW op \in BinOp
  PROVE  /\ Transfers(h, PointerOf(l) \cup PointerOf(r), HandleBinary(h, l, r, op))
         /\ HandleBinary(h, l, r, op).exit = "ub" => op = "INDEX" /\ r.v < 0
<1> DEFINE P == PointerOf(l) \cup PointerOf(r)
           v == HandleBinary(h, l, r, op)
<1>1. CASE op = "APPEND"
  <2>1. v = AppendTo(h, l, r)
    BY <1>1 DEF HandleBinary, ArithmeticOp, CompareOp, EqualityOp, LogicOp
  <2> QED BY <2>1, AppendTransfers
<1>2. CASE op = "CONCAT"
  <2>1. v = Concat(h, l, r)
    BY <1>2 DEF HandleBinary, ArithmeticOp, CompareOp, EqualityOp, LogicOp
  <2> QED BY <2>1, ConcatTransfers
<1>3. CASE op = "INDEX"
  <2>1. v = Index(h, l, r)
    BY <1>3 DEF HandleBinary, ArithmeticOp, CompareOp, EqualityOp, LogicOp
  <2> QED BY <1>3, <2>1, IndexTransfers
<1>4. CASE op \notin {"APPEND", "CONCAT", "INDEX"}
  <2>1. op \in ArithmeticOp \cup CompareOp \cup EqualityOp \cup LogicOp
    BY <1>4 DEF BinOp
  <2>2. v \in {Arithmetic(h, l, r, op), Compare(h, l, r, op), Equality(h, l, r),
               Logic(h, l, r, op)}
    BY <2>1 DEF HandleBinary, ArithmeticOp, CompareOp, EqualityOp, LogicOp
  <2>3. \A d \in {DropBoth(h, l, r), DropBoth(h, r, l)} :
          Transfers(h, P, d) /\ d.exit = "ok" /\ ~isAllocated(d.val)
    BY DropBothTransfers
  <2>4. Moves(h, h, P)
    BY MovesItself
  <2>5. \A x : ~isAllocated(x) => Transfers(h, P, Ok(h, x)) /\ Ok(h, x).exit = "ok"
    BY <2>4, EndTransfers DEF Ok
  <2>6. \/ v \in {DropBoth(h, l, r), DropBoth(h, r, l)}
        \/ \E x : ~isAllocated(x) /\ v = Ok(h, x)
        \/ \E x : ~isAllocated(x) /\ v = Ok(DropBoth(h, l, r).heap, x)
    <3>1. Arithmetic(h, l, r, op) = DropBoth(h, l, r)
          \/ \E n : Arithmetic(h, l, r, op) = Ok(h, Num(n))
      BY DEF Arithmetic
    <3>2. Compare(h, l, r, op) \in {DropBoth(h, l, r), DropBoth(h, r, l)}
          \/ \E b : Compare(h, l, r, op) = Ok(h, Bool(b))
      BY DEF Compare
    <3>3. Logic(h, l, r, op) = DropBoth(h, l, r)
          \/ \E b : Logic(h, l, r, op) = Ok(h, Bool(b))
      BY DEF Logic
    <3>4. \E b : Equality(h, l, r) = Ok(DropBoth(h, l, r).heap, Bool(b))
      <4>1. Equal(h, l, r) # "ub"
        BY PairFacts, EqualDefined
      <4>2. DropBoth(h, l, r).exit = "ok"
        BY <2>3
      <4> QED BY <4>1, <4>2 DEF Equality
    <3> QED BY <2>2, <3>1, <3>2, <3>3, <3>4, Scalars
  <2>7. \A x : ~isAllocated(x) => /\ Transfers(h, P, Ok(DropBoth(h, l, r).heap, x))
                                 /\ Ok(DropBoth(h, l, r).heap, x).exit = "ok"
    <3>1. Moves(h, DropBoth(h, l, r).heap, P)
      BY <2>3 DEF Transfers
    <3> QED BY <3>1, EndTransfers DEF Ok
  <2> HIDE DEF v, P
  <2>8. Transfers(h, P, v) /\ v.exit = "ok"
    BY <2>3, <2>5, <2>6, <2>7
  <2> QED BY <2>8 DEF v, P
<1> QED BY <1>1, <1>2, <1>3, <1>4

-----------------------------------------------------------------------------
\* The evaluator's slots.

\* What a, b and c point to is theirs alone.
Parts(h, a, b, c) ==
  /\ Owned(h, a) /\ Owned(h, b) /\ Owned(h, c)
  /\ Apart(a, b) /\ Apart(a, c) /\ Apart(b, c)

OwnedNow == Good(heap) /\ Parts(heap, Operands, globals, ReturnedValues)

\* The inductive invariant: unique ownership needs that no list contains itself.
OInv == IInv /\ OwnedNow

LEMMA SlotTypes ==
  ASSUME IInv
  PROVE  /\ Saved \in Seq(ValuePair) /\ stack \in Seq(ValuePair) /\ top \in ValuePair
         /\ globals \in Seq(ValuePair) /\ Operands \in Seq(ValuePair)
         /\ ReturnedValues \in Seq(ValuePair) /\ Len(ReturnedValues) = Len(results)
         /\ heap.next \in Nat
<1>1. /\ stack \in Seq(ValuePair) /\ top \in ValuePair /\ globals \in Seq(ValuePair)
      /\ results \in Seq(Outcome) /\ IsHeap(heap)
  BY DEF IInv, TypeOK, Outcome
<1>2. Len(results) \in Nat /\ \A i \in 1..Len(results) : results[i].val \in ValuePair
  <2>1. \A i \in 1..Len(results) : results[i] \in Outcome
    BY <1>1
  <2> QED BY <1>1, <2>1, LenProperties DEF Outcome
<1>3. ReturnedValues \in Seq(ValuePair) /\ Len(ReturnedValues) = Len(results)
  BY <1>2 DEF ReturnedValues
<1>4. Saved \in Seq(ValuePair)
  BY SavedType
<1>5. Operands \in Seq(ValuePair)
  BY <1>4 DEF Operands
<1> QED BY <1>1, <1>3, <1>4, <1>5, HeapFact

LEMMA PartsJoined ==
  ASSUME NEW h, NEW a \in Seq(ValuePair), NEW b \in Seq(ValuePair), NEW c \in Seq(ValuePair)
  PROVE  Owned(h, a \o (b \o c)) <=> Parts(h, a, b, c)
<1>1. b \o c \in Seq(ValuePair)
  BY ConcatProperties
<1>2. /\ Owned(h, b \o c) <=> Owned(h, b) /\ Owned(h, c) /\ Apart(b, c)
      /\ Pointers(b \o c) = Pointers(b) \cup Pointers(c)
  BY OwnedConcat
<1>3. Owned(h, a \o (b \o c)) <=> Owned(h, a) /\ Owned(h, b \o c) /\ Apart(a, b \o c)
  BY <1>1, OwnedConcat
<1> QED BY <1>2, <1>3 DEF Parts, Apart

LEMMA OwnedNowIs ==
  ASSUME IInv
  PROVE  OwnedNow <=> UniquePointers /\ Acyclic(heap)
<1>1. Owned(heap, Operands \o Others) <=> Parts(heap, Operands, globals, ReturnedValues)
  BY SlotTypes, PartsJoined DEF Others
<1> QED BY <1>1 DEF OwnedNow, UniquePointers, Good, IInv, TypeOK

\* What the others own, they own after what the evaluation does with its own.
LEMMA OthersKeep ==
  ASSUME OInv, NEW P, P \subseteq Pointers(Operands), NEW h, Moves(heap, h, P)
  PROVE  /\ Owned(h, globals) /\ Owned(h, ReturnedValues)
         /\ \A p \in Pointers(globals) \cup Pointers(ReturnedValues) :
              p \notin Pointers(Operands) /\ p < heap.next
<1>1. Pointers(globals) \cap P = {} /\ Pointers(ReturnedValues) \cap P = {}
  BY DEF OInv, OwnedNow, Parts, Apart
<1>2. Good(heap) /\ Owned(heap, globals) /\ Owned(heap, ReturnedValues)
  BY DEF OInv, OwnedNow, Parts
<1>3. Owned(h, globals) /\ Owned(h, ReturnedValues)
  BY <1>1, <1>2, SlotTypes, MovesKeep DEF OInv
<1>4. \A p \in Pointers(globals) \cup Pointers(ReturnedValues) : p < heap.next
  BY <1>2, OwnedLive, HeapFact DEF Owned, Good
<1> QED BY <1>3, <1>4 DEF OInv, OwnedNow, Parts, Apart

LEMMA StayOwned ==
  ASSUME OInv, status = "running", status' = "running", UNCHANGED <<globals, results>>,
         NEW P, P \subseteq Pointers(Saved), Moves(heap, heap', P),
         NEW s, Saved' = s, Owned(heap', s),
         \A p \in Pointers(s) : p \in Pointers(Saved) \/ p >= heap.next
  PROVE  OwnedNow'
<1>1. Operands = Saved /\ Operands' = s /\ globals' = globals /\ ReturnedValues' = ReturnedValues
  BY DEF Operands, ReturnedValues
<1>2. /\ Owned(heap', globals) /\ Owned(heap', ReturnedValues)
      /\ \A p \in Pointers(globals) \cup Pointers(ReturnedValues) :
           p \notin Pointers(Operands) /\ p < heap.next
  BY <1>1, OthersKeep
<1>3. \A p \in Pointers(globals) \cup Pointers(ReturnedValues) : p \in Nat
  BY OwnedLive, HeapFact DEF OInv, OwnedNow, Parts, Owned, Good
<1>4. Apart(s, globals) /\ Apart(s, ReturnedValues)
  <2>1. heap.next \in Nat
    BY SlotTypes DEF OInv
  <2> QED BY <1>1, <1>2, <1>3, <2>1 DEF Apart
<1>5. Apart(globals, ReturnedValues)
  BY DEF OInv, OwnedNow, Parts
<1>6. Good(heap')
  BY DEF Moves
<1>7. Parts(heap', s, globals, ReturnedValues)
  BY <1>2, <1>4, <1>5 DEF Parts
<1> QED BY <1>1, <1>6, <1>7 DEF OwnedNow

LEMMA Returned ==
  ASSUME IInv, NEW how, NEW x \in ValuePair,
         results' = Append(results, [how |-> how, val |-> x])
  PROVE  ReturnedValues' = Append(ReturnedValues, x)
<1>1. results \in Seq(Outcome) /\ ReturnedValues \in Seq(ValuePair)
      /\ Len(ReturnedValues) = Len(results)
  BY SlotTypes DEF IInv, TypeOK, Outcome
<1> DEFINE n == Len(results)
           o == [how |-> how, val |-> x]
<1>2. o.val = x
  OBVIOUS
<1>3. n \in Nat
  BY <1>1, LenProperties
<1>4. /\ Len(results') = n + 1 /\ results'[n + 1] = o
      /\ \A i \in 1..n : results'[i] = results[i]
  <2>1. results \in Seq(Outcome \cup {o}) /\ o \in Outcome \cup {o}
    BY <1>1
  <2> HIDE DEF o
  <2> QED BY <2>1, AppendProperties DEF o
<1> HIDE DEF o
<1>5. ReturnedValues' = [i \in 1..(n + 1) |-> IF i = n + 1 THEN x ELSE ReturnedValues[i]]
  <2>1. \A i \in 1..n : ReturnedValues[i] = results[i].val
    BY DEF ReturnedValues
  <2>2. \A i \in 1..(n + 1) : i # n + 1 => i \in 1..n
    BY <1>3
  <2>3. \A i \in 1..(n + 1) :
          results'[i].val = IF i = n + 1 THEN x ELSE ReturnedValues[i]
    BY <1>2, <1>4, <2>1, <2>2
  <2>4. ReturnedValues' = [i \in 1..Len(results') |-> results'[i].val]
    BY DEF ReturnedValues
  <2> HIDE DEF n
  <2> QED BY <1>4, <2>3, <2>4
<1> DEFINE g == [i \in 1..(n + 1) |-> IF i = n + 1 THEN x ELSE ReturnedValues[i]]
<1>6. g \in Seq(ValuePair) /\ Len(g) = n + 1
  <2>1. \A i \in 1..(n + 1) : g[i] \in ValuePair
    BY <1>1, <1>3
  <2> QED BY <1>3, <2>1
<1>7. /\ Append(ReturnedValues, x) \in Seq(ValuePair)
      /\ Len(Append(ReturnedValues, x)) = n + 1
      /\ Append(ReturnedValues, x)[n + 1] = x
      /\ \A i \in 1..n : Append(ReturnedValues, x)[i] = ReturnedValues[i]
  BY <1>1, <1>3, AppendProperties
<1>8. \A i \in 1..(n + 1) : g[i] = Append(ReturnedValues, x)[i]
  <2>1. \A i \in 1..(n + 1) : i # n + 1 => i \in 1..n
    BY <1>3
  <2> QED BY <1>7, <2>1
<1> HIDE DEF g
<1>9. g = Append(ReturnedValues, x)
  BY <1>6, <1>7, <1>8, SeqEqual
<1> QED BY <1>5, <1>9 DEF g

LEMMA LeaveOwned ==
  ASSUME OInv, NEW P, P \subseteq Pointers(Operands), NEW h, Moves(heap, h, P),
         NEW x \in ValuePair,
         isAllocated(x) => /\ Live(h, x) /\ x.v \notin ElementPointers(h)
                           /\ x.v \in Pointers(Operands),
         NEW how, Leave(how, x, h)
  PROVE  OwnedNow' /\ status' # "ub"
<1>1. /\ status' = "idle" /\ results' = Append(results, [how |-> how, val |-> x])
      /\ heap' = h /\ globals' = globals
  BY DEF Leave
<1>2. Operands' = <<>> /\ ReturnedValues' = Append(ReturnedValues, x)
  <2>1. Operands' = <<>>
    BY <1>1 DEF Operands
  <2> QED BY <1>1, <2>1, Returned DEF OInv
<1>3. /\ Owned(h, globals) /\ Owned(h, ReturnedValues)
      /\ \A p \in Pointers(globals) \cup Pointers(ReturnedValues) : p \notin Pointers(Operands)
  BY OthersKeep
<1>4. Joins(h, ReturnedValues, x)
  BY <1>3 DEF Joins
<1>5. ReturnedValues \in Seq(ValuePair)
  BY SlotTypes DEF OInv
<1>6. /\ Owned(h, Append(ReturnedValues, x))
      /\ Pointers(Append(ReturnedValues, x)) =
           Pointers(ReturnedValues) \cup (IF isAllocated(x) THEN {x.v} ELSE {})
  BY <1>3, <1>4, <1>5, OwnedAppend
<1>7. Apart(globals, Append(ReturnedValues, x))
  <2>1. Apart(globals, ReturnedValues)
    BY DEF OInv, OwnedNow, Parts
  <2> QED BY <1>3, <1>6, <2>1 DEF Apart
<1>8. Owned(h, <<>>) /\ Pointers(<<>>) = {}
  BY OwnedEmpty
<1>9. Parts(h, <<>>, globals, Append(ReturnedValues, x))
  BY <1>3, <1>6, <1>7, <1>8 DEF Parts, Apart
<1>10. Good(h)
  BY DEF Moves
<1> QED BY <1>1, <1>2, <1>9, <1>10 DEF OwnedNow

LEMMA ThrowOwned ==
  ASSUME OInv, NEW P, P \subseteq Pointers(Operands), NEW h, Moves(heap, h, P), Throw(h)
  PROVE  OwnedNow' /\ status' # "ub"
  BY LeaveOwned, UndefType, Scalars DEF Throw

LEMMA UndefinedOwned ==
  ASSUME OInv, Undefined
  PROVE  OwnedNow'
<1>1. heap' = heap /\ globals' = globals /\ Operands' = <<>> /\ ReturnedValues' = ReturnedValues
  BY DEF Undefined, Operands, ReturnedValues
<1>2. Owned(heap, <<>>) /\ Pointers(<<>>) = {}
  BY OwnedEmpty
<1>3. Parts(heap, <<>>, globals, ReturnedValues)
  BY <1>2 DEF OInv, OwnedNow, Parts, Apart
<1> QED BY <1>1, <1>3 DEF OInv, OwnedNow

\* The result of an operation on the boxes P goes on top of what is left.
LEMMA FinishOwned ==
  ASSUME OInv, status = "running", NEW P, P \subseteq Pointers(Saved), NEW r,
         Transfers(heap, P, r), r.val \in ValuePair,
         NEW s \in Seq(ValuePair), Owned(heap, s), Pointers(s) \subseteq Pointers(Saved),
         Pointers(s) \cap P = {}, Finish(r, s, FALSE)
  PROVE  OwnedNow' /\ (status' = "ub" => r.exit = "ub")
<1>1. Good(heap) /\ Moves(heap, r.heap, P) /\ Operands = Saved
  BY DEF OInv, OwnedNow, Transfers, Operands
<1>2. ASSUME Throw(r.heap) PROVE OwnedNow'
  BY <1>1, <1>2, ThrowOwned
<1>3. ASSUME Undefined PROVE OwnedNow'
  BY <1>3, UndefinedOwned
<1>4. ASSUME r.exit = "ok", Done(r.heap, r.val, s, FALSE) PROVE OwnedNow'
  <2>1. /\ heap' = r.heap /\ status' = "running" /\ UNCHANGED <<globals, results>>
        /\ Saved' = Append(s, r.val)
    BY <1>4 DEF Done, host, Saved, SaveTop
  <2>2. Owned(r.heap, Append(s, r.val))
    BY <1>1, <1>4, TransfersJoin
  <2>3. \A p \in Pointers(Append(s, r.val)) : p \in Pointers(Saved) \/ p >= heap.next
    <3>1. Pointers(Append(s, r.val)) = Pointers(s) \cup PointerOf(r.val)
      BY OwnedAppend DEF PointerOf
    <3> QED BY <1>4, <3>1 DEF PointerOf, Transfers
  <2> QED BY <1>1, <2>1, <2>2, <2>3, StayOwned
<1>5. status' = "ub" => r.exit = "ub"
  BY DEF Finish, Done, host, Throw, Leave
<1> QED BY <1>2, <1>3, <1>4, <1>5 DEF Finish

LEMMA CopyOwned ==
  ASSUME OInv, status = "running", NEW x \in ValuePair, isAllocated(x) => Live(heap, x),
         Push(Copy(heap, x))
  PROVE  OwnedNow' /\ status' # "ub"
<1>1. Good(heap) /\ Owned(heap, Saved) /\ Saved \in Seq(ValuePair)
  BY SlotTypes DEF OInv, OwnedNow, Parts, Operands
<1>2. Transfers(heap, {}, Copy(heap, x)) /\ Copy(heap, x).val \in ValuePair
      /\ Copy(heap, x).exit = "ok"
  BY <1>1, CopyTransfers, CopyOK DEF IsOutcome, Good
<1> DEFINE none == {}
           s == Saved
           r == Copy(heap, x)
<1>3. none \subseteq Pointers(Saved) /\ Pointers(s) \cap none = {} /\ Transfers(heap, none, r)
  BY <1>2
<1>4. Finish(r, s, FALSE)
  BY DEF Push
<1> HIDE DEF none, s, r
<1>5. s \in Seq(ValuePair) /\ Owned(heap, s) /\ Pointers(s) \subseteq Pointers(Saved)
      /\ r.val \in ValuePair /\ r.exit = "ok"
  BY <1>1, <1>2 DEF s, r
<1> QED BY <1>3, <1>4, <1>5, FinishOwned

\* A number, a boolean or nothing on top of s.
LEMMA ScalarOwned ==
  ASSUME OInv, status = "running", NEW x \in ValuePair, ~isAllocated(x),
         NEW s \in Seq(ValuePair), Owned(heap, s), Pointers(s) \subseteq Pointers(Saved),
         Done(heap, x, s, FALSE)
  PROVE  OwnedNow' /\ status' # "ub"
<1>1. Good(heap)
  BY DEF OInv, OwnedNow
<1>2. Transfers(heap, {}, Ok(heap, x)) /\ Ok(heap, x).exit = "ok"
  BY <1>1, MovesItself, EndTransfers DEF Ok
<1>3. Finish(Ok(heap, x), s, FALSE) /\ Ok(heap, x).val = x
  BY DEF Finish, Ok
<1> DEFINE none == {}
           r == Ok(heap, x)
<1>4. none \subseteq Pointers(Saved) /\ Pointers(s) \cap none = {} /\ Transfers(heap, none, r)
      /\ Finish(r, s, FALSE) /\ r.val \in ValuePair /\ r.exit # "ub"
  BY <1>2, <1>3
<1> HIDE DEF none, r
<1> QED BY <1>4, FinishOwned

\* With a top to read, popvalue leaves the slots s.
LEMMA TakeTopSaved ==
  ASSUME NEW s \in Seq(ValuePair), s # <<>>, ~notop, NEW h, NEW target,
         TakeTop(s, h, target), status = "running"
  PROVE  Saved' = s /\ heap' = h /\ status' = "running" /\ results' = results
<1>1. stack' = Front(s) /\ top' = Last(s) /\ ~notop' /\ heap' = h
      /\ status' = "running" /\ results' = results
  BY DEF TakeTop, host
<1>2. Append(Front(s), Last(s)) = s
  BY OwnedFront
<1> QED BY <1>1, <1>2 DEF Saved, SaveTop

LEMMA PopIntoOwned ==
  ASSUME OInv, status = "running", ~notop, NEW s \in Seq(ValuePair),
         NEW P, P \subseteq Pointers(Saved), NEW h, Moves(heap, h, P),
         Owned(heap, s), Pointers(s) \subseteq Pointers(Saved), Pointers(s) \cap P = {},
         NEW target, PopInto(s, h, target)
  PROVE  OwnedNow' /\ status' # "ub"
<1>1. Operands = Saved /\ Good(heap)
  BY DEF Operands, OInv, OwnedNow
<1>2. CASE Throw(h)
  BY <1>1, <1>2, ThrowOwned
<1>3. CASE TakeTop(s, h, target) /\ UNCHANGED globals
  <2>1. s # <<>>
    BY <1>3 DEF TakeTop
  <2>2. Saved' = s /\ heap' = h /\ status' = "running" /\ results' = results
    BY <1>3, <2>1, TakeTopSaved
  <2>3. Owned(h, s)
    BY <1>1, MovesKeep
  <2> QED BY <1>3, <2>2, <2>3, StayOwned
<1>4. status' # "ub"
  BY DEF PopInto, TakeTop, host, Throw, Leave
<1> QED BY <1>2, <1>3, <1>4 DEF PopInto

-----------------------------------------------------------------------------
\* The instructions, for every program that keeps the stack discipline.

Fine == OwnedNow' /\ (status' = "ub" => Unchecked)

LEMMA PairOwned ==
  ASSUME NEW h, NEW x \in ValuePair, NEW y \in ValuePair,
         isAllocated(x) => Live(h, x), isAllocated(y) => Live(h, y),
         PointerOf(x) \cap PointerOf(y) = {},
         PointerOf(x) \cap ElementPointers(h) = {}, PointerOf(y) \cap ElementPointers(h) = {}
  PROVE  Owned(h, <<x, y>>)
<1> DEFINE s == <<x, y>>
<1>1. Len(s) = 2 /\ s[1] = x /\ s[2] = y
  OBVIOUS
<1> HIDE DEF s
<1>2. \A i \in 1..2 : i = 1 \/ i = 2
  OBVIOUS
<1>3. \A p : p \in Pointers(s) => p \in PointerOf(x) \cup PointerOf(y)
  BY <1>1, <1>2, PointersFact DEF PointerOf
<1>4. AllLive(h, s)
  BY <1>1, <1>2 DEF AllLive
<1>5. \A i, j \in 1..2 : isAllocated(s[i]) /\ isAllocated(s[j]) /\ s[i].v = s[j].v => i = j
  BY <1>1, <1>2 DEF PointerOf
<1>6. Pointers(s) \cap ElementPointers(h) = {}
  BY <1>3
<1>7. Owned(h, s)
  BY <1>1, <1>4, <1>5, <1>6 DEF Owned
<1> QED BY <1>7 DEF s

LEMMA RunningOwned ==
  ASSUME OInv, status = "running"
  PROVE  /\ Good(heap) /\ Operands = Saved /\ Owned(heap, Saved) /\ Saved \in Seq(ValuePair)
         /\ \A i \in 1..Len(Saved) : isAllocated(Saved[i]) => Live(heap, Saved[i])
         /\ \A i \in 1..Len(globals) : isAllocated(globals[i]) => Live(heap, globals[i])
  BY SlotTypes DEF OInv, OwnedNow, Parts, Operands, Owned, AllLive

LEMMA TopOwned ==
  ASSUME OInv, StackDiscipline, NEW op \in ReadsTop, Fetched(op)
  PROVE  /\ status = "running" /\ notop = FALSE /\ Good(heap) /\ Operands = Saved
         /\ stack \in Seq(ValuePair) /\ top \in ValuePair /\ Saved = Append(stack, top)
         /\ Owned(heap, stack) /\ Joins(heap, stack, top)
         /\ Pointers(Saved) = Pointers(stack) \cup PointerOf(top)
         /\ PointerOf(top) \cap Pointers(stack) = {}
         /\ PointerOf(top) \cap ElementPointers(heap) = {}
         /\ isAllocated(top) => Live(heap, top)
<1>1. status = "running" /\ pc < Len(Code) /\ Inst.op = op
  BY DEF Fetched
<1>2. notop = FALSE
  BY <1>1 DEF StackDiscipline, OInv, IInv, TypeOK
<1>3. stack \in Seq(ValuePair) /\ top \in ValuePair
  BY SlotTypes DEF OInv
<1>4. Saved = Append(stack, top)
  BY <1>2 DEF Saved, SaveTop
<1>5. /\ Owned(heap, Append(stack, top)) <=> Owned(heap, stack) /\ Joins(heap, stack, top)
      /\ Pointers(Append(stack, top)) = Pointers(stack) \cup PointerOf(top)
  BY <1>3, OwnedAppend DEF PointerOf
<1>6. Good(heap) /\ Operands = Saved /\ Owned(heap, Saved)
  BY <1>1, RunningOwned
<1> QED BY <1>1, <1>2, <1>3, <1>4, <1>5, <1>6 DEF Joins, PointerOf

LEMMA BelowTopOwned ==
  ASSUME OInv, StackDiscipline, NEW op \in ReadsTop, Fetched(op), stack # <<>>
  PROVE  /\ Last(stack) \in ValuePair /\ Front(stack) \in Seq(ValuePair)
         /\ Owned(heap, Front(stack))
         /\ Pointers(stack) = Pointers(Front(stack)) \cup PointerOf(Last(stack))
         /\ PointerOf(Last(stack)) \cap Pointers(Front(stack)) = {}
         /\ PointerOf(Last(stack)) \cap PointerOf(top) = {}
         /\ PointerOf(Last(stack)) \cap ElementPointers(heap) = {}
         /\ isAllocated(Last(stack)) => Live(heap, Last(stack))
         /\ Owned(heap, <<Last(stack), top>>)
<1>1. /\ Good(heap) /\ stack \in Seq(ValuePair) /\ top \in ValuePair /\ Owned(heap, stack)
      /\ PointerOf(top) \cap Pointers(stack) = {}
      /\ PointerOf(top) \cap ElementPointers(heap) = {}
      /\ isAllocated(top) => Live(heap, top)
  BY TopOwned
<1>2. /\ Front(stack) \in Seq(ValuePair) /\ Last(stack) \in ValuePair
      /\ Owned(heap, Front(stack)) /\ Joins(heap, Front(stack), Last(stack))
      /\ Pointers(stack) = Pointers(Front(stack)) \cup PointerOf(Last(stack))
  BY <1>1, OwnedFront DEF PointerOf
<1> DEFINE x == Last(stack)
           f == Front(stack)
<1> HIDE DEF x, f
<1>3. /\ PointerOf(x) \cap Pointers(f) = {} /\ PointerOf(x) \cap ElementPointers(heap) = {}
      /\ isAllocated(x) => Live(heap, x)
      /\ PointerOf(x) \cap PointerOf(top) = {}
  <2>1. Joins(heap, f, x) /\ Pointers(stack) = Pointers(f) \cup PointerOf(x)
    BY <1>2 DEF x, f
  <2>2. /\ PointerOf(x) \cap Pointers(f) = {} /\ PointerOf(x) \cap ElementPointers(heap) = {}
        /\ isAllocated(x) => Live(heap, x)
    BY <2>1 DEF Joins, PointerOf
  <2> QED BY <1>1, <2>1, <2>2
<1>4. Owned(heap, <<x, top>>)
  <2>1. x \in ValuePair
    BY <1>2 DEF x
  <2> QED BY <1>1, <1>3, <2>1, PairOwned
<1> QED BY <1>2, <1>3, <1>4 DEF x, f

LEMMA ThrowHereOwned ==
  ASSUME OInv, Throw(heap)
  PROVE  OwnedNow' /\ status' # "ub"
<1> DEFINE none == {}
<1>1. none \subseteq Pointers(Operands) /\ Moves(heap, heap, none)
  BY MovesItself DEF OInv, OwnedNow
<1> HIDE DEF none
<1> QED BY <1>1, ThrowOwned

LEMMA RunOffOwned ==
  ASSUME OInv, RunOff
  PROVE  Fine
  BY UndefinedOwned DEF RunOff, Fine, Unchecked

LEMMA GetIOwned ==
  ASSUME OInv, GetI
  PROVE  Fine
<1> DEFINE index == Last(spStack) + Inst.imm
<1>1. status = "running"
  BY DEF GetI, Fetched
<1>2. CASE Throw(heap)
  BY <1>2, ThrowHereOwned DEF Fine
<1>3. CASE index \in 0..(Len(Saved) - 1) /\ Push(Copy(heap, Saved[index + 1]))
  <2>1. index + 1 \in 1..Len(Saved)
    BY <1>1, <1>3, RunningOwned, LenProperties
  <2> HIDE DEF index
  <2>2. Saved[index + 1] \in ValuePair
        /\ (isAllocated(Saved[index + 1]) => Live(heap, Saved[index + 1]))
    BY <1>1, <2>1, RunningOwned
  <2> QED BY <1>1, <1>3, <2>2, CopyOwned DEF Fine
<1> QED BY <1>2, <1>3 DEF GetI

LEMMA AddIOwned ==
  ASSUME OInv, StackDiscipline, AddI
  PROVE  Fine
<1>1. /\ status = "running" /\ notop = FALSE /\ stack \in Seq(ValuePair) /\ top \in ValuePair
      /\ Owned(heap, stack) /\ Pointers(stack) \subseteq Pointers(Saved)
  BY TopOwned DEF AddI, ReadsTop
<1>2. CASE Throw(heap)
  BY <1>2, ThrowHereOwned DEF Fine
<1>3. CASE Done(heap, Num(top.v + Inst.imm), stack, notop)
  <2>1. Inst.imm \in Int
    BY FetchedInst DEF AddI, ImmediateOp, OInv
  <2>2. Num(top.v + Inst.imm) \in ValuePair
    BY <1>1, <2>1 DEF Num, ValuePair, ValueTag
  <2> QED BY <1>1, <1>3, <2>2, ScalarOwned, Scalars DEF Fine
<1> QED BY <1>2, <1>3 DEF AddI

\* x takes the place of a slot of s.
LEMMA OwnedExcept ==
  ASSUME NEW h, NEW s \in Seq(ValuePair), Owned(h, s), NEW x \in ValuePair, Joins(h, s, x),
         NEW i \in 1..Len(s)
  PROVE  /\ [s EXCEPT ![i] = x] \in Seq(ValuePair) /\ Owned(h, [s EXCEPT ![i] = x])
         /\ Pointers([s EXCEPT ![i] = x]) \subseteq Pointers(s) \cup PointerOf(x)
<1> DEFINE t == [s EXCEPT ![i] = x]
           n == Len(s)
<1>1. t \in Seq(ValuePair) /\ Len(t) = n /\ t[i] = x /\ n \in Nat
      /\ \A j \in 1..n : j # i => t[j] = s[j]
  OBVIOUS
<1> HIDE DEF t
<1>2. Pointers(t) \subseteq Pointers(s) \cup PointerOf(x)
  <2>1. ASSUME NEW j \in 1..n, isAllocated(t[j])
        PROVE  t[j].v \in Pointers(s) \cup PointerOf(x)
    <3>1. CASE j = i
      BY <1>1, <2>1, <3>1 DEF PointerOf
    <3>2. CASE j # i
      BY <1>1, <2>1, <3>2, PointersFact
    <3> QED BY <3>1, <3>2
  <2> QED BY <1>1, <2>1, PointersFact
<1>3. AllLive(h, t)
  BY <1>1 DEF AllLive, Owned, Joins
<1>4. ASSUME NEW j \in 1..n, NEW k \in 1..n,
             isAllocated(t[j]), isAllocated(t[k]), t[j].v = t[k].v
      PROVE  j = k
  <2>1. \A m \in 1..n : m # i /\ isAllocated(t[m]) => t[m].v \in Pointers(s)
    BY <1>1, PointersFact
  <2>2. isAllocated(x) => x.v \notin Pointers(s)
    BY DEF Joins
  <2>3. CASE j = i \/ k = i
    BY <1>1, <1>4, <2>1, <2>2, <2>3
  <2>4. CASE j # i /\ k # i
    BY <1>1, <1>4, <2>4 DEF Owned
  <2> QED BY <2>3, <2>4
<1>5. Pointers(t) \cap ElementPointers(h) = {}
  BY <1>2 DEF Owned, Joins, PointerOf
<1>6. Owned(h, t)
  BY <1>1, <1>3, <1>4, <1>5 DEF Owned
<1> QED BY <1>1, <1>2, <1>6 DEF t

\* The overwritten slot leaks its box; nothing points to it any more.
LEMMA SetIOwned ==
  ASSUME OInv, StackDiscipline, SetI
  PROVE  Fine
<1> DEFINE index == Last(spStack) + Inst.imm
           s == [stack EXCEPT ![index + 1] = top]
<1>1. /\ status = "running" /\ notop = FALSE /\ stack \in Seq(ValuePair) /\ top \in ValuePair
      /\ Owned(heap, stack) /\ Joins(heap, stack, top) /\ Good(heap)
      /\ Pointers(Saved) = Pointers(stack) \cup PointerOf(top)
  BY TopOwned DEF SetI, ReadsTop
<1>2. CASE Throw(heap)
  BY <1>2, ThrowHereOwned DEF Fine
<1>3. CASE index \in 0..(Len(stack) - 1) /\ TakeTop(s, heap, pc + 1) /\ UNCHANGED globals
  <2>1. index + 1 \in 1..Len(stack)
    BY <1>1, <1>3, LenProperties
  <2> HIDE DEF index
  <2>2. s \in Seq(ValuePair) /\ Owned(heap, s) /\ Pointers(s) \subseteq Pointers(Saved)
    BY <1>1, <2>1, OwnedExcept
  <2> HIDE DEF s
  <2> DEFINE none == {}
  <2>3. none \subseteq Pointers(Saved) /\ Moves(heap, heap, none) /\ Pointers(s) \cap none = {}
    BY <1>1, MovesItself
  <2>4. PopInto(s, heap, pc + 1)
    BY <1>3 DEF PopInto
  <2> HIDE DEF none
  <2> QED BY <1>1, <2>2, <2>3, <2>4, PopIntoOwned DEF Fine
<1> QED BY <1>2, <1>3 DEF SetI

LEMMA JumpIOwned ==
  ASSUME OInv, JumpI
  PROVE  Fine
<1>1. status = "running"
  BY DEF JumpI, Fetched
<1>2. CASE Throw(heap)
  BY <1>2, ThrowHereOwned DEF Fine
<1>3. CASE UNCHANGED operands /\ UNCHANGED host /\ UNCHANGED <<heap, globals>>
  <2>1. /\ Operands' = Operands /\ ReturnedValues' = ReturnedValues
        /\ heap' = heap /\ globals' = globals /\ status' = status
    BY <1>3 DEF operands, host, Operands, Saved, SaveTop, ReturnedValues
  <2> QED BY <1>1, <2>1 DEF OInv, OwnedNow, Fine
<1> QED BY <1>2, <1>3 DEF JumpI

LEMMA JumpFalseIOwned ==
  ASSUME OInv, StackDiscipline, JumpFalseI
  PROVE  Fine
<1> DEFINE target == IF top.v = 1 THEN pc + 1 ELSE pc + Inst.imm
           none == {}
<1>1. /\ status = "running" /\ notop = FALSE /\ stack \in Seq(ValuePair) /\ Good(heap)
      /\ Owned(heap, stack) /\ Pointers(stack) \subseteq Pointers(Saved)
  BY TopOwned DEF JumpFalseI, ReadsTop
<1>2. none \subseteq Pointers(Saved) /\ Moves(heap, heap, none) /\ Pointers(stack) \cap none = {}
  BY <1>1, MovesItself
<1>3. CASE Throw(heap)
  BY <1>3, ThrowHereOwned DEF Fine
<1>4. CASE PopInto(stack, heap, target)
  <2> HIDE DEF none, target
  <2> QED BY <1>1, <1>2, <1>4, PopIntoOwned DEF Fine
<1> QED BY <1>3, <1>4 DEF JumpFalseI

LEMMA PopOwned ==
  ASSUME OInv, StackDiscipline, Pop
  PROVE  Fine
<1> DEFINE d == Drop(heap, top)
           P == PointerOf(top)
<1>1. /\ status = "running" /\ notop = FALSE /\ stack \in Seq(ValuePair) /\ Good(heap)
      /\ Owned(heap, stack) /\ Pointers(stack) \subseteq Pointers(Saved)
      /\ P \subseteq Pointers(Saved) /\ Pointers(stack) \cap P = {}
  BY TopOwned DEF Pop, ReadsTop
<1>2. Moves(heap, d.heap, P) /\ d.exit = "ok"
  BY TopOwned, DropTransfers DEF Pop, ReadsTop, Transfers
<1>3. PopInto(stack, d.heap, pc + 1)
  BY <1>2 DEF Pop
<1> HIDE DEF d, P
<1> QED BY <1>1, <1>2, <1>3, PopIntoOwned DEF Fine

LEMMA DupOwned ==
  ASSUME OInv, StackDiscipline, Dup
  PROVE  Fine
  BY TopOwned, CopyOwned DEF Dup, ReadsTop, Fine

LEMMA BuiltinUnaryOpOwned ==
  ASSUME OInv, StackDiscipline, BuiltinUnaryOp
  PROVE  Fine
<1> DEFINE r == HandleUnary(heap, top, Inst.unary)
           P == PointerOf(top)
<1>1. /\ status = "running" /\ notop = FALSE /\ stack \in Seq(ValuePair) /\ Good(heap)
      /\ top \in ValuePair
      /\ Owned(heap, stack) /\ Pointers(stack) \subseteq Pointers(Saved)
      /\ P \subseteq Pointers(Saved) /\ Pointers(stack) \cap P = {}
      /\ P \cap ElementPointers(heap) = {} /\ (isAllocated(top) => Live(heap, top))
  BY TopOwned DEF BuiltinUnaryOp, ReadsTop
<1>2. Inst.unary \in BuiltinUnary
  BY FetchedInst DEF BuiltinUnaryOp, OInv
<1>3. Transfers(heap, P, r) /\ r.val \in ValuePair /\ r.exit # "ub"
  BY <1>1, <1>2, UnaryTransfers, HandleUnaryOK DEF IsOutcome, Good
<1>4. Finish(r, stack, FALSE)
  BY <1>1 DEF BuiltinUnaryOp
<1> HIDE DEF r, P
<1> QED BY <1>1, <1>3, <1>4, FinishOwned DEF Fine

LEMMA BinaryOpOwned ==
  ASSUME OInv, StackDiscipline, BinaryOp
  PROVE  Fine
<1> DEFINE x == Last(stack)
           s == Front(stack)
           r == HandleBinary(heap, x, top, Inst.binary)
           P == PointerOf(x) \cup PointerOf(top)
<1>1. /\ status = "running" /\ notop = FALSE /\ Good(heap) /\ top \in ValuePair
      /\ Pointers(Saved) = Pointers(stack) \cup PointerOf(top)
      /\ PointerOf(top) \cap Pointers(stack) = {}
  BY TopOwned DEF BinaryOp, ReadsTop
<1>2. Inst.binary \in BinOp
  BY FetchedInst DEF BinaryOp, OInv
<1>3. CASE Throw(heap)
  BY <1>3, ThrowHereOwned DEF Fine
<1>4. CASE stack # <<>> /\ Finish(r, s, notop)
  <2>1. /\ x \in ValuePair /\ s \in Seq(ValuePair) /\ Owned(heap, s)
        /\ Pointers(stack) = Pointers(s) \cup PointerOf(x)
        /\ PointerOf(x) \cap Pointers(s) = {} /\ Owned(heap, <<x, top>>)
    BY <1>4, BelowTopOwned DEF BinaryOp, ReadsTop
  <2> HIDE DEF x, s
  <2>2. Transfers(heap, P, r) /\ r.val \in ValuePair
        /\ (r.exit = "ub" => Inst.binary = "INDEX" /\ top.v < 0)
    BY <1>1, <1>2, <2>1, BinaryTransfers, HandleBinaryOK DEF IsOutcome, Good
  <2>3. Finish(r, s, FALSE)
    BY <1>1, <1>4
  <2>4. /\ P \subseteq Pointers(Saved) /\ Pointers(s) \subseteq Pointers(Saved)
        /\ Pointers(s) \cap P = {}
    BY <1>1, <2>1
  <2> HIDE DEF r, P
  <2>5. OwnedNow' /\ (status' = "ub" => r.exit = "ub")
    BY <1>1, <2>1, <2>2, <2>3, <2>4, FinishOwned
  <2>6. Inst.op = "BinaryOp"
    BY DEF BinaryOp, Fetched
  <2> QED BY <2>2, <2>5, <2>6 DEF Fine, Unchecked
<1> QED BY <1>3, <1>4 DEF BinaryOp

LEMMA ConstOwned ==
  ASSUME OInv, ConstNum \/ ConstMisc
  PROVE  Fine
<1>1. status = "running"
  BY DEF ConstNum, ConstMisc, Fetched
<1>2. /\ Owned(heap, Saved) /\ Saved \in Seq(ValuePair)
  BY <1>1, RunningOwned
<1>3. \E x \in ValuePair : ~isAllocated(x) /\ Done(heap, x, Saved, FALSE)
  <2>1. CASE ConstNum
    <3>1. Inst.imm \in Int
      BY <2>1, FetchedInst DEF ConstNum, ImmediateOp, OInv
    <3>2. Num(Inst.imm) \in ValuePair
      BY <3>1 DEF Num, ValuePair, ValueTag
    <3> QED BY <2>1, <3>2, Scalars DEF ConstNum
  <2>2. CASE ConstMisc
    <3> DEFINE x == CASE Inst.imm = 0 -> Bool(FALSE) [] Inst.imm = 1 -> Bool(TRUE)
                      [] OTHER -> Undef
    <3>1. x \in {Bool(FALSE), Bool(TRUE), Undef}
      OBVIOUS
    <3>2. x \in ValuePair
      <4> HIDE DEF x
      <4> QED BY <3>1, UndefType DEF Bool, ValuePair, ValueTag
    <3>3. ~isAllocated(x)
      <4> HIDE DEF x
      <4> QED BY <3>1, Scalars
    <3>4. Done(heap, x, Saved, FALSE)
      BY <2>2 DEF ConstMisc
    <3> HIDE DEF x
    <3> QED BY <3>2, <3>3, <3>4
  <2> QED BY <2>1, <2>2
<1> QED BY <1>1, <1>2, <1>3, ScalarOwned DEF Fine

LEMMA GetGlobalIOwned ==
  ASSUME OInv, GetGlobalI
  PROVE  Fine
<1>1. status = "running"
  BY DEF GetGlobalI, Fetched
<1>2. CASE Throw(heap)
  BY <1>2, ThrowHereOwned DEF Fine
<1>3. CASE IsGlobal(Inst.imm) /\ Push(Copy(heap, globals[Inst.imm + 1]))
  <2>1. Inst.imm + 1 \in 1..Len(globals) /\ globals \in Seq(ValuePair)
    BY <1>3, SlotTypes, LenProperties DEF IsGlobal, OInv
  <2>2. /\ globals[Inst.imm + 1] \in ValuePair
        /\ isAllocated(globals[Inst.imm + 1]) => Live(heap, globals[Inst.imm + 1])
    BY <1>1, <2>1, RunningOwned
  <2> QED BY <1>1, <1>3, <2>2, CopyOwned DEF Fine
<1> QED BY <1>2, <1>3 DEF GetGlobalI

LEMMA MakeListOwned ==
  ASSUME OInv, MakeList
  PROVE  Fine
<1> DEFINE none == {}
           h == NewList(heap).heap
<1>1. none \subseteq Pointers(Operands) /\ Moves(heap, h, none) /\ Throw(h)
  BY NewListTransfers DEF OInv, OwnedNow, Transfers, MakeList
<1> HIDE DEF none, h
<1> QED BY <1>1, ThrowOwned DEF Fine

LEMMA KeepOwned ==
  ASSUME OInv, status = "running", Saved' = Saved, UNCHANGED <<heap, globals>>, UNCHANGED host
  PROVE  Fine
<1>1. /\ Operands' = Operands /\ ReturnedValues' = ReturnedValues
      /\ heap' = heap /\ globals' = globals /\ status' = status
  BY DEF host, Operands, ReturnedValues
<1> QED BY <1>1 DEF OInv, OwnedNow, Fine

\* What the loop over x pushes for its element number n.
LEMMA ElementTransfers ==
  ASSUME Good(heap), NEW x \in ValuePair, Live(heap, x), x.tag \in {"VECTOR", "RANGE"},
         NEW n \in Int, ~Exhausted(x, n)
  PROVE  /\ Transfers(heap, {}, ElementAt(x, n)) /\ ElementAt(x, n).val \in ValuePair
         /\ ElementAt(x, n).exit = "ub" => n < 0
<1>1. CASE x.tag = "VECTOR" /\ n < 0
  <2>1. ElementAt(x, n) = UB(heap)
    BY <1>1 DEF ElementAt
  <2> QED BY <1>1, <2>1, MovesItself, EndTransfers, Scalars, UndefType DEF UB
<1>2. CASE x.tag = "VECTOR" /\ n >= 0
  <2> DEFINE s == Elements(heap, x.v)
  <2>1. s \in Seq(ValuePair) /\ AllLive(heap, s)
    BY <1>2, ListOf
  <2>2. ~(Len(s) <= n)
    BY <1>2 DEF Exhausted
  <2>3. ElementAt(x, n) = Copy(heap, s[n + 1])
    BY <1>2 DEF ElementAt
  <2> HIDE DEF s
  <2>4. n + 1 \in 1..Len(s)
    BY <1>2, <2>1, <2>2, LenProperties
  <2>5. s[n + 1] \in ValuePair /\ (isAllocated(s[n + 1]) => Live(heap, s[n + 1]))
    BY <2>1, <2>4 DEF AllLive
  <2>6. /\ Transfers(heap, {}, Copy(heap, s[n + 1])) /\ Copy(heap, s[n + 1]).exit = "ok"
        /\ Copy(heap, s[n + 1]).val \in ValuePair
    BY <2>5, CopyTransfers, CopyOK DEF Good, IsOutcome
  <2> QED BY <2>3, <2>6
<1>3. CASE x.tag = "RANGE"
  <2> DEFINE r == heap.range[x.v]
             m == n * r.step + r.begin
  <2>1. ElementAt(x, n) = Ok(heap, Num(m))
    BY <1>3 DEF ElementAt
  <2>2. r \in SRange
    BY <1>3 DEF Live, Good, IsHeap
  <2>3. m \in Int
    <3>1. r.step \in Int /\ r.begin \in Int
      BY <2>2 DEF SRange
    <3> HIDE DEF r
    <3> QED BY <3>1
  <2> HIDE DEF m
  <2>4. Num(m) \in ValuePair
    BY <2>3 DEF Num, ValuePair, ValueTag
  <2>5. Transfers(heap, {}, Ok(heap, Num(m)))
    BY MovesItself, EndTransfers, Scalars
  <2> QED BY <2>1, <2>4, <2>5 DEF Ok
<1> QED BY <1>1, <1>2, <1>3

LEMMA IterOwned ==
  ASSUME OInv, StackDiscipline, Iter
  PROVE  Fine
<1> DEFINE x == Last(stack)
           n == top.v + 1
           f == Front(stack)
           d == Drop(heap, x)
           r == ElementAt(x, n)
           P == PointerOf(x)
           s == Append(stack, Num(n))
           none == {}
<1>1. /\ status = "running" /\ notop = FALSE /\ Good(heap) /\ top \in ValuePair
      /\ Pointers(Saved) = Pointers(stack) \cup PointerOf(top)
      /\ stack \in Seq(ValuePair) /\ Owned(heap, stack)
  BY TopOwned DEF Iter, ReadsTop
<1>2. CASE IterInvalid /\ Throw(heap)
  BY <1>2, ThrowHereOwned DEF Fine
<1>3. ASSUME ~IterInvalid
      PROVE  /\ x \in ValuePair /\ x.tag \in {"VECTOR", "RANGE"} /\ Live(heap, x)
             /\ f \in Seq(ValuePair) /\ Owned(heap, f)
             /\ Pointers(stack) = Pointers(f) \cup P /\ P \cap Pointers(f) = {}
             /\ P \cap ElementPointers(heap) = {}
  <2>1. stack # <<>> /\ x.tag \in {"VECTOR", "RANGE"}
    BY <1>3 DEF IterInvalid
  <2> QED BY <2>1, BelowTopOwned DEF Iter, ReadsTop, isAllocated, AllocatedTag
<1>4. CASE /\ ~IterInvalid
           /\ PopInto(f, d.heap, pc + Inst.imm)
  <2>1. Moves(heap, d.heap, P)
    BY <1>1, <1>3, <1>4, DropTransfers DEF Transfers
  <2> HIDE DEF d, P, f, x
  <2> QED BY <1>1, <1>3, <1>4, <2>1, PopIntoOwned DEF Fine
<1>5. CASE /\ ~IterInvalid /\ ~Exhausted(x, n)
           /\ Finish(r, SaveTop(Num(n)), FALSE)
  <2>1. n \in Int
    BY <1>1 DEF ValuePair
  <2>2. SaveTop(Num(n)) = s
    BY <1>1 DEF SaveTop
  <2>3. Num(n) \in ValuePair
    BY <2>1 DEF Num, ValuePair, ValueTag
  <2> HIDE DEF x, n
  <2>4. /\ Transfers(heap, none, r) /\ r.val \in ValuePair
        /\ r.exit = "ub" => n < 0
    BY <1>1, <1>3, <1>5, <2>1, ElementTransfers
  <2>5. s \in Seq(ValuePair) /\ Owned(heap, s) /\ Pointers(s) = Pointers(stack)
    BY <1>1, <2>3, OwnedAppend, Scalars, AppendProperties DEF Joins
  <2>6. none \subseteq Pointers(Saved) /\ Pointers(s) \cap none = {}
        /\ Pointers(s) \subseteq Pointers(Saved)
    BY <1>1, <2>5
  <2>7. Finish(r, s, FALSE)
    BY <1>5, <2>2
  <2> HIDE DEF r, s, none
  <2>8. OwnedNow' /\ (status' = "ub" => r.exit = "ub")
    BY <1>1, <2>4, <2>5, <2>6, <2>7, FinishOwned
  <2>9. Inst.op = "Iter"
    BY DEF Iter, Fetched
  <2> QED BY <2>4, <2>8, <2>9 DEF Fine, Unchecked, n
<1> QED BY <1>2, <1>3, <1>4, <1>5 DEF Iter

\* The old value of the global leaks.
LEMMA SetGlobalIOwned ==
  ASSUME OInv, StackDiscipline, SetGlobalI
  PROVE  Fine
<1> DEFINE g == [globals EXCEPT ![Inst.imm + 1] = top]
<1>1. /\ status = "running" /\ notop = FALSE /\ Good(heap) /\ Operands = Saved
      /\ stack \in Seq(ValuePair) /\ top \in ValuePair /\ Owned(heap, stack)
      /\ Pointers(Saved) = Pointers(stack) \cup PointerOf(top)
      /\ PointerOf(top) \cap Pointers(stack) = {}
      /\ PointerOf(top) \cap ElementPointers(heap) = {}
      /\ isAllocated(top) => Live(heap, top)
  BY TopOwned DEF SetGlobalI, ReadsTop
<1>2. /\ globals \in Seq(ValuePair) /\ Owned(heap, globals) /\ Owned(heap, ReturnedValues)
      /\ Apart(Saved, globals) /\ Apart(Saved, ReturnedValues) /\ Apart(globals, ReturnedValues)
      /\ ReturnedValues \in Seq(ValuePair)
  BY <1>1, SlotTypes DEF OInv, OwnedNow, Parts
<1>3. CASE Throw(heap)
  BY <1>3, ThrowHereOwned DEF Fine
<1>4. ASSUME IsGlobal(Inst.imm), globals' = g
      PROVE  /\ Owned(heap, g) /\ Apart(stack, g) /\ Apart(g, ReturnedValues)
  <2>1. Inst.imm + 1 \in 1..Len(globals)
    BY <1>2, <1>4, LenProperties DEF IsGlobal
  <2>2. Joins(heap, globals, top)
    BY <1>1, <1>2 DEF Joins, Apart, PointerOf
  <2>3. Owned(heap, g) /\ Pointers(g) \subseteq Pointers(globals) \cup PointerOf(top)
    BY <1>1, <1>2, <2>1, <2>2, OwnedExcept
  <2> HIDE DEF g
  <2> QED BY <1>1, <1>2, <2>3 DEF Apart
<1>5. CASE /\ IsGlobal(Inst.imm) /\ globals' = g
           /\ status' = "idle" /\ UNCHANGED heap
           /\ results' = Append(results, [how |-> "throw", val |-> Undef])
  <2>1. Operands' = <<>> /\ ReturnedValues' = Append(ReturnedValues, Undef)
    <3>1. Operands' = <<>>
      BY <1>5 DEF Operands
    <3> QED BY <1>5, <3>1, Returned, UndefType DEF OInv
  <2>2. /\ Owned(heap, Append(ReturnedValues, Undef))
        /\ Pointers(Append(ReturnedValues, Undef)) = Pointers(ReturnedValues)
    BY <1>2, OwnedAppend, UndefType, Scalars DEF Joins
  <2>3. Owned(heap, <<>>) /\ Pointers(<<>>) = {}
    BY OwnedEmpty
  <2>4. Parts(heap, <<>>, g, Append(ReturnedValues, Undef))
    BY <1>4, <1>5, <2>2, <2>3 DEF Parts, Apart
  <2> QED BY <1>1, <1>5, <2>1, <2>4 DEF OwnedNow, Fine
<1>6. CASE IsGlobal(Inst.imm) /\ globals' = g /\ TakeTop(stack, heap, pc + 1)
  <2>1. stack # <<>>
    BY <1>6 DEF TakeTop
  <2>2. Saved' = stack /\ heap' = heap /\ status' = "running" /\ results' = results
    BY <1>1, <1>6, <2>1, TakeTopSaved
  <2>3. Operands' = stack /\ ReturnedValues' = ReturnedValues
    BY <2>2 DEF Operands, ReturnedValues
  <2>4. Apart(stack, ReturnedValues)
    BY <1>1, <1>2 DEF Apart
  <2>5. Parts(heap, stack, g, ReturnedValues)
    BY <1>1, <1>2, <1>4, <1>6, <2>4 DEF Parts
  <2> QED BY <1>1, <1>6, <2>2, <2>3, <2>5 DEF OwnedNow, Fine
<1> QED BY <1>3, <1>5, <1>6 DEF SetGlobalI

LEMMA CallIOwned ==
  ASSUME OInv, CallI
  PROVE  Fine
<1>1. status = "running"
  BY DEF CallI, Fetched
<1>2. CASE Throw(heap)
  BY <1>2, ThrowHereOwned DEF Fine
<1>3. CASE stack' = Saved /\ notop' = TRUE /\ UNCHANGED <<heap, globals>> /\ UNCHANGED host
  <2>1. Saved' = Saved
    BY <1>3 DEF Saved, SaveTop
  <2> QED BY <1>1, <1>3, <2>1, KeepOwned
<1> QED BY <1>2, <1>3 DEF CallI

LEMMA EchoOwned ==
  ASSUME OInv, StackDiscipline, Echo
  PROVE  Fine
<1>1. status = "running" /\ notop = FALSE
  BY TopOwned DEF Echo, ReadsTop
<1>2. CASE Throw(heap)
  BY <1>2, ThrowHereOwned DEF Fine
<1>3. CASE Done(heap, top, stack, notop)
  <2>1. Saved' = Saved /\ UNCHANGED <<heap, globals>> /\ UNCHANGED host
    BY <1>3 DEF Saved, SaveTop, Done
  <2> QED BY <1>1, <2>1, KeepOwned
<1> QED BY <1>2, <1>3 DEF Echo

LEMMA MalformedOwned ==
  ASSUME OInv, Malformed
  PROVE  Fine
  BY ThrowHereOwned DEF Malformed, Fine

LEMMA ResizeDown ==
  ASSUME NEW s \in Seq(ValuePair), NEW n \in 0..Len(s)
  PROVE  Resize(s, n) = SubSeq(s, 1, n)
<1> DEFINE r == Resize(s, n)
           t == SubSeq(s, 1, n)
<1>1. Len(s) \in Nat /\ n \in Nat /\ n <= Len(s)
  BY LenProperties
<1>2. /\ r \in Seq(ValuePair) /\ Len(r) = n /\ \A i \in 1..n : r[i] = s[i]
  BY <1>1, ResizeOK DEF Resize
<1>3. /\ t \in Seq(ValuePair) /\ Len(t) = n /\ \A i \in 1..n : t[i] = s[i]
  BY <1>1
<1> HIDE DEF r, t
<1>4. r = t
  BY <1>1, <1>2, <1>3, SeqEqual
<1> QED BY <1>4 DEF r, t

LEMMA TailCallIOwned ==
  ASSUME OInv, StackDiscipline, TailCallI
  PROVE  Fine
<1> DEFINE sp == Last(spStack)
           params == functions[Inst.imm + 1].parameters
           n == Len(Saved)
           stackEnd == n - params
           below == SubSeq(Saved, 1, sp)
           gone == SubSeq(Saved, sp + 1, stackEnd)
           args == SubSeq(Saved, stackEnd + 1, n)
           d == DropAll(heap, gone)
           s == below \o args
           P == Pointers(gone)
<1>1. /\ status = "running" /\ Inst.op = "TailCallI" /\ sp <= n /\ sp \in Int
      /\ n \in Nat
  BY FetchedInst, Running, RunningOwned, LenProperties
     DEF TailCallI, Fetched, StackDiscipline, OInv
<1>2. Good(heap) /\ Operands = Saved /\ Owned(heap, Saved) /\ Saved \in Seq(ValuePair)
  BY <1>1, RunningOwned
<1>3. CASE Throw(heap)
  BY <1>3, ThrowHereOwned DEF Fine
<1>4. CASE (sp < 0 \/ (stackEnd < sp /\ params > 0)) /\ Undefined
  BY <1>1, <1>4, UndefinedOwned DEF Fine, Unchecked
<1>5. ASSUME IsFunction(Inst.imm), sp >= 0, stackEnd >= sp \/ params = 0
      PROVE  /\ d.exit = "ok" /\ Moves(heap, d.heap, P)
             /\ P \subseteq Pointers(Saved) /\ Pointers(s) \subseteq Pointers(Saved)
             /\ Pointers(s) \cap P = {}
             /\ s \in Seq(ValuePair) /\ Owned(heap, s) /\ MoveDown(sp, stackEnd) = s
  <2>1. params \in Nat
    <3>1. functions \in Seq(FunctionEntry)
      BY DEF OInv, IInv, TypeOK
    <3>2. functions[Inst.imm + 1] \in FunctionEntry
      BY <1>5, <3>1, LenProperties DEF IsFunction
    <3> QED BY <3>2 DEF FunctionEntry
  <2> HIDE DEF params, sp, n
  <2>2. sp \in 0..n /\ stackEnd \in sp..n
    BY <1>1, <1>5, <2>1
  <2> HIDE DEF stackEnd
  <2>3. /\ below \in Seq(ValuePair) /\ Owned(heap, below)
        /\ gone \in Seq(ValuePair) /\ Owned(heap, gone)
        /\ args \in Seq(ValuePair) /\ Owned(heap, args)
        /\ Apart(below, gone) /\ Apart(below, args) /\ Apart(gone, args)
        /\ Pointers(below) \subseteq Pointers(Saved)
        /\ Pointers(gone) \subseteq Pointers(Saved)
        /\ Pointers(args) \subseteq Pointers(Saved)
    BY <1>2, <2>2, OwnedPart DEF n
  <2>4. MoveDown(sp, stackEnd) = s
    BY <1>2, <2>2, ResizeDown DEF MoveDown, n
  <2> HIDE DEF below, gone, args
  <2>5. s \in Seq(ValuePair) /\ Owned(heap, s) /\ Pointers(s) = Pointers(below) \cup Pointers(args)
    BY <2>3, OwnedConcat, ConcatProperties
  <2>6. d.exit = "ok" /\ Moves(heap, d.heap, P)
    BY <1>2, <2>3, DropAllTransfers DEF Transfers
  <2> QED BY <2>3, <2>4, <2>5, <2>6 DEF Apart
<1>6. CASE /\ IsFunction(Inst.imm) /\ sp >= 0 /\ (stackEnd >= sp \/ params = 0)
           /\ \/ d.exit = "throw" /\ Throw(d.heap)
              \/ d.exit = "ub" /\ Undefined
              \/ /\ stack' = MoveDown(sp, stackEnd) /\ heap' = d.heap /\ notop' = TRUE
                 /\ UNCHANGED globals /\ UNCHANGED host
  <2>1. /\ stack' = s /\ heap' = d.heap /\ notop' = TRUE /\ UNCHANGED globals /\ UNCHANGED host
    BY <1>5, <1>6
  <2>2. Saved' = s /\ status' = "running" /\ results' = results
    BY <1>1, <2>1 DEF Saved, SaveTop, host
  <2>3. s \in Seq(ValuePair) /\ Pointers(s) \subseteq Pointers(Saved) /\ Owned(d.heap, s)
        /\ P \subseteq Pointers(Saved) /\ Moves(heap, d.heap, P)
    <3> HIDE DEF P, s, d
    <3> QED BY <1>2, <1>5, <1>6, MovesKeep
  <2>4. OwnedNow'
    <3> HIDE DEF P, s, d
    <3> QED BY <1>1, <2>1, <2>2, <2>3, StayOwned
  <2> QED BY <2>2, <2>4 DEF Fine
<1> QED BY <1>3, <1>4, <1>6 DEF TailCallI

\* What a frame leaves on the stack when it returns is apart from what is dropped.
RetFrame == IF Last(spStack) < 0 THEN <<>> ELSE SubSeq(stack, Last(spStack) + 1, Len(stack))
RetLeft == Resize(stack, Last(spStack) + 1)

LEMMA FrameLeft ==
  ASSUME OInv, StackDiscipline, Ret, notop # TRUE
  PROVE  /\ Saved = Append(stack, top) /\ Owned(heap, stack) /\ Joins(heap, stack, top)
         /\ Pointers(Saved) = Pointers(stack) \cup PointerOf(top)
         /\ RetFrame \in Seq(ValuePair) /\ Owned(heap, RetFrame)
         /\ Pointers(RetFrame) \subseteq Pointers(stack)
         /\ Last(spStack) >= -1 /\ Len(pcStack) # 1 =>
              /\ RetLeft \in Seq(ValuePair) /\ Owned(heap, RetLeft)
              /\ Pointers(RetLeft) \subseteq Pointers(stack)
              /\ Pointers(RetLeft) \cap Pointers(RetFrame) = {}
<1> DEFINE sp == Last(spStack)
           n == Len(stack)
           frame == IF sp < 0 THEN <<>> ELSE SubSeq(stack, sp + 1, n)
           P == Pointers(frame)
           left == Resize(stack, sp + 1)
<1>1. /\ status = "running" /\ Inst.op = "Ret" /\ pc < Len(Code) /\ sp \in Int
      /\ pcStack # <<>> /\ pcStack \in Seq(Nat)
  BY FetchedInst, Running DEF Ret, Fetched, OInv, IInv, TypeOK
<1>2. /\ Good(heap) /\ Operands = Saved /\ Owned(heap, Saved)
      /\ stack \in Seq(ValuePair) /\ top \in ValuePair /\ n \in Nat
  BY <1>1, RunningOwned, SlotTypes, LenProperties DEF OInv
<1>4. /\ Saved = Append(stack, top) /\ Owned(heap, stack) /\ Joins(heap, stack, top)
      /\ Pointers(Saved) = Pointers(stack) \cup PointerOf(top)
  <2>1. Saved = Append(stack, top)
    BY DEF Saved, SaveTop, OInv, IInv, TypeOK
  <2> QED BY <1>2, <2>1, OwnedAppend DEF PointerOf
<1>5. /\ frame \in Seq(ValuePair) /\ Owned(heap, frame)
      /\ P \subseteq Pointers(stack)
      /\ sp \in 0..n => /\ SubSeq(stack, 1, sp) \in Seq(ValuePair)
                        /\ Owned(heap, SubSeq(stack, 1, sp))
                        /\ Apart(SubSeq(stack, 1, sp), frame)
                        /\ Pointers(SubSeq(stack, 1, sp)) \subseteq Pointers(stack)
  <2>1. CASE sp \in 0..n
    <3>1. frame = SubSeq(stack, sp + 1, n) /\ n \in sp..n
      BY <1>2, <2>1
    <3> HIDE DEF sp, frame
    <3> QED BY <1>2, <1>4, <2>1, <3>1, OwnedPart
  <2>2. CASE sp \notin 0..n
    <3>1. frame = <<>>
      BY <1>1, <1>2, <2>2, SubSeqEmpty
    <3> HIDE DEF frame
    <3> QED BY <2>2, <3>1, OwnedEmpty
  <2> QED BY <2>1, <2>2
<1>10. Len(pcStack) # 1 => Len(pcStack) > 1
  <2> DEFINE k == Len(pcStack)
  <2>1. k \in Nat /\ k # 0
    BY <1>1
  <2> HIDE DEF k
  <2>2. k # 1 => k > 1
    BY <2>1
  <2> QED BY <2>2 DEF k
<1>8. ASSUME sp >= -1, Len(pcStack) # 1
      PROVE  /\ left \in Seq(ValuePair) /\ Owned(heap, left)
             /\ Pointers(left) \subseteq Pointers(stack) /\ Pointers(left) \cap P = {}
  <2>1. CASE sp = -1
    <3>1. left = <<>>
      BY <2>1 DEF Resize
    <3> HIDE DEF left
    <3> QED BY <3>1, OwnedEmpty
  <2>2. CASE sp >= 0
    <3> DEFINE below == SubSeq(stack, 1, sp)
               x == stack[sp + 1]
    <3>1. Len(pcStack) > 1
      BY <1>8, <1>10
    <3>2. sp < n /\ ~isAllocated(x)
      BY <1>1, <2>2, <3>1 DEF StackDiscipline
    <3>3. sp \in 0..n /\ sp + 1 \in 1..n
      BY <1>1, <1>2, <2>2, <3>2
    <3> HIDE DEF sp
    <3>4. x \in ValuePair
      BY <1>2, <3>3
    <3>5. left = Append(below, x)
      <4> DEFINE t == Append(below, x)
      <4>1. /\ left \in Seq(ValuePair) /\ Len(left) = sp + 1
            /\ \A i \in 1..(sp + 1) : left[i] = stack[i]
        BY <1>2, <3>3, ResizeOK DEF Resize
      <4>2. below \in Seq(ValuePair) /\ Len(below) = sp /\ \A i \in 1..sp : below[i] = stack[i]
        BY <1>2, <3>3
      <4> HIDE DEF below, left
      <4>3. /\ t \in Seq(ValuePair) /\ Len(t) = sp + 1 /\ t[sp + 1] = x
            /\ \A i \in 1..sp : t[i] = stack[i]
        BY <3>4, <4>2, AppendProperties
      <4>4. \A i \in 1..(sp + 1) : i # sp + 1 => i \in 1..sp
        BY <3>3
      <4> HIDE DEF t
      <4>5. \A i \in 1..(sp + 1) : left[i] = t[i]
        BY <4>1, <4>3, <4>4
      <4>6. left = t
        BY <4>1, <4>3, <4>5, SeqEqual
      <4> QED BY <4>6 DEF t
    <3>6. /\ below \in Seq(ValuePair) /\ Owned(heap, below)
          /\ Pointers(below) \cap P = {} /\ Pointers(below) \subseteq Pointers(stack)
      BY <1>5, <1>8, <3>3 DEF Apart
    <3> HIDE DEF below, x, P, left
    <3>7. Owned(heap, Append(below, x)) /\ Pointers(Append(below, x)) = Pointers(below)
      <4>1. Joins(heap, below, x)
        BY <3>2 DEF Joins
      <4> QED BY <3>2, <3>4, <3>6, <4>1, OwnedAppend
    <3>8. Append(below, x) \in Seq(ValuePair)
      BY <3>4, <3>6, AppendProperties
    <3> QED BY <3>5, <3>6, <3>7, <3>8
  <2> QED BY <1>1, <1>8, <2>1, <2>2
<1> QED BY <1>4, <1>5, <1>8 DEF RetFrame, RetLeft

\* The frame is dropped but for the slot resize(sp + 1) leaves, which points to nothing.
LEMMA RetOwned ==
  ASSUME OInv, StackDiscipline, Ret
  PROVE  Fine
<1> DEFINE sp == Last(spStack)
           n == Len(stack)
           frame == IF sp < 0 THEN <<>> ELSE SubSeq(stack, sp + 1, n)
           d == DropAll(heap, frame)
           P == Pointers(frame)
           left == Resize(stack, sp + 1)
           s == Append(left, top)
<1>1. /\ status = "running" /\ Inst.op = "Ret" /\ pc < Len(Code) /\ sp \in Int
      /\ pcStack # <<>> /\ pcStack \in Seq(Nat)
  BY FetchedInst, Running DEF Ret, Fetched, OInv, IInv, TypeOK
<1>2. /\ Good(heap) /\ Operands = Saved /\ Owned(heap, Saved)
      /\ stack \in Seq(ValuePair) /\ top \in ValuePair /\ n \in Nat
  BY <1>1, RunningOwned, SlotTypes, LenProperties DEF OInv
<1>3. CASE Throw(heap)
  BY <1>3, ThrowHereOwned DEF Fine
<1>4. ASSUME notop # TRUE
      PROVE  /\ Saved = Append(stack, top) /\ Owned(heap, stack) /\ Joins(heap, stack, top)
             /\ Pointers(Saved) = Pointers(stack) \cup PointerOf(top)
             /\ frame \in Seq(ValuePair) /\ Owned(heap, frame) /\ P \subseteq Pointers(stack)
             /\ sp >= -1 /\ Len(pcStack) # 1 =>
                  /\ left \in Seq(ValuePair) /\ Owned(heap, left)
                  /\ Pointers(left) \subseteq Pointers(stack) /\ Pointers(left) \cap P = {}
  BY <1>4, FrameLeft DEF RetFrame, RetLeft
<1>6. ASSUME notop # TRUE
      PROVE  /\ d.exit = "ok" /\ Moves(heap, d.heap, P)
             /\ isAllocated(top) => /\ Live(d.heap, top) /\ top.v \notin ElementPointers(d.heap)
                                    /\ top.v \in Pointers(Operands)
  <2> HIDE DEF frame
  <2>1. d.exit = "ok" /\ Moves(heap, d.heap, P)
    BY <1>2, <1>4, <1>6, DropAllTransfers DEF Transfers
  <2> HIDE DEF d, P
  <2> QED BY <1>2, <1>4, <1>6, <2>1 DEF Moves, Joins, PointerOf
<1>7. CASE notop # TRUE /\ Leave("return", top, d.heap)
  <2>1. P \subseteq Pointers(Operands)
    BY <1>2, <1>4, <1>7
  <2> HIDE DEF d, P
  <2> QED BY <1>2, <1>6, <1>7, <2>1, LeaveOwned DEF Fine
<1>8. CASE /\ notop # TRUE /\ sp >= -1 /\ Len(pcStack) # 1
           /\ stack' = left /\ heap' = d.heap
           /\ UNCHANGED <<top, notop, globals>> /\ UNCHANGED host
  <2>1. /\ left \in Seq(ValuePair) /\ Owned(heap, left)
        /\ Pointers(left) \subseteq Pointers(stack) /\ Pointers(left) \cap P = {}
    BY <1>4, <1>8
  <2>2. Saved' = s /\ status' = "running" /\ results' = results
    <3>1. notop = FALSE
      BY <1>8 DEF OInv, IInv, TypeOK
    <3> QED BY <1>1, <1>8, <3>1 DEF Saved, SaveTop, host
  <2> HIDE DEF left
  <2>3. Joins(heap, left, top)
    BY <1>4, <1>8, <2>1 DEF Joins
  <2>4. /\ s \in Seq(ValuePair) /\ Owned(heap, s) /\ Pointers(s) = Pointers(left) \cup PointerOf(top)
    BY <1>2, <2>1, <2>3, OwnedAppend, AppendProperties DEF PointerOf
  <2>5. Pointers(s) \cap P = {} /\ Pointers(s) \subseteq Pointers(Saved) /\ P \subseteq Pointers(Saved)
    BY <1>4, <1>8, <2>1, <2>4 DEF Joins, PointerOf
  <2> HIDE DEF s, P, d
  <2>6. Owned(d.heap, s) /\ Moves(heap, d.heap, P)
    BY <1>2, <1>6, <1>8, <2>4, <2>5, MovesKeep
  <2>7. OwnedNow'
    BY <1>1, <1>8, <2>2, <2>5, <2>6, StayOwned
  <2> QED BY <2>2, <2>7 DEF Fine
<1>9. notop # TRUE => d.exit # "throw" /\ d.exit # "ub"
  BY <1>6
<1> QED BY <1>3, <1>7, <1>8, <1>9 DEF Ret

\* The three topmost slots.
LEMMA LastThree ==
  ASSUME OInv, StackDiscipline, Fetched("MakeRange"), Len(stack) > 1,
         NEW start, start = stack[Len(stack) - 1], NEW step, step = Last(stack),
         NEW parts, parts = <<start, step, top>>
  PROVE  /\ start \in ValuePair /\ step \in ValuePair
         /\ parts \in Seq(ValuePair) /\ Owned(heap, parts)
         /\ Pointers(parts) \subseteq Pointers(Saved)
<1> DEFINE n == Len(stack)
           t == SubSeq(Saved, n - 1, n + 1)
<1>1. /\ Saved = Append(stack, top) /\ Owned(heap, Saved)
      /\ stack \in Seq(ValuePair) /\ top \in ValuePair /\ n \in Nat /\ n > 1
  BY TopOwned, RunningOwned, LenProperties DEF ReadsTop
<1>2. start \in ValuePair /\ step \in ValuePair /\ step = stack[n]
  BY <1>1 DEF Last
<1>3. /\ Len(Saved) = n + 1 /\ Saved \in Seq(ValuePair)
      /\ Saved[n - 1] = start /\ Saved[n] = step /\ Saved[n + 1] = top
  BY <1>1, <1>2, AppendProperties
<1>4. /\ t \in Seq(ValuePair) /\ Owned(heap, t) /\ Pointers(t) \subseteq Pointers(Saved)
  <2> DEFINE m == n - 2
  <2>1. m \in 0..Len(Saved) /\ n + 1 \in m..Len(Saved) /\ m + 1 = n - 1
    BY <1>1, <1>3
  <2> HIDE DEF m
  <2>2. /\ SubSeq(Saved, m + 1, n + 1) \in Seq(ValuePair)
        /\ Owned(heap, SubSeq(Saved, m + 1, n + 1))
        /\ Pointers(SubSeq(Saved, m + 1, n + 1)) \subseteq Pointers(Saved)
    BY <1>1, <1>3, <2>1, OwnedPart
  <2> QED BY <2>1, <2>2
<1>5. Len(t) = 3 /\ t[1] = start /\ t[2] = step /\ t[3] = top
  <2>1. Len(t) = 3
    BY <1>1, <1>3
  <2>2. \A i \in 1..3 : t[i] = Saved[i + n - 2]
    BY <1>1, <1>3
  <2>3. 1 + n - 2 = n - 1 /\ 2 + n - 2 = n /\ 3 + n - 2 = n + 1
    BY <1>1
  <2> HIDE DEF t
  <2> QED BY <1>3, <2>1, <2>2, <2>3
<1>6. parts \in Seq(ValuePair) /\ Len(parts) = 3
      /\ parts[1] = start /\ parts[2] = step /\ parts[3] = top
  BY <1>1, <1>2
<1>7. \A i \in 1..3 : i = 1 \/ i = 2 \/ i = 3
  OBVIOUS
<1> HIDE DEF t
<1>8. parts = t
  BY <1>4, <1>5, <1>6, <1>7, SeqEqual
<1> QED BY <1>2, <1>4, <1>6, <1>8

LEMMA MakeRangeOwned ==
  ASSUME OInv, StackDiscipline, MakeRange
  PROVE  Fine
<1> DEFINE n == Len(stack)
           start == stack[n - 1]
           step == Last(stack)
           parts == <<start, step, top>>
           d == DropAll(heap, parts)
           range == [begin |-> start.v, step |-> step.v, end |-> top.v]
           r == NewRange(heap, range)
           P == Pointers(parts)
           none == {}
<1>1. /\ Good(heap) /\ Operands = Saved /\ Saved = Append(stack, top)
      /\ stack \in Seq(ValuePair) /\ top \in ValuePair /\ n \in Nat
      /\ status = "running"
  BY TopOwned, LenProperties DEF MakeRange, ReadsTop
<1>3. CASE Throw(heap)
  BY <1>3, ThrowHereOwned DEF Fine
<1>4. ASSUME n > 1
      PROVE  /\ start \in ValuePair /\ step \in ValuePair
             /\ parts \in Seq(ValuePair) /\ Owned(heap, parts) /\ P \subseteq Pointers(Saved)
  BY <1>4, LastThree DEF MakeRange
<1>5. CASE n > 1 /\ Throw(NewList(r.heap).heap)
  <2>1. range \in SRange
    BY <1>1, <1>4, <1>5 DEF SRange, ValuePair
  <2> HIDE DEF range
  <2>2. Moves(heap, r.heap, none)
    BY <1>1, <2>1, NewRangeMoves DEF Transfers
  <2>3. Moves(r.heap, NewList(r.heap).heap, none)
    BY <2>2, NewListTransfers DEF Transfers, Moves
  <2> DEFINE h == NewList(r.heap).heap
  <2>4. none \subseteq Pointers(Operands)
    OBVIOUS
  <2> HIDE DEF none
  <2>5. Moves(heap, h, none)
    BY <1>1, <2>2, <2>3, MovesChain
  <2>6. Throw(h)
    BY <1>5
  <2> HIDE DEF h
  <2> QED BY <2>4, <2>5, <2>6, ThrowOwned DEF Fine
<1>6. CASE /\ n > 1
           /\ \/ d.exit = "ok" /\ Throw(NewList(d.heap).heap)
              \/ d.exit = "throw" /\ Throw(d.heap)
              \/ d.exit = "ub" /\ Undefined
  <2> DEFINE h == NewList(d.heap).heap
  <2>1. P \subseteq Pointers(Operands)
    BY <1>1, <1>4, <1>6
  <2>2. d.exit = "ok" /\ Moves(heap, d.heap, P)
    <3>1. parts \in Seq(ValuePair) /\ Owned(heap, parts)
      BY <1>4, <1>6
    <3> HIDE DEF parts
    <3> QED BY <1>1, <3>1, DropAllTransfers DEF Transfers
  <2>3. Throw(h)
    BY <1>6, <2>2
  <2> HIDE DEF P, d
  <2>4. Moves(d.heap, h, P)
    <3>1. Good(d.heap)
      BY <2>2 DEF Moves
    <3>2. Moves(d.heap, h, {})
      BY <3>1, NewListTransfers DEF Transfers
    <3> HIDE DEF h
    <3> QED BY <3>2, MovesFewer
  <2> HIDE DEF h
  <2>5. Moves(heap, h, P)
    BY <1>1, <2>2, <2>4, MovesChain
  <2> QED BY <2>1, <2>3, <2>5, ThrowOwned DEF Fine
<1>7. \/ Throw(heap)
      \/ n > 1 /\ Throw(NewList(r.heap).heap)
      \/ /\ n > 1
         /\ \/ d.exit = "ok" /\ Throw(NewList(d.heap).heap)
            \/ d.exit = "throw" /\ Throw(d.heap)
            \/ d.exit = "ub" /\ Undefined
  BY DEF MakeRange
<1> HIDE DEF n, d, r
<1> QED BY <1>3, <1>5, <1>6, <1>7

LEMMA EvalOwned ==
  ASSUME OInv, NEW id \in 0..Len(functions), Eval(id)
  PROVE  Fine
<1>1. CASE Throw(heap)
  BY <1>1, ThrowHereOwned DEF Fine
<1>2. CASE /\ status' = "running" /\ stack' = <<>> /\ notop' = TRUE
           /\ UNCHANGED <<globals, heap, results>>
  <2>1. /\ Operands' = <<>> /\ ReturnedValues' = ReturnedValues /\ globals' = globals
        /\ heap' = heap /\ status' = "running"
    BY <1>2 DEF Operands, Saved, SaveTop, ReturnedValues
  <2>2. Owned(heap, <<>>) /\ Pointers(<<>>) = {}
    BY OwnedEmpty
  <2>3. Parts(heap, <<>>, globals, ReturnedValues)
    BY <2>2 DEF OInv, OwnedNow, Parts, Apart
  <2> QED BY <2>1, <2>3 DEF OInv, OwnedNow, Fine
<1> QED BY <1>1, <1>2 DEF Eval

LEMMA StutterOwned ==
  ASSUME OInv, Stop \/ UNCHANGED vars
  PROVE  OwnedNow' /\ status' = status
<1>1. UNCHANGED <<heap, globals, results, status>> /\ UNCHANGED operands
  BY DEF Stop, vars, operands
<1>2. /\ Operands' = Operands /\ ReturnedValues' = ReturnedValues
      /\ heap' = heap /\ globals' = globals /\ status' = status
  BY <1>1 DEF operands, Operands, Saved, SaveTop, ReturnedValues
<1> QED BY <1>2 DEF OInv, OwnedNow

\* A step from a state that keeps the discipline.
LEMMA StepOwned ==
  ASSUME OInv, StackDiscipline, [Next]_vars
  PROVE  OwnedNow' /\ (status' = "ub" /\ status # "ub" => Unchecked)
<1>1. CASE Stop \/ UNCHANGED vars
  BY <1>1, StutterOwned
<1>2. CASE \E id \in 0..Len(functions) : Eval(id)
  BY <1>2, EvalOwned DEF Fine
<1>3. CASE RunOff \/ GetI \/ AddI \/ SetI \/ JumpI \/ JumpFalseI \/ Iter
  BY <1>3, RunOffOwned, GetIOwned, AddIOwned, SetIOwned, JumpIOwned, JumpFalseIOwned, IterOwned
     DEF Fine
<1>4. CASE \/ Pop \/ Dup \/ BuiltinUnaryOp \/ BinaryOp \/ ConstNum \/ ConstMisc
           \/ GetGlobalI \/ SetGlobalI
  BY <1>4, PopOwned, DupOwned, BuiltinUnaryOpOwned, BinaryOpOwned, ConstOwned,
     GetGlobalIOwned, SetGlobalIOwned DEF Fine
<1>5. CASE CallI \/ TailCallI \/ Ret \/ MakeRange \/ MakeList \/ Echo \/ Malformed
  BY <1>5, CallIOwned, TailCallIOwned, RetOwned, MakeRangeOwned, MakeListOwned, EchoOwned,
     MalformedOwned DEF Fine
<1> QED BY <1>1, <1>2, <1>3, <1>4, <1>5 DEF Next, Execute

LEMMA InitOwned ==
  ASSUME Init
  PROVE  OwnedNow
<1>1. IInv
  BY InitOK
<1>2. /\ Owned(heap, globals) /\ ElementsLive(heap) /\ Acyclic(heap)
      /\ status = "idle" /\ results = <<>>
  BY OwnershipAssumption DEF Init
<1>3. Operands = <<>> /\ ReturnedValues = <<>>
  BY <1>2 DEF Operands, ReturnedValues
<1>4. Owned(heap, <<>>) /\ Pointers(<<>>) = {}
  BY OwnedEmpty
<1> QED BY <1>1, <1>2, <1>3, <1>4 DEF OwnedNow, Good, Parts, Apart, IInv, TypeOK

-----------------------------------------------------------------------------
\* The theorems.

\* "We treat all the allocated things as unique pointers" (values.h:83): as long as the
\* program keeps the discipline that eval takes for granted, every pointer in a slot, in
\* a global or with the host is live, no other slot has it, and no list holds it.
THEOREM Ownership == Spec /\ []StackDiscipline => []UniquePointers
<1>1. Init => OwnedNow
  BY InitOwned
<1>2. IInv /\ OwnedNow /\ StackDiscipline /\ [Next]_vars => OwnedNow'
  BY StepOwned DEF OInv
<1>3. IInv /\ OwnedNow => UniquePointers
  BY OwnedNowIs
<1> QED BY <1>1, <1>2, <1>3, Inductive, PTL DEF Spec

\* In such a program no instruction reads, copies or frees what has been freed
\* (evaluator.cpp:311 to 577): undefined behaviour is left only to the checks that eval
\* does not make, such as a negative index or the end of a function without Ret.
THEOREM Dangling == Spec /\ []StackDiscipline => NoDanglingUse
<1>1. Init => OwnedNow
  BY InitOwned
<1>2. IInv /\ OwnedNow /\ StackDiscipline /\ [Next]_vars =>
        OwnedNow' /\ [status' = "ub" /\ status # "ub" => Unchecked]_vars
  BY StepOwned DEF OInv
<1> QED BY <1>1, <1>2, Inductive, PTL DEF Spec, NoDanglingUse

\* What the host has been given stays given.
Grows == results' = results \/ \E o \in Outcome : results' = Append(results, o)

LEMMA LeaveGrows ==
  ASSUME IInv, NEW how \in {"return", "throw"}, NEW x \in ValuePair, NEW h, Leave(how, x, h)
  PROVE  Grows
  BY DEF Leave, Grows, Outcome

LEMMA EndGrows ==
  ASSUME IInv, NEW h, Throw(h) \/ Undefined \/ UNCHANGED host
  PROVE  Grows
  BY LeaveGrows, UndefType DEF Throw, Undefined, host, Grows

LEMMA FinishGrows ==
  ASSUME IInv, NEW r, NEW s, NEW n, Finish(r, s, n)
  PROVE  Grows
  BY EndGrows DEF Finish, Done

LEMMA PopIntoGrows ==
  ASSUME IInv, NEW s, NEW h, NEW target, PopInto(s, h, target)
  PROVE  Grows
  BY EndGrows DEF PopInto, TakeTop

LEMMA ResultsGrow ==
  ASSUME IInv, [Next]_vars
  PROVE  Grows
<1>1. CASE Stop \/ UNCHANGED vars \/ \E id \in 0..Len(functions) : Eval(id)
  BY <1>1, EndGrows DEF Stop, vars, Eval, Grows
<1>2. CASE RunOff \/ MakeList \/ Malformed \/ MakeRange
  BY <1>2, EndGrows DEF RunOff, MakeList, Malformed, MakeRange
<1>3. CASE GetI \/ Dup \/ GetGlobalI \/ BuiltinUnaryOp \/ BinaryOp
  BY <1>3, EndGrows, FinishGrows DEF GetI, Dup, GetGlobalI, BuiltinUnaryOp, BinaryOp, Push
<1>4. CASE AddI \/ ConstNum \/ ConstMisc \/ Echo \/ JumpI \/ CallI
  BY <1>4, EndGrows DEF AddI, ConstNum, ConstMisc, Echo, JumpI, CallI, Done
<1>5. CASE JumpFalseI \/ Pop \/ SetI
  BY <1>5, EndGrows, PopIntoGrows DEF JumpFalseI, Pop, SetI, TakeTop
<1>6. CASE Iter
  BY <1>6, EndGrows, PopIntoGrows, FinishGrows DEF Iter
<1>7. CASE SetGlobalI
  BY <1>7, EndGrows, UndefType DEF SetGlobalI, TakeTop, Grows, Outcome
<1>8. CASE TailCallI
  BY <1>8, EndGrows DEF TailCallI
<1>9. CASE Ret
  <2>1. top \in ValuePair
    BY DEF IInv, TypeOK
  <2> QED BY <1>9, <2>1, EndGrows, LeaveGrows DEF Ret
<1> QED BY <1>1, <1>2, <1>3, <1>4, <1>5, <1>6, <1>7, <1>8, <1>9 DEF Next, Execute

\* A value of the host: no evaluation owns its box, so none frees it or writes to it.
LEMMA StepIsStable ==
  ASSUME OInv, StackDiscipline, [Next]_vars, NEW i \in 1..Len(results),
         results[i].val.tag = "VECTOR"
  PROVE  /\ Live(heap', results[i].val)
         /\ Elements(heap', results[i].val.v) = Elements(heap, results[i].val.v)
<1> DEFINE x == results[i].val
<1>1. /\ results \in Seq(Outcome) /\ ReturnedValues \in Seq(ValuePair)
      /\ Len(ReturnedValues) = Len(results) /\ Len(results) \in Nat
  BY SlotTypes, LenProperties DEF OInv, IInv, TypeOK, Outcome
<1>2. x = ReturnedValues[i] /\ isAllocated(x)
  BY DEF ReturnedValues, isAllocated, AllocatedTag
<1>3. x \in ValuePair /\ Live(heap, x) /\ x.v \in DOMAIN heap.vec /\ x.v # 0
      /\ x.v \in Pointers(ReturnedValues)
  <2>1. AllLive(heap, ReturnedValues) /\ IsHeap(heap)
    BY DEF OInv, OwnedNow, Parts, Owned, Good
  <2>2. x \in ValuePair /\ Live(heap, x) /\ x.v \in Pointers(ReturnedValues)
    BY <1>1, <1>2, <2>1, PointersFact DEF AllLive
  <2>3. x.v \in DOMAIN heap.vec
    BY <2>2, LiveParts, <2>1
  <2> QED BY <2>1, <2>2, <2>3, HeapFact DEF Boxes
<1>4. OwnedNow' /\ MutatesOnly(LeftList)
  BY StepOwned, StepIsPrivate DEF OInv
<1>5. Live(heap', x)
  <2>1. i \in 1..Len(results') /\ Len(results') \in Nat /\ results'[i] = results[i]
    <3>1. Grows
      BY ResultsGrow DEF OInv
    <3> QED BY <1>1, <3>1, AppendProperties DEF Grows
  <2>2. AllLive(heap', ReturnedValues')
    BY <1>4 DEF OwnedNow, Parts, Owned
  <2>3. Len(ReturnedValues') = Len(results') /\ ReturnedValues'[i] = x
    BY <2>1 DEF ReturnedValues
  <2> QED BY <1>2, <2>1, <2>2, <2>3 DEF AllLive
<1>6. x.v \in DOMAIN heap'.vec
  <2>1. x.tag = "VECTOR"
    OBVIOUS
  <2> HIDE DEF x
  <2> QED BY <1>5, <2>1 DEF Live
<1>7. LeftList # x.v
  <2>1. CASE status = "running" /\ stack # <<>> /\ Last(stack).tag = "VECTOR"
    <3>1. stack \in Seq(ValuePair) /\ top \in ValuePair /\ Operands = Saved
      BY <2>1, SlotTypes, RunningOwned DEF OInv
    <3>2. Last(stack).v \in Pointers(stack)
      BY <2>1, <3>1, OwnedFront DEF isAllocated, AllocatedTag
    <3>3. Pointers(stack) \subseteq Pointers(Saved)
      BY <3>1, OwnedAppend DEF Saved, SaveTop
    <3>4. Apart(Operands, ReturnedValues)
      BY DEF OInv, OwnedNow, Parts
    <3>5. LeftList = Last(stack).v
      BY <2>1 DEF LeftList, ListAt
    <3> HIDE DEF x
    <3> QED BY <1>3, <3>1, <3>2, <3>3, <3>4, <3>5 DEF Apart
  <2>2. CASE ~(status = "running" /\ stack # <<>> /\ Last(stack).tag = "VECTOR")
    <3>1. LeftList = 0
      BY <2>2 DEF LeftList, ListAt
    <3> HIDE DEF x
    <3> QED BY <1>3, <3>1
  <2> QED BY <2>1, <2>2
<1>8. Elements(heap', x.v) = Elements(heap, x.v)
  <2> HIDE DEF x
  <2> QED BY <1>3, <1>4, <1>6, <1>7 DEF MutatesOnly
<1> QED BY <1>5, <1>8

\* In such a program the host keeps what eval returned to it: no later evaluation frees
\* it or changes its elements, although append and the operators update a list in place
\* where its count allows it (Evaluator::eval, SVector).
THEOREM HostOwnsItsValues == Spec /\ []StackDiscipline => HostValuesStable
<1> DEFINE Stable == \A i \in 1..Len(results) :
                       results[i].val.tag = "VECTOR" =>
                         /\ Live(heap', results[i].val)
                         /\ Elements(heap', results[i].val.v) = Elements(heap, results[i].val.v)
<1>1. Init => OwnedNow
  BY InitOwned
<1>2. IInv /\ OwnedNow /\ StackDiscipline /\ [Next]_vars => OwnedNow' /\ [Stable]_vars
  <2>1. ASSUME OInv, StackDiscipline, [Next]_vars PROVE Stable
    BY <2>1, StepIsStable
  <2> HIDE DEF Stable
  <2> QED BY <2>1, StepOwned DEF OInv
<1> QED BY <1>1, <1>2, Inductive, PTL DEF Spec, HostValuesStable

-----------------------------------------------------------------------------
\* Verified code.

\* Verified programs keep unique ownership: every pointer in a slot, in a global or with
\* the host is live, and nowhere else (values.h:83).
THEOREM VerifiedOwnership == Spec /\ Verified => []UniquePointers
  BY VerifiedDiscipline, Ownership, PTL

\* Verified programs leave the host what they have returned to it.
THEOREM VerifiedHostOwnsItsValues == Spec /\ Verified => HostValuesStable
  BY VerifiedDiscipline, HostOwnsItsValues, PTL

\* The only undefined behaviour that is left in a verified program is a negative index, into
\* a list or of a loop (evaluator.cpp:277 and 386): it does not run past the end of a
\* function, it uses nothing that has been freed, and no tail call leaves its frame.
THEOREM OnlyNegativeIndex ==
  Spec /\ Verified => [][status' = "ub" /\ status # "ub" => NegativeIndex]_vars
<1> DEFINE Checked == status' = "ub" /\ status # "ub" => Unchecked
           Only == status' = "ub" /\ status # "ub" => NegativeIndex
<1>1. IInv /\ WellShaped /\ [Next]_vars /\ [Checked]_vars => [Only]_vars
  <2> SUFFICES ASSUME IInv, WellShaped, [Next]_vars, [Checked]_vars,
                      status' = "ub", status # "ub"
               PROVE  NegativeIndex
    OBVIOUS
  <2>1. Unchecked
    BY DEF vars
  <2>2. PICK ty : Shaped(ty)
    BY DEF WellShaped
  <2> QED BY <2>1, <2>2, UndefinedStep, ShapedIsChecked
<1> QED BY <1>1, VerifiedDiscipline, ShapesKept, Dangling, Inductive, PTL
        DEF Spec, NoDanglingUse

=============================================================================
