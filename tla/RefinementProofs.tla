-------------------------- MODULE RefinementProofs --------------------------
(***************************************************************************)
(* The evaluator implements the stack machine: what a value denotes does   *)
(* not depend on who shares its buffers, and every step of the evaluator   *)
(* is the step of the machine, or none.                                    *)
(***************************************************************************)
EXTENDS OwnershipProofs

-----------------------------------------------------------------------------
\* What a value denotes.

\* x is a plain value, or owns a live box.
Sound(h, x) == x \in ValuePair /\ (isAllocated(x) => Live(h, x))

\* f is the function by which Items recurses, n deep.
Unfolds(h, n, f) ==
  f = [d \in 0..n |-> [x \in ValuePair |-> IF d = 0 THEN <<>> ELSE ItemsBy(h, f[d - 1], x)]]

LEMMA ItemsExist ==
  ASSUME NEW h
  PROVE  \A n \in Nat : \E f : Unfolds(h, n, f)
<1> DEFINE start == [x \in ValuePair |-> <<>>]
           step(g) == [x \in ValuePair |-> ItemsBy(h, g, x)]
           is(f, n) == f = [d \in 0..n |-> IF d = 0 THEN start ELSE step(f[d - 1])]
           P(n) == \E f : is(f, n)
<1>1. \A f, n : is(f, n) <=> Unfolds(h, n, f)
  <2> TAKE f, n
  <2>1. \A d : (IF d = 0 THEN start ELSE step(f[d - 1]))
               = [x \in ValuePair |-> IF d = 0 THEN <<>> ELSE ItemsBy(h, f[d - 1], x)]
    OBVIOUS
  <2> QED BY <2>1 DEF Unfolds
<1> HIDE DEF start, step
<1>2. P(0)
  <2>1. is([d \in 0..0 |-> start], 0)
    OBVIOUS
  <2> QED BY <2>1
<1>3. ASSUME NEW n \in Nat, P(n) PROVE P(n + 1)
  <2>1. PICK f : f = [d \in 0..n |-> IF d = 0 THEN start ELSE step(f[d - 1])]
    BY <1>3
  <2> DEFINE g == [d \in 0..(n + 1) |-> IF d = n + 1 THEN step(f[n]) ELSE f[d]]
  <2>2. \A d \in 0..n : f[d] = IF d = 0 THEN start ELSE step(f[d - 1])
    BY <2>1
  <2>3. \A d \in 0..(n + 1) : g[d] = IF d = 0 THEN start ELSE step(g[d - 1])
    <3> TAKE d \in 0..(n + 1)
    <3>1. CASE d = 0
      BY <2>2, <3>1
    <3>2. CASE d \in 1..n
      <4>1. d \in 0..n /\ d - 1 \in 0..n /\ d # n + 1 /\ d - 1 # n + 1 /\ d - 1 \in 0..(n + 1)
        BY <3>2
      <4>2. g[d] = f[d] /\ g[d - 1] = f[d - 1]
        BY <4>1
      <4> HIDE DEF g
      <4> QED BY <2>2, <3>2, <4>1, <4>2
    <3>3. CASE d = n + 1
      <4>1. d - 1 = n /\ n \in 0..(n + 1) /\ n # n + 1 /\ d # 0
        BY <3>3
      <4>2. g[d] = step(f[n]) /\ g[d - 1] = f[n]
        BY <3>3, <4>1
      <4> HIDE DEF g
      <4> QED BY <4>1, <4>2
    <3> QED BY <3>1, <3>2, <3>3
  <2>4. g = [d \in 0..(n + 1) |-> IF d = 0 THEN start ELSE step(g[d - 1])]
    <3>1. g = [d \in 0..(n + 1) |-> g[d]]
      OBVIOUS
    <3> HIDE DEF g
    <3> QED BY <2>3, <3>1
  <2> HIDE DEF g
  <2>5. is(g, n + 1)
    BY <2>4
  <2> QED BY <2>5
<1> HIDE DEF P
<1>4. \A n \in Nat : P(n)
  <2> SUFFICES ASSUME {n \in Nat : ~P(n)} # {} PROVE FALSE
    OBVIOUS
  <2>1. PICK n \in {k \in Nat : ~P(k)} : \A m \in {k \in Nat : ~P(k)} : n <= m
    <3> DEFINE T == {k \in Nat : ~P(k)}
    <3>1. T \subseteq Nat /\ T # {}
      OBVIOUS
    <3> HIDE DEF T
    <3>2. \E n \in T : \A m \in T : n <= m
      BY <3>1, Least
    <3> QED BY <3>2 DEF T
  <2>2. n # 0
    BY <1>2, <2>1
  <2>3. n - 1 \in Nat /\ P(n - 1) /\ n = n - 1 + 1
    BY <2>1, <2>2
  <2> QED BY <1>3, <2>1, <2>3
<1> QED BY <1>1, <1>4 DEF P

\* Where a value stands in an order of the boxes; what owns nothing comes first.
Level(rank, x) == IF x.tag = "VECTOR" THEN rank[x.v] ELSE 0

\* In an order, a list stands behind its elements.
LEMMA Levels ==
  ASSUME NEW h, Good(h), NEW rank, Orders(h, rank)
  PROVE  /\ h.next \in Nat /\ h.next >= 1
         /\ \A x : Sound(h, x) => Level(rank, x) \in 0..(h.next - 1)
         /\ \A x : Sound(h, x) /\ x.tag = "VECTOR" =>
              /\ x.v \in DOMAIN h.vec /\ Level(rank, x) >= 1
              /\ Elements(h, x.v) \in Seq(ValuePair) /\ Len(Elements(h, x.v)) \in Nat
              /\ \A i \in 1..Len(Elements(h, x.v)) :
                   /\ Sound(h, Elements(h, x.v)[i])
                   /\ Level(rank, Elements(h, x.v)[i]) < Level(rank, x)
<1>1. IsHeap(h) /\ ElementsLive(h) /\ h.next \in Nat /\ h.next >= 1
  BY HeapFact DEF Good
<1>2. \A a \in Boxes(h) : rank[a] \in 1..(h.next - 1)
  BY DEF Orders
<1>3. ASSUME NEW x, Sound(h, x), x.tag = "VECTOR"
      PROVE  x.v \in DOMAIN h.vec /\ Level(rank, x) \in 1..(h.next - 1)
  <2>1. x.v \in DOMAIN h.vec
    BY <1>3 DEF Sound, Live, isAllocated, AllocatedTag
  <2> QED BY <1>2, <1>3, <2>1 DEF Boxes, Level
<1>4. \A x : Sound(h, x) => Level(rank, x) \in 0..(h.next - 1)
  <2> TAKE x
  <2> HAVE Sound(h, x)
  <2>1. CASE x.tag = "VECTOR"
    <3>1. Level(rank, x) \in 1..(h.next - 1)
      BY <1>3, <2>1
    <3> QED BY <1>1, <3>1
  <2>2. CASE x.tag # "VECTOR"
    BY <1>1, <2>2 DEF Level
  <2> QED BY <2>1, <2>2
<1>5. ASSUME NEW x, Sound(h, x), x.tag = "VECTOR"
      PROVE  /\ Elements(h, x.v) \in Seq(ValuePair) /\ Len(Elements(h, x.v)) \in Nat
             /\ \A i \in 1..Len(Elements(h, x.v)) :
                  /\ Sound(h, Elements(h, x.v)[i])
                  /\ Level(rank, Elements(h, x.v)[i]) < Level(rank, x)
  <2> DEFINE s == Elements(h, x.v)
  <2>1. x.v \in DOMAIN h.vec /\ Level(rank, x) \in 1..(h.next - 1) /\ Level(rank, x) = rank[x.v]
    BY <1>3, <1>5 DEF Level
  <2>2. s \in Seq(ValuePair) /\ Len(s) \in Nat
    BY <1>1, <2>1, HeapFact, LenProperties
  <2>3. \A i \in 1..Len(s) : Sound(h, s[i])
    BY <1>1, <2>1, <2>2 DEF ElementsLive, AllLive, Sound
  <2>4. ASSUME NEW i \in 1..Len(s) PROVE Level(rank, s[i]) < Level(rank, x)
    <3>1. CASE s[i].tag = "VECTOR"
      <4>1. s[i].v \in Pointers(s)
        BY <3>1, PointersFact DEF isAllocated, AllocatedTag
      <4>2. rank[s[i].v] < rank[x.v]
        BY <2>1, <4>1 DEF Orders
      <4> QED BY <2>1, <3>1, <4>2 DEF Level
    <3>2. CASE s[i].tag # "VECTOR"
      BY <2>1, <3>2, <1>1 DEF Level
    <3> QED BY <3>1, <3>2
  <2> QED BY <2>2, <2>3, <2>4
<1> QED BY <1>1, <1>3, <1>4, <1>5

\* The items of a value depend on those of its elements only.
LEMMA ItemsAgree ==
  ASSUME NEW h, NEW x, NEW f, NEW g,
         x.tag = "VECTOR" => \A i \in 1..Len(Elements(h, x.v)) :
                               f[Elements(h, x.v)[i]] = g[Elements(h, x.v)[i]]
  PROVE  ItemsBy(h, f, x) = ItemsBy(h, g, x)
<1>1. CASE x.tag = "VECTOR" /\ Live(h, x)
  <2> DEFINE s == Elements(h, x.v)
             F == [i \in 1..Len(s) |-> Plain(s[i], f[s[i]])]
             G == [i \in 1..Len(s) |-> Plain(s[i], g[s[i]])]
  <2>1. ItemsBy(h, f, x) = F /\ ItemsBy(h, g, x) = G
    BY <1>1 DEF ItemsBy
  <2>2. \A i \in 1..Len(s) : f[s[i]] = g[s[i]]
    BY <1>1
  <2> HIDE DEF s
  <2>3. F = G
    BY <2>2
  <2> QED BY <2>1, <2>3
<1>2. CASE ~(x.tag = "VECTOR" /\ Live(h, x))
  BY <1>2, SMT DEF ItemsBy
<1> QED BY <1>1, <1>2

\* Deep enough is as deep as it gets.
LEMMA ItemsSettle ==
  ASSUME NEW h, Good(h), NEW rank, Orders(h, rank), NEW f, Unfolds(h, h.next, f)
  PROVE  \A d \in 1..h.next : \A e \in d..h.next : \A x :
           Sound(h, x) /\ Level(rank, x) < d => f[d][x] = f[e][x]
<1> DEFINE n == h.next
           T == {d \in 1..n : \E e \in d..n : \E x :
                   Sound(h, x) /\ Level(rank, x) < d /\ f[d][x] # f[e][x]}
<1>1. n \in Nat /\ n >= 1
  BY Levels
<1>2. \A d \in 1..n : \A x \in ValuePair : f[d][x] = ItemsBy(h, f[d - 1], x)
  <2> TAKE d \in 1..n
  <2> TAKE x \in ValuePair
  <2>1. d \in 0..n /\ d # 0
    OBVIOUS
  <2>2. f[d] = [y \in ValuePair |-> ItemsBy(h, f[d - 1], y)]
    BY <2>1 DEF Unfolds
  <2> QED BY <2>2
<1>3. T = {}
  <2> SUFFICES ASSUME T # {} PROVE FALSE
    OBVIOUS
  <2>1. T \subseteq Nat
    OBVIOUS
  <2> HIDE DEF T
  <2>2. PICK d \in T : \A c \in T : d <= c
    BY <2>1, Least
  <2>3. d \in 1..n
    BY <2>2 DEF T
  <2>4. PICK e \in d..n : \E x : Sound(h, x) /\ Level(rank, x) < d /\ f[d][x] # f[e][x]
    BY <2>2 DEF T
  <2>5. PICK x : Sound(h, x) /\ Level(rank, x) < d /\ f[d][x] # f[e][x]
    BY <2>4
  <2>6. e \in 1..n /\ x \in ValuePair
    BY <2>3, <2>4, <2>5 DEF Sound
  <2>7. ItemsBy(h, f[d - 1], x) # ItemsBy(h, f[e - 1], x)
    BY <1>2, <2>3, <2>5, <2>6
  <2>8. x.tag = "VECTOR"
    BY <2>7, ItemsAgree
  <2> DEFINE s == Elements(h, x.v)
  <2>9. PICK i \in 1..Len(s) : f[d - 1][s[i]] # f[e - 1][s[i]]
    BY <2>7, ItemsAgree
  <2>10. /\ Level(rank, x) \in Nat /\ Level(rank, x) >= 1
         /\ Sound(h, s[i]) /\ Level(rank, s[i]) < Level(rank, x) /\ Level(rank, s[i]) \in Nat
    BY <2>5, <2>8, Levels
  <2>11. d - 1 \in 1..n /\ e - 1 \in (d - 1)..n /\ Level(rank, s[i]) < d - 1 /\ ~(d <= d - 1)
    BY <1>1, <2>3, <2>4, <2>5, <2>10
  <2>12. d - 1 \notin T
    BY <2>2, <2>11
  <2> HIDE DEF s
  <2> QED BY <2>9, <2>10, <2>11, <2>12 DEF T
<1> QED BY <1>3

\* The items of a value are what its elements denote.
LEMMA ItemsFixed ==
  ASSUME NEW h, Good(h), NEW x, Sound(h, x)
  PROVE  Items(h)[x] = ItemsBy(h, Items(h), x)
<1> DEFINE n == h.next
           f == CHOOSE g : Unfolds(h, n, g)
<1>1. PICK rank \in [Boxes(h) -> 1..(n - 1)] : Orders(h, rank)
  BY DEF Good, Acyclic
<1>2. n \in Nat /\ n >= 1
  BY <1>1, Levels
<1>3. Items(h) = f[n]
  BY DEF Items, Unfolds
<1>4. Unfolds(h, n, f)
  BY <1>2, ItemsExist
<1> HIDE DEF f
<1>5. f[n][x] = ItemsBy(h, f[n - 1], x)
  <2>1. n \in 0..n /\ n # 0
    BY <1>2
  <2>2. f[n] = [y \in ValuePair |-> ItemsBy(h, f[n - 1], y)]
    BY <1>4, <2>1 DEF Unfolds
  <2> QED BY <2>2 DEF Sound
<1> DEFINE s == Elements(h, x.v)
<1>6. ASSUME x.tag = "VECTOR", NEW i \in 1..Len(s)
      PROVE  f[n - 1][s[i]] = f[n][s[i]]
  <2>1. /\ Level(rank, x) \in 0..(n - 1) /\ Level(rank, x) >= 1
        /\ Sound(h, s[i]) /\ Level(rank, s[i]) < Level(rank, x) /\ Level(rank, s[i]) \in Nat
    BY <1>1, <1>6, Levels
  <2>2. n - 1 \in 1..n /\ n \in (n - 1)..n /\ Level(rank, s[i]) < n - 1
    BY <1>2, <2>1
  <2> HIDE DEF s, n
  <2> QED BY <1>1, <1>4, <2>1, <2>2, ItemsSettle DEF n
<1>7. ItemsBy(h, f[n - 1], x) = ItemsBy(h, f[n], x)
  BY <1>6, ItemsAgree
<1> QED BY <1>3, <1>5, <1>7

\* So a list denotes its elements, a range its numbers, and anything else itself.
LEMMA DenoteIs ==
  ASSUME NEW h, Good(h), NEW x, Sound(h, x)
  PROVE  /\ x.tag = "VECTOR" =>
              Denote(h, x) = [tag |-> "VECTOR", num |-> 0,
                              items |-> DenoteAll(h, Elements(h, x.v))]
         /\ x.tag = "RANGE" =>
              Denote(h, x) =
                [tag |-> "RANGE", num |-> 0,
                 items |-> <<Plain(Num(h.range[x.v].begin), <<>>),
                             Plain(Num(h.range[x.v].step), <<>>),
                             Plain(Num(h.range[x.v].end), <<>>)>>]
         /\ ~isAllocated(x) => Denote(h, x) = Plain(x, <<>>)
<1>1. Denote(h, x) = Plain(x, ItemsBy(h, Items(h), x))
  BY ItemsFixed DEF Denote
<1>2. CASE x.tag = "VECTOR"
  <2> DEFINE s == Elements(h, x.v)
  <2>1. Live(h, x) /\ isAllocated(x)
    BY <1>2 DEF Sound, isAllocated, AllocatedTag
  <2>2. ItemsBy(h, Items(h), x) = [i \in 1..Len(s) |-> Plain(s[i], Items(h)[s[i]])]
    BY <1>2, <2>1 DEF ItemsBy
  <2>3. ItemsBy(h, Items(h), x) = DenoteAll(h, s)
    BY <2>2 DEF DenoteAll, Denote
  <2> QED BY <1>1, <1>2, <2>1, <2>3 DEF Plain
<1>3. CASE x.tag = "RANGE"
  <2>1. Live(h, x) /\ isAllocated(x)
    BY <1>3 DEF Sound, isAllocated, AllocatedTag
  <2>2. ItemsBy(h, Items(h), x)
           = <<Plain(Num(h.range[x.v].begin), <<>>), Plain(Num(h.range[x.v].step), <<>>),
               Plain(Num(h.range[x.v].end), <<>>)>>
    BY <1>3, <2>1 DEF ItemsBy
  <2> QED BY <1>1, <1>3, <2>1, <2>2 DEF Plain
<1>4. CASE ~isAllocated(x)
  <2>1. x.tag # "VECTOR" /\ x.tag # "RANGE"
    BY <1>4 DEF isAllocated, AllocatedTag
  <2>2. ItemsBy(h, Items(h), x) = <<>>
    BY <2>1 DEF ItemsBy
  <2> QED BY <1>1, <1>4, <2>1, <2>2
<1>5. \/ x.tag = "VECTOR" \/ x.tag = "RANGE" \/ ~isAllocated(x)
  BY DEF Sound, Live, isAllocated
<1>6. \A t \in {"VECTOR", "RANGE"} : x.tag = t => isAllocated(x)
  BY DEF isAllocated, AllocatedTag
<1> QED BY <1>2, <1>3, <1>4, <1>5, <1>6

-----------------------------------------------------------------------------
\* What a step of the heap leaves alone keeps its meaning.

\* g has all the boxes of h but those in P, with what they had.
Keeps(h, g, P) ==
  /\ \A a \in DOMAIN h.vec \ P : a \in DOMAIN g.vec /\ Elements(g, a) = Elements(h, a)
  /\ \A a \in DOMAIN h.range \ P : a \in DOMAIN g.range /\ g.range[a] = h.range[a]

LEMMA SameValue ==
  ASSUME NEW h, Good(h), NEW g, Good(g), NEW P, Keeps(h, g, P), P \cap ElementPointers(h) = {}
  PROVE  \A x : Sound(h, x) /\ PointerOf(x) \cap P = {} =>
                  Sound(g, x) /\ Denote(g, x) = Denote(h, x)
<1>1. PICK rank \in [Boxes(h) -> 1..(h.next - 1)] : Orders(h, rank)
  BY DEF Good, Acyclic
<1> DEFINE kept(x) == Sound(h, x) /\ PointerOf(x) \cap P = {}
           T == {n \in Nat : \E x : kept(x) /\ Level(rank, x) = n /\ Denote(g, x) # Denote(h, x)}
<1>2. ASSUME NEW x, kept(x) PROVE Sound(g, x)
  BY <1>2 DEF Sound, Live, isAllocated, PointerOf, Keeps
<1>3. T = {}
  <2> SUFFICES ASSUME T # {} PROVE FALSE
    OBVIOUS
  <2>1. T \subseteq Nat
    OBVIOUS
  <2> HIDE DEF T
  <2>2. PICK n \in T : \A m \in T : n <= m
    BY <2>1, Least
  <2>3. PICK x : kept(x) /\ Level(rank, x) = n /\ Denote(g, x) # Denote(h, x)
    BY <2>2 DEF T
  <2>4. Sound(h, x) /\ Sound(g, x)
    BY <1>2, <2>3
  <2> DEFINE s == Elements(h, x.v)
  <2>5. CASE x.tag = "VECTOR"
    <3>1. x.v \in DOMAIN h.vec /\ s \in Seq(ValuePair) /\ x.v \notin P
      BY <1>1, <2>3, <2>4, <2>5, Levels DEF PointerOf, isAllocated, AllocatedTag
    <3>2. Elements(g, x.v) = s
      BY <3>1 DEF Keeps
    <3>3. ASSUME NEW i \in 1..Len(s) PROVE Denote(g, s[i]) = Denote(h, s[i])
      <4>1. Sound(h, s[i]) /\ Level(rank, s[i]) < Level(rank, x)
        BY <1>1, <2>4, <2>5, Levels
      <4>2. PointerOf(s[i]) \subseteq ElementPointers(h)
        BY <3>1, PointersFact, ElementFact DEF PointerOf
      <4>3. kept(s[i])
        BY <4>1, <4>2
      <4>4. Level(rank, s[i]) \in Nat /\ n \in Nat /\ ~(n <= Level(rank, s[i]))
        BY <1>1, <2>1, <2>2, <2>3, <4>1, Levels
      <4>5. Level(rank, s[i]) \notin T
        BY <2>2, <4>4
      <4> HIDE DEF s
      <4> QED BY <4>3, <4>4, <4>5 DEF T
    <3>4. DenoteAll(g, s) = DenoteAll(h, s)
      BY <3>3 DEF DenoteAll
    <3> QED BY <2>3, <2>4, <2>5, <3>2, <3>4, DenoteIs
  <2>6. CASE x.tag = "RANGE"
    <3>1. x.v \in DOMAIN h.range /\ x.v \notin P
      BY <2>3, <2>4, <2>6 DEF PointerOf, isAllocated, AllocatedTag, Sound, Live
    <3>2. g.range[x.v] = h.range[x.v]
      BY <3>1 DEF Keeps
    <3> QED BY <2>3, <2>4, <2>6, <3>2, DenoteIs
  <2>7. CASE ~isAllocated(x)
    BY <2>3, <2>4, <2>7, DenoteIs
  <2> QED BY <2>4, <2>5, <2>6, <2>7 DEF Sound, Live
<1>4. \A x : Sound(h, x) => Level(rank, x) \in Nat
  BY <1>1, Levels
<1> QED BY <1>2, <1>3, <1>4

\* The same of all the values of a sequence.
LEMMA SameValues ==
  ASSUME NEW h, Good(h), NEW g, Good(g), NEW P, Keeps(h, g, P), P \cap ElementPointers(h) = {},
         NEW s \in Seq(ValuePair), AllLive(h, s), Pointers(s) \cap P = {}
  PROVE  DenoteAll(g, s) = DenoteAll(h, s)
<1>1. ASSUME NEW i \in 1..Len(s) PROVE Denote(g, s[i]) = Denote(h, s[i])
  <2>1. Sound(h, s[i])
    BY DEF Sound, AllLive
  <2>2. PointerOf(s[i]) \cap P = {}
    BY PointersFact DEF PointerOf
  <2> QED BY <2>1, <2>2, SameValue
<1> QED BY <1>1 DEF DenoteAll

\* The boxes of ranges are never written.
SameRanges(h, g) ==
  /\ h.next <= g.next
  /\ \A a \in DOMAIN g.range :
       a < h.next => a \in DOMAIN h.range /\ g.range[a] = h.range[a]

\* What is live after a step that writes no list but a, and no range, is as it was.
LEMMA MovesKeeps ==
  ASSUME NEW h, Good(h), NEW g, NEW P, Moves(h, g, P), NEW a, PreservesBut(h, g, a),
         a \in P \cup {0}, SameRanges(h, g)
  PROVE  Keeps(h, g, P)
<1>1. IsHeap(h) /\ \A x \in Boxes(h) : x \in Nat /\ x # 0 /\ x < h.next
  BY HeapFact DEF Good
<1>2. \A x \in DOMAIN h.vec \ P : x \in DOMAIN g.vec
  <2> TAKE x \in DOMAIN h.vec \ P
  <2>1. x \in Nat
    BY <1>1 DEF Boxes
  <2>2. Vec(x) \in ValuePair /\ Live(h, Vec(x)) /\ Vec(x).v = x /\ Vec(x).tag = "VECTOR"
    BY <2>1 DEF Vec, ValuePair, ValueTag, AllocatedTag, Live
  <2>3. Live(g, Vec(x))
    BY <2>2 DEF Moves
  <2> QED BY <2>2, <2>3 DEF Live
<1>3. \A x \in DOMAIN h.range \ P : x \in DOMAIN g.range
  <2> TAKE x \in DOMAIN h.range \ P
  <2>1. x \in Nat
    BY <1>1 DEF Boxes
  <2>2. Rng(x) \in ValuePair /\ Live(h, Rng(x)) /\ Rng(x).v = x /\ Rng(x).tag = "RANGE"
    BY <2>1 DEF Rng, ValuePair, ValueTag, AllocatedTag, Live
  <2>3. Live(g, Rng(x))
    BY <2>2 DEF Moves
  <2> QED BY <2>2, <2>3 DEF Live
<1>4. /\ \A x \in DOMAIN h.vec \ P : x < h.next /\ x # a
      /\ \A x \in DOMAIN h.range \ P : x < h.next
  BY <1>1 DEF Boxes
<1> QED BY <1>2, <1>3, <1>4 DEF Keeps, PreservesBut, SameRanges

LEMMA RangesChain ==
  ASSUME NEW f, NEW g, NEW h, f.next \in Nat, g.next \in Nat, h.next \in Nat,
         IsHeap(h), SameRanges(f, g), SameRanges(g, h)
  PROVE  SameRanges(f, h)
<1>1. \A a \in DOMAIN h.range : a \in Nat
  BY HeapFact DEF Boxes
<1> QED BY <1>1 DEF SameRanges

LEMMA RangesSame ==
  ASSUME NEW h, IsHeap(h), NEW g, g.range = h.range, h.next <= g.next
  PROVE  SameRanges(h, g)
BY DEF SameRanges

LEMMA RangesFree ==
  ASSUME NEW h, IsHeap(h), NEW A
  PROVE  SameRanges(h, FreeAll(h, A)) /\ FreeAll(h, A).next = h.next
<1>1. h.next \in Nat
  BY HeapFact
<1>2. FreeAll(h, A).range = Without(h.range, A) /\ FreeAll(h, A).next = h.next
  BY DEF FreeAll, Heap
<1> QED BY <1>1, <1>2 DEF SameRanges, Without, Restrict

LEMMA RangesNew ==
  ASSUME NEW h, IsHeap(h), NEW r \in SRange
  PROVE  SameRanges(h, NewRange(h, r).heap) /\ SameRanges(h, NewList(h).heap)
<1>1. h.next \in Nat
  BY HeapFact
<1>2. /\ NewRange(h, r).heap.range = Put(h.range, h.next, r)
      /\ NewRange(h, r).heap.next = h.next + 1
      /\ NewList(h).heap.range = h.range /\ NewList(h).heap.next = h.next + 1
  BY DEF NewRange, NewList, Ok, Heap
<1> QED BY <1>1, <1>2 DEF SameRanges, Put

LEMMA CopyRanges ==
  ASSUME NEW h, IsHeap(h), NEW x \in ValuePair
  PROVE  SameRanges(h, Copy(h, x).heap)
<1>1. h.next \in Nat /\ SameRanges(h, h)
  BY HeapFact DEF SameRanges
<1>2. CASE ~isAllocated(x)
  <2>1. x.tag \notin {"STRING", "VECTOR", "RANGE"}
    BY <1>2 DEF isAllocated, AllocatedTag
  <2>2. Copy(h, x).heap = h
    BY <1>2, <2>1 DEF Copy, Ok
  <2> QED BY <1>1, <2>2
<1>3. CASE isAllocated(x) /\ x.tag = "VECTOR" /\ Live(h, x)
  <2>1. Copy(h, x).heap = Heap(Put(h.vec, h.next, h.vec[x.v]), h.range, h.buf, h.next + 1)
    BY <1>3 DEF Copy, Ok
  <2> QED BY <1>1, <2>1 DEF Heap, SameRanges
<1>4. CASE isAllocated(x) /\ x.tag = "RANGE" /\ Live(h, x)
  <2>1. Copy(h, x) = NewRange(h, h.range[x.v])
    BY <1>4 DEF Copy
  <2> QED BY <1>4, <2>1, RangesNew, LiveParts
<1>5. CASE isAllocated(x) /\ ~Live(h, x)
  <2>1. Copy(h, x).heap = h
    BY <1>5 DEF Copy, Throws, UB
  <2> QED BY <1>1, <2>1
<1>6. Live(h, x) => x.tag = "VECTOR" \/ x.tag = "RANGE"
  BY DEF Live
<1> QED BY <1>2, <1>3, <1>4, <1>5, <1>6

LEMMA DropRanges ==
  ASSUME NEW h, IsHeap(h), NEW x \in ValuePair, NEW s
  PROVE  SameRanges(h, Drop(h, x).heap) /\ SameRanges(h, DropAll(h, s).heap)
<1>1. h.next \in Nat /\ SameRanges(h, h)
  BY HeapFact DEF SameRanges
<1>2. SameRanges(h, Drop(h, x).heap)
  <2>1. Drop(h, x).heap \in {h, FreeAll(h, {x.v})}
    BY DEF Drop, Ok, Throws, UB
  <2> QED BY <1>1, <2>1, RangesFree
<1>3. \E A : DropAll(h, s).heap = FreeAll(h, A)
  BY DEF DropAll, Ok, Throws, UB
<1> QED BY <1>2, <1>3, RangesFree

LEMMA WriteRanges ==
  ASSUME NEW h, IsHeap(h), NEW a \in DOMAIN h.vec, NEW s
  PROVE  SameRanges(h, SetElements(Unshare(h, a).heap, Unshare(h, a).val.v, s))
<1>1. h.next \in Nat /\ SameRanges(h, h)
  BY HeapFact DEF SameRanges
<1>2. ASSUME NEW u, NEW b, SameRanges(h, u) PROVE SameRanges(h, SetElements(u, b, s))
  BY <1>2 DEF SetElements, Heap, SameRanges
<1>3. SameRanges(h, Unshare(h, a).heap)
  <2>1. CASE UseCountIsOne(h, a)
    BY <1>1, <2>1 DEF Unshare, Ok
  <2>2. CASE ~UseCountIsOne(h, a)
    <3> DEFINE g == Heap(Put(h.vec, h.next, h.next), h.range,
                         Put(h.buf, h.next, Elements(h, a)), h.next + 1)
               u == Unshare(h, a).heap
    <3>1. u = FreeAll(g, {a})
      BY <2>2 DEF Unshare, Ok
    <3>2. u.range = Without(h.range, {a}) /\ u.next = h.next + 1
      BY <3>1 DEF FreeAll, Heap
    <3> HIDE DEF u
    <3>3. SameRanges(h, u)
      BY <1>1, <3>2 DEF SameRanges, Without, Restrict
    <3> QED BY <3>3 DEF u
  <2> QED BY <2>1, <2>2
<1> QED BY <1>2, <1>3

LEMMA UnaryRanges ==
  ASSUME NEW h, IsHeap(h), NEW x \in ValuePair, NEW op \in BuiltinUnary
  PROVE  SameRanges(h, HandleUnary(h, x, op).heap)
<1>1. h.next \in Nat /\ SameRanges(h, h)
  BY HeapFact DEF SameRanges
<1>2. HandleUnary(h, x, op).heap \in {h, FreeAll(h, {x.v}), Drop(h, x).heap}
  BY DEF HandleUnary, Ok, Throws, BuiltinUnary, NumericUnary, RangeGetter
<1> QED BY <1>1, <1>2, RangesFree, DropRanges

LEMMA BinaryRanges ==
  ASSUME NEW h, IsHeap(h), NEW l \in ValuePair, NEW r \in ValuePair, NEW op \in BinOp
  PROVE  SameRanges(h, HandleBinary(h, l, r, op).heap)
<1>1. h.next \in Nat /\ SameRanges(h, h)
  BY HeapFact DEF SameRanges
<1>2. \A s : SameRanges(h, DropAll(h, s).heap)
  BY DropRanges
<1>3. SameRanges(h, Arithmetic(h, l, r, op).heap)
  BY <1>1, <1>2 DEF Arithmetic, DropBoth, Ok
<1>4. SameRanges(h, Compare(h, l, r, op).heap)
  BY <1>1, <1>2 DEF Compare, DropBoth, Ok
<1>5. SameRanges(h, Equality(h, l, r).heap)
  <2>1. Equality(h, l, r).heap \in {h, DropBoth(h, l, r).heap}
    BY DEF Equality, Ok, UB
  <2> QED BY <1>1, <1>2, <2>1 DEF DropBoth
<1>6. SameRanges(h, Logic(h, l, r, op).heap)
  BY <1>1, <1>2 DEF Logic, DropBoth, Ok
<1>7. SameRanges(h, AppendTo(h, l, r).heap)
  <2>1. \/ AppendTo(h, l, r).heap \in {h, DropBoth(h, l, r).heap}
        \/ /\ l.v \in DOMAIN h.vec
           /\ AppendTo(h, l, r).heap = SetElements(Unshare(h, l.v).heap, Unshare(h, l.v).val.v,
                                                   Append(Elements(h, l.v), r))
    BY DEF AppendTo, Ok, UB, Live
  <2> QED BY <1>1, <1>2, <2>1, WriteRanges DEF DropBoth
<1>8. SameRanges(h, Concat(h, l, r).heap)
  <2>1. \/ Concat(h, l, r).heap \in {h, DropBoth(h, l, r).heap}
        \/ /\ l.v \in DOMAIN h.vec
           /\ Concat(h, l, r).heap = SetElements(Unshare(h, l.v).heap, Unshare(h, l.v).val.v,
                                                 Elements(h, l.v) \o Elements(h, r.v))
    BY DEF Concat, Ok, UB, Live
  <2> QED BY <1>1, <1>2, <2>1, WriteRanges DEF DropBoth
<1>9. SameRanges(h, Index(h, l, r).heap)
  <2> DEFINE e == Elements(h, l.v)[r.v + 1]
             c == Copy(h, e)
  <2>1. CASE l.tag # "VECTOR" \/ r.tag # "NUMBER" \/ ~Live(h, l) \/ r.v < 0
    <3>1. CASE l.tag # "VECTOR" \/ r.tag # "NUMBER"
      <4>1. Index(h, l, r) = DropBoth(h, l, r)
        BY <3>1, Zenon DEF Index
      <4> QED BY <1>2, <4>1 DEF DropBoth
    <3>2. CASE l.tag = "VECTOR" /\ r.tag = "NUMBER" /\ (~Live(h, l) \/ r.v < 0)
      <4>1. r.v \in Int
        BY DEF ValuePair
      <4>2. Index(h, l, r) = UB(h)
        BY <3>2, <4>1 DEF Index
      <4> QED BY <1>1, <4>2 DEF UB
    <3> QED BY <2>1, <3>1, <3>2
  <2>2. CASE l.tag = "VECTOR" /\ r.tag = "NUMBER" /\ Live(h, l) /\ r.v >= 0
    <3> DEFINE v == Index(h, l, r)
    <3>1. v = IF r.v >= Len(Elements(h, l.v)) THEN Drop(h, l)
              ELSE IF c.exit = "ok" THEN Ok(FreeAll(c.heap, {l.v}), c.val) ELSE c
      <4>1. r.v \in Int
        BY DEF ValuePair
      <4> QED BY <2>2, <4>1 DEF Index
    <3>2. Elements(h, l.v) \in Seq(ValuePair) /\ r.v \in Int
      BY <2>2, LiveParts DEF ValuePair
    <3>3. CASE r.v >= Len(Elements(h, l.v))
      BY <3>1, <3>3, DropRanges
    <3>4. CASE ~(r.v >= Len(Elements(h, l.v)))
      <4>1. e \in ValuePair
        <5>1. r.v + 1 \in 1..Len(Elements(h, l.v))
          BY <2>2, <3>2, <3>4
        <5> QED BY <3>2, <5>1
      <4> HIDE DEF e
      <4>2. SameRanges(h, c.heap) /\ IsHeap(c.heap)
        BY <4>1, CopyRanges, CopyOK DEF IsOutcome
      <4>3. SameRanges(c.heap, FreeAll(c.heap, {l.v})) /\ IsHeap(FreeAll(c.heap, {l.v}))
        BY <4>2, RangesFree, FreeAllOK
      <4>4. c.heap.next \in Nat /\ FreeAll(c.heap, {l.v}).next \in Nat
        BY <4>2, <4>3, HeapFact
      <4>5. SameRanges(h, FreeAll(c.heap, {l.v}))
        BY <1>1, <4>2, <4>3, <4>4, RangesChain
      <4>6. v.heap \in {c.heap, FreeAll(c.heap, {l.v})}
        BY <3>1, <3>4 DEF Ok, e
      <4> HIDE DEF v, c
      <4>7. SameRanges(h, v.heap)
        BY <4>2, <4>5, <4>6
      <4> QED BY <4>7 DEF v
    <3> QED BY <3>3, <3>4
  <2>3. r.v \in Int
    BY DEF ValuePair
  <2> QED BY <2>1, <2>2, <2>3
<1> QED BY <1>3, <1>4, <1>5, <1>6, <1>7, <1>8, <1>9, SMT DEF HandleBinary, BinOp

-----------------------------------------------------------------------------
\* What the operations on values compute.

\* A comparison of lists says yes when that of every element does.
LEMMA VerdictYes ==
  ASSUME NEW n \in Nat, NEW e, Len(e) = n
  PROVE  Verdict(e) = "yes" <=> \A i \in 1..n : e[i] = "yes"
<1> DEFINE T == {i \in 1..n : e[i] # "yes"}
           first(i) == e[i] # "yes" /\ \A j \in 1..(i - 1) : e[j] = "yes"
<1>1. CASE T = {}
  BY <1>1 DEF Verdict
<1>2. CASE T # {}
  <2>1. T \subseteq Nat
    OBVIOUS
  <2> HIDE DEF T
  <2>2. PICK i \in T : \A j \in T : i <= j
    BY <1>2, <2>1, Least
  <2>3. i \in 1..n /\ first(i)
    BY <2>2 DEF T
  <2> DEFINE c == CHOOSE k \in 1..n : first(k)
  <2>4. c \in 1..n /\ first(c)
    BY <2>3
  <2>5. Verdict(e) = e[c]
    BY <2>4 DEF Verdict
  <2> QED BY <2>4, <2>5
<1> QED BY <1>1, <1>2

\* The tags of live values.
LEMMA Tags ==
  ASSUME NEW h, NEW x, Sound(h, x)
  PROVE  /\ x.tag \in {"VECTOR", "RANGE", "NUMBER", "GEOMETRY", "UNDEF", "BOOLEAN"}
         /\ isAllocated(x) <=> x.tag \in {"VECTOR", "RANGE"}
         /\ x.v \in Int /\ Denote(h, x).tag = x.tag
         /\ x.tag \in {"VECTOR", "RANGE"} => Live(h, x)
<1>1. x.tag \in {"VECTOR", "RANGE", "STRING", "NUMBER", "GEOMETRY", "UNDEF", "BOOLEAN"}
      /\ x.v \in Int
  BY DEF Sound, ValuePair, ValueTag, AllocatedTag
<1>2. x.tag # "STRING"
  BY DEF Sound, Live, isAllocated, AllocatedTag
<1>3. Denote(h, x).tag = x.tag
  BY DEF Denote, Plain
<1> QED BY <1>1, <1>2, <1>3 DEF isAllocated, AllocatedTag, Sound

LEMMA RangeDenotes ==
  ASSUME NEW h, Good(h), NEW x, Sound(h, x), x.tag = "RANGE"
  PROVE  /\ h.range[x.v] \in SRange
         /\ h.range[x.v].begin \in Int /\ h.range[x.v].step \in Int /\ h.range[x.v].end \in Int
         /\ Denote(h, x) = Machine!RangeOf(h.range[x.v].begin, h.range[x.v].step, h.range[x.v].end)
<1>1. h.range[x.v] \in SRange
  BY Tags, LiveParts DEF Good
<1>2. \A n : Plain(Num(n), <<>>) = Machine!Number(n)
  BY DEF Plain, Num, Machine!Number, Machine!Scalar
<1> QED BY <1>1, <1>2, DenoteIs DEF SRange, Machine!RangeOf

\* == of two values is equality of what they denote.
LEMMA EqualMeans ==
  ASSUME NEW h, Good(h), NEW l, Sound(h, l), NEW r, Sound(h, r)
  PROVE  Equal(h, l, r) = "yes" <=> Denote(h, l) = Denote(h, r)
<1> DEFINE n == h.next
           eq == CHOOSE f : Recurses(h, n, f)
<1>1. Equal(h, l, r) = eq[n][<<l, r>>]
  BY DEF Equal, Recurses
<1>2. PICK rank \in [Boxes(h) -> 1..(n - 1)] : Orders(h, rank)
  BY DEF Good, Acyclic
<1>3. n \in Nat /\ n >= 1
  BY <1>2, Levels
<1>4. eq = [d \in 0..n |->
             [p \in ValuePair \X ValuePair |->
               IF d = 0 THEN "ub" ELSE EqualBy(h, eq[d - 1], p[1], p[2])]]
  <2>1. Recurses(h, n, eq)
    BY <1>3, EqualExists
  <2> HIDE DEF eq
  <2> QED BY <2>1 DEF Recurses
<1> HIDE DEF eq
<1>5. \A d \in 1..n : \A x, y \in ValuePair : eq[d][<<x, y>>] = EqualBy(h, eq[d - 1], x, y)
  <2> TAKE d \in 1..n
  <2> TAKE x, y \in ValuePair
  <2>1. d \in 0..n /\ d # 0
    OBVIOUS
  <2>2. eq[d] = [p \in ValuePair \X ValuePair |-> EqualBy(h, eq[d - 1], p[1], p[2])]
    BY <1>4, <2>1
  <2> QED BY <2>2
<1> DEFINE wrong(d, x, y) == ~(eq[d][<<x, y>>] = "yes" <=> Denote(h, x) = Denote(h, y))
           T == {d \in 1..n : \E x, y \in ValuePair :
                   Sound(h, x) /\ Sound(h, y) /\ Level(rank, x) < d /\ wrong(d, x, y)}
<1>6. T = {}
  <2> SUFFICES ASSUME T # {} PROVE FALSE
    OBVIOUS
  <2>1. T \subseteq Nat
    OBVIOUS
  <2> HIDE DEF T
  <2>2. PICK d \in T : \A c \in T : d <= c
    BY <2>1, Least
  <2>3. PICK x, y \in ValuePair :
          Sound(h, x) /\ Sound(h, y) /\ Level(rank, x) < d /\ wrong(d, x, y)
    BY <2>2 DEF T
  <2>4. d \in 1..n
    BY <2>2 DEF T
  <2> DEFINE b == EqualBy(h, eq[d - 1], x, y)
             s == Elements(h, x.v)
             t == Elements(h, y.v)
             e == [i \in 1..Len(s) |-> eq[d - 1][<<s[i], t[i]>>]]
  <2>5. ~(b = "yes" <=> Denote(h, x) = Denote(h, y))
    BY <1>5, <2>3, <2>4
  <2>6. /\ x.tag \in {"VECTOR", "RANGE", "NUMBER", "GEOMETRY", "UNDEF", "BOOLEAN"}
        /\ Denote(h, x).tag = x.tag /\ Denote(h, y).tag = y.tag
        /\ x.tag \in {"VECTOR", "RANGE"} => Live(h, x)
        /\ y.tag \in {"VECTOR", "RANGE"} => Live(h, y)
    BY <2>3, Tags
  <2>7. x.tag = y.tag
    <3>1. CASE x.tag # y.tag
      <4>1. b = "no"
        BY <3>1 DEF EqualBy
      <4> QED BY <2>5, <2>6, <3>1, <4>1
    <3> QED BY <3>1
  <2>8. CASE x.tag \in {"NUMBER", "BOOLEAN", "GEOMETRY", "UNDEF"}
    <3>1. Denote(h, x) = Plain(x, <<>>) /\ Denote(h, y) = Plain(y, <<>>)
      BY <2>3, <2>7, <2>8, DenoteIs, Tags
    <3>2. CASE x.tag \in {"NUMBER", "BOOLEAN"}
      <4>1. b = IF x.v = y.v THEN "yes" ELSE "no"
        BY <2>7, <3>2 DEF EqualBy
      <4>2. Denote(h, x).num = x.v /\ Denote(h, y).num = y.v
        BY <2>7, <3>1, <3>2 DEF Plain
      <4>3. x.v = y.v => Denote(h, x) = Denote(h, y)
        BY <2>7, <3>1 DEF Plain
      <4> HIDE DEF b
      <4> QED BY <2>5, <4>1, <4>2, <4>3
    <3>3. CASE x.tag \in {"GEOMETRY", "UNDEF"}
      <4>1. b = "yes"
        BY <2>7, <3>3 DEF EqualBy
      <4>2. Plain(x, <<>>) = Plain(y, <<>>)
        BY <2>7, <3>3 DEF Plain
      <4> HIDE DEF b
      <4> QED BY <2>5, <3>1, <4>1, <4>2
    <3> QED BY <2>8, <3>2, <3>3
  <2>9. CASE x.tag = "RANGE"
    <3> DEFINE p == h.range[x.v]
               q == h.range[y.v]
    <3>1. b = IF p = q THEN "yes" ELSE "no"
      BY <2>6, <2>7, <2>9 DEF EqualBy
    <3>2. /\ p \in SRange /\ Denote(h, x) = Machine!RangeOf(p.begin, p.step, p.end)
          /\ q \in SRange /\ Denote(h, y) = Machine!RangeOf(q.begin, q.step, q.end)
      BY <2>3, <2>7, <2>9, RangeDenotes
    <3> HIDE DEF b, p, q
    <3>3. Denote(h, x) = Denote(h, y) => p.begin = q.begin /\ p.step = q.step /\ p.end = q.end
      <4>1. \A u, v, w : /\ Machine!RangeOf(u, v, w).items[1].num = u
                         /\ Machine!RangeOf(u, v, w).items[2].num = v
                         /\ Machine!RangeOf(u, v, w).items[3].num = w
        BY DEF Machine!RangeOf, Machine!Number, Machine!Scalar
      <4>2. /\ Denote(h, x).items[1].num = p.begin /\ Denote(h, x).items[2].num = p.step
            /\ Denote(h, x).items[3].num = p.end
        BY <3>2, <4>1
      <4>3. /\ Denote(h, y).items[1].num = q.begin /\ Denote(h, y).items[2].num = q.step
            /\ Denote(h, y).items[3].num = q.end
        BY <3>2, <4>1
      <4> QED BY <4>2, <4>3
    <3>4. p.begin = q.begin /\ p.step = q.step /\ p.end = q.end => p = q
      BY <3>2 DEF SRange
    <3> QED BY <2>5, <3>1, <3>2, <3>3, <3>4
  <2>10. CASE x.tag = "VECTOR"
    <3>1. b = IF Len(s) # Len(t) THEN "no" ELSE Verdict(e)
      BY <2>6, <2>7, <2>10 DEF EqualBy
    <3>2. /\ Denote(h, x) = [tag |-> "VECTOR", num |-> 0, items |-> DenoteAll(h, s)]
          /\ Denote(h, y) = [tag |-> "VECTOR", num |-> 0, items |-> DenoteAll(h, t)]
      BY <2>3, <2>7, <2>10, DenoteIs
    <3>3. /\ Len(s) \in Nat /\ Len(t) \in Nat
          /\ s \in Seq(ValuePair) /\ t \in Seq(ValuePair)
          /\ Level(rank, x) \in Nat /\ Level(rank, x) >= 1
          /\ \A i \in 1..Len(s) : Sound(h, s[i]) /\ Level(rank, s[i]) < Level(rank, x)
                                  /\ Level(rank, s[i]) \in Nat
          /\ \A i \in 1..Len(t) : Sound(h, t[i])
      <4>1. \A z : Sound(h, z) => Level(rank, z) \in Nat
        BY <1>2, <1>3, Levels
      <4>2. /\ Len(s) \in Nat /\ s \in Seq(ValuePair) /\ Level(rank, x) >= 1
            /\ \A i \in 1..Len(s) : Sound(h, s[i]) /\ Level(rank, s[i]) < Level(rank, x)
        BY <1>2, <2>3, <2>10, Levels
      <4>3. /\ Len(t) \in Nat /\ t \in Seq(ValuePair)
            /\ \A i \in 1..Len(t) : Sound(h, t[i])
        BY <1>2, <2>3, <2>7, <2>10, Levels
      <4> HIDE DEF s, t
      <4> QED BY <2>3, <4>1, <4>2, <4>3
    <3>4. d - 1 \in 1..n /\ ~(d <= d - 1)
      BY <1>3, <2>3, <2>4, <3>3
    <3>5. ASSUME Len(s) = Len(t), NEW i \in 1..Len(s) PROVE ~wrong(d - 1, s[i], t[i])
      <4>1. s[i] \in ValuePair /\ t[i] \in ValuePair /\ Sound(h, s[i]) /\ Sound(h, t[i])
        BY <3>3, <3>5
      <4>2. Level(rank, s[i]) < d - 1
        BY <2>3, <2>4, <3>3
      <4>3. d - 1 \notin T
        BY <2>2, <3>4
      <4> HIDE DEF s, t, wrong
      <4> QED BY <3>4, <4>1, <4>2, <4>3 DEF T
    <3>6. Len(DenoteAll(h, s)) = Len(s) /\ Len(DenoteAll(h, t)) = Len(t)
      BY <3>3 DEF DenoteAll
    <3>7. CASE Len(s) # Len(t)
      <4>1. Denote(h, x) # Denote(h, y)
        BY <3>2, <3>6, <3>7
      <4> HIDE DEF b, s, t
      <4> QED BY <2>5, <3>1, <3>7, <4>1
    <3>8. CASE Len(s) = Len(t)
      <4>1. Verdict(e) = "yes" <=> \A i \in 1..Len(s) : e[i] = "yes"
        <5>1. Len(e) = Len(s)
          BY <3>3
        <5> HIDE DEF e
        <5> QED BY <3>3, <5>1, VerdictYes
      <4>2. \A i \in 1..Len(s) : e[i] = "yes" <=> Denote(h, s[i]) = Denote(h, t[i])
        BY <3>5, <3>8
      <4> HIDE DEF b, e
      <4>3. DenoteAll(h, s) = DenoteAll(h, t)
              <=> \A i \in 1..Len(s) : Denote(h, s[i]) = Denote(h, t[i])
        <5> HIDE DEF s, t
        <5> QED BY <3>8 DEF DenoteAll
      <4> HIDE DEF s, t
      <4> QED BY <2>5, <3>1, <3>2, <3>8, <4>1, <4>2, <4>3
    <3> QED BY <3>7, <3>8
  <2> QED BY <2>6, <2>8, <2>9, <2>10
<1>7. Level(rank, l) < n /\ n \in 1..n /\ l \in ValuePair /\ r \in ValuePair
  BY <1>2, <1>3, Levels DEF Sound
<1> QED BY <1>1, <1>6, <1>7

\* g is h after an operation that owned the boxes P: nothing else has changed its meaning.
Evolves(h, g, P) == Moves(h, g, P) /\ Keeps(h, g, P)

LEMMA EvolvesItself ==
  ASSUME NEW h, Good(h), NEW P
  PROVE  Evolves(h, h, P)
  BY MovesItself DEF Evolves, Keeps

LEMMA EvolvesChain ==
  ASSUME NEW f, NEW g, NEW h, NEW P, Good(f), Evolves(f, g, P), Evolves(g, h, P)
  PROVE  Evolves(f, h, P)
<1>1. Moves(f, h, P)
  BY MovesChain DEF Evolves
<1>2. Keeps(f, h, P)
  BY DEF Evolves, Keeps
<1> QED BY <1>1, <1>2 DEF Evolves

LEMMA EvolvesFewer ==
  ASSUME NEW h, NEW g, NEW P, NEW Q, P \subseteq Q, Evolves(h, g, P)
  PROVE  Evolves(h, g, Q)
<1>1. Keeps(h, g, Q)
  BY DEF Evolves, Keeps
<1> QED BY <1>1, MovesFewer DEF Evolves

LEMMA EvolvesValues ==
  ASSUME NEW h, Good(h), NEW g, NEW P, Evolves(h, g, P), P \cap ElementPointers(h) = {},
         NEW s \in Seq(ValuePair), AllLive(h, s), Pointers(s) \cap P = {}
  PROVE  DenoteAll(g, s) = DenoteAll(h, s)
  BY SameValues DEF Evolves, Moves

LEMMA CopyEvolves ==
  ASSUME NEW h, Good(h), NEW x \in ValuePair
  PROVE  Evolves(h, Copy(h, x).heap, {})
<1>1. IsHeap(h)
  BY DEF Good
<1>2. /\ Moves(h, Copy(h, x).heap, {}) /\ SameRanges(h, Copy(h, x).heap)
      /\ PreservesBut(h, Copy(h, x).heap, 0)
  BY <1>1, CopyTransfers, CopyRanges, CopyPreserves DEF Transfers, Preserves
<1> QED BY <1>2, MovesKeeps DEF Evolves

LEMMA MakeEvolves ==
  ASSUME NEW h, Good(h), NEW r \in SRange
  PROVE  Evolves(h, NewList(h).heap, {}) /\ Evolves(h, NewRange(h, r).heap, {})
<1>1. IsHeap(h)
  BY DEF Good
<1>2. /\ Moves(h, NewList(h).heap, {}) /\ SameRanges(h, NewList(h).heap)
      /\ PreservesBut(h, NewList(h).heap, 0)
  BY <1>1, NewListTransfers, RangesNew, NewListPreserves DEF Transfers, Preserves
<1>3. /\ Moves(h, NewRange(h, r).heap, {}) /\ SameRanges(h, NewRange(h, r).heap)
      /\ PreservesBut(h, NewRange(h, r).heap, 0)
  BY <1>1, NewRangeMoves, RangesNew, NewRangePreserves DEF Transfers, Preserves
<1> QED BY <1>2, <1>3, MovesKeeps DEF Evolves

LEMMA DropEvolves ==
  ASSUME NEW h, Good(h), NEW x \in ValuePair, PointerOf(x) \cap ElementPointers(h) = {}
  PROVE  Evolves(h, Drop(h, x).heap, PointerOf(x))
<1>1. IsHeap(h)
  BY DEF Good
<1>2. /\ Moves(h, Drop(h, x).heap, PointerOf(x)) /\ SameRanges(h, Drop(h, x).heap)
      /\ PreservesBut(h, Drop(h, x).heap, 0)
  BY <1>1, DropTransfers, DropRanges, DropPreserves DEF Transfers, Preserves
<1> QED BY <1>2, MovesKeeps DEF Evolves

LEMMA DropAllEvolves ==
  ASSUME NEW h, Good(h), NEW s \in Seq(ValuePair), Owned(h, s)
  PROVE  Evolves(h, DropAll(h, s).heap, Pointers(s)) /\ DropAll(h, s).exit = "ok"
<1>1. IsHeap(h)
  BY DEF Good
<1>2. /\ Moves(h, DropAll(h, s).heap, Pointers(s)) /\ SameRanges(h, DropAll(h, s).heap)
      /\ PreservesBut(h, DropAll(h, s).heap, 0)
  BY <1>1, DropAllTransfers, DropRanges, DropAllPreserves, UndefType DEF Transfers, Preserves
<1> QED BY <1>2, DropAllTransfers, MovesKeeps DEF Evolves

LEMMA UnaryEvolves ==
  ASSUME NEW h, Good(h), NEW x \in ValuePair, PointerOf(x) \cap ElementPointers(h) = {},
         NEW op \in BuiltinUnary
  PROVE  Evolves(h, HandleUnary(h, x, op).heap, PointerOf(x))
<1> DEFINE g == HandleUnary(h, x, op).heap
<1>1. IsHeap(h)
  BY DEF Good
<1>2. Moves(h, g, PointerOf(x)) /\ SameRanges(h, g) /\ PreservesBut(h, g, 0)
  BY <1>1, UnaryTransfers, UnaryRanges, HandleUnaryPreserves DEF Transfers, Preserves
<1> HIDE DEF g
<1>3. Evolves(h, g, PointerOf(x))
  BY <1>2, MovesKeeps DEF Evolves
<1> QED BY <1>3 DEF g

LEMMA BinaryEvolves ==
  ASSUME NEW h, Good(h), NEW l \in ValuePair, NEW r \in ValuePair, Owned(h, <<l, r>>),
         NEW op \in BinOp
  PROVE  Evolves(h, HandleBinary(h, l, r, op).heap, PointerOf(l) \cup PointerOf(r))
<1> DEFINE g == HandleBinary(h, l, r, op).heap
           P == PointerOf(l) \cup PointerOf(r)
           a == ListAt(l)
<1>1. IsHeap(h)
  BY DEF Good
<1>2. Moves(h, g, P) /\ SameRanges(h, g) /\ PreservesBut(h, g, a)
  BY <1>1, BinaryTransfers, BinaryRanges, HandleBinaryPreserves DEF Transfers
<1>3. a \in P \cup {0}
  BY DEF ListAt, PointerOf, isAllocated, AllocatedTag
<1> HIDE DEF g, P, a
<1>4. Evolves(h, g, P)
  BY <1>2, <1>3, MovesKeeps DEF Evolves
<1> QED BY <1>4 DEF g, P

-----------------------------------------------------------------------------

LEMMA ScalarDenotes ==
  ASSUME NEW h, Good(h)
  PROVE  /\ \A n \in Int : Sound(h, Num(n)) /\ Denote(h, Num(n)) = Machine!Number(n)
         /\ \A b \in BOOLEAN : Sound(h, Bool(b)) /\ Denote(h, Bool(b)) = Machine!Truth(b)
         /\ Sound(h, Undef) /\ Denote(h, Undef) = Machine!Undefined
<1>1. \A x \in ValuePair : ~isAllocated(x) => Sound(h, x) /\ Denote(h, x) = Plain(x, <<>>)
  BY DenoteIs DEF Sound
<1>2. /\ \A n \in Int : Num(n) \in ValuePair /\ ~isAllocated(Num(n))
                        /\ Plain(Num(n), <<>>) = Machine!Number(n)
      /\ \A b \in BOOLEAN : Bool(b) \in ValuePair /\ ~isAllocated(Bool(b))
                            /\ Plain(Bool(b), <<>>) = Machine!Truth(b)
  BY DEF Num, Bool, ValuePair, ValueTag, isAllocated, AllocatedTag, Plain, Machine!Number,
         Machine!Truth, Machine!Scalar
<1>3. Undef \in ValuePair /\ ~isAllocated(Undef) /\ Plain(Undef, <<>>) = Machine!Undefined
  BY DEF Undef, ValuePair, ValueTag, isAllocated, AllocatedTag, Plain, Machine!Undefined,
         Machine!Scalar
<1> QED BY <1>1, <1>2, <1>3

\* A copy means what the original means.
LEMMA CopyDenotes ==
  ASSUME NEW h, Good(h), NEW x, Sound(h, x)
  PROVE  /\ Copy(h, x).exit = "ok" /\ Sound(Copy(h, x).heap, Copy(h, x).val)
         /\ Denote(Copy(h, x).heap, Copy(h, x).val) = Denote(h, x)
<1> DEFINE c == Copy(h, x)
           g == c.heap
           s == Elements(h, x.v)
<1>1. IsHeap(h) /\ ElementsLive(h) /\ x \in ValuePair /\ (isAllocated(x) => Live(h, x))
  BY DEF Good, Sound
<1>2. /\ Transfers(h, {}, c) /\ c.exit = "ok" /\ c.val \in ValuePair
      /\ Good(g) /\ Evolves(h, g, {})
  BY <1>1, CopyTransfers, CopyOK, CopyEvolves DEF Transfers, Moves, IsOutcome
<1>3. Sound(g, c.val)
  BY <1>2 DEF Transfers, Sound
<1>4. CASE x.tag = "VECTOR"
  <2>1. Live(h, x) /\ isAllocated(x) /\ x.v \in DOMAIN h.vec
    BY <1>1, <1>4, LiveParts DEF isAllocated, AllocatedTag
  <2>2. c = Ok(Heap(Put(h.vec, h.next, h.vec[x.v]), h.range, h.buf, h.next + 1), Vec(h.next))
    BY <1>4, <2>1 DEF Copy
  <2>3. c.val.tag = "VECTOR" /\ c.val.v = h.next /\ Elements(g, h.next) = s
    BY <2>1, <2>2 DEF Ok, Vec, Heap, Elements, Put
  <2>4. s \in Seq(ValuePair) /\ AllLive(h, s)
    BY <1>1, <2>1, HeapFact DEF ElementsLive
  <2> HIDE DEF c, s
  <2>5. DenoteAll(g, s) = DenoteAll(h, s)
    BY <1>2, <2>4, EvolvesValues
  <2>6. Denote(g, c.val) = [tag |-> "VECTOR", num |-> 0, items |-> DenoteAll(g, s)]
    BY <1>2, <1>3, <2>3, DenoteIs
  <2>7. Denote(h, x) = [tag |-> "VECTOR", num |-> 0, items |-> DenoteAll(h, s)]
    BY <1>4, DenoteIs DEF s
  <2> QED BY <1>2, <1>3, <2>5, <2>6, <2>7 DEF c
<1>5. CASE x.tag = "RANGE"
  <2>1. Live(h, x) /\ isAllocated(x) /\ x.v \in DOMAIN h.range
    BY <1>1, <1>5 DEF isAllocated, AllocatedTag, Live
  <2>2. c = NewRange(h, h.range[x.v])
    BY <1>5, <2>1 DEF Copy
  <2>3. c.val.tag = "RANGE" /\ c.val.v = h.next /\ g.range[h.next] = h.range[x.v]
    BY <2>1, <2>2 DEF NewRange, Ok, Rng, Heap, Put
  <2> HIDE DEF c
  <2>4. Denote(g, c.val) = Machine!RangeOf(h.range[x.v].begin, h.range[x.v].step, h.range[x.v].end)
    BY <1>2, <1>3, <2>3, RangeDenotes
  <2>5. Denote(h, x) = Machine!RangeOf(h.range[x.v].begin, h.range[x.v].step, h.range[x.v].end)
    BY <1>5, RangeDenotes
  <2> QED BY <1>2, <1>3, <2>4, <2>5 DEF c
<1>6. CASE ~isAllocated(x)
  <2>1. c = Ok(h, x)
    <3>1. x.tag \notin {"STRING", "VECTOR", "RANGE"}
      BY <1>6 DEF isAllocated, AllocatedTag
    <3> QED BY <1>6, <3>1 DEF Copy
  <2>2. c.heap = h /\ c.val = x
    BY <2>1 DEF Ok
  <2> QED BY <1>2, <1>3, <2>2
<1>7. x.tag = "VECTOR" \/ x.tag = "RANGE" \/ ~isAllocated(x)
  BY <1>1 DEF Live
<1> HIDE DEF c
<1> QED BY <1>4, <1>5, <1>6, <1>7 DEF c

\* What a scalar denotes says what it is.
LEMMA Numbers ==
  ASSUME NEW h, Good(h), NEW x, Sound(h, x)
  PROVE  /\ x.tag \in {"NUMBER", "BOOLEAN"} => Denote(h, x).num = x.v
         /\ x.tag = "VECTOR" => /\ Elements(h, x.v) \in Seq(ValuePair)
                                /\ Denote(h, x).items = DenoteAll(h, Elements(h, x.v))
                                /\ Len(Denote(h, x).items) = Len(Elements(h, x.v))
<1>1. x.tag \in {"NUMBER", "BOOLEAN"} => Denote(h, x).num = x.v
  BY DEF Denote, Plain
<1>2. CASE x.tag = "VECTOR"
  <2>1. Elements(h, x.v) \in Seq(ValuePair)
    BY <1>2, Tags, LiveParts DEF Good
  <2>2. Denote(h, x).items = DenoteAll(h, Elements(h, x.v))
    BY <1>2, DenoteIs
  <2>3. Len(DenoteAll(h, Elements(h, x.v))) = Len(Elements(h, x.v))
    BY <2>1, LenProperties DEF DenoteAll
  <2> QED BY <1>1, <1>2, <2>1, <2>2, <2>3
<1> QED BY <1>1, <1>2

\* What is dropped leaves Undef.
LEMMA DropsToUndef ==
  ASSUME NEW h, NEW x
  PROVE  Drop(h, x).val = Undef /\ \A s : DropAll(h, s).val = Undef
  BY DEF Drop, DropAll, Ok, Throws, UB

\* An operator of one operand computes what it promises.
LEMMA UnaryDenotes ==
  ASSUME NEW h, Good(h), NEW x, Sound(h, x), PointerOf(x) \cap ElementPointers(h) = {},
         NEW op \in BuiltinUnary, HandleUnary(h, x, op).exit = "ok"
  PROVE  Denote(HandleUnary(h, x, op).heap, HandleUnary(h, x, op).val)
           = Machine!Unary(op, Denote(h, x))
<1> DEFINE r == HandleUnary(h, x, op)
           d == Denote(h, x)
<1>1. x \in ValuePair /\ x.v \in Int /\ d.tag = x.tag
  BY Tags DEF Sound
<1>2. Good(r.heap)
  BY <1>1, UnaryTransfers DEF Transfers, Moves
<1>3. /\ \A n \in Int : r.val = Num(n) => Denote(r.heap, r.val) = Machine!Number(n)
      /\ \A b \in BOOLEAN : r.val = Bool(b) => Denote(r.heap, r.val) = Machine!Truth(b)
      /\ r.val = Undef => Denote(r.heap, r.val) = Machine!Undefined
  BY <1>2, ScalarDenotes
<1>4. CASE op = "NOT"
  <2>1. x.tag = "BOOLEAN" /\ r.val = Bool(x.v = 0)
    BY <1>4 DEF HandleUnary, Ok, Throws, RangeGetter, NumericUnary
  <2>2. d.num = x.v
    BY <2>1, Numbers
  <2>3. Machine!Unary(op, d) = Machine!Truth(x.v = 0)
    BY <1>4, <2>2 DEF Machine!Unary
  <2> HIDE DEF r, d
  <2>4. Denote(r.heap, r.val) = Machine!Truth(x.v = 0)
    BY <1>3, <2>1
  <2> QED BY <2>3, <2>4 DEF r, d
<1>5. CASE op = "NORM"
  BY <1>5 DEF HandleUnary, Throws, RangeGetter, NumericUnary
<1>6. CASE op = "LEN"
  <2>1. CASE x.tag = "VECTOR"
    <3>1. r.val = Num(Len(Elements(h, x.v)))
      BY <1>6, <2>1, Tags DEF HandleUnary, Ok, RangeGetter, NumericUnary
    <3>2. Len(d.items) = Len(Elements(h, x.v)) /\ Len(Elements(h, x.v)) \in Int
      BY <2>1, Numbers, LenProperties
    <3>3. Machine!Unary(op, d) = Machine!Number(Len(Elements(h, x.v)))
      BY <1>1, <1>6, <2>1, <3>2 DEF Machine!Unary
    <3> HIDE DEF r, d
    <3>4. Denote(r.heap, r.val) = Machine!Number(Len(Elements(h, x.v)))
      BY <1>3, <3>1, <3>2
    <3> QED BY <3>3, <3>4 DEF r, d
  <2>2. CASE x.tag # "VECTOR"
    <3>1. r.val = Undef
      BY <1>6, <2>2, DropsToUndef DEF HandleUnary, RangeGetter, NumericUnary
    <3>2. Machine!Unary(op, d) = Machine!Undefined
      BY <1>1, <1>6, <2>2 DEF Machine!Unary
    <3> HIDE DEF r, d
    <3> QED BY <1>3, <3>1, <3>2 DEF r, d
  <2> QED BY <2>1, <2>2
<1>7. CASE op \in RangeGetter
  <2>1. CASE x.tag = "RANGE"
    <3> DEFINE p == h.range[x.v]
               n == FieldOf(op, p)
    <3>1. r.val = Num(n)
      BY <1>7, <2>1, Tags DEF HandleUnary, Ok, RangeGetter, NumericUnary
    <3>2. p.begin \in Int /\ p.step \in Int /\ p.end \in Int
          /\ d = Machine!RangeOf(p.begin, p.step, p.end)
      BY <2>1, RangeDenotes
    <3> HIDE DEF r, d, p
    <3>3. n \in Int
      BY <1>7, <3>2 DEF FieldOf, RangeGetter
    <3>4. d.items[1] = Machine!Number(p.begin) /\ d.items[2] = Machine!Number(p.step)
          /\ d.items[3] = Machine!Number(p.end)
      BY <3>2 DEF Machine!RangeOf
    <3>5. Machine!Unary(op, d) = Machine!Number(n)
      <4>1. CASE op = "RBEGIN"
        BY <1>1, <2>1, <3>4, <4>1 DEF Machine!Unary, FieldOf
      <4>2. CASE op = "RSTEP"
        BY <1>1, <2>1, <3>4, <4>2 DEF Machine!Unary, FieldOf
      <4>3. CASE op = "REND"
        BY <1>1, <2>1, <3>4, <4>3 DEF Machine!Unary, FieldOf
      <4> QED BY <1>7, <4>1, <4>2, <4>3 DEF RangeGetter
    <3> HIDE DEF n
    <3>6. Denote(r.heap, r.val) = Machine!Number(n)
      BY <1>3, <3>1, <3>3
    <3> QED BY <3>5, <3>6 DEF r, d
  <2>2. CASE x.tag # "RANGE"
    <3>1. r.val = Undef
      BY <1>7, <2>2, DropsToUndef DEF HandleUnary, RangeGetter, NumericUnary
    <3>2. Machine!Unary(op, d) = Machine!Undefined
      BY <1>1, <1>7, <2>2 DEF Machine!Unary, RangeGetter
    <3> HIDE DEF r, d
    <3> QED BY <1>3, <3>1, <3>2 DEF r, d
  <2> QED BY <2>1, <2>2
<1>8. CASE op \in NumericUnary
  <2>1. CASE x.tag = "NUMBER"
    <3> DEFINE n == NumberOf(op, x.v)
    <3>1. r.val = Num(n)
      BY <1>8, <2>1 DEF HandleUnary, Ok, RangeGetter, NumericUnary
    <3>2. n \in Int
      BY <1>1, <1>8 DEF NumberOf, NumericUnary
    <3>3. d.num = x.v
      BY <2>1, Numbers
    <3> HIDE DEF r, d
    <3>4. Machine!Unary(op, d) = Machine!Number(n)
      <4>1. CASE op = "NEG"
        BY <1>1, <2>1, <3>3, <4>1 DEF Machine!Unary, NumberOf
      <4>2. CASE op = "ABS"
        BY <1>1, <2>1, <3>3, <4>2 DEF Machine!Unary, NumberOf
      <4>3. CASE op = "SIGN"
        BY <1>1, <2>1, <3>3, <4>3 DEF Machine!Unary, NumberOf
      <4> QED BY <1>8, <4>1, <4>2, <4>3 DEF NumericUnary
    <3> HIDE DEF n
    <3>5. Denote(r.heap, r.val) = Machine!Number(n)
      BY <1>3, <3>1, <3>2
    <3> QED BY <3>4, <3>5 DEF r, d
  <2>2. CASE x.tag # "NUMBER"
    <3>1. r.val = Undef
      BY <1>8, <2>2, DropsToUndef DEF HandleUnary, RangeGetter, NumericUnary
    <3>2. Machine!Unary(op, d) = Machine!Undefined
      BY <1>1, <1>8, <2>2 DEF Machine!Unary, NumericUnary
    <3> HIDE DEF r, d
    <3> QED BY <1>3, <3>1, <3>2 DEF r, d
  <2> QED BY <2>1, <2>2
<1> QED BY <1>4, <1>5, <1>6, <1>7, <1>8 DEF BuiltinUnary

\* The values of sequences.
LEMMA DenoteSeq ==
  ASSUME NEW h, NEW s \in Seq(ValuePair)
  PROVE  /\ DenoteAll(h, s) \in Seq({Denote(h, x) : x \in ValuePair})
         /\ Len(DenoteAll(h, s)) = Len(s) /\ Len(s) \in Nat
         /\ \A i \in 1..Len(s) : DenoteAll(h, s)[i] = Denote(h, s[i])
<1>1. Len(s) \in Nat /\ \A i \in 1..Len(s) : s[i] \in ValuePair
  BY LenProperties
<1> QED BY <1>1 DEF DenoteAll

LEMMA DenoteAppend ==
  ASSUME NEW h, NEW s \in Seq(ValuePair), NEW x \in ValuePair
  PROVE  DenoteAll(h, Append(s, x)) = Append(DenoteAll(h, s), Denote(h, x))
<1>1. Append(s, x) \in Seq(ValuePair) /\ Len(Append(s, x)) = Len(s) + 1
      /\ Append(s, x)[Len(s) + 1] = x /\ \A i \in 1..Len(s) : Append(s, x)[i] = s[i]
  BY AppendProperties
<1> DEFINE a == DenoteAll(h, Append(s, x))
           b == Append(DenoteAll(h, s), Denote(h, x))
           S == {Denote(h, y) : y \in ValuePair}
<1>2. /\ a \in Seq(S) /\ Len(a) = Len(s) + 1
      /\ \A i \in 1..(Len(s) + 1) : a[i] = Denote(h, Append(s, x)[i])
  BY <1>1, DenoteSeq
<1>3. /\ b \in Seq(S) /\ Len(b) = Len(s) + 1 /\ b[Len(s) + 1] = Denote(h, x)
      /\ \A i \in 1..Len(s) : b[i] = Denote(h, s[i])
  <2>1. DenoteAll(h, s) \in Seq(S) /\ Denote(h, x) \in S /\ Len(DenoteAll(h, s)) = Len(s)
        /\ \A i \in 1..Len(s) : DenoteAll(h, s)[i] = Denote(h, s[i])
    BY DenoteSeq
  <2> HIDE DEF S
  <2> QED BY <2>1, AppendProperties
<1> HIDE DEF a, b, S
<1>4. \A i \in 1..(Len(s) + 1) : a[i] = b[i]
  <2> TAKE i \in 1..(Len(s) + 1)
  <2>1. Len(s) \in Nat
    BY LenProperties
  <2>2. CASE i = Len(s) + 1
    BY <1>1, <1>2, <1>3, <2>2
  <2>3. CASE i # Len(s) + 1
    <3>1. i \in 1..Len(s)
      BY <2>1, <2>3
    <3> QED BY <1>1, <1>2, <1>3, <3>1
  <2> QED BY <2>2, <2>3
<1>5. a = b
  BY <1>2, <1>3, <1>4, SeqEqual
<1> QED BY <1>5 DEF a, b

LEMMA DenoteConcat ==
  ASSUME NEW h, NEW s \in Seq(ValuePair), NEW t \in Seq(ValuePair)
  PROVE  DenoteAll(h, s \o t) = DenoteAll(h, s) \o DenoteAll(h, t)
<1> DEFINE a == DenoteAll(h, s \o t)
           p == DenoteAll(h, s)
           q == DenoteAll(h, t)
           S == {Denote(h, y) : y \in ValuePair}
<1>1. /\ s \o t \in Seq(ValuePair) /\ Len(s \o t) = Len(s) + Len(t)
      /\ \A i \in 1..Len(s) : (s \o t)[i] = s[i]
      /\ \A i \in 1..Len(t) : (s \o t)[Len(s) + i] = t[i]
  OBVIOUS
<1>2. /\ p \in Seq(S) /\ Len(p) = Len(s) /\ \A i \in 1..Len(s) : p[i] = Denote(h, s[i])
      /\ q \in Seq(S) /\ Len(q) = Len(t) /\ \A i \in 1..Len(t) : q[i] = Denote(h, t[i])
      /\ Len(s) \in Nat /\ Len(t) \in Nat
  BY DenoteSeq
<1>3. /\ a \in Seq(S) /\ Len(a) = Len(s) + Len(t)
      /\ \A i \in 1..(Len(s) + Len(t)) : a[i] = Denote(h, (s \o t)[i])
  BY <1>1, DenoteSeq
<1> HIDE DEF a, p, q, S
<1>4. \A i \in 1..Len(p) : a[i] = p[i]
  <2> TAKE i \in 1..Len(p)
  <2>1. i \in 1..Len(s) /\ i \in 1..(Len(s) + Len(t))
    BY <1>2
  <2> QED BY <1>1, <1>2, <1>3, <2>1
<1>5. \A i \in 1..Len(q) : a[Len(p) + i] = q[i]
  <2> TAKE i \in 1..Len(q)
  <2>1. i \in 1..Len(t) /\ Len(s) + i \in 1..(Len(s) + Len(t)) /\ Len(p) + i = Len(s) + i
    BY <1>2
  <2>2. a[Len(s) + i] = Denote(h, (s \o t)[Len(s) + i])
    BY <1>3, <2>1
  <2>3. (s \o t)[Len(s) + i] = t[i]
    BY <1>1, <2>1
  <2> QED BY <1>2, <2>1, <2>2, <2>3
<1>6. Len(a) = Len(p) + Len(q)
  BY <1>2, <1>3
<1>7. a = p \o q
  BY <1>2, <1>3, <1>4, <1>5, <1>6, Joined
<1> QED BY <1>7 DEF a, p, q

LEMMA DenoteFront ==
  ASSUME NEW h, NEW s \in Seq(ValuePair), s # <<>>
  PROVE  /\ DenoteAll(h, s) # <<>>
         /\ Front(DenoteAll(h, s)) = DenoteAll(h, Front(s))
         /\ Last(DenoteAll(h, s)) = Denote(h, Last(s))
<1> DEFINE S == {Denote(h, y) : y \in ValuePair}
           d == DenoteAll(h, Front(s))
           x == Denote(h, Last(s))
<1>1. Front(s) \in Seq(ValuePair) /\ Last(s) \in ValuePair /\ s = Append(Front(s), Last(s))
  BY OwnedFront
<1>2. DenoteAll(h, s) = Append(d, x)
  BY <1>1, DenoteAppend
<1>3. d \in Seq(S) /\ x \in S
  BY <1>1, DenoteSeq
<1> HIDE DEF S, d, x
<1>4. Append(d, x) # <<>> /\ Front(Append(d, x)) = d /\ Last(Append(d, x)) = x
  BY <1>3 DEF Front, Last
<1> QED BY <1>2, <1>4 DEF d, x

\* The list that is written denotes what is written, whoever shares its buffer.
LEMMA WriteDenotes ==
  ASSUME NEW h, Good(h), NEW a \in DOMAIN h.vec, a \notin ElementPointers(h),
         NEW s \in Seq(ValuePair), AllLive(h, s), a \notin Pointers(s)
  PROVE  Denote(SetElements(Unshare(h, a).heap, Unshare(h, a).val.v, s), Unshare(h, a).val)
           = Machine!List(DenoteAll(h, s))
<1> DEFINE u == Unshare(h, a)
           g == SetElements(u.heap, u.val.v, s)
           P == {a}
<1>1. IsHeap(h) /\ a \in Nat /\ a < h.next
  BY HeapFact DEF Good, Boxes
<1>2. Transfers(h, P \cup Pointers(s), Ok(g, u.val))
  BY WriteTransfers
<1>3. /\ IsHeap(u.heap) /\ u.val \in ValuePair /\ u.val.v \in DOMAIN u.heap.vec
      /\ u.val.tag = "VECTOR"
  BY <1>1, UnshareOK DEF Unshare, Ok, Vec
<1>4. Elements(g, u.val.v) = s
  BY <1>3 DEF SetElements, Heap, Elements, Put
<1>5. Keeps(h, g, P)
  <2>1. PreservesBut(h, g, a) /\ SameRanges(h, g)
    BY <1>1, WritePreserves, WriteRanges
  <2>2. \A x \in DOMAIN h.vec \ P : x \in DOMAIN g.vec
    <3>1. CASE UseCountIsOne(h, a)
      BY <3>1 DEF Unshare, Ok, SetElements, Heap
    <3>2. CASE ~UseCountIsOne(h, a)
      BY <3>2 DEF Unshare, Ok, SetElements, Heap, FreeAll, Without, Restrict, Put
    <3> QED BY <3>1, <3>2
  <2>3. \A x \in DOMAIN h.range \ P : x \in DOMAIN g.range
    <3>1. CASE UseCountIsOne(h, a)
      BY <3>1 DEF Unshare, Ok, SetElements, Heap
    <3>2. CASE ~UseCountIsOne(h, a)
      BY <3>2 DEF Unshare, Ok, SetElements, Heap, FreeAll, Without, Restrict
    <3> QED BY <3>1, <3>2
  <2>4. \A x \in Boxes(h) : x < h.next
    BY <1>1, HeapFact
  <2> HIDE DEF g
  <2>5. \A x \in DOMAIN h.vec \ P : Elements(g, x) = Elements(h, x)
    BY <2>1, <2>2, <2>4 DEF PreservesBut, Boxes
  <2>6. \A x \in DOMAIN h.range \ P : g.range[x] = h.range[x]
    BY <2>1, <2>3, <2>4 DEF SameRanges, Boxes
  <2> QED BY <2>2, <2>3, <2>5, <2>6 DEF Keeps
<1> HIDE DEF g, u
<1>6. Good(g) /\ Sound(g, u.val)
  BY <1>2, <1>3 DEF Transfers, Moves, Ok, Sound
<1>7. DenoteAll(g, s) = DenoteAll(h, s)
  BY <1>5, <1>6, SameValues
<1>8. Denote(g, u.val) = [tag |-> "VECTOR", num |-> 0, items |-> DenoteAll(g, s)]
  BY <1>3, <1>4, <1>6, DenoteIs
<1> QED BY <1>7, <1>8 DEF g, u, Machine!List

\* The operators of two operands: either they compute what they promise, or, of
\* operands they are not made for, nothing.
Computes(h, l, r, op, o) ==
  o.exit = "ok" => Denote(o.heap, o.val) = Machine!Binary(op, Denote(h, l), Denote(h, r))

\* The two operands of an operator.
Pair(h, l, r) ==
  /\ Good(h) /\ Sound(h, l) /\ Sound(h, r) /\ Owned(h, <<l, r>>)

LEMMA PairIs ==
  ASSUME NEW h, NEW l, NEW r, Pair(h, l, r), NEW op \in BinOp
  PROVE  /\ l \in ValuePair /\ r \in ValuePair /\ l.v \in Int /\ r.v \in Int /\ IsHeap(h)
         /\ Denote(h, l).tag = l.tag /\ Denote(h, r).tag = r.tag
         /\ l.tag \in {"NUMBER", "BOOLEAN"} => Denote(h, l).num = l.v
         /\ r.tag \in {"NUMBER", "BOOLEAN"} => Denote(h, r).num = r.v
         /\ Good(HandleBinary(h, l, r, op).heap)
<1>1. l \in ValuePair /\ r \in ValuePair
  BY DEF Pair, Sound
<1>2. Good(HandleBinary(h, l, r, op).heap)
  BY <1>1, BinaryTransfers DEF Pair, Transfers, Moves
<1> QED BY <1>1, <1>2, Tags, Numbers DEF Pair, Good

\* What o leaves denotes a number, a truth value or nothing.
LEMMA ScalarComputes ==
  ASSUME NEW o, Good(o.heap)
  PROVE  /\ \A n \in Int : o.val = Num(n) => Denote(o.heap, o.val) = Machine!Number(n)
         /\ \A b \in BOOLEAN : o.val = Bool(b) => Denote(o.heap, o.val) = Machine!Truth(b)
         /\ o.val = Undef => Denote(o.heap, o.val) = Machine!Undefined
  BY ScalarDenotes

LEMMA ArithmeticDenotes ==
  ASSUME NEW h, NEW l, NEW r, Pair(h, l, r), NEW op \in ArithmeticOp
  PROVE  Computes(h, l, r, op, HandleBinary(h, l, r, op))
<1> DEFINE o == HandleBinary(h, l, r, op)
           x == Denote(h, l)
           y == Denote(h, r)
<1>1. op \in BinOp /\ o = Arithmetic(h, l, r, op)
  BY DEF HandleBinary, BinOp, ArithmeticOp, CompareOp, EqualityOp, LogicOp
<1>2. /\ l.v \in Int /\ r.v \in Int /\ x.tag = l.tag /\ y.tag = r.tag
      /\ l.tag = "NUMBER" => x.num = l.v
      /\ r.tag = "NUMBER" => y.num = r.v
  BY <1>1, PairIs
<1>3. /\ \A n \in Int : o.val = Num(n) => Denote(o.heap, o.val) = Machine!Number(n)
      /\ o.val = Undef => Denote(o.heap, o.val) = Machine!Undefined
  BY <1>1, PairIs, ScalarComputes
<1>4. CASE l.tag = "NUMBER" /\ r.tag = "NUMBER"
  <2> DEFINE n == CASE op = "ADD" -> l.v + r.v [] op = "SUB" -> l.v - r.v
                    [] op = "MUL" -> l.v * r.v
  <2>1. o.val = Num(n)
    <3>1. Arithmetic(h, l, r, op) = Ok(h, Num(n))
      BY <1>4, Zenon DEF Arithmetic
    <3> HIDE DEF n
    <3> QED BY <1>1, <3>1 DEF Ok
  <2>2. n \in Int /\ Machine!Binary(op, x, y) = Machine!Number(n)
    <3> HIDE DEF x, y, o
    <3>1. CASE op = "ADD"
      BY <1>2, <1>4, <3>1 DEF Machine!Binary, Machine!Have
    <3>2. CASE op = "SUB"
      BY <1>2, <1>4, <3>2 DEF Machine!Binary, Machine!Have
    <3>3. CASE op = "MUL"
      BY <1>2, <1>4, <3>3 DEF Machine!Binary, Machine!Have
    <3> QED BY <3>1, <3>2, <3>3 DEF ArithmeticOp
  <2> HIDE DEF n, o
  <2> QED BY <1>3, <2>1, <2>2 DEF Computes, o
<1>5. CASE l.tag # "NUMBER" \/ r.tag # "NUMBER"
  <2>1. o.val = Undef
    BY <1>1, <1>5, DropsToUndef DEF Arithmetic, DropBoth
  <2>2. Machine!Binary(op, x, y) = Machine!Undefined
    <3> HIDE DEF x, y, o
    <3> QED BY <1>2, <1>5 DEF Machine!Binary, Machine!Have, ArithmeticOp
  <2> HIDE DEF o
  <2> QED BY <1>3, <2>1, <2>2 DEF Computes, o
<1> QED BY <1>4, <1>5

LEMMA CompareDenotes ==
  ASSUME NEW h, NEW l, NEW r, Pair(h, l, r), NEW op \in CompareOp
  PROVE  Computes(h, l, r, op, HandleBinary(h, l, r, op))
<1> DEFINE o == HandleBinary(h, l, r, op)
           x == Denote(h, l)
           y == Denote(h, r)
<1>1. op \in BinOp /\ o = Compare(h, l, r, op)
  BY DEF HandleBinary, BinOp, ArithmeticOp, CompareOp, EqualityOp, LogicOp
<1>2. /\ l.v \in Int /\ r.v \in Int /\ x.tag = l.tag /\ y.tag = r.tag
      /\ l.tag = "NUMBER" => x.num = l.v
      /\ r.tag = "NUMBER" => y.num = r.v
  BY <1>1, PairIs
<1>3. /\ \A b \in BOOLEAN : o.val = Bool(b) => Denote(o.heap, o.val) = Machine!Truth(b)
      /\ o.val = Undef => Denote(o.heap, o.val) = Machine!Undefined
  BY <1>1, PairIs, ScalarComputes
<1>4. CASE l.tag = "NUMBER" /\ r.tag = "NUMBER"
  <2> DEFINE is(b) == b \in BOOLEAN /\ o.val = Bool(b) /\ Machine!Binary(op, x, y) = Machine!Truth(b)
  <2>1. ASSUME op = "LT" PROVE is(l.v < r.v)
    <3>1. o.val = Bool(l.v < r.v)
      <4>1. o.val = Bool(r.v > l.v \/ FALSE)
        BY <1>1, <1>4, <2>1 DEF Compare, Ok
      <4>2. (r.v > l.v \/ FALSE) = (l.v < r.v)
        BY <1>2
      <4> QED BY <4>1, <4>2
    <3>2. Machine!Binary(op, x, y) = Machine!Truth(l.v < r.v)
      <4> HIDE DEF x, y, o
      <4> QED BY <1>2, <1>4, <2>1 DEF Machine!Binary, Machine!Have
    <3> HIDE DEF x, y, o
    <3> QED BY <3>1, <3>2
  <2>2. ASSUME op = "LE" PROVE is(l.v <= r.v)
    <3>1. o.val = Bool(l.v <= r.v)
      BY <1>1, <1>2, <1>4, <2>2 DEF Compare, Ok
    <3>2. Machine!Binary(op, x, y) = Machine!Truth(l.v <= r.v)
      <4> HIDE DEF x, y, o
      <4> QED BY <1>2, <1>4, <2>2 DEF Machine!Binary, Machine!Have
    <3> HIDE DEF x, y, o
    <3> QED BY <3>1, <3>2
  <2>3. ASSUME op = "GT" PROVE is(l.v > r.v)
    <3>1. o.val = Bool(l.v > r.v)
      BY <1>1, <1>2, <1>4, <2>3 DEF Compare, Ok
    <3>2. Machine!Binary(op, x, y) = Machine!Truth(l.v > r.v)
      <4> HIDE DEF x, y, o
      <4> QED BY <1>2, <1>4, <2>3 DEF Machine!Binary, Machine!Have
    <3> HIDE DEF x, y, o
    <3> QED BY <3>1, <3>2
  <2>4. ASSUME op = "GE" PROVE is(l.v >= r.v)
    <3>1. o.val = Bool(l.v >= r.v)
      BY <1>1, <1>2, <1>4, <2>4 DEF Compare, Ok
    <3>2. Machine!Binary(op, x, y) = Machine!Truth(l.v >= r.v)
      <4> HIDE DEF x, y, o
      <4> QED BY <1>2, <1>4, <2>4 DEF Machine!Binary, Machine!Have
    <3> HIDE DEF x, y, o
    <3> QED BY <3>1, <3>2
  <2> HIDE DEF is
  <2>5. \E b : is(b)
    BY <2>1, <2>2, <2>3, <2>4 DEF CompareOp
  <2> HIDE DEF o
  <2> QED BY <1>3, <2>5 DEF Computes, o, is
<1>5. CASE l.tag # "NUMBER" \/ r.tag # "NUMBER"
  <2>1. o.val = Undef
    <3>1. Compare(h, l, r, op) \in {DropAll(h, <<l, r>>), DropAll(h, <<r, l>>)}
      BY <1>5 DEF Compare, DropBoth
    <3> QED BY <1>1, <3>1, DropsToUndef
  <2>2. Machine!Binary(op, x, y) = Machine!Undefined
    <3> HIDE DEF x, y, o
    <3> QED BY <1>2, <1>5 DEF Machine!Binary, Machine!Have, CompareOp
  <2> HIDE DEF o
  <2> QED BY <1>3, <2>1, <2>2 DEF Computes, o
<1> QED BY <1>4, <1>5

\* EQ and NEQ: both compare for equality.
LEMMA EqualityDenotes ==
  ASSUME NEW h, NEW l, NEW r, Pair(h, l, r), NEW op \in EqualityOp
  PROVE  Computes(h, l, r, op, HandleBinary(h, l, r, op))
<1> DEFINE o == HandleBinary(h, l, r, op)
           x == Denote(h, l)
           y == Denote(h, r)
           d == DropBoth(h, l, r)
           e == Equal(h, l, r)
<1>1. op \in BinOp /\ o = Equality(h, l, r)
  BY DEF HandleBinary, BinOp, ArithmeticOp, CompareOp, EqualityOp, LogicOp
<1>2. \A b \in BOOLEAN : o.val = Bool(b) => Denote(o.heap, o.val) = Machine!Truth(b)
  BY <1>1, PairIs, ScalarComputes
<1>3. l \in ValuePair /\ r \in ValuePair
  BY <1>1, PairIs
<1>4. e # "ub" /\ d.exit = "ok"
  BY <1>3, EqualDefined, DropBothTransfers DEF Pair, Sound
<1>5. o.val = Bool(e = "yes")
  <2>1. Equality(h, l, r) = Ok(d.heap, Bool(e = "yes"))
    BY <1>4 DEF Equality
  <2> QED BY <1>1, <2>1 DEF Ok
<1>6. (e = "yes") = (x = y)
  BY EqualMeans DEF Pair
<1> HIDE DEF x, y, o, e
<1>7. Machine!Binary(op, x, y) = Machine!Truth(x = y)
  BY DEF Machine!Binary, EqualityOp
<1> QED BY <1>2, <1>5, <1>6, <1>7 DEF Computes, x, y, o

LEMMA LogicDenotes ==
  ASSUME NEW h, NEW l, NEW r, Pair(h, l, r), NEW op \in LogicOp
  PROVE  Computes(h, l, r, op, HandleBinary(h, l, r, op))
<1> DEFINE o == HandleBinary(h, l, r, op)
           x == Denote(h, l)
           y == Denote(h, r)
<1>1. op \in BinOp /\ o = Logic(h, l, r, op)
  BY DEF HandleBinary, BinOp, ArithmeticOp, CompareOp, EqualityOp, LogicOp
<1>2. /\ x.tag = l.tag /\ y.tag = r.tag
      /\ l.tag = "BOOLEAN" => x.num = l.v
      /\ r.tag = "BOOLEAN" => y.num = r.v
  BY <1>1, PairIs
<1>3. /\ \A b \in BOOLEAN : o.val = Bool(b) => Denote(o.heap, o.val) = Machine!Truth(b)
      /\ o.val = Undef => Denote(o.heap, o.val) = Machine!Undefined
  BY <1>1, PairIs, ScalarComputes
<1>4. CASE l.tag = "BOOLEAN" /\ r.tag = "BOOLEAN"
  <2> DEFINE b == IF op = "AND" THEN l.v = 1 /\ r.v = 1 ELSE l.v = 1 \/ r.v = 1
  <2>1. o.val = Bool(b)
    BY <1>1, <1>4 DEF Logic, Ok
  <2>2. Machine!Binary(op, x, y) = Machine!Truth(b)
    <3> HIDE DEF x, y, o
    <3>1. CASE op = "AND"
      BY <1>2, <1>4, <3>1 DEF Machine!Binary, Machine!Have
    <3>2. CASE op = "OR"
      BY <1>2, <1>4, <3>2 DEF Machine!Binary, Machine!Have
    <3> QED BY <3>1, <3>2 DEF LogicOp
  <2>3. b \in BOOLEAN
    OBVIOUS
  <2> HIDE DEF o, b
  <2> QED BY <1>3, <2>1, <2>2, <2>3 DEF Computes, o
<1>5. CASE l.tag # "BOOLEAN" \/ r.tag # "BOOLEAN"
  <2>1. o.val = Undef
    BY <1>1, <1>5, DropsToUndef DEF Logic, DropBoth
  <2>2. Machine!Binary(op, x, y) = Machine!Undefined
    <3> HIDE DEF x, y, o
    <3> QED BY <1>2, <1>5 DEF Machine!Binary, Machine!Have, LogicOp
  <2> HIDE DEF o
  <2> QED BY <1>3, <2>1, <2>2 DEF Computes, o
<1> QED BY <1>4, <1>5

LEMMA AppendDenotes ==
  ASSUME NEW h, NEW l, NEW r, Pair(h, l, r)
  PROVE  Computes(h, l, r, "APPEND", HandleBinary(h, l, r, "APPEND"))
<1> DEFINE o == HandleBinary(h, l, r, "APPEND")
           x == Denote(h, l)
           y == Denote(h, r)
<1>1. "APPEND" \in BinOp /\ o = AppendTo(h, l, r)
  BY DEF HandleBinary, BinOp, ArithmeticOp, CompareOp, EqualityOp, LogicOp
<1>2. l \in ValuePair /\ r \in ValuePair /\ x.tag = l.tag /\ Good(h) /\ Owned(h, <<l, r>>)
  BY <1>1, PairIs DEF Pair
<1>3. CASE l.tag = "VECTOR"
  <2> DEFINE u == Unshare(h, l.v)
             e == Elements(h, l.v)
             s == Append(e, r)
             w == Ok(SetElements(u.heap, u.val.v, s), u.val)
  <2>1. Live(h, l)
    BY <1>2, <1>3, PairFacts DEF isAllocated, AllocatedTag
  <2>2. AppendTo(h, l, r) = w
    BY <1>3, <2>1 DEF AppendTo
  <2>3. /\ l.v \in DOMAIN h.vec /\ PointerOf(l) = {l.v} /\ e \in Seq(ValuePair)
        /\ AllLive(h, e) /\ Pointers(e) \subseteq ElementPointers(h)
    BY <1>2, <1>3, <2>1, ListOf
  <2>4. x.items = DenoteAll(h, e)
    BY <1>3, Numbers DEF Pair
  <2> HIDE DEF e
  <2>5. /\ s \in Seq(ValuePair)
        /\ AllLive(h, s) <=> AllLive(h, e) /\ (isAllocated(r) => Live(h, r))
        /\ Pointers(s) = Pointers(e) \cup PointerOf(r)
    BY <1>2, <2>3, OwnedAppend, AppendProperties DEF PointerOf
  <2>6. DenoteAll(h, s) = Append(x.items, y)
    BY <1>2, <2>3, <2>4, DenoteAppend
  <2> HIDE DEF s
  <2>7. AllLive(h, s) /\ l.v \notin ElementPointers(h) /\ l.v \notin Pointers(s)
    BY <1>2, <2>3, <2>5, PairFacts
  <2>8. Denote(SetElements(u.heap, u.val.v, s), u.val) = Machine!List(DenoteAll(h, s))
    BY <1>2, <2>3, <2>5, <2>7, WriteDenotes
  <2>9. Denote(o.heap, o.val) = Machine!List(DenoteAll(h, s))
    BY <1>1, <2>2, <2>8 DEF Ok
  <2> HIDE DEF o, u, x, y
  <2>10. Machine!Binary("APPEND", x, y) = Machine!List(Append(x.items, y))
    BY <1>2, <1>3 DEF Machine!Binary
  <2> QED BY <2>6, <2>9, <2>10 DEF Computes, o, x, y
<1>4. CASE l.tag # "VECTOR"
  <2>1. o.val = Undef
    BY <1>1, <1>4, DropsToUndef DEF AppendTo, DropBoth
  <2>2. Denote(o.heap, o.val) = Machine!Undefined
    BY <1>1, <2>1, PairIs, ScalarComputes
  <2> HIDE DEF o, x, y
  <2>3. Machine!Binary("APPEND", x, y) = Machine!Undefined
    BY <1>2, <1>4 DEF Machine!Binary
  <2> QED BY <2>2, <2>3 DEF Computes, o, x, y
<1> QED BY <1>3, <1>4

LEMMA ConcatDenotes ==
  ASSUME NEW h, NEW l, NEW r, Pair(h, l, r)
  PROVE  Computes(h, l, r, "CONCAT", HandleBinary(h, l, r, "CONCAT"))
<1> DEFINE o == HandleBinary(h, l, r, "CONCAT")
           x == Denote(h, l)
           y == Denote(h, r)
<1>1. "CONCAT" \in BinOp /\ o = Concat(h, l, r)
  BY DEF HandleBinary, BinOp, ArithmeticOp, CompareOp, EqualityOp, LogicOp
<1>2. /\ l \in ValuePair /\ r \in ValuePair /\ x.tag = l.tag /\ y.tag = r.tag
      /\ Good(h) /\ Owned(h, <<l, r>>)
  BY <1>1, PairIs DEF Pair
<1>3. CASE l.tag = "VECTOR" /\ r.tag = "VECTOR"
  <2> DEFINE u == Unshare(h, l.v)
             e == Elements(h, l.v)
             f == Elements(h, r.v)
             s == e \o f
             w == Ok(SetElements(u.heap, u.val.v, s), u.val)
  <2>1. Live(h, l) /\ Live(h, r)
    BY <1>2, <1>3, PairFacts DEF isAllocated, AllocatedTag
  <2>2. /\ l.v \in DOMAIN h.vec /\ PointerOf(l) = {l.v} /\ e \in Seq(ValuePair)
        /\ AllLive(h, e) /\ Pointers(e) \subseteq ElementPointers(h)
    BY <1>2, <1>3, <2>1, ListOf
  <2>3. /\ PointerOf(r) = {r.v} /\ f \in Seq(ValuePair) /\ AllLive(h, f)
        /\ Pointers(f) \subseteq ElementPointers(h)
    BY <1>2, <1>3, <2>1, ListOf
  <2>4. l.v # r.v
    BY <1>2, <2>2, <2>3, PairFacts
  <2>5. Concat(h, l, r) = w
    BY <1>3, <2>1, <2>4 DEF Concat
  <2>6. x.items = DenoteAll(h, e) /\ y.items = DenoteAll(h, f)
    BY <1>3, Numbers DEF Pair
  <2> HIDE DEF e, f
  <2>7. s \in Seq(ValuePair) /\ AllLive(h, s) /\ Pointers(s) = Pointers(e) \cup Pointers(f)
    BY <2>2, <2>3, OwnedConcat, ConcatProperties
  <2>8. DenoteAll(h, s) = x.items \o y.items
    BY <2>2, <2>3, <2>6, DenoteConcat
  <2> HIDE DEF s
  <2>9. l.v \notin ElementPointers(h) /\ l.v \notin Pointers(s)
    BY <1>2, <2>2, <2>3, <2>7, PairFacts
  <2>10. Denote(SetElements(u.heap, u.val.v, s), u.val) = Machine!List(DenoteAll(h, s))
    BY <1>2, <2>2, <2>7, <2>9, WriteDenotes
  <2>11. Denote(o.heap, o.val) = Machine!List(DenoteAll(h, s))
    BY <1>1, <2>5, <2>10 DEF Ok
  <2> HIDE DEF o, u, x, y
  <2>12. Machine!Binary("CONCAT", x, y) = Machine!List(x.items \o y.items)
    BY <1>2, <1>3 DEF Machine!Binary, Machine!Have
  <2> QED BY <2>8, <2>11, <2>12 DEF Computes, o, x, y
<1>4. CASE l.tag # "VECTOR" \/ r.tag # "VECTOR"
  <2>1. o.val = Undef
    <3>1. Concat(h, l, r) = DropBoth(h, l, r)
      BY <1>4 DEF Concat
    <3> QED BY <1>1, <3>1, DropsToUndef DEF DropBoth
  <2>2. Denote(o.heap, o.val) = Machine!Undefined
    BY <1>1, <2>1, PairIs, ScalarComputes
  <2> HIDE DEF o, x, y
  <2>3. Machine!Binary("CONCAT", x, y) = Machine!Undefined
    BY <1>2, <1>4 DEF Machine!Binary, Machine!Have
  <2> QED BY <2>2, <2>3 DEF Computes, o, x, y
<1> QED BY <1>3, <1>4

LEMMA IndexDenotes ==
  ASSUME NEW h, NEW l, NEW r, Pair(h, l, r)
  PROVE  Computes(h, l, r, "INDEX", HandleBinary(h, l, r, "INDEX"))
<1> DEFINE o == HandleBinary(h, l, r, "INDEX")
           x == Denote(h, l)
           y == Denote(h, r)
           s == Elements(h, l.v)
           c == Copy(h, s[r.v + 1])
<1>1. "INDEX" \in BinOp /\ o = Index(h, l, r)
  BY DEF HandleBinary, BinOp, ArithmeticOp, CompareOp, EqualityOp, LogicOp
<1>2. /\ l \in ValuePair /\ r \in ValuePair /\ x.tag = l.tag /\ y.tag = r.tag
      /\ r.v \in Int /\ Good(h) /\ Owned(h, <<l, r>>)
      /\ r.tag = "NUMBER" => y.num = r.v
  BY <1>1, PairIs DEF Pair
<1>3. o.val = Undef => Denote(o.heap, o.val) = Machine!Undefined
  BY <1>1, PairIs, ScalarComputes
<1>4. l.tag = "VECTOR" =>
        /\ Live(h, l) /\ l.v \in DOMAIN h.vec /\ s \in Seq(ValuePair) /\ AllLive(h, s)
        /\ l.v \notin ElementPointers(h) /\ Len(s) \in Nat
        /\ x.items = DenoteAll(h, s) /\ Len(x.items) = Len(s)
  <2> HAVE l.tag = "VECTOR"
  <2>1. Live(h, l)
    BY <1>2, PairFacts DEF isAllocated, AllocatedTag
  <2>2. l.v \in DOMAIN h.vec /\ PointerOf(l) = {l.v} /\ s \in Seq(ValuePair) /\ AllLive(h, s)
        /\ l.v \notin ElementPointers(h) /\ Len(s) \in Nat
    BY <1>2, <2>1, ListOf, PairFacts, LenProperties
  <2> QED BY <2>1, <2>2, Numbers DEF Pair
<1>5. CASE l.tag # "VECTOR" \/ r.tag # "NUMBER"
  <2>1. o.val = Undef
    <3>1. Index(h, l, r) = DropBoth(h, l, r)
      BY <1>5 DEF Index
    <3> QED BY <1>1, <3>1, DropsToUndef DEF DropBoth
  <2> HIDE DEF o, x, y
  <2>2. Machine!Binary("INDEX", x, y) = Machine!Undefined
    BY <1>2, <1>5 DEF Machine!Binary, Machine!Have
  <2> QED BY <1>3, <2>1, <2>2 DEF Computes, o, x, y
<1>6. CASE l.tag = "VECTOR" /\ r.tag = "NUMBER" /\ r.v < 0
  <2>1. Index(h, l, r) = UB(h)
    BY <1>2, <1>4, <1>6 DEF Index
  <2> QED BY <1>1, <2>1 DEF Computes, UB
<1>7. CASE l.tag = "VECTOR" /\ r.tag = "NUMBER" /\ r.v >= Len(s)
  <2>1. Index(h, l, r) = Drop(h, l)
    BY <1>2, <1>4, <1>7 DEF Index
  <2>2. o.val = Undef
    BY <1>1, <2>1, DropsToUndef
  <2>3. ~(y.num < Len(x.items))
    BY <1>2, <1>4, <1>7
  <2> HIDE DEF o, x, y
  <2>4. Machine!Binary("INDEX", x, y) = Machine!Undefined
    BY <1>2, <1>7, <2>3 DEF Machine!Binary, Machine!Have
  <2> QED BY <1>3, <2>2, <2>4 DEF Computes, o, x, y
<1>8. CASE l.tag = "VECTOR" /\ r.tag = "NUMBER" /\ r.v >= 0 /\ r.v < Len(s)
  <2> DEFINE e == s[r.v + 1]
             g == FreeAll(c.heap, {l.v})
             P == {l.v}
  <2>1. r.v + 1 \in 1..Len(s) /\ y.num < Len(x.items) /\ y.num + 1 = r.v + 1
    BY <1>2, <1>4, <1>8
  <2>2. Sound(h, e)
    BY <1>4, <1>8, <2>1 DEF AllLive, Sound
  <2>3. Denote(h, e) = x.items[y.num + 1]
    BY <1>4, <1>8, <2>1, DenoteSeq
  <2>4. c.exit = "ok" /\ Sound(c.heap, c.val) /\ Denote(c.heap, c.val) = Denote(h, e)
    BY <1>2, <2>2, CopyDenotes
  <2>5. Index(h, l, r) = Ok(g, c.val)
    <3>1. ~(r.v >= Len(s)) /\ ~(r.v < 0)
      BY <1>2, <1>4, <1>8
    <3> QED BY <1>4, <1>8, <2>4, <3>1 DEF Index
  <2>6. Transfers(h, {}, c)
    BY <1>2, <2>2, CopyTransfers DEF Sound
  <2>7. o.heap = g /\ o.val = c.val
    BY <1>1, <2>5 DEF Ok
  <2> HIDE DEF c
  <2>8. Good(c.heap) /\ P \cap ElementPointers(c.heap) = {}
    BY <1>4, <1>8, <2>6 DEF Transfers, Moves
  <2>9. Moves(c.heap, g, P) /\ Good(g)
    BY <2>8, FreeAllMoves DEF Moves
  <2>10. Keeps(c.heap, g, P)
    <3>1. IsHeap(c.heap)
      BY <2>8 DEF Good
    <3>2. PreservesBut(c.heap, g, 0) /\ SameRanges(c.heap, g)
      BY <3>1, FreeAllPreserves, RangesFree DEF Preserves
    <3> HIDE DEF g, P
    <3> QED BY <2>8, <2>9, <3>2, MovesKeeps
  <2>11. PointerOf(c.val) \cap P = {}
    <3>1. isAllocated(c.val) => c.val.v >= h.next
      BY <2>4, <2>6 DEF Transfers
    <3>2. l.v < h.next /\ l.v \in Nat /\ h.next \in Nat /\ c.val.v \in Int
      BY <1>2, <1>4, <1>8, <2>4, HeapFact, Tags DEF Good, Boxes
    <3> QED BY <3>1, <3>2 DEF PointerOf
  <2> HIDE DEF g, P
  <2>12. Denote(g, c.val) = Denote(c.heap, c.val)
    BY <2>4, <2>8, <2>9, <2>10, <2>11, SameValue
  <2> HIDE DEF o, x, y, e
  <2>13. Machine!Binary("INDEX", x, y) = x.items[y.num + 1]
    BY <1>2, <1>8, <2>1 DEF Machine!Binary
  <2> QED BY <2>3, <2>4, <2>7, <2>12, <2>13 DEF Computes, o, x, y
<1>9. \/ l.tag # "VECTOR" \/ r.tag # "NUMBER" \/ r.v < 0 \/ r.v >= Len(s)
      \/ r.v >= 0 /\ r.v < Len(s)
  BY <1>2, <1>4
<1> HIDE DEF s, o
<1> QED BY <1>5, <1>6, <1>7, <1>8, <1>9 DEF o

\* An operator of two operands computes what it promises, but that NEQ is EQ.
LEMMA BinaryDenotes ==
  ASSUME NEW h, NEW l, NEW r, Pair(h, l, r), NEW op \in BinOp
  PROVE  Computes(h, l, r, op, HandleBinary(h, l, r, op))
<1>1. CASE op \in ArithmeticOp \cup CompareOp \cup EqualityOp \cup LogicOp
  BY <1>1, ArithmeticDenotes, CompareDenotes, EqualityDenotes, LogicDenotes
<1>2. CASE op \in {"APPEND", "CONCAT", "INDEX"}
  BY <1>2, AppendDenotes, ConcatDenotes, IndexDenotes
<1> QED BY <1>1, <1>2 DEF BinOp

-----------------------------------------------------------------------------
\* What the machine sees of a state.

\* The frames: the code that is executed is that of the current one.
LEMMA FramesSeen ==
  ASSUME IInv, status = "running"
  PROVE  /\ Len(PlainFrames) = Len(rpStack) /\ Len(rpStack) \in Nat /\ Len(rpStack) >= 1
         /\ Len(rpStack) = Len(spStack) /\ Len(rpStack) = Len(pcStack)
         /\ Machine!Last(PlainFrames)
              = [fn |-> fn, base |-> Last(spStack), ret |-> Last(pcStack)]
         /\ Machine!Inst = Inst
<1>1. /\ rpStack \in Seq(Nat) /\ spStack \in Seq(Int) /\ pcStack \in Seq(Nat)
      /\ Len(rpStack) = Len(pcStack) /\ Len(rpStack) = Len(spStack)
      /\ rpStack # <<>> /\ fn = rpStack[Len(rpStack)]
  BY DEF IInv, TypeOK, FramesMatchCode
<1>2. Len(rpStack) \in Nat /\ Len(rpStack) >= 1
  BY <1>1
<1>3. /\ Len(PlainFrames) = Len(rpStack)
      /\ PlainFrames[Len(rpStack)]
           = [fn |-> fn, base |-> spStack[Len(rpStack)], ret |-> pcStack[Len(rpStack)]]
  BY <1>1, <1>2 DEF PlainFrames
<1>4. Machine!Last(PlainFrames) = [fn |-> fn, base |-> Last(spStack), ret |-> Last(pcStack)]
  BY <1>1, <1>3 DEF Machine!Last, Last
<1> QED BY <1>1, <1>2, <1>3, <1>4 DEF Machine!Inst, Inst, Code


LEMMA SameEnds ==
  \A s : Machine!Front(s) = Front(s) /\ Machine!Last(s) = Last(s)
  BY DEF Machine!Front, Machine!Last, Front, Last

\* Every slot holds a plain value, or owns a live box.
LEMMA AllSound ==
  ASSUME NEW h, NEW s \in Seq(ValuePair), AllLive(h, s)
  PROVE  \A i \in 1..Len(s) : Sound(h, s[i])
  BY DEF AllLive, Sound

\* The instruction that is fetched is the machine's.
LEMMA InstSeen ==
  ASSUME OInv, NEW op, Fetched(op)
  PROVE  /\ status = "running" /\ Machine!Inst = Inst /\ Inst.op = op /\ pc \in Nat
         /\ op \in ImmediateOp => Inst.imm \in Int
         /\ Good(heap) /\ Saved \in Seq(ValuePair) /\ AllLive(heap, Saved)
         /\ Owned(heap, Saved) /\ Operands = Saved
         /\ PlainStack = DenoteAll(heap, Saved) /\ Len(PlainStack) = Len(Saved)
         /\ Len(Saved) \in Nat
         /\ \A n \in 0..Len(Saved) : Machine!Executing(op, n)
<1>1. IInv
  BY DEF OInv
<1>2. /\ status = "running" /\ pc \in Nat /\ Inst.op = op
      /\ op \in ImmediateOp => Inst.imm \in Int
  BY <1>1, FetchedInst
<1>3. /\ Good(heap) /\ Saved \in Seq(ValuePair) /\ AllLive(heap, Saved)
      /\ Owned(heap, Saved) /\ Operands = Saved
  BY <1>2, RunningOwned DEF Owned
<1>4. PlainStack = DenoteAll(heap, Saved)
  BY <1>2 DEF PlainStack
<1>5. Len(PlainStack) = Len(Saved) /\ Len(Saved) \in Nat
  BY <1>3, <1>4, DenoteSeq
<1>6. Machine!Inst = Inst
  BY <1>1, <1>2, FramesSeen
<1>7. \A n \in 0..Len(Saved) : Machine!Executing(op, n)
  BY <1>2, <1>5, <1>6 DEF Machine!Executing
<1> QED BY <1>2, <1>3, <1>4, <1>5, <1>6, <1>7

LEMMA TopSeen ==
  ASSUME OInv, StackDiscipline, NEW op \in ReadsTop, Fetched(op)
  PROVE  /\ Sound(heap, top) /\ stack \in Seq(ValuePair) /\ AllLive(heap, stack)
         /\ Len(stack) \in Nat /\ Len(Saved) = Len(stack) + 1
         /\ PlainStack = Append(DenoteAll(heap, stack), Denote(heap, top))
         /\ Machine!Top = Denote(heap, top) /\ Machine!Rest = DenoteAll(heap, stack)
         /\ Machine!Executing(op, 1)
<1>1. /\ Saved = Append(stack, top) /\ stack \in Seq(ValuePair) /\ top \in ValuePair
      /\ Owned(heap, stack) /\ (isAllocated(top) => Live(heap, top))
  BY TopOwned
<1>2. Len(stack) \in Nat /\ Len(Saved) = Len(stack) + 1 /\ Saved # <<>>
  BY <1>1, AppendProperties, LenProperties
<1>3. Front(Saved) = stack /\ Last(Saved) = top
  BY <1>1 DEF Front, Last
<1>4. /\ PlainStack = DenoteAll(heap, Saved) /\ Saved \in Seq(ValuePair)
      /\ \A n \in 0..Len(Saved) : Machine!Executing(op, n)
  BY InstSeen
<1>5. PlainStack = Append(DenoteAll(heap, stack), Denote(heap, top))
  BY <1>1, <1>4, DenoteAppend
<1>6. Machine!Top = Denote(heap, top) /\ Machine!Rest = DenoteAll(heap, stack)
  BY <1>2, <1>3, <1>4, DenoteFront, SameEnds DEF Machine!Top, Machine!Rest
<1>7. Machine!Executing(op, 1)
  BY <1>2, <1>4
<1> QED BY <1>1, <1>2, <1>5, <1>6, <1>7 DEF Sound, Owned

LEMMA SecondSeen ==
  ASSUME OInv, StackDiscipline, NEW op \in ReadsTop, Fetched(op), stack # <<>>
  PROVE  /\ Pair(heap, Last(stack), top)
         /\ Front(stack) \in Seq(ValuePair) /\ AllLive(heap, Front(stack))
         /\ Machine!Second = Denote(heap, Last(stack))
         /\ Machine!Front(Machine!Rest) = DenoteAll(heap, Front(stack))
         /\ Machine!Executing(op, 2)
<1>1. /\ Sound(heap, top) /\ stack \in Seq(ValuePair) /\ Len(Saved) = Len(stack) + 1
      /\ Machine!Rest = DenoteAll(heap, stack) /\ Len(stack) \in Nat
  BY TopSeen
<1>2. /\ Last(stack) \in ValuePair /\ Front(stack) \in Seq(ValuePair)
      /\ Owned(heap, Front(stack))
      /\ isAllocated(Last(stack)) => Live(heap, Last(stack))
      /\ Owned(heap, <<Last(stack), top>>) /\ Good(heap)
  BY BelowTopOwned, TopOwned
<1>3. Len(stack) >= 1
  BY <1>1
<1>4. Machine!Executing(op, 2)
  BY <1>1, <1>3, InstSeen
<1>5. /\ Machine!Second = Denote(heap, Last(stack))
      /\ Machine!Front(Machine!Rest) = DenoteAll(heap, Front(stack))
  BY <1>1, DenoteFront, SameEnds DEF Machine!Second
<1> QED BY <1>1, <1>2, <1>4, <1>5 DEF Pair, Sound, Owned

\* What is not on the stack keeps its meaning.
LEMMA OthersMean ==
  ASSUME OInv, NEW P, P \subseteq Pointers(Operands), NEW h, Evolves(heap, h, P)
  PROVE  /\ DenoteAll(h, globals) = PlainGlobals
         /\ \A i \in 1..Len(results) : Denote(h, results[i].val) = Denote(heap, results[i].val)
<1>1. /\ Good(heap) /\ P \cap ElementPointers(heap) = {}
      /\ Pointers(globals) \cap P = {} /\ Pointers(ReturnedValues) \cap P = {}
      /\ AllLive(heap, globals) /\ AllLive(heap, ReturnedValues)
  BY DEF OInv, OwnedNow, Parts, Apart, Owned
<1>2. /\ globals \in Seq(ValuePair) /\ ReturnedValues \in Seq(ValuePair)
      /\ Len(ReturnedValues) = Len(results)
  BY SlotTypes DEF OInv
<1>3. DenoteAll(h, globals) = PlainGlobals
  BY <1>1, <1>2, EvolvesValues DEF PlainGlobals
<1>4. DenoteAll(h, ReturnedValues) = DenoteAll(heap, ReturnedValues)
  BY <1>1, <1>2, EvolvesValues
<1>5. \A i \in 1..Len(results) : Denote(h, results[i].val) = Denote(heap, results[i].val)
  <2> TAKE i \in 1..Len(results)
  <2>1. ReturnedValues[i] = results[i].val
    BY DEF ReturnedValues
  <2>2. /\ DenoteAll(h, ReturnedValues)[i] = Denote(h, ReturnedValues[i])
        /\ DenoteAll(heap, ReturnedValues)[i] = Denote(heap, ReturnedValues[i])
    BY <1>2, DenoteSeq
  <2> QED BY <1>4, <2>1, <2>2
<1> QED BY <1>3, <1>5

\* The call of eval ends, with x.
LEMMA StoppedMeans ==
  ASSUME OInv, NEW P, P \subseteq Pointers(Operands), NEW h, Evolves(heap, h, P),
         NEW how, NEW x \in ValuePair, heap' = h,
         status' = "idle", results' = Append(results, [how |-> how, val |-> x]),
         functions' = functions, NoLocals
  PROVE  Machine!Stopped(how, Denote(h, x))
<1>1. pc' = 0 /\ rpStack' = <<>>
  BY DEF NoLocals
<1>2. PlainStack' = <<>>
  BY DEF PlainStack
<1>3. PlainFrames' = <<>>
  BY <1>1 DEF PlainFrames
<1>4. PlainResults' = Append(PlainResults, [how |-> how, val |-> Denote(h, x)])
  <2> DEFINE o == [how |-> how, val |-> x]
             q == [how |-> how, val |-> Denote(h, x)]
             n == Len(results)
             see(r, g) == [i \in 1..Len(r) |-> [how |-> r[i].how, val |-> Denote(g, r[i].val)]]
  <2>1. results \in Seq(Outcome) /\ n \in Nat
    BY LenProperties DEF OInv, IInv, TypeOK, Outcome
  <2>2. Append(results, o) \in Seq(Outcome \cup {o}) /\ Len(Append(results, o)) = n + 1
        /\ Append(results, o)[n + 1] = o
        /\ \A i \in 1..n : Append(results, o)[i] = results[i]
    <3>1. results \in Seq(Outcome \cup {o}) /\ o \in Outcome \cup {o}
      BY <2>1
    <3> HIDE DEF o
    <3> QED BY <3>1, AppendProperties
  <2>3. PlainResults = see(results, heap) /\ PlainResults' = see(results', heap')
    BY DEF PlainResults
  <2>4. see(results, heap) = see(results, h)
    <3>1. \A i \in 1..Len(results) : Denote(h, results[i].val) = Denote(heap, results[i].val)
      BY OthersMean
    <3> QED BY <3>1
  <2>5. see(Append(results, o), h) = Append(see(results, h), q)
    <3> DEFINE r == Append(results, o)
    <3>1. \A i \in 1..n : r[i] = results[i]
      BY <2>2
    <3>2. Len(r) = n + 1 /\ r[n + 1] = o
      BY <2>2
    <3>3. q = [how |-> o.how, val |-> Denote(h, o.val)]
      OBVIOUS
    <3> HIDE DEF r, o, q
    <3> QED BY <2>1, <3>1, <3>2, <3>3
  <2> HIDE DEF see, o, q
  <2> QED BY <2>3, <2>4, <2>5 DEF o, q
<1> QED BY <1>1, <1>2, <1>3, <1>4 DEF Machine!Stopped

LEMMA LeaveMeans ==
  ASSUME OInv, NEW P, P \subseteq Pointers(Operands), NEW h, Evolves(heap, h, P),
         NEW how, NEW x \in ValuePair, Leave(how, x, h)
  PROVE  Machine!Stopped(how, Denote(h, x)) /\ PlainGlobals' = PlainGlobals
<1>1. /\ status' = "idle" /\ results' = Append(results, [how |-> how, val |-> x])
      /\ heap' = h /\ globals' = globals /\ functions' = functions /\ NoLocals
  BY DEF Leave
<1>2. PlainGlobals' = PlainGlobals
  BY <1>1, OthersMean DEF PlainGlobals
<1> QED BY <1>1, <1>2, StoppedMeans

\* An exception is a refusal.
LEMMA ThrowMeans ==
  ASSUME OInv, NEW P, P \subseteq Pointers(Operands), NEW h, Evolves(heap, h, P), Throw(h)
  PROVE  Machine!Refuse
<1>1. Good(h)
  BY DEF Evolves, Moves
<1>2. Denote(h, Undef) = Machine!Undefined
  BY <1>1, ScalarDenotes
<1>3. Machine!Stopped("throw", Machine!Undefined) /\ PlainGlobals' = PlainGlobals
  BY <1>2, LeaveMeans, UndefType DEF Throw
<1> QED BY <1>3 DEF Machine!Refuse

LEMMA ThrowHereMeans ==
  ASSUME OInv, Throw(heap)
  PROVE  Machine!Refuse
<1>1. Evolves(heap, heap, {}) /\ {} \subseteq Pointers(Operands)
  BY EvolvesItself DEF OInv, OwnedNow
<1> QED BY <1>1, ThrowMeans

\* The call of eval goes on, with the slots s; d is what they mean.
LEMMA ToMeans ==
  ASSUME OInv, status = "running", status' = "running",
         UNCHANGED <<functions, results, rpStack, spStack, pcStack>>,
         NEW P, P \subseteq Pointers(Saved), Evolves(heap, heap', P),
         NEW target, pc' = target, NEW s, Saved' = s, NEW d, DenoteAll(heap', s) = d
  PROVE  /\ Machine!To(target, d)
         /\ globals' = globals => Machine!Go(target, d)
<1>1. P \subseteq Pointers(Operands)
  BY DEF Operands
<1>2. PlainResults' = PlainResults
  <2>1. \A i \in 1..Len(results) :
          Denote(heap', results[i].val) = Denote(heap, results[i].val)
    BY <1>1, OthersMean
  <2>2. PlainResults' = [i \in 1..Len(results) |->
                           [how |-> results[i].how, val |-> Denote(heap', results[i].val)]]
    BY DEF PlainResults
  <2> QED BY <2>1, <2>2 DEF PlainResults
<1>3. PlainStack' = d
  BY DEF PlainStack
<1>4. PlainFrames' = PlainFrames
  BY DEF PlainFrames
<1>5. Machine!To(target, d)
  BY <1>2, <1>3, <1>4 DEF Machine!To
<1>6. globals' = globals => PlainGlobals' = PlainGlobals
  BY <1>1, OthersMean DEF PlainGlobals
<1> QED BY <1>5, <1>6 DEF Machine!Go

LEMMA NotElements ==
  ASSUME OInv, status = "running", NEW P, P \subseteq Pointers(Saved)
  PROVE  P \cap ElementPointers(heap) = {}
  BY RunningOwned DEF Owned

\* The value that an operation on the boxes P computes goes on top of s.
LEMMA FinishMeans ==
  ASSUME OInv, status = "running", NEW P, P \subseteq Pointers(Saved),
         NEW r, Evolves(heap, r.heap, P),
         NEW s \in Seq(ValuePair), AllLive(heap, s), Pointers(s) \cap P = {},
         NEW v, r.exit = "ok" => r.val \in ValuePair /\ Denote(r.heap, r.val) = v,
         Finish(r, s, FALSE), status' # "ub"
  PROVE  Machine!Refuse \/ Machine!Step(Append(DenoteAll(heap, s), v))
<1>1. CASE Throw(r.heap)
  BY <1>1, ThrowMeans DEF Operands
<1>2. CASE Undefined
  BY <1>2 DEF Undefined
<1>3. CASE r.exit = "ok" /\ Done(r.heap, r.val, s, FALSE)
  <2>1. /\ heap' = r.heap /\ status' = "running" /\ pc' = pc + 1 /\ globals' = globals
        /\ UNCHANGED <<functions, results, rpStack, spStack, pcStack>>
        /\ Saved' = Append(s, r.val)
    BY <1>3 DEF Done, host, Saved, SaveTop, Goto
  <2>2. DenoteAll(r.heap, Append(s, r.val)) = Append(DenoteAll(r.heap, s), v)
    BY <1>3, DenoteAppend
  <2>3. DenoteAll(r.heap, s) = DenoteAll(heap, s)
    BY NotElements, EvolvesValues DEF OInv, OwnedNow
  <2>4. DenoteAll(heap', Append(s, r.val)) = Append(DenoteAll(heap, s), v)
    BY <2>1, <2>2, <2>3
  <2>5. Machine!Go(pc + 1, Append(DenoteAll(heap, s), v))
    BY <2>1, <2>4, ToMeans
  <2> QED BY <2>5 DEF Machine!Step
<1> QED BY <1>1, <1>2, <1>3 DEF Finish

\* The slots s are what is left: the top is taken from them.
LEMMA TakeTopMeans ==
  ASSUME OInv, status = "running", ~notop, NEW P, P \subseteq Pointers(Saved),
         NEW h, Evolves(heap, h, P), NEW target,
         NEW s \in Seq(ValuePair), s # <<>>, AllLive(heap, s), Pointers(s) \cap P = {},
         TakeTop(s, h, target)
  PROVE  /\ Machine!To(target, DenoteAll(heap, s))
         /\ globals' = globals => Machine!Go(target, DenoteAll(heap, s))
<1>1. Saved' = s /\ heap' = h /\ status' = "running" /\ results' = results
  BY TakeTopSaved
<1>2. pc' = target /\ UNCHANGED <<functions, rpStack, spStack, pcStack>>
  BY DEF TakeTop, Goto, host
<1>3. DenoteAll(heap', s) = DenoteAll(heap, s)
  BY <1>1, NotElements, EvolvesValues DEF OInv, OwnedNow
<1> QED BY <1>1, <1>2, <1>3, ToMeans

LEMMA PopIntoMeans ==
  ASSUME OInv, status = "running", ~notop, NEW P, P \subseteq Pointers(Saved),
         NEW h, Evolves(heap, h, P), NEW target,
         NEW s \in Seq(ValuePair), AllLive(heap, s), Pointers(s) \cap P = {},
         PopInto(s, h, target)
  PROVE  Machine!Refuse \/ Machine!Go(target, DenoteAll(heap, s))
<1>1. CASE s = <<>> /\ Throw(h)
  BY <1>1, ThrowMeans DEF Operands
<1>2. CASE TakeTop(s, h, target) /\ globals' = globals
  <2>1. s # <<>>
    BY <1>2 DEF TakeTop
  <2> QED BY <1>2, <2>1, TakeTopMeans
<1> QED BY <1>1, <1>2 DEF PopInto

\* A scalar on top of s.
LEMMA ScalarMeans ==
  ASSUME OInv, status = "running", NEW x, Sound(heap, x), ~isAllocated(x),
         NEW s \in Seq(ValuePair), AllLive(heap, s), NEW n, n = FALSE,
         Done(heap, x, s, n), status' # "ub"
  PROVE  Machine!Refuse \/ Machine!Step(Append(DenoteAll(heap, s), Denote(heap, x)))
<1>1. Finish(Ok(heap, x), s, FALSE) /\ Ok(heap, x).heap = heap /\ Ok(heap, x).val = x
  BY DEF Finish, Ok
<1>2. Evolves(heap, heap, {})
  BY EvolvesItself DEF OInv, OwnedNow
<1> DEFINE none == {}
           r == Ok(heap, x)
           v == Denote(heap, x)
<1>3. /\ none \subseteq Pointers(Saved) /\ Pointers(s) \cap none = {}
      /\ Evolves(heap, r.heap, none) /\ r.val \in ValuePair /\ Denote(r.heap, r.val) = v
      /\ Finish(r, s, FALSE)
  BY <1>1, <1>2 DEF Sound
<1> HIDE DEF none, r, v
<1>4. Machine!Refuse \/ Machine!Step(Append(DenoteAll(heap, s), v))
  BY <1>3, FinishMeans
<1> QED BY <1>4 DEF v

LEMMA LocalIs ==
  ASSUME OInv, status = "running"
  PROVE  /\ \A i : Machine!Local(i) = Last(spStack) + i + 1
         /\ Last(spStack) \in Int
<1>1. Machine!Last(PlainFrames).base = Last(spStack)
  BY FramesSeen DEF OInv
<1>2. Last(spStack) \in Int
  BY Running DEF OInv
<1> QED BY <1>1, <1>2 DEF Machine!Local

\* A copy of x on top of the others.
LEMMA CopyMeans ==
  ASSUME OInv, status = "running", NEW x, Sound(heap, x), Push(Copy(heap, x)),
         status' # "ub"
  PROVE  Machine!Refuse \/ Machine!Step(Append(PlainStack, Denote(heap, x)))
<1> DEFINE r == Copy(heap, x)
           s == Saved
           none == {}
           v == Denote(heap, x)
<1>1. Good(heap) /\ s \in Seq(ValuePair) /\ AllLive(heap, s)
  BY RunningOwned DEF Owned
<1>2. Evolves(heap, r.heap, none) /\ r.val \in ValuePair /\ Denote(r.heap, r.val) = v
  BY <1>1, CopyEvolves, CopyDenotes DEF Sound
<1>3. none \subseteq Pointers(Saved) /\ Pointers(s) \cap none = {} /\ Finish(r, s, FALSE)
  BY DEF Push
<1>4. PlainStack = DenoteAll(heap, s)
  BY DEF PlainStack
<1> HIDE DEF r, s, none, v
<1>5. Machine!Refuse \/ Machine!Step(Append(DenoteAll(heap, s), v))
  BY <1>1, <1>2, <1>3, FinishMeans
<1> QED BY <1>4, <1>5 DEF v

-----------------------------------------------------------------------------
\* Each instruction is a step of the machine, or refused.

LEMMA GetIMeans ==
  ASSUME OInv, GetI, status' # "ub"
  PROVE  Machine!Next
<1>1. /\ status = "running" /\ Machine!Inst = Inst /\ Inst.imm \in Int
      /\ Saved \in Seq(ValuePair) /\ AllLive(heap, Saved)
      /\ PlainStack = DenoteAll(heap, Saved) /\ Len(PlainStack) = Len(Saved)
      /\ Len(Saved) \in Nat /\ Machine!Executing("GetI", 0)
  BY InstSeen DEF GetI, ImmediateOp
<1> DEFINE index == Last(spStack) + Inst.imm
<1>2. CASE Throw(heap)
  BY <1>2, ThrowHereMeans DEF Machine!Next
<1>3. CASE index \in 0..(Len(Saved) - 1) /\ Push(Copy(heap, Saved[index + 1]))
  <2>1. Machine!Local(Inst.imm) = index + 1 /\ index + 1 \in 1..Len(Saved)
    BY <1>1, <1>3, LocalIs
  <2> HIDE DEF index
  <2>2. Sound(heap, Saved[index + 1])
    BY <1>1, <2>1, AllSound
  <2>3. Machine!Refuse \/ Machine!Step(Append(PlainStack, Denote(heap, Saved[index + 1])))
    BY <1>1, <1>3, <2>2, CopyMeans
  <2>4. PlainStack[index + 1] = Denote(heap, Saved[index + 1])
    BY <1>1, <2>1, DenoteSeq
  <2>5. Machine!IsLocal(Machine!Inst.imm) /\ Machine!Local(Machine!Inst.imm) = index + 1
    BY <1>1, <2>1 DEF Machine!IsLocal
  <2> QED BY <1>1, <2>3, <2>4, <2>5 DEF Machine!Next, Machine!Straight
<1> QED BY <1>2, <1>3 DEF GetI

LEMMA AddIMeans ==
  ASSUME OInv, StackDiscipline, AddI, status' # "ub"
  PROVE  Machine!Next
<1>1. Machine!Inst = Inst /\ Inst.imm \in Int /\ status = "running"
  BY InstSeen DEF AddI, ImmediateOp
<1>2. /\ Sound(heap, top) /\ stack \in Seq(ValuePair) /\ AllLive(heap, stack)
      /\ Machine!Top = Denote(heap, top) /\ Machine!Rest = DenoteAll(heap, stack)
      /\ Machine!Executing("AddI", 1)
  BY TopSeen DEF AddI, ReadsTop
<1>3. Good(heap) /\ notop = FALSE
  BY TopOwned DEF AddI, ReadsTop
<1>4. CASE Throw(heap)
  BY <1>4, ThrowHereMeans DEF Machine!Next
<1>5. CASE top.tag = "NUMBER" /\ Done(heap, Num(top.v + Inst.imm), stack, notop)
  <2>1. top.v + Inst.imm \in Int /\ Denote(heap, top).num = top.v
    BY <1>1, <1>2, <1>3, <1>5, Numbers DEF Sound, ValuePair
  <2>2. /\ Sound(heap, Num(top.v + Inst.imm)) /\ ~isAllocated(Num(top.v + Inst.imm))
        /\ Denote(heap, Num(top.v + Inst.imm)) = Machine!Number(top.v + Inst.imm)
    BY <1>3, <2>1, ScalarDenotes, Scalars
  <2>3. Machine!Refuse
        \/ Machine!Step(Append(DenoteAll(heap, stack), Machine!Number(top.v + Inst.imm)))
    BY <1>1, <1>2, <1>3, <1>5, <2>2, ScalarMeans
  <2> QED BY <1>1, <1>2, <2>1, <2>3 DEF Machine!Next, Machine!Straight
<1> QED BY <1>4, <1>5 DEF AddI

LEMMA JumpIMeans ==
  ASSUME OInv, JumpI
  PROVE  Machine!Next
<1>1. /\ Machine!Inst = Inst /\ status = "running" /\ Good(heap)
      /\ PlainStack = DenoteAll(heap, Saved) /\ Machine!Executing("JumpI", 0)
  BY InstSeen DEF JumpI
<1>2. CASE Throw(heap)
  BY <1>2, ThrowHereMeans DEF Machine!Next
<1>3. CASE /\ Goto(pc + Inst.imm)
           /\ UNCHANGED operands /\ UNCHANGED host /\ UNCHANGED <<heap, globals>>
  <2>1. /\ pc' = pc + Inst.imm /\ Saved' = Saved /\ status' = "running" /\ heap' = heap
        /\ UNCHANGED <<functions, results, rpStack, spStack, pcStack>> /\ globals' = globals
    BY <1>1, <1>3 DEF Goto, operands, host, Saved, SaveTop
  <2>2. {} \subseteq Pointers(Saved) /\ Evolves(heap, heap', {})
    BY <1>1, <2>1, EvolvesItself
  <2>3. DenoteAll(heap', Saved) = PlainStack
    BY <1>1, <2>1
  <2>4. Machine!Go(pc + Inst.imm, PlainStack)
    BY <1>1, <2>1, <2>2, <2>3, ToMeans
  <2> QED BY <1>1, <2>4 DEF Machine!Next, Machine!Branch
<1> QED BY <1>2, <1>3 DEF JumpI

LEMMA JumpFalseIMeans ==
  ASSUME OInv, StackDiscipline, JumpFalseI
  PROVE  Machine!Next
<1>1. Machine!Inst = Inst /\ status = "running"
  BY InstSeen DEF JumpFalseI
<1>2. /\ Sound(heap, top) /\ stack \in Seq(ValuePair) /\ AllLive(heap, stack)
      /\ Machine!Top = Denote(heap, top) /\ Machine!Rest = DenoteAll(heap, stack)
      /\ Machine!Executing("JumpFalseI", 1)
  BY TopSeen DEF JumpFalseI, ReadsTop
<1>3. Good(heap) /\ notop = FALSE
  BY TopOwned DEF JumpFalseI, ReadsTop
<1>4. CASE Throw(heap)
  BY <1>4, ThrowHereMeans DEF Machine!Next
<1> DEFINE target == IF top.v = 1 THEN pc + 1 ELSE pc + Inst.imm
           none == {}
<1>5. CASE top.tag = "BOOLEAN" /\ PopInto(stack, heap, target)
  <2>1. none \subseteq Pointers(Saved) /\ Pointers(stack) \cap none = {}
        /\ Evolves(heap, heap, none)
    BY <1>3, EvolvesItself
  <2>2. target = IF Machine!Top.num = 1 THEN pc + 1 ELSE pc + Machine!Inst.imm
    BY <1>1, <1>2, <1>3, <1>5, Numbers
  <2> HIDE DEF target, none
  <2>3. Machine!Refuse \/ Machine!Go(target, DenoteAll(heap, stack))
    BY <1>1, <1>2, <1>3, <1>5, <2>1, PopIntoMeans
  <2> QED BY <1>2, <2>2, <2>3 DEF Machine!Next, Machine!Branch
<1> QED BY <1>4, <1>5 DEF JumpFalseI

LEMMA PopMeans ==
  ASSUME OInv, StackDiscipline, Pop
  PROVE  Machine!Next
<1>1. /\ stack \in Seq(ValuePair) /\ AllLive(heap, stack) /\ top \in ValuePair
      /\ Machine!Rest = DenoteAll(heap, stack) /\ Machine!Executing("Pop", 1)
  BY TopSeen DEF Pop, ReadsTop, Sound
<1>2. /\ status = "running" /\ Good(heap) /\ notop = FALSE /\ Operands = Saved
      /\ Pointers(Saved) = Pointers(stack) \cup PointerOf(top)
      /\ PointerOf(top) \cap Pointers(stack) = {}
      /\ PointerOf(top) \cap ElementPointers(heap) = {}
  BY TopOwned DEF Pop, ReadsTop
<1> DEFINE d == Drop(heap, top)
           h == d.heap
           P == PointerOf(top)
<1>3. Evolves(heap, h, P)
  BY <1>1, <1>2, DropEvolves
<1>4. P \subseteq Pointers(Saved) /\ Pointers(stack) \cap P = {}
  BY <1>2
<1>5. d.exit = "ok"
  BY <1>2, DropTransfers, TopOwned DEF Pop, ReadsTop
<1>6. PopInto(stack, h, pc + 1)
  BY <1>5 DEF Pop
<1> HIDE DEF d, h, P
<1>7. Machine!Refuse \/ Machine!Go(pc + 1, DenoteAll(heap, stack))
  BY <1>1, <1>2, <1>3, <1>4, <1>6, PopIntoMeans
<1> QED BY <1>1, <1>7 DEF Machine!Next, Machine!Straight, Machine!Step

LEMMA DupMeans ==
  ASSUME OInv, StackDiscipline, Dup, status' # "ub"
  PROVE  Machine!Next
<1>1. /\ Sound(heap, top) /\ Machine!Top = Denote(heap, top) /\ Machine!Executing("Dup", 1)
  BY TopSeen DEF Dup, ReadsTop
<1>2. status = "running"
  BY DEF Dup, Fetched
<1>3. Machine!Refuse \/ Machine!Step(Append(PlainStack, Machine!Top))
  BY <1>1, <1>2, CopyMeans DEF Dup
<1> QED BY <1>1, <1>3 DEF Machine!Next, Machine!Straight

LEMMA BuiltinUnaryOpMeans ==
  ASSUME OInv, StackDiscipline, BuiltinUnaryOp, status' # "ub"
  PROVE  Machine!Next
<1>1. /\ Sound(heap, top) /\ stack \in Seq(ValuePair) /\ AllLive(heap, stack)
      /\ Machine!Top = Denote(heap, top) /\ Machine!Rest = DenoteAll(heap, stack)
      /\ Machine!Executing("BuiltinUnaryOp", 1)
  BY TopSeen DEF BuiltinUnaryOp, ReadsTop
<1>2. /\ status = "running" /\ Good(heap) /\ notop = FALSE /\ top \in ValuePair
      /\ Pointers(Saved) = Pointers(stack) \cup PointerOf(top)
      /\ PointerOf(top) \cap Pointers(stack) = {}
      /\ PointerOf(top) \cap ElementPointers(heap) = {}
  BY TopOwned DEF BuiltinUnaryOp, ReadsTop
<1>3. Inst.unary \in BuiltinUnary /\ Machine!Inst = Inst
  BY FetchedInst, InstSeen DEF BuiltinUnaryOp, OInv
<1> DEFINE r == HandleUnary(heap, top, Inst.unary)
           P == PointerOf(top)
           v == Machine!Unary(Inst.unary, Denote(heap, top))
<1>4. Evolves(heap, r.heap, P)
  BY <1>2, <1>3, UnaryEvolves
<1>5. r.val \in ValuePair
  BY <1>2, <1>3, HandleUnaryOK DEF IsOutcome, Good
<1>6. r.exit = "ok" => Denote(r.heap, r.val) = v
  BY <1>1, <1>2, <1>3, UnaryDenotes
<1>7. P \subseteq Pointers(Saved) /\ Pointers(stack) \cap P = {}
  BY <1>2
<1>8. Finish(r, stack, FALSE)
  BY <1>2 DEF BuiltinUnaryOp
<1> HIDE DEF r, P, v
<1>9. Machine!Refuse \/ Machine!Step(Append(DenoteAll(heap, stack), v))
  BY <1>1, <1>2, <1>4, <1>5, <1>6, <1>7, <1>8, FinishMeans
<1>10. v = Machine!Unary(Machine!Inst.unary, Machine!Top)
  BY <1>1, <1>3 DEF v
<1> QED BY <1>1, <1>9, <1>10 DEF Machine!Next, Machine!Straight

LEMMA BinaryOpMeans ==
  ASSUME OInv, StackDiscipline, BinaryOp, status' # "ub"
  PROVE  Machine!Next
<1>1. CASE Throw(heap)
  BY <1>1, ThrowHereMeans DEF Machine!Next
<1>2. CASE /\ stack # <<>>
           /\ Finish(HandleBinary(heap, Last(stack), top, Inst.binary), Front(stack), notop)
  <2>1. /\ Pair(heap, Last(stack), top)
        /\ Front(stack) \in Seq(ValuePair) /\ AllLive(heap, Front(stack))
        /\ Machine!Second = Denote(heap, Last(stack))
        /\ Machine!Front(Machine!Rest) = DenoteAll(heap, Front(stack))
        /\ Machine!Executing("BinaryOp", 2)
    BY <1>2, SecondSeen DEF BinaryOp, ReadsTop
  <2>2. Machine!Top = Denote(heap, top)
    BY TopSeen DEF BinaryOp, ReadsTop
  <2>3. /\ status = "running" /\ Good(heap) /\ notop = FALSE /\ top \in ValuePair
        /\ Pointers(Saved) = Pointers(stack) \cup PointerOf(top)
        /\ PointerOf(top) \cap Pointers(stack) = {}
    BY TopOwned DEF BinaryOp, ReadsTop
  <2>4. /\ Last(stack) \in ValuePair /\ Owned(heap, <<Last(stack), top>>)
        /\ Pointers(stack) = Pointers(Front(stack)) \cup PointerOf(Last(stack))
        /\ PointerOf(Last(stack)) \cap Pointers(Front(stack)) = {}
    BY <1>2, BelowTopOwned DEF BinaryOp, ReadsTop
  <2>5. Inst.binary \in BinOp /\ Machine!Inst = Inst
    BY FetchedInst, InstSeen DEF BinaryOp, OInv
  <2> DEFINE l == Last(stack)
             s == Front(stack)
             op == Inst.binary
             r == HandleBinary(heap, l, top, op)
             P == PointerOf(l) \cup PointerOf(top)
             v == Machine!Binary(op, Denote(heap, l), Denote(heap, top))
  <2>6. Evolves(heap, r.heap, P)
    BY <2>3, <2>4, <2>5, BinaryEvolves
  <2>7. r.val \in ValuePair
    BY <2>3, <2>4, <2>5, HandleBinaryOK DEF IsOutcome, Good
  <2>8. r.exit = "ok" => Denote(r.heap, r.val) = v
    BY <2>1, <2>5, BinaryDenotes DEF Computes
  <2>9. P \subseteq Pointers(Saved) /\ Pointers(s) \cap P = {}
    BY <2>3, <2>4
  <2>10. Finish(r, s, FALSE)
    BY <1>2, <2>3
  <2>11. s \in Seq(ValuePair) /\ AllLive(heap, s)
    BY <2>1
  <2> HIDE DEF r, P, v, s
  <2>12. Machine!Refuse \/ Machine!Step(Append(DenoteAll(heap, s), v))
    BY <2>3, <2>6, <2>7, <2>8, <2>9, <2>10, <2>11, FinishMeans
  <2>13. v = Machine!Binary(Machine!Inst.binary, Machine!Second, Machine!Top)
    BY <2>1, <2>2, <2>5 DEF v
  <2> QED BY <2>1, <2>12, <2>13 DEF Machine!Next, Machine!Straight, s
<1> QED BY <1>1, <1>2 DEF BinaryOp

LEMMA ConstNumMeans ==
  ASSUME OInv, ConstNum, status' # "ub"
  PROVE  Machine!Next
<1>1. /\ status = "running" /\ Machine!Inst = Inst /\ Inst.imm \in Int /\ Good(heap)
      /\ Saved \in Seq(ValuePair) /\ AllLive(heap, Saved)
      /\ PlainStack = DenoteAll(heap, Saved) /\ Machine!Executing("ConstNum", 0)
  BY InstSeen DEF ConstNum, ImmediateOp
<1>2. /\ Sound(heap, Num(Inst.imm)) /\ ~isAllocated(Num(Inst.imm))
      /\ Denote(heap, Num(Inst.imm)) = Machine!Number(Inst.imm)
  BY <1>1, ScalarDenotes, Scalars
<1>3. Machine!Refuse \/ Machine!Step(Append(PlainStack, Machine!Number(Machine!Inst.imm)))
  BY <1>1, <1>2, ScalarMeans DEF ConstNum
<1> QED BY <1>1, <1>3 DEF Machine!Next, Machine!Straight

LEMMA ConstMiscMeans ==
  ASSUME OInv, ConstMisc, status' # "ub"
  PROVE  Machine!Next
<1>1. /\ status = "running" /\ Machine!Inst = Inst /\ Inst.imm \in Int /\ Good(heap)
      /\ Saved \in Seq(ValuePair) /\ AllLive(heap, Saved)
      /\ PlainStack = DenoteAll(heap, Saved) /\ Machine!Executing("ConstMisc", 0)
  BY InstSeen DEF ConstMisc, ImmediateOp
<1> DEFINE x == CASE Inst.imm = 0 -> Bool(FALSE)
                  [] Inst.imm = 1 -> Bool(TRUE)
                  [] OTHER -> Undef
<1>2. Sound(heap, x) /\ ~isAllocated(x) /\ Denote(heap, x) = Machine!Constant
  <2>1. CASE Inst.imm = 0
    <3>1. x = Bool(FALSE) /\ Machine!Constant = Machine!Truth(FALSE)
      BY <1>1, <2>1 DEF Machine!Constant
    <3> QED BY <1>1, <3>1, ScalarDenotes, Scalars
  <2>2. CASE Inst.imm = 1
    <3>1. x = Bool(TRUE) /\ Machine!Constant = Machine!Truth(TRUE)
      BY <1>1, <2>2 DEF Machine!Constant
    <3> QED BY <1>1, <3>1, ScalarDenotes, Scalars
  <2>3. CASE Inst.imm # 0 /\ Inst.imm # 1
    <3>1. x = Undef /\ Machine!Constant = Machine!Undefined
      BY <1>1, <2>3 DEF Machine!Constant
    <3> QED BY <1>1, <3>1, ScalarDenotes, Scalars
  <2> QED BY <2>1, <2>2, <2>3
<1>3. Done(heap, x, Saved, FALSE)
  BY DEF ConstMisc
<1> HIDE DEF x
<1>4. Machine!Refuse \/ Machine!Step(Append(PlainStack, Machine!Constant))
  BY <1>1, <1>2, <1>3, ScalarMeans
<1> QED BY <1>1, <1>4 DEF Machine!Next, Machine!Straight

LEMMA EchoMeans ==
  ASSUME OInv, StackDiscipline, Echo, status' # "ub"
  PROVE  Machine!Next
<1>1. /\ Sound(heap, top) /\ stack \in Seq(ValuePair) /\ AllLive(heap, stack)
      /\ PlainStack = Append(DenoteAll(heap, stack), Denote(heap, top))
      /\ Machine!Executing("Echo", 1)
  BY TopSeen DEF Echo, ReadsTop
<1>2. status = "running" /\ notop = FALSE
  BY TopOwned DEF Echo, ReadsTop
<1>3. CASE Throw(heap)
  BY <1>3, ThrowHereMeans DEF Machine!Next
<1>4. CASE top.tag = "NUMBER" /\ Done(heap, top, stack, notop)
  <2>1. ~isAllocated(top)
    BY <1>4 DEF isAllocated, AllocatedTag
  <2>2. Machine!Refuse \/ Machine!Step(PlainStack)
    BY <1>1, <1>2, <1>4, <2>1, ScalarMeans
  <2> QED BY <1>1, <2>2 DEF Machine!Next, Machine!Straight
<1> QED BY <1>3, <1>4 DEF Echo

LEMMA MalformedMeans ==
  ASSUME OInv, Malformed
  PROVE  Machine!Next
  BY ThrowHereMeans DEF Malformed, Machine!Next

Overwrite(s, i, x) == [s EXCEPT ![i] = x]

LEMMA OverwriteIs ==
  ASSUME NEW s \in Seq(ValuePair), NEW i \in 1..Len(s), NEW x \in ValuePair
  PROVE  /\ Overwrite(s, i, x) \in Seq(ValuePair) /\ Len(Overwrite(s, i, x)) = Len(s)
         /\ \A j \in 1..Len(s) : Overwrite(s, i, x)[j] = IF j = i THEN x ELSE s[j]
  BY DEF Overwrite

LEMMA DenoteExcept ==
  ASSUME NEW h, NEW s \in Seq(ValuePair), NEW i \in 1..Len(s), NEW x \in ValuePair
  PROVE  /\ DenoteAll(h, Overwrite(s, i, x)) = Overwrite(DenoteAll(h, s), i, Denote(h, x))
         /\ AllLive(h, s) /\ Sound(h, x) => AllLive(h, Overwrite(s, i, x))
<1> DEFINE t == Overwrite(s, i, x)
           n == Len(s)
<1>1. t \in Seq(ValuePair) /\ Len(t) = n /\ t[i] = x /\ n \in Nat
      /\ \A j \in 1..n : j # i => t[j] = s[j]
  <2>1. t \in Seq(ValuePair) /\ Len(t) = n
        /\ \A j \in 1..n : t[j] = IF j = i THEN x ELSE s[j]
    BY OverwriteIs
  <2> HIDE DEF t
  <2> QED BY <2>1, LenProperties
<1> HIDE DEF t
<1>2. AllLive(h, s) /\ Sound(h, x) => AllLive(h, t)
  BY <1>1 DEF AllLive, Sound
<1>3. DenoteAll(h, t) = [j \in 1..n |-> Denote(h, t[j])]
  BY <1>1 DEF DenoteAll
<1>4. Overwrite(DenoteAll(h, s), i, Denote(h, x))
        = [j \in 1..n |-> IF j = i THEN Denote(h, x) ELSE Denote(h, s[j])]
  BY DEF DenoteAll, Overwrite
<1>5. \A j \in 1..n : Denote(h, t[j]) = IF j = i THEN Denote(h, x) ELSE Denote(h, s[j])
  BY <1>1
<1>6. DenoteAll(h, t) = Overwrite(DenoteAll(h, s), i, Denote(h, x))
  BY <1>3, <1>4, <1>5
<1> QED BY <1>1, <1>2, <1>6 DEF t

\* A slot below the top is overwritten with it.
LEMMA OverwriteMeans ==
  ASSUME NEW h, NEW s \in Seq(ValuePair), NEW x \in ValuePair, NEW i \in 1..Len(s),
         NEW a \in Seq(ValuePair), Len(a) = Len(s) + 1, \A j \in 1..Len(s) : a[j] = s[j]
  PROVE  Front(Overwrite(DenoteAll(h, a), i, Denote(h, x))) = DenoteAll(h, Overwrite(s, i, x))
<1> DEFINE n == Len(s)
           u == Overwrite(a, i, x)
           t == Overwrite(s, i, x)
<1>1. t \in Seq(ValuePair) /\ Len(t) = n /\ n \in Nat
      /\ \A j \in 1..n : t[j] = IF j = i THEN x ELSE s[j]
  BY OverwriteIs, LenProperties
<1>2. i \in 1..Len(a) /\ i \in 1..n
  BY <1>1
<1>3. u \in Seq(ValuePair) /\ Len(u) = n + 1
      /\ \A j \in 1..Len(a) : u[j] = IF j = i THEN x ELSE a[j]
  BY <1>2, OverwriteIs
<1>4. DenoteAll(h, u) = Overwrite(DenoteAll(h, a), i, Denote(h, x))
  BY <1>2, DenoteExcept
<1>5. \A j \in 1..n : u[j] = t[j]
  <2>1. \A j \in 1..n : j \in 1..Len(a)
    BY <1>1
  <2> HIDE DEF u, t
  <2> QED BY <1>1, <1>3, <2>1
<1> HIDE DEF u, n, t
<1>6. u # <<>> /\ n + 1 - 1 = n
  BY <1>1, <1>3
<1>7. Front(u) \in Seq(ValuePair) /\ Len(Front(u)) = Len(u) - 1
      /\ \A j \in 1..(Len(u) - 1) : Front(u)[j] = u[j]
  BY <1>3, <1>6, FrontOK
<1>8. Front(u) = t
  <2>1. Len(Front(u)) = n /\ \A j \in 1..n : Front(u)[j] = t[j]
    BY <1>1, <1>3, <1>5, <1>6, <1>7
  <2> QED BY <1>1, <1>7, <2>1, SeqEqual
<1>9. Front(DenoteAll(h, u)) = DenoteAll(h, Front(u))
  BY <1>3, <1>6, DenoteFront
<1> QED BY <1>4, <1>8, <1>9 DEF t

LEMMA SetIMeans ==
  ASSUME OInv, StackDiscipline, SetI
  PROVE  Machine!Next
<1>1. Machine!Inst = Inst /\ Inst.imm \in Int /\ status = "running"
  BY InstSeen DEF SetI, ImmediateOp
<1>2. /\ Sound(heap, top) /\ stack \in Seq(ValuePair) /\ AllLive(heap, stack)
      /\ Len(stack) \in Nat /\ Len(Saved) = Len(stack) + 1
      /\ PlainStack = Append(DenoteAll(heap, stack), Denote(heap, top))
      /\ Machine!Top = Denote(heap, top) /\ Machine!Executing("SetI", 1)
  BY TopSeen DEF SetI, ReadsTop
<1>3. /\ Good(heap) /\ notop = FALSE /\ top \in ValuePair /\ Saved = Append(stack, top)
      /\ Len(PlainStack) = Len(Saved) /\ PlainStack = DenoteAll(heap, Saved)
  BY TopOwned, InstSeen DEF SetI, ReadsTop
<1> DEFINE index == Last(spStack) + Inst.imm
           s == Overwrite(stack, index + 1, top)
           none == {}
<1>4. CASE Throw(heap)
  BY <1>4, ThrowHereMeans DEF Machine!Next
<1>5. ASSUME index \in 0..(Len(stack) - 1), TakeTop(s, heap, pc + 1), UNCHANGED globals
      PROVE  Machine!Next
  <2>1. Machine!Local(Inst.imm) = index + 1 /\ index + 1 \in 1..Len(stack)
    BY <1>1, <1>2, <1>5, LocalIs
  <2> HIDE DEF index
  <2>2. s \in Seq(ValuePair) /\ Len(s) = Len(stack) /\ AllLive(heap, s)
    BY <1>2, <1>3, <2>1, DenoteExcept, OverwriteIs
  <2>3. Front(Overwrite(PlainStack, index + 1, Machine!Top)) = DenoteAll(heap, s)
    <3>1. /\ Saved \in Seq(ValuePair) /\ Len(Saved) = Len(stack) + 1
          /\ \A j \in 1..Len(stack) : Saved[j] = stack[j]
      BY <1>2, <1>3, AppendProperties
    <3>2. Front(Overwrite(DenoteAll(heap, Saved), index + 1, Denote(heap, top)))
            = DenoteAll(heap, s)
      BY <1>2, <1>3, <2>1, <3>1, OverwriteMeans, Zenon
    <3> QED BY <1>2, <1>3, <3>2
  <2> HIDE DEF s
  <2>4. s # <<>>
    BY <1>2, <2>1, <2>2
  <2>5. none \subseteq Pointers(Saved) /\ Pointers(s) \cap none = {}
        /\ Evolves(heap, heap, none)
    BY <1>3, EvolvesItself
  <2> HIDE DEF none
  <2>6. Machine!Go(pc + 1, DenoteAll(heap, s))
    BY <1>1, <1>3, <1>5, <2>2, <2>4, <2>5, TakeTopMeans
  <2>7. Machine!IsLocal(Machine!Inst.imm) /\ Machine!Local(Machine!Inst.imm) = index + 1
    BY <1>1, <1>2, <1>3, <2>1 DEF Machine!IsLocal
  <2>8. Machine!Step(Machine!Front([PlainStack EXCEPT ![Machine!Local(Machine!Inst.imm)] = Machine!Top]))
    BY <2>3, <2>6, <2>7, SameEnds DEF Machine!Step, Overwrite
  <2> QED BY <1>2, <2>7, <2>8 DEF Machine!Next, Machine!Straight
<1> QED BY <1>4, <1>5 DEF SetI, Overwrite

LEMMA GetGlobalIMeans ==
  ASSUME OInv, GetGlobalI, status' # "ub"
  PROVE  Machine!Next
<1>1. /\ Machine!Inst = Inst /\ Inst.imm \in Int /\ status = "running"
      /\ Len(Saved) \in Nat /\ Machine!Executing("GetGlobalI", 0)
  BY InstSeen DEF GetGlobalI, ImmediateOp
<1>2. /\ globals \in Seq(ValuePair) /\ AllLive(heap, globals)
      /\ PlainGlobals = DenoteAll(heap, globals)
  BY SlotTypes DEF OInv, OwnedNow, Parts, Owned, PlainGlobals
<1> DEFINE i == Inst.imm + 1
<1>3. CASE Throw(heap)
  BY <1>3, ThrowHereMeans DEF Machine!Next
<1>4. CASE IsGlobal(Inst.imm) /\ Push(Copy(heap, globals[i]))
  <2>1. i \in 1..Len(globals) /\ Len(PlainGlobals) = Len(globals)
        /\ Machine!Inst.imm \in 0..(Len(PlainGlobals) - 1) /\ i = Machine!Inst.imm + 1
    <3>1. Len(PlainGlobals) = Len(globals) /\ Len(globals) \in Nat
      BY <1>2, DenoteSeq
    <3> QED BY <1>1, <1>4, <3>1 DEF IsGlobal
  <2> HIDE DEF i
  <2>2. Sound(heap, globals[i]) /\ PlainGlobals[i] = Denote(heap, globals[i])
    BY <1>2, <2>1, AllSound, DenoteSeq
  <2>3. Machine!Refuse \/ Machine!Step(Append(PlainStack, PlainGlobals[i]))
    BY <1>1, <1>4, <2>2, CopyMeans
  <2> QED BY <1>1, <2>1, <2>3 DEF Machine!Next, Machine!Straight
<1> QED BY <1>3, <1>4 DEF GetGlobalI

\* The global is set even when the call is then refused.
LEMMA SetGlobalIMeans ==
  ASSUME OInv, StackDiscipline, SetGlobalI
  PROVE  Machine!Next
<1>1. Machine!Inst = Inst /\ Inst.imm \in Int /\ status = "running"
  BY InstSeen DEF SetGlobalI, ImmediateOp
<1>2. /\ Sound(heap, top) /\ stack \in Seq(ValuePair) /\ AllLive(heap, stack)
      /\ Machine!Top = Denote(heap, top) /\ Machine!Rest = DenoteAll(heap, stack)
      /\ Machine!Executing("SetGlobalI", 1)
  BY TopSeen DEF SetGlobalI, ReadsTop
<1>3. Good(heap) /\ notop = FALSE /\ top \in ValuePair
  BY TopOwned DEF SetGlobalI, ReadsTop
<1> DEFINE i == Inst.imm + 1
           none == {}
<1>4. none \subseteq Pointers(Operands) /\ none \subseteq Pointers(Saved)
      /\ Pointers(stack) \cap none = {} /\ Evolves(heap, heap, none)
  BY <1>3, EvolvesItself
<1>5. ASSUME IsGlobal(Inst.imm), globals' = [globals EXCEPT ![i] = top], heap' = heap
      PROVE  PlainGlobals' = [PlainGlobals EXCEPT ![Machine!Inst.imm + 1] = Machine!Top]
  <2>1. globals \in Seq(ValuePair) /\ Len(globals) \in Nat
    BY SlotTypes, LenProperties DEF OInv
  <2>2. i \in 1..Len(globals) /\ i = Machine!Inst.imm + 1
    BY <1>1, <1>5, <2>1 DEF IsGlobal
  <2> HIDE DEF i
  <2>3. PlainGlobals' = DenoteAll(heap, Overwrite(globals, i, top))
    BY <1>5 DEF PlainGlobals, Overwrite
  <2>4. DenoteAll(heap, Overwrite(globals, i, top))
          = Overwrite(DenoteAll(heap, globals), i, Denote(heap, top))
    BY <1>3, <2>1, <2>2, DenoteExcept
  <2> QED BY <1>2, <2>2, <2>3, <2>4 DEF PlainGlobals, Overwrite
<1>6. CASE Throw(heap)
  BY <1>6, ThrowHereMeans DEF Machine!Next
<1>7. CASE /\ IsGlobal(Inst.imm) /\ globals' = [globals EXCEPT ![i] = top]
           /\ status' = "idle" /\ NoLocals /\ UNCHANGED <<functions, flag, heap>>
           /\ results' = Append(results, [how |-> "throw", val |-> Undef])
  <2>1. Machine!Stopped("throw", Denote(heap, Undef))
    <3> HIDE DEF i, none
    <3> QED BY <1>4, <1>7, UndefType, StoppedMeans
  <2>2. Machine!Stopped("throw", Machine!Undefined)
    BY <1>3, <2>1, ScalarDenotes
  <2>3. PlainGlobals' = [PlainGlobals EXCEPT ![Machine!Inst.imm + 1] = Machine!Top]
    BY <1>5, <1>7
  <2> QED BY <1>2, <2>2, <2>3 DEF Machine!Next, Machine!Refuse
<1>8. CASE /\ IsGlobal(Inst.imm) /\ globals' = [globals EXCEPT ![i] = top]
           /\ TakeTop(stack, heap, pc + 1)
  <2>1. stack # <<>> /\ heap' = heap
    BY <1>8 DEF TakeTop
  <2>2. Machine!To(pc + 1, DenoteAll(heap, stack))
    <3> HIDE DEF none
    <3> QED BY <1>1, <1>2, <1>3, <1>4, <1>8, <2>1, TakeTopMeans
  <2>3. PlainGlobals' = [PlainGlobals EXCEPT ![Machine!Inst.imm + 1] = Machine!Top]
    BY <1>5, <1>8, <2>1
  <2> QED BY <1>2, <2>2, <2>3 DEF Machine!Next, Machine!Straight
<1> QED BY <1>6, <1>7, <1>8 DEF SetGlobalI

LEMMA MakeListMeans ==
  ASSUME OInv, MakeList
  PROVE  Machine!Next
<1> DEFINE h == NewList(heap).heap
           none == {}
           r == [begin |-> 0, step |-> 0, end |-> 0]
<1>1. r \in SRange /\ Good(heap)
  BY DEF SRange, OInv, OwnedNow
<1> HIDE DEF r
<1>2. none \subseteq Pointers(Operands) /\ Evolves(heap, h, none) /\ Throw(h)
  BY <1>1, MakeEvolves DEF MakeList
<1> HIDE DEF h, none
<1> QED BY <1>2, ThrowMeans DEF Machine!Next

\* Both MakeRange and MakeList end in an exception, whatever they made.
LEMMA MakeRangeMeans ==
  ASSUME OInv, StackDiscipline, MakeRange
  PROVE  Machine!Next
<1> DEFINE n == Len(stack)
           start == stack[n - 1]
           step == Last(stack)
           parts == <<start, step, top>>
           d == DropAll(heap, parts)
           range == [begin |-> start.v, step |-> step.v, end |-> top.v]
           r == NewRange(heap, range)
           P == Pointers(parts)
           none == {}
<1>1. Good(heap) /\ Operands = Saved /\ top \in ValuePair
  BY TopOwned DEF MakeRange, ReadsTop
<1>2. ASSUME n > 1
      PROVE  /\ start \in ValuePair /\ step \in ValuePair
             /\ parts \in Seq(ValuePair) /\ Owned(heap, parts) /\ P \subseteq Pointers(Operands)
  BY <1>1, <1>2, LastThree DEF MakeRange
<1>3. \A h : Good(h) => Evolves(h, NewList(h).heap, none)
  <2>1. [begin |-> 0, step |-> 0, end |-> 0] \in SRange
    BY DEF SRange
  <2> QED BY <2>1, MakeEvolves
<1>4. CASE Throw(heap)
  BY <1>4, ThrowHereMeans DEF Machine!Next
<1>5. CASE n > 1 /\ Throw(NewList(r.heap).heap)
  <2> DEFINE h == NewList(r.heap).heap
  <2>1. range \in SRange
    BY <1>1, <1>2, <1>5 DEF SRange, ValuePair
  <2> HIDE DEF range
  <2>2. Evolves(heap, r.heap, none) /\ Good(r.heap)
    BY <1>1, <2>1, MakeEvolves DEF Evolves, Moves
  <2>3. Evolves(r.heap, h, none)
    BY <1>3, <2>2
  <2>4. none \subseteq Pointers(Operands) /\ Throw(h)
    BY <1>5
  <2> HIDE DEF none, h, r
  <2>5. Evolves(heap, h, none)
    BY <1>1, <2>2, <2>3, EvolvesChain
  <2> QED BY <2>4, <2>5, ThrowMeans DEF Machine!Next
<1>6. CASE /\ n > 1
           /\ \/ d.exit = "ok" /\ Throw(NewList(d.heap).heap)
              \/ d.exit = "throw" /\ Throw(d.heap)
              \/ d.exit = "ub" /\ Undefined
  <2> DEFINE h == NewList(d.heap).heap
  <2>1. parts \in Seq(ValuePair) /\ Owned(heap, parts) /\ P \subseteq Pointers(Operands)
    BY <1>2, <1>6
  <2> HIDE DEF parts
  <2>2. d.exit = "ok" /\ Evolves(heap, d.heap, P)
    BY <1>1, <2>1, DropAllEvolves
  <2>3. Throw(h) /\ Good(d.heap)
    BY <1>6, <2>2 DEF Evolves, Moves
  <2>4. Evolves(d.heap, h, P)
    <3>1. Evolves(d.heap, h, none) /\ none \subseteq P
      BY <1>3, <2>3
    <3> HIDE DEF none, P, h, d
    <3> QED BY <3>1, EvolvesFewer
  <2> HIDE DEF P, d, h
  <2>5. Evolves(heap, h, P)
    BY <1>1, <2>2, <2>4, EvolvesChain
  <2> QED BY <2>1, <2>3, <2>5, ThrowMeans DEF Machine!Next
<1>7. \/ Throw(heap)
      \/ n > 1 /\ Throw(NewList(r.heap).heap)
      \/ /\ n > 1
         /\ \/ d.exit = "ok" /\ Throw(NewList(d.heap).heap)
            \/ d.exit = "throw" /\ Throw(d.heap)
            \/ d.exit = "ub" /\ Undefined
  BY DEF MakeRange
<1> HIDE DEF n, d, r
<1> QED BY <1>4, <1>5, <1>6, <1>7

\* The machine's loop over what x means: whether it ends, and its element number n.
LoopEnds(x, n) ==
  LET items == x.items
  IN IF x.tag = "VECTOR" THEN n >= Len(items)
     ELSE items[1].num + n * items[2].num > items[3].num
LoopElement(x, n) ==
  LET items == x.items
  IN IF x.tag = "VECTOR" THEN items[n + 1]
     ELSE Machine!Number(items[1].num + n * items[2].num)

LEMMA LoopOverList ==
  ASSUME Good(heap), NEW x, Sound(heap, x), x.tag = "VECTOR", NEW n \in Int
  PROVE  /\ Exhausted(x, n) <=> LoopEnds(Denote(heap, x), n)
         /\ ~Exhausted(x, n) =>
              /\ Evolves(heap, ElementAt(x, n).heap, {})
              /\ ElementAt(x, n).exit = "ok" =>
                   /\ ElementAt(x, n).val \in ValuePair
                   /\ Denote(ElementAt(x, n).heap, ElementAt(x, n).val)
                        = LoopElement(Denote(heap, x), n)
<1> DEFINE e == Elements(heap, x.v)
           D == Denote(heap, x)
<1>1. /\ D.tag = "VECTOR" /\ x \in ValuePair /\ Live(heap, x)
  BY Tags DEF Sound
<1>2. /\ e \in Seq(ValuePair) /\ D.items = DenoteAll(heap, e) /\ Len(D.items) = Len(e)
  BY Numbers
<1>3. AllLive(heap, e) /\ Len(e) \in Nat
  BY <1>1, <1>2, ListOf, LenProperties
<1>4. Exhausted(x, n) <=> Len(e) <= n
  BY DEF Exhausted
<1>5. LoopEnds(D, n) <=> n >= Len(e)
  <2> HIDE DEF D
  <2> QED BY <1>1, <1>2 DEF LoopEnds
<1>6. LoopElement(D, n) = D.items[n + 1]
  <2> HIDE DEF D
  <2> QED BY <1>1 DEF LoopElement
<1>7. CASE n < 0
  <2>1. ElementAt(x, n) = UB(heap)
    BY <1>7 DEF ElementAt
  <2>2. Evolves(heap, heap, {})
    BY EvolvesItself
  <2> QED BY <1>3, <1>4, <1>5, <2>1, <2>2 DEF UB
<1>8. CASE n >= 0
  <2> DEFINE y == e[n + 1]
             r == Copy(heap, y)
  <2>1. ElementAt(x, n) = r
    BY <1>8 DEF ElementAt
  <2> HIDE DEF e, D
  <2>2. CASE n < Len(e)
    <3>1. n + 1 \in 1..Len(e)
      BY <1>3, <1>8, <2>2
    <3>2. Sound(heap, y) /\ y \in ValuePair
      BY <1>2, <1>3, <3>1, AllSound
    <3>3. D.items[n + 1] = Denote(heap, y)
      BY <1>2, <3>1, DenoteSeq
    <3> HIDE DEF y
    <3>4. r.exit = "ok" /\ Denote(r.heap, r.val) = Denote(heap, y)
          /\ Sound(r.heap, r.val)
      BY <3>2, CopyDenotes
    <3>5. Evolves(heap, r.heap, {})
      BY <3>2, CopyEvolves
    <3>6. r.val \in ValuePair
      BY <3>4 DEF Sound
    <3> HIDE DEF r
    <3> QED BY <1>4, <1>5, <1>6, <2>1, <2>2, <3>3, <3>4, <3>5, <3>6, <1>3 DEF D
  <2>3. CASE ~(n < Len(e))
    <3> QED BY <1>3, <1>4, <1>5, <2>3 DEF D
  <2> QED BY <2>2, <2>3
<1> QED BY <1>7, <1>8

LEMMA LoopOverRange ==
  ASSUME Good(heap), NEW x, Sound(heap, x), x.tag = "RANGE", NEW n \in Int
  PROVE  /\ Exhausted(x, n) <=> LoopEnds(Denote(heap, x), n)
         /\ Evolves(heap, ElementAt(x, n).heap, {})
         /\ ElementAt(x, n).val \in ValuePair
         /\ Denote(ElementAt(x, n).heap, ElementAt(x, n).val) = LoopElement(Denote(heap, x), n)
<1> DEFINE b == heap.range[x.v].begin
           s == heap.range[x.v].step
           e == heap.range[x.v].end
           D == Denote(heap, x)
           m == n * s + b
<1>1. b \in Int /\ s \in Int /\ e \in Int /\ D = Machine!RangeOf(b, s, e)
  BY RangeDenotes
<1>2. (Exhausted(x, n) <=> m > e) /\ ElementAt(x, n) = Ok(heap, Num(m))
  BY DEF Exhausted, ElementAt
<1> HIDE DEF b, s, e, D
<1>3. D.tag = "RANGE" /\ D.items[1].num = b /\ D.items[2].num = s /\ D.items[3].num = e
  BY <1>1 DEF Machine!RangeOf, Machine!Number, Machine!Scalar
<1>4. m \in Int /\ b + n * s = m
  <2> DEFINE ns == n * s
  <2>1. ns \in Int
    BY <1>1
  <2> HIDE DEF ns
  <2>2. ns + b \in Int /\ b + ns = ns + b
    BY <1>1, <2>1
  <2> QED BY <2>2 DEF ns
<1>5. (LoopEnds(D, n) <=> m > e) /\ LoopElement(D, n) = Machine!Number(m)
  <2>1. D.items[1].num + n * D.items[2].num = m
    BY <1>3, <1>4
  <2> HIDE DEF m
  <2> QED BY <1>3, <2>1 DEF LoopEnds, LoopElement
<1> HIDE DEF m
<1>6. Denote(heap, Num(m)) = Machine!Number(m) /\ Num(m) \in ValuePair
  BY <1>4, ScalarDenotes DEF Sound
<1>7. Evolves(heap, heap, {})
  BY EvolvesItself
<1> QED BY <1>2, <1>5, <1>6, <1>7 DEF Ok, D

LEMMA AppendTwo ==
  ASSUME NEW S, NEW s \in Seq(S), NEW a, NEW b
  PROVE  s \o <<a, b>> = Append(Append(s, a), b)
<1> DEFINE T == S \cup {a, b}
           t == <<a, b>>
           n == Len(s)
           p == s \o t
           u == Append(s, a)
           q == Append(u, b)
<1>1. s \in Seq(T) /\ a \in T /\ b \in T /\ n \in Nat /\ t \in Seq(T)
      /\ Len(t) = 2 /\ t[1] = a /\ t[2] = b
  <2>1. \A i \in 1..Len(s) : s[i] \in T
    BY LenProperties
  <2>2. s \in Seq(T)
    BY <2>1, SeqDef
  <2> QED BY <2>2
<1> HIDE DEF T, t
<1>2. p \in Seq(T) /\ Len(p) = n + 2 /\ (\A i \in 1..n : p[i] = s[i])
      /\ p[n + 1] = a /\ p[n + 2] = b
  <2>1. p \in Seq(T) /\ Len(p) = n + 2 /\ (\A i \in 1..n : p[i] = s[i])
        /\ \A i \in 1..2 : p[n + i] = t[i]
    BY <1>1, ConcatProperties
  <2> QED BY <1>1, <2>1
<1>3. u \in Seq(T) /\ Len(u) = n + 1 /\ u[n + 1] = a /\ \A i \in 1..n : u[i] = s[i]
  BY <1>1, AppendProperties
<1> HIDE DEF u, p, n
<1>4. q \in Seq(T) /\ Len(q) = n + 2 /\ q[n + 2] = b /\ \A i \in 1..(n + 1) : q[i] = u[i]
  <2>1. n + 1 + 1 = n + 2
    BY <1>1
  <2> QED BY <1>1, <1>3, <2>1, AppendProperties
<1> HIDE DEF q
<1>5. \A i \in 1..(n + 2) : p[i] = q[i]
  BY <1>1, <1>2, <1>3, <1>4
<1>6. p = q
  BY <1>2, <1>4, <1>5, SeqEqual
<1> QED BY <1>6 DEF p, q, t, u

LEMMA LoopIs ==
  ASSUME Machine!Executing("Iter", 2), NEW i, Machine!Top.num + 1 = i
  PROVE  /\ /\ LoopEnds(Machine!Second, i)
            /\ Machine!Go(pc + Machine!Inst.imm, Machine!Front(Machine!Rest))
            => Machine!Loop
         /\ /\ ~LoopEnds(Machine!Second, i)
            /\ Machine!Step(Machine!Rest \o <<Machine!Number(i),
                                              LoopElement(Machine!Second, i)>>)
            => Machine!Loop
<1> DEFINE items == Machine!Second.items
           inList == Machine!Second.tag = "VECTOR"
           m == items[1].num + i * items[2].num
           value == IF inList THEN items[i + 1] ELSE Machine!Number(m)
           done == IF inList THEN i >= Len(items) ELSE value.num > items[3].num
           leave == Machine!Go(pc + Machine!Inst.imm, Machine!Front(Machine!Rest))
           stay == Machine!Step(Machine!Rest \o <<Machine!Number(i), value>>)
<1>1. LoopElement(Machine!Second, i) = value
  BY DEF LoopElement
<1>2. LoopEnds(Machine!Second, i) <=> done
  BY DEF LoopEnds, Machine!Number, Machine!Scalar
<1>3. Machine!Loop <=> (done /\ leave) \/ (~done /\ stay)
  BY DEF Machine!Loop
<1> HIDE DEF value, done, leave, stay
<1>4. (done /\ leave => Machine!Loop) /\ (~done /\ stay => Machine!Loop)
  BY <1>3
<1> QED BY <1>1, <1>2, <1>4 DEF leave, stay

LEMMA IterMeans ==
  ASSUME OInv, StackDiscipline, Iter, status' # "ub"
  PROVE  Machine!Next
<1> DEFINE x == Last(stack)
           n == top.v + 1
           f == Front(stack)
           d == Drop(heap, x)
           r == ElementAt(x, n)
           P == PointerOf(x)
           s == Append(stack, Num(n))
           none == {}
           D == Denote(heap, x)
           v == LoopElement(D, n)
<1>1. /\ Machine!Inst = Inst /\ status = "running" /\ notop = FALSE /\ Good(heap)
      /\ Pointers(Saved) = Pointers(stack) \cup PointerOf(top)
  BY TopOwned, InstSeen DEF Iter, ReadsTop
<1>2. /\ Sound(heap, top) /\ stack \in Seq(ValuePair) /\ AllLive(heap, stack)
      /\ Machine!Top = Denote(heap, top) /\ Machine!Rest = DenoteAll(heap, stack)
  BY TopSeen DEF Iter, ReadsTop
<1>3. CASE Throw(heap)
  BY <1>3, ThrowHereMeans DEF Machine!Next
<1>4. ASSUME ~IterInvalid
      PROVE  /\ Sound(heap, x) /\ x.tag \in {"VECTOR", "RANGE"} /\ x \in ValuePair
             /\ f \in Seq(ValuePair) /\ AllLive(heap, f) /\ P \cap Pointers(f) = {}
             /\ P \subseteq Pointers(Saved) /\ Evolves(heap, d.heap, P)
             /\ Machine!Second = D /\ Machine!Front(Machine!Rest) = DenoteAll(heap, f)
             /\ Machine!Executing("Iter", 2)
             /\ n \in Int /\ Machine!Top.num + 1 = n
  <2>1. stack # <<>> /\ x.tag \in {"VECTOR", "RANGE"} /\ top.tag = "NUMBER"
    BY <1>4 DEF IterInvalid
  <2>2. /\ Pair(heap, x, top) /\ f \in Seq(ValuePair) /\ AllLive(heap, f)
        /\ Machine!Second = D /\ Machine!Front(Machine!Rest) = DenoteAll(heap, f)
        /\ Machine!Executing("Iter", 2)
    BY <2>1, SecondSeen DEF Iter, ReadsTop
  <2>3. /\ Pointers(stack) = Pointers(f) \cup P /\ P \cap Pointers(f) = {}
        /\ P \cap ElementPointers(heap) = {} /\ x \in ValuePair
    BY <2>1, BelowTopOwned DEF Iter, ReadsTop
  <2>4. Evolves(heap, d.heap, P)
    BY <1>1, <2>3, DropEvolves
  <2>5. Machine!Top.num = top.v /\ top.v \in Int
    BY <1>1, <1>2, <2>1, Numbers, Tags
  <2>6. Sound(heap, x)
    BY <2>2 DEF Pair
  <2> QED BY <1>1, <2>1, <2>2, <2>3, <2>4, <2>5, <2>6
<1>5. ASSUME ~IterInvalid
      PROVE  /\ Exhausted(x, n) <=> LoopEnds(D, n)
             /\ ~Exhausted(x, n) => /\ Evolves(heap, r.heap, none)
                                    /\ r.exit = "ok" => /\ r.val \in ValuePair
                                                        /\ Denote(r.heap, r.val) = v
  BY <1>1, <1>4, <1>5, LoopOverList, LoopOverRange
<1>6. CASE ~IterInvalid /\ Exhausted(x, n) /\ PopInto(f, d.heap, pc + Inst.imm)
  <2>1. Machine!Refuse \/ Machine!Go(pc + Inst.imm, DenoteAll(heap, f))
    <3>1. Pointers(f) \cap P = {} /\ notop = FALSE
      BY <1>1, <1>4, <1>6
    <3> HIDE DEF f, P, d
    <3> QED BY <1>1, <1>4, <1>6, <3>1, PopIntoMeans
  <2>2. LoopEnds(Machine!Second, Machine!Top.num + 1)
    BY <1>4, <1>5, <1>6
  <2>3. Machine!Refuse \/ Machine!Go(pc + Machine!Inst.imm, Machine!Front(Machine!Rest))
    BY <1>1, <1>4, <1>6, <2>1
  <2>4. Machine!Refuse \/ Machine!Loop
    BY <1>4, <1>6, <2>2, <2>3, LoopIs
  <2> QED BY <2>4 DEF Machine!Next
<1>7. CASE ~IterInvalid /\ ~Exhausted(x, n) /\ Finish(r, SaveTop(Num(n)), FALSE)
  <2>1. Num(n) \in ValuePair /\ Denote(heap, Num(n)) = Machine!Number(n)
        /\ ~isAllocated(Num(n))
    <3>1. n \in Int
      BY <1>4, <1>7
    <3> HIDE DEF n
    <3> QED BY <1>1, <3>1, ScalarDenotes DEF Sound, Num, isAllocated, AllocatedTag
  <2>2. SaveTop(Num(n)) = s
    BY <1>1 DEF SaveTop
  <2>3. Sound(heap, Num(n))
    BY <2>1 DEF Sound
  <2> HIDE DEF n
  <2>4. s \in Seq(ValuePair) /\ AllLive(heap, s)
        /\ DenoteAll(heap, s) = Append(DenoteAll(heap, stack), Machine!Number(n))
    <3>1. s \in Seq(ValuePair) /\ Len(s) = Len(stack) + 1 /\ s[Len(stack) + 1] = Num(n)
          /\ \A i \in 1..Len(stack) : s[i] = stack[i]
      BY <1>2, <2>1, AppendProperties
    <3>2. DenoteAll(heap, s) = Append(DenoteAll(heap, stack), Denote(heap, Num(n)))
      BY <1>2, <2>1, DenoteAppend
    <3> HIDE DEF s
    <3>3. AllLive(heap, s)
      BY <1>2, <2>1, <3>1, LenProperties DEF AllLive
    <3> QED BY <2>1, <3>1, <3>2, <3>3
  <2>5. Machine!Refuse \/ Machine!Step(Append(DenoteAll(heap, s), v))
    <3>1. Evolves(heap, r.heap, none)
          /\ (r.exit = "ok" => r.val \in ValuePair /\ Denote(r.heap, r.val) = v)
      BY <1>5, <1>7
    <3>2. none \subseteq Pointers(Saved) /\ Pointers(s) \cap none = {}
      OBVIOUS
    <3>3. Finish(r, s, FALSE)
      BY <1>7, <2>2
    <3> HIDE DEF s, r, v, none
    <3> QED BY <1>1, <2>4, <3>1, <3>2, <3>3, FinishMeans
  <2>6. Append(DenoteAll(heap, s), v)
          = Machine!Rest \o <<Machine!Number(Machine!Top.num + 1), v>>
    <3>1. DenoteAll(heap, stack) \in Seq({Denote(heap, y) : y \in ValuePair})
      BY <1>2, DenoteSeq
    <3>2. DenoteAll(heap, stack) \o <<Machine!Number(n), v>>
            = Append(Append(DenoteAll(heap, stack), Machine!Number(n)), v)
      BY <3>1, AppendTwo
    <3>3. Machine!Rest = DenoteAll(heap, stack) /\ Machine!Top.num + 1 = n
      BY <1>2, <1>4, <1>7
    <3> HIDE DEF v, s
    <3> QED BY <2>4, <3>2, <3>3
  <2>7. ~LoopEnds(Machine!Second, Machine!Top.num + 1)
        /\ v = LoopElement(Machine!Second, Machine!Top.num + 1)
    BY <1>4, <1>5, <1>7
  <2> HIDE DEF v, s
  <2>8. Machine!Refuse \/ Machine!Loop
    <3>1. Machine!Executing("Iter", 2)
      BY <1>4, <1>7
    <3> QED BY <2>5, <2>6, <2>7, <3>1, LoopIs
  <2> QED BY <2>8 DEF Machine!Next
<1> QED
  <2>1. ~IterInvalid => Live(heap, x)
    BY <1>4, Tags
  <2>2. \/ Throw(heap)
        \/ ~IterInvalid /\ Exhausted(x, n) /\ PopInto(f, d.heap, pc + Inst.imm)
        \/ ~IterInvalid /\ ~Exhausted(x, n) /\ Finish(r, SaveTop(Num(n)), FALSE)
    BY <2>1 DEF Iter
  <2> QED BY <1>3, <1>6, <1>7, <2>2

\* The frames that the three stacks r, s and c are.
FramesOf(r, s, c) == [i \in 1..Len(r) |-> [fn |-> r[i], base |-> s[i], ret |-> c[i]]]
Frame == [fn : Nat, base : Int, ret : Nat]

LEMMA FramesType ==
  ASSUME NEW r \in Seq(Nat), NEW s \in Seq(Int), NEW c \in Seq(Nat),
         Len(s) = Len(r), Len(c) = Len(r)
  PROVE  /\ FramesOf(r, s, c) \in Seq(Frame) /\ Len(FramesOf(r, s, c)) = Len(r)
         /\ \A i \in 1..Len(r) :
              FramesOf(r, s, c)[i] = [fn |-> r[i], base |-> s[i], ret |-> c[i]]
<1> DEFINE f == FramesOf(r, s, c)
<1>1. \A i \in 1..Len(r) : r[i] \in Nat /\ s[i] \in Int /\ c[i] \in Nat
  BY LenProperties
<1>2. \A i \in 1..Len(r) : [fn |-> r[i], base |-> s[i], ret |-> c[i]] \in Frame
  BY <1>1 DEF Frame
<1>3. f \in [1..Len(r) -> Frame] /\ Len(r) \in Nat
  BY <1>2, LenProperties DEF FramesOf
<1>4. \A i \in 1..Len(r) : f[i] = [fn |-> r[i], base |-> s[i], ret |-> c[i]]
  BY DEF FramesOf
<1> HIDE DEF f
<1>5. f \in Seq(Frame) /\ Len(f) = Len(r)
  BY <1>3, SeqDef
<1> QED BY <1>4, <1>5 DEF f

LEMMA FramesPushed ==
  ASSUME NEW r \in Seq(Nat), NEW s \in Seq(Int), NEW c \in Seq(Nat),
         Len(s) = Len(r), Len(c) = Len(r), NEW id \in Nat, NEW base \in Int, NEW ret \in Nat
  PROVE  FramesOf(Append(r, id), Append(s, base), Append(c, ret))
           = Append(FramesOf(r, s, c), [fn |-> id, base |-> base, ret |-> ret])
<1> DEFINE k == Len(r)
           x == [fn |-> id, base |-> base, ret |-> ret]
           f == FramesOf(r, s, c)
           rr == Append(r, id)
           ss == Append(s, base)
           cc == Append(c, ret)
           a == FramesOf(rr, ss, cc)
           b == Append(f, x)
<1>1. k \in Nat
  BY LenProperties
<1>2. rr \in Seq(Nat) /\ Len(rr) = k + 1 /\ rr[k + 1] = id /\ \A i \in 1..k : rr[i] = r[i]
  BY AppendProperties
<1>3. ss \in Seq(Int) /\ Len(ss) = k + 1 /\ ss[k + 1] = base /\ \A i \in 1..k : ss[i] = s[i]
  BY AppendProperties
<1>4. cc \in Seq(Nat) /\ Len(cc) = k + 1 /\ cc[k + 1] = ret /\ \A i \in 1..k : cc[i] = c[i]
  BY AppendProperties
<1>5. f \in Seq(Frame) /\ Len(f) = k
      /\ \A i \in 1..k : f[i] = [fn |-> r[i], base |-> s[i], ret |-> c[i]]
  BY FramesType
<1> HIDE DEF k, f, rr, ss, cc
<1>6. a \in Seq(Frame) /\ Len(a) = k + 1
      /\ \A i \in 1..(k + 1) : a[i] = [fn |-> rr[i], base |-> ss[i], ret |-> cc[i]]
  BY <1>2, <1>3, <1>4, FramesType
<1>7. x \in Frame
  BY DEF Frame
<1> HIDE DEF x, a
<1>8. b \in Seq(Frame) /\ Len(b) = k + 1 /\ b[k + 1] = x /\ \A i \in 1..k : b[i] = f[i]
  BY <1>5, <1>7, AppendProperties
<1> HIDE DEF b
<1>9. \A i \in 1..k : a[i] = b[i]
  <2> TAKE i \in 1..k
  <2>1. i \in 1..(k + 1)
    BY <1>1
  <2>2. a[i] = [fn |-> rr[i], base |-> ss[i], ret |-> cc[i]] /\ b[i] = f[i]
    BY <1>6, <1>8, <2>1
  <2>3. rr[i] = r[i] /\ ss[i] = s[i] /\ cc[i] = c[i]
    BY <1>2, <1>3, <1>4
  <2> QED BY <1>5, <2>2, <2>3
<1>10. a[k + 1] = b[k + 1]
  BY <1>1, <1>2, <1>3, <1>4, <1>6, <1>8 DEF x
<1>11. \A i \in 1..(k + 1) : a[i] = b[i]
  <2> TAKE i \in 1..(k + 1)
  <2>1. i \in 1..k \/ i = k + 1
    BY <1>1
  <2> QED BY <1>9, <1>10, <2>1
<1>12. a = b
  BY <1>6, <1>8, <1>11, SeqEqual
<1> QED BY <1>12 DEF a, b, x, f, rr, ss, cc

LEMMA StacksType ==
  ASSUME IInv, status = "running"
  PROVE  /\ rpStack \in Seq(Nat) /\ spStack \in Seq(Int) /\ pcStack \in Seq(Nat)
         /\ Len(spStack) = Len(rpStack) /\ Len(pcStack) = Len(rpStack)
         /\ Len(rpStack) \in Nat /\ Len(rpStack) >= 1
         /\ PlainFrames = FramesOf(rpStack, spStack, pcStack)
         /\ pc \in Nat /\ functions \in Seq(FunctionEntry)
<1>1. rpStack \in Seq(Nat) /\ Len(rpStack) \in Nat /\ Len(rpStack) >= 1
  BY FramesSeen DEF IInv, TypeOK
<1> QED BY <1>1 DEF IInv, TypeOK, FramesMatchCode, PlainFrames, FramesOf

\* The number of parameters of a function there is.
LEMMA ParametersType ==
  ASSUME IInv, NEW id, IsFunction(id)
  PROVE  functions[id + 1].parameters \in Nat /\ id \in Nat
<1>1. functions \in Seq(FunctionEntry)
  BY DEF IInv, TypeOK
<1>2. functions[id + 1] \in FunctionEntry /\ id \in Nat
  BY <1>1, LenProperties DEF IsFunction
<1> QED BY <1>2 DEF FunctionEntry

LEMMA CallIMeans ==
  ASSUME OInv, CallsOnStack, CallI
  PROVE  Machine!Next
<1> DEFINE params == functions[Inst.imm + 1].parameters
           base == FrameStart(Inst.imm)
           none == {}
<1>1. /\ Machine!Inst = Inst /\ status = "running" /\ Inst.op = "CallI" /\ pc < Len(Code)
      /\ PlainStack = DenoteAll(heap, Saved) /\ Len(PlainStack) = Len(Saved)
      /\ Len(Saved) \in Nat /\ Good(heap)
      /\ \A n \in 0..Len(Saved) : Machine!Executing("CallI", n)
  BY InstSeen DEF CallI, Fetched
<1>2. CASE Throw(heap)
  BY <1>2, ThrowHereMeans DEF Machine!Next
<1>3. CASE /\ IsFunction(Inst.imm)
           /\ stack' = Saved /\ notop' = TRUE
           /\ fn' = Inst.imm /\ pc' = 0
           /\ pcStack' = Append(pcStack, pc + 1)
           /\ rpStack' = Append(rpStack, Inst.imm)
           /\ spStack' = Append(spStack, base)
           /\ UNCHANGED <<top, heap, globals>> /\ UNCHANGED host
  <2>1. params \in Nat /\ Inst.imm \in Nat /\ base >= 0
    BY <1>1, <1>3, ParametersType DEF OInv, CallsOnStack, AtCall
  <2>2. base = Len(PlainStack) - params
    BY <1>1 DEF FrameStart
  <2> HIDE DEF params, base
  <2>3. base \in Int /\ Machine!Executing("CallI", params)
    BY <1>1, <2>1, <2>2
  <2>4. PlainFrames' = Append(PlainFrames, [fn |-> Inst.imm, base |-> base, ret |-> pc + 1])
    <3>1. /\ rpStack \in Seq(Nat) /\ spStack \in Seq(Int) /\ pcStack \in Seq(Nat)
          /\ Len(spStack) = Len(rpStack) /\ Len(pcStack) = Len(rpStack)
          /\ PlainFrames = FramesOf(rpStack, spStack, pcStack) /\ pc + 1 \in Nat
      BY <1>1, StacksType DEF OInv
    <3>2. PlainFrames' = FramesOf(Append(rpStack, Inst.imm), Append(spStack, base),
                                  Append(pcStack, pc + 1))
      BY <1>3 DEF PlainFrames, FramesOf
    <3> QED BY <2>1, <2>3, <3>1, <3>2, FramesPushed
  <2>5. status' = status /\ functions' = functions /\ Saved' = Saved
        /\ heap' = heap /\ results' = results /\ globals' = globals /\ pc' = 0
    BY <1>3 DEF host, Saved, SaveTop
  <2>6. PlainStack' = PlainStack /\ PlainGlobals' = PlainGlobals /\ PlainResults' = PlainResults
    BY <1>1, <2>5 DEF PlainStack, PlainGlobals, PlainResults
  <2> QED BY <1>1, <2>2, <2>3, <2>4, <2>5, <2>6 DEF Machine!Next, Machine!Call, params
<1> QED BY <1>2, <1>3 DEF CallI

LEMMA FrontAndLast ==
  ASSUME NEW S, NEW s \in Seq(S), s # <<>>
  PROVE  /\ Front(s) \in Seq(S) /\ Len(Front(s)) = Len(s) - 1 /\ Last(s) \in S
         /\ \A i \in 1..(Len(s) - 1) : Front(s)[i] = s[i]
         /\ s = Append(Front(s), Last(s)) /\ Len(s) \in Nat /\ Len(s) >= 1
<1> DEFINE n == Len(s)
           f == Front(s)
           x == Last(s)
           a == Append(f, x)
<1>1. n \in Nat /\ n >= 1
  BY EmptySeq, LenProperties
<1>2. f \in Seq(S) /\ Len(f) = n - 1 /\ \A i \in 1..(n - 1) : f[i] = s[i]
  BY FrontOK
<1>3. x = s[n] /\ x \in S
  BY <1>1, LenProperties DEF Last
<1> HIDE DEF f, x, n
<1>4. a \in Seq(S) /\ Len(a) = n - 1 + 1 /\ a[n - 1 + 1] = x /\ \A i \in 1..(n - 1) : a[i] = f[i]
  BY <1>2, <1>3, AppendProperties
<1> HIDE DEF a
<1>5. Len(a) = n /\ a[n] = x
  BY <1>1, <1>4
<1>6. \A i \in 1..n : a[i] = s[i]
  <2> TAKE i \in 1..n
  <2>1. i \in 1..(n - 1) \/ i = n
    BY <1>1
  <2> QED BY <1>2, <1>3, <1>4, <1>5, <2>1
<1>7. a = s
  BY <1>4, <1>5, <1>6, SeqEqual DEF n
<1> QED BY <1>1, <1>2, <1>3, <1>7 DEF f, x, a, n

LEMMA FramesEnds ==
  ASSUME NEW r \in Seq(Nat), NEW s \in Seq(Int), NEW c \in Seq(Nat),
         Len(s) = Len(r), Len(c) = Len(r), Len(r) >= 1
  PROVE  /\ FramesOf(Front(r), Front(s), Front(c)) = Front(FramesOf(r, s, c))
         /\ \A id \in Nat : FramesOf(Append(Front(r), id), s, c)
              = Append(Front(FramesOf(r, s, c)), [fn |-> id, base |-> Last(s), ret |-> Last(c)])
<1> DEFINE k == Len(r) - 1
           fr == Front(r)
           fs == Front(s)
           fc == Front(c)
           f == FramesOf(r, s, c)
           g == FramesOf(fr, fs, fc)
<1>1. k \in Nat /\ k + 1 = Len(r) /\ r # <<>> /\ s # <<>> /\ c # <<>>
  BY EmptySeq, LenProperties
<1>2. fr \in Seq(Nat) /\ Len(fr) = k /\ \A i \in 1..k : fr[i] = r[i]
  BY <1>1, FrontAndLast
<1>3. fs \in Seq(Int) /\ Len(fs) = k /\ (\A i \in 1..k : fs[i] = s[i])
      /\ s = Append(fs, Last(s)) /\ Last(s) \in Int
  BY <1>1, FrontAndLast
<1>4. fc \in Seq(Nat) /\ Len(fc) = k /\ (\A i \in 1..k : fc[i] = c[i])
      /\ c = Append(fc, Last(c)) /\ Last(c) \in Nat
  BY <1>1, FrontAndLast
<1>5. f \in Seq(Frame) /\ Len(f) = Len(r)
      /\ \A i \in 1..Len(r) : f[i] = [fn |-> r[i], base |-> s[i], ret |-> c[i]]
  BY FramesType
<1> HIDE DEF k, fr, fs, fc, f
<1>6. g \in Seq(Frame) /\ Len(g) = k
      /\ \A i \in 1..k : g[i] = [fn |-> fr[i], base |-> fs[i], ret |-> fc[i]]
  <2>1. Len(fs) = Len(fr) /\ Len(fc) = Len(fr)
    BY <1>2, <1>3, <1>4
  <2>2. g \in Seq(Frame) /\ Len(g) = Len(fr)
        /\ \A i \in 1..Len(fr) : g[i] = [fn |-> fr[i], base |-> fs[i], ret |-> fc[i]]
    BY <1>2, <1>3, <1>4, <2>1, FramesType
  <2> QED BY <1>2, <2>2
<1>7. f # <<>>
  BY <1>1, <1>5
<1>8. Front(f) \in Seq(Frame) /\ Len(Front(f)) = Len(f) - 1
      /\ \A i \in 1..(Len(f) - 1) : Front(f)[i] = f[i]
  BY <1>5, <1>7, FrontAndLast
<1>9. Len(f) - 1 = k
  BY <1>1, <1>5
<1> HIDE DEF g
<1>10. \A i \in 1..k : Front(f)[i] = g[i]
  <2> TAKE i \in 1..k
  <2>1. i \in 1..Len(r)
    BY <1>1
  <2> QED BY <1>2, <1>3, <1>4, <1>5, <1>6, <1>8, <1>9, <2>1
<1>11. Front(f) = g
  BY <1>6, <1>8, <1>9, <1>10, SeqEqual
<1>12. ASSUME NEW id \in Nat
       PROVE  FramesOf(Append(fr, id), s, c)
                = Append(Front(f), [fn |-> id, base |-> Last(s), ret |-> Last(c)])
  <2>1. Len(fs) = Len(fr) /\ Len(fc) = Len(fr)
    BY <1>2, <1>3, <1>4
  <2>2. fr \in Seq(Nat) /\ fs \in Seq(Int) /\ fc \in Seq(Nat) /\ Last(s) \in Int /\ Last(c) \in Nat
    BY <1>2, <1>3, <1>4
  <2> DEFINE base == Last(s)
             ret == Last(c)
  <2> HIDE DEF fr, fs, fc, base, ret
  <2>3. base \in Int /\ ret \in Nat
    BY <2>2 DEF base, ret
  <2>4. FramesOf(Append(fr, id), Append(fs, base), Append(fc, ret))
          = Append(FramesOf(fr, fs, fc), [fn |-> id, base |-> base, ret |-> ret])
    BY ONLY <2>1, <2>2, <2>3, id \in Nat, FramesPushed
  <2>5. FramesOf(Append(fr, id), Append(fs, Last(s)), Append(fc, Last(c)))
          = Append(g, [fn |-> id, base |-> Last(s), ret |-> Last(c)])
    BY <2>4, Zenon DEF g, base, ret
  <2> QED BY <1>3, <1>4, <1>11, <2>5
<1> QED BY <1>11, <1>12 DEF g, f, fr, fs, fc

LEMMA DenoteSubSeq ==
  ASSUME NEW h, NEW s \in Seq(ValuePair), NEW m \in 1..(Len(s) + 1), NEW n \in (m - 1)..Len(s)
  PROVE  DenoteAll(h, SubSeq(s, m, n)) = SubSeq(DenoteAll(h, s), m, n)
<1> DEFINE S == {Denote(h, y) : y \in ValuePair}
           t == SubSeq(s, m, n)
           d == DenoteAll(h, s)
           a == DenoteAll(h, t)
           b == SubSeq(d, m, n)
           k == n - m + 1
<1>1. t \in Seq(ValuePair) /\ Len(t) = k /\ \A i \in 1..k : t[i] = s[m + i - 1]
  BY SubSeqProperties
<1>2. d \in Seq(S) /\ Len(d) = Len(s) /\ Len(s) \in Nat
      /\ \A i \in 1..Len(s) : d[i] = Denote(h, s[i])
  BY DenoteSeq
<1> HIDE DEF t, d, S
<1>3. a \in Seq(S) /\ Len(a) = k /\ \A i \in 1..k : a[i] = Denote(h, t[i])
  BY <1>1, DenoteSeq DEF S
<1>4. b \in Seq(S) /\ Len(b) = k /\ \A i \in 1..k : b[i] = d[m + i - 1]
  BY <1>2, SubSeqProperties
<1> HIDE DEF a, b
<1>5. \A i \in 1..k : a[i] = b[i]
  <2> TAKE i \in 1..k
  <2>1. m + i - 1 \in 1..Len(s)
    BY <1>2
  <2> HIDE DEF k
  <2> QED BY <1>1, <1>2, <1>3, <1>4, <2>1
<1>6. a = b
  <2> HIDE DEF k
  <2> QED BY <1>3, <1>4, <1>5, SeqEqual
<1> QED BY <1>6 DEF a, b, t, d

\* What the host holds means what it meant.
LEMMA OthersStay ==
  ASSUME OInv, status = "running", NEW P, P \subseteq Pointers(Saved),
         Evolves(heap, heap', P), UNCHANGED <<globals, results>>
  PROVE  PlainGlobals' = PlainGlobals /\ PlainResults' = PlainResults
<1>1. Operands = Saved
  BY DEF Operands
<1>2. /\ DenoteAll(heap', globals) = PlainGlobals
      /\ \A i \in 1..Len(results) :
           Denote(heap', results[i].val) = Denote(heap, results[i].val)
  BY <1>1, OthersMean
<1>3. PlainResults' = [i \in 1..Len(results) |->
                         [how |-> results[i].how, val |-> Denote(heap', results[i].val)]]
  BY DEF PlainResults
<1>4. PlainResults = [i \in 1..Len(results) |->
                         [how |-> results[i].how, val |-> Denote(heap, results[i].val)]]
  BY DEF PlainResults
<1> QED BY <1>2, <1>3, <1>4 DEF PlainGlobals

LEMMA TailCallIMeans ==
  ASSUME OInv, StackDiscipline, TailCallI, status' # "ub"
  PROVE  Machine!Next
<1> DEFINE sp == Last(spStack)
           params == functions[Inst.imm + 1].parameters
           n == Len(Saved)
           stackEnd == n - params
           below == SubSeq(Saved, 1, sp)
           gone == SubSeq(Saved, sp + 1, stackEnd)
           args == SubSeq(Saved, stackEnd + 1, n)
           d == DropAll(heap, gone)
           s == below \o args
           P == Pointers(gone)
<1>1. /\ status = "running" /\ Inst.op = "TailCallI" /\ sp <= n /\ sp \in Int
      /\ n \in Nat
  BY FetchedInst, Running, RunningOwned, LenProperties
     DEF TailCallI, Fetched, StackDiscipline, OInv
<1>2. Good(heap) /\ Operands = Saved /\ Owned(heap, Saved) /\ Saved \in Seq(ValuePair)
  BY <1>1, RunningOwned
<1>3. /\ Machine!Inst = Inst /\ PlainStack = DenoteAll(heap, Saved) /\ Len(PlainStack) = n
      /\ \A k \in 0..n : Machine!Executing("TailCallI", k)
  BY InstSeen DEF TailCallI
<1>4. CASE Throw(heap)
  BY <1>4, ThrowHereMeans DEF Machine!Next
<1>5. ASSUME IsFunction(Inst.imm), sp >= 0, stackEnd >= sp \/ params = 0
      PROVE  /\ d.exit = "ok" /\ Evolves(heap, d.heap, P)
             /\ P \subseteq Pointers(Saved)
             /\ MoveDown(sp, stackEnd) = s
             /\ Inst.imm \in Nat /\ Machine!Executing("TailCallI", params)
             /\ DenoteAll(d.heap, s)
                  = SubSeq(PlainStack, 1, sp) \o SubSeq(PlainStack, n - params + 1, n)
  <2>1. params \in Nat /\ Inst.imm \in Nat
    BY <1>5, ParametersType DEF OInv
  <2> HIDE DEF params, sp, n
  <2>2. sp \in 0..n /\ stackEnd \in sp..n /\ params \in 0..n
    BY <1>1, <1>5, <2>1
  <2>3. stackEnd + 1 = n - params + 1
    BY <1>1, <2>1
  <2> HIDE DEF stackEnd
  <2>4. /\ below \in Seq(ValuePair) /\ Owned(heap, below)
        /\ gone \in Seq(ValuePair) /\ Owned(heap, gone)
        /\ args \in Seq(ValuePair) /\ Owned(heap, args)
        /\ Apart(below, gone) /\ Apart(below, args) /\ Apart(gone, args)
        /\ Pointers(gone) \subseteq Pointers(Saved)
    BY <1>2, <2>2, OwnedPart DEF n
  <2>5. MoveDown(sp, stackEnd) = s
    BY <1>2, <2>2, ResizeDown DEF MoveDown, n
  <2>6. /\ DenoteAll(heap, below) = SubSeq(PlainStack, 1, sp)
        /\ DenoteAll(heap, args) = SubSeq(PlainStack, stackEnd + 1, n)
    <3>1. /\ 1 \in 1..(n + 1) /\ sp \in (1 - 1)..n
          /\ stackEnd + 1 \in 1..(n + 1) /\ n \in (stackEnd + 1 - 1)..n
      BY <1>1, <2>2
    <3>2. DenoteAll(heap, below) = SubSeq(DenoteAll(heap, Saved), 1, sp)
      BY <1>2, <3>1, DenoteSubSeq DEF n
    <3>3. DenoteAll(heap, args) = SubSeq(DenoteAll(heap, Saved), stackEnd + 1, n)
      <4> DEFINE m == stackEnd + 1
                 k == Len(Saved)
      <4>1. m \in 1..(Len(Saved) + 1) /\ k \in (m - 1)..Len(Saved)
        BY <3>1 DEF n
      <4> HIDE DEF m, k
      <4>2. DenoteAll(heap, SubSeq(Saved, m, k)) = SubSeq(DenoteAll(heap, Saved), m, k)
        BY <1>2, <4>1, DenoteSubSeq
      <4> QED BY <4>2 DEF m, k, n
    <3> QED BY <1>3, <3>2, <3>3
  <2> HIDE DEF below, gone, args
  <2>7. d.exit = "ok" /\ Evolves(heap, d.heap, P)
    BY <1>2, <2>4, DropAllEvolves
  <2>8. P \cap ElementPointers(heap) = {}
    BY <2>4 DEF Owned
  <2>9. Pointers(below) \cap P = {} /\ Pointers(args) \cap P = {}
        /\ AllLive(heap, below) /\ AllLive(heap, args)
    BY <2>4 DEF Apart, Owned
  <2> HIDE DEF d, P
  <2>10. DenoteAll(d.heap, below) = DenoteAll(heap, below)
         /\ DenoteAll(d.heap, args) = DenoteAll(heap, args)
    BY <1>2, <2>4, <2>7, <2>8, <2>9, EvolvesValues
  <2>11. DenoteAll(d.heap, s) = DenoteAll(d.heap, below) \o DenoteAll(d.heap, args)
    BY <2>4, DenoteConcat
  <2>12. DenoteAll(d.heap, s) = SubSeq(PlainStack, 1, sp) \o SubSeq(PlainStack, n - params + 1, n)
    BY <2>3, <2>6, <2>10, <2>11
  <2>13. P \subseteq Pointers(Saved)
    BY <2>4 DEF P
  <2> HIDE DEF s
  <2> QED BY <1>3, <2>1, <2>2, <2>5, <2>7, <2>12, <2>13
<1>6. CASE /\ IsFunction(Inst.imm) /\ sp >= 0 /\ (stackEnd >= sp \/ params = 0)
           /\ stack' = MoveDown(sp, stackEnd) /\ heap' = d.heap /\ notop' = TRUE
           /\ fn' = Inst.imm /\ pc' = 0
           /\ rpStack' = SetBack(rpStack, Inst.imm)
           /\ UNCHANGED <<top, globals, spStack, pcStack>> /\ UNCHANGED host
  <2>1. Saved' = s /\ status' = "running" /\ functions' = functions /\ results' = results
    BY <1>1, <1>5, <1>6 DEF Saved, SaveTop, host
  <2>2. PlainStack' = SubSeq(PlainStack, 1, sp) \o SubSeq(PlainStack, n - params + 1, n)
    BY <1>5, <1>6, <2>1 DEF PlainStack
  <2>3. PlainGlobals' = PlainGlobals /\ PlainResults' = PlainResults
    <3>1. Evolves(heap, heap', P) /\ P \subseteq Pointers(Saved)
      BY <1>5, <1>6
    <3> HIDE DEF P
    <3> QED BY <1>1, <1>6, <2>1, <3>1, OthersStay
  <2>4. PlainFrames' = Append(Front(PlainFrames),
                              [fn |-> Inst.imm, base |-> sp, ret |-> Last(pcStack)])
    <3>1. PlainFrames' = FramesOf(Append(Front(rpStack), Inst.imm), spStack, pcStack)
      BY <1>6 DEF PlainFrames, FramesOf, SetBack
    <3>2. Inst.imm \in Nat
      BY <1>5, <1>6
    <3> QED BY <1>1, <3>1, <3>2, StacksType, FramesEnds DEF OInv
  <2>5. Machine!Last(PlainFrames) = [fn |-> fn, base |-> sp, ret |-> Last(pcStack)]
    BY <1>1, FramesSeen DEF OInv
  <2>6. [Machine!Last(PlainFrames) EXCEPT !.fn = Inst.imm]
          = [fn |-> Inst.imm, base |-> sp, ret |-> Last(pcStack)]
        /\ Machine!Last(PlainFrames).base = sp
    BY <2>5
  <2>7. Machine!Executing("TailCallI", params)
    BY <1>5, <1>6
  <2> HIDE DEF sp, n
  <2>8. Machine!TailCall
    BY <1>1, <1>3, <1>6, <2>1, <2>2, <2>3, <2>4, <2>6, <2>7, SameEnds DEF Machine!TailCall, params
  <2> QED BY <2>8 DEF Machine!Next
<1>7. Undefined => status' = "ub"
  BY DEF Undefined
<1>8. \/ Throw(heap)
      \/ /\ IsFunction(Inst.imm) /\ sp >= 0 /\ (stackEnd >= sp \/ params = 0)
         /\ d.exit = "throw" \/
            /\ stack' = MoveDown(sp, stackEnd) /\ heap' = d.heap /\ notop' = TRUE
            /\ fn' = Inst.imm /\ pc' = 0
            /\ rpStack' = SetBack(rpStack, Inst.imm)
            /\ UNCHANGED <<top, globals, spStack, pcStack>> /\ UNCHANGED host
  BY <1>7 DEF TailCallI
<1>9. d.exit = "throw" => d.exit # "ok"
  OBVIOUS
<1> HIDE DEF d, n, sp, params, stackEnd
<1> QED BY <1>4, <1>5, <1>6, <1>8, <1>9

\* The one slot that a frame leaves behind, above the p slots of its callers.
LEMMA KeptOne ==
  ASSUME NEW S, NEW a \in Seq(S), NEW b \in Seq(S), Len(b) = Len(a) + 1,
         \A i \in 1..Len(a) : b[i] = a[i], NEW p \in Nat, p < Len(a),
         NEW kept, kept = [i \in 1..1 |-> b[p + i]]
  PROVE  SubSeq(b, 1, p) \o kept = SubSeq(a, 1, p + 1)
<1> DEFINE u == SubSeq(b, 1, p)
           v == SubSeq(a, 1, p + 1)
           w == u \o kept
<1>1. Len(a) \in Nat /\ p + 1 \in 1..Len(a) /\ p + 1 \in 1..Len(b)
  BY LenProperties
<1>2. v \in Seq(S) /\ Len(v) = p + 1 /\ \A i \in 1..(p + 1) : v[i] = a[i]
  BY <1>1
<1>3. u \in Seq(S) /\ Len(u) = p /\ \A i \in 1..p : u[i] = b[i]
  BY <1>1
<1>4. kept \in Seq(S) /\ Len(kept) = 1 /\ kept[1] = b[p + 1]
  <2>1. b[p + 1] \in S
    BY <1>1
  <2>2. kept \in [1..1 -> S] /\ kept[1] = b[p + 1]
    BY <2>1
  <2>3. 1 \in Nat
    OBVIOUS
  <2> QED BY <2>2, <2>3, SeqDef
<1> HIDE DEF u, v
<1>5. w \in Seq(S) /\ Len(w) = p + 1 /\ (\A i \in 1..p : w[i] = u[i])
      /\ \A i \in 1..1 : w[p + i] = kept[i]
  BY <1>3, <1>4, ConcatProperties
<1> HIDE DEF w
<1>6. \A i \in 1..(p + 1) : w[i] = v[i]
  <2> TAKE i \in 1..(p + 1)
  <2>1. CASE i \in 1..p
    <3>1. w[i] = b[i] /\ v[i] = a[i] /\ i \in 1..Len(a)
      BY <1>1, <1>2, <1>3, <1>5, <2>1
    <3> QED BY <3>1
  <2>2. CASE i = p + 1
    <3>1. w[p + 1] = b[p + 1] /\ v[p + 1] = a[p + 1]
      BY <1>1, <1>2, <1>4, <1>5
    <3> QED BY <1>1, <2>2, <3>1
  <2> QED BY <2>1, <2>2
<1> QED BY <1>2, <1>5, <1>6, SeqEqual DEF u, v, w

LEMMA RetMeans ==
  ASSUME OInv, StackDiscipline, Ret, Last(spStack) >= 0, status' # "ub"
  PROVE  Machine!Next
<1> DEFINE sp == Last(spStack)
           n == Len(stack)
           frame == RetFrame
           d == DropAll(heap, frame)
           P == Pointers(frame)
           left == RetLeft
           s == Append(left, top)
           t == Denote(heap, top)
           a == DenoteAll(heap, stack)
<1>1. /\ status = "running" /\ Inst.op = "Ret" /\ pc < Len(Code) /\ sp \in Int
  BY FetchedInst, Running DEF Ret, Fetched, OInv
<1>2. /\ Good(heap) /\ Operands = Saved /\ Owned(heap, Saved)
      /\ stack \in Seq(ValuePair) /\ top \in ValuePair /\ n \in Nat
  BY <1>1, RunningOwned, SlotTypes, LenProperties DEF OInv
<1>3. /\ Machine!Inst = Inst /\ PlainStack = DenoteAll(heap, Saved)
      /\ \A k \in 0..Len(Saved) : Machine!Executing("Ret", k)
      /\ Machine!Last(PlainFrames) = [fn |-> fn, base |-> sp, ret |-> Last(pcStack)]
      /\ Len(PlainFrames) = Len(pcStack)
  BY <1>1, InstSeen, FramesSeen DEF Ret, OInv
<1>4. CASE Throw(heap)
  BY <1>4, ThrowHereMeans DEF Machine!Next
<1>5. ASSUME notop # TRUE
      PROVE  /\ Saved = Append(stack, top) /\ Owned(heap, stack) /\ Sound(heap, top)
             /\ P \subseteq Pointers(Saved) /\ PointerOf(top) \cap P = {}
             /\ P \cap ElementPointers(heap) = {}
             /\ d.exit = "ok" /\ Evolves(heap, d.heap, P)
             /\ sp >= -1 /\ Len(pcStack) # 1 =>
                  left \in Seq(ValuePair) /\ AllLive(heap, left) /\ Pointers(left) \cap P = {}
  <2>1. /\ Saved = Append(stack, top) /\ Owned(heap, stack) /\ Joins(heap, stack, top)
        /\ Pointers(Saved) = Pointers(stack) \cup PointerOf(top)
        /\ frame \in Seq(ValuePair) /\ Owned(heap, frame) /\ P \subseteq Pointers(stack)
        /\ sp >= -1 /\ Len(pcStack) # 1 =>
             left \in Seq(ValuePair) /\ Owned(heap, left) /\ Pointers(left) \cap P = {}
    BY <1>5, FrameLeft
  <2> HIDE DEF frame, left
  <2>2. d.exit = "ok" /\ Evolves(heap, d.heap, P)
    BY <1>2, <2>1, DropAllEvolves
  <2> HIDE DEF d, P
  <2>3. Sound(heap, top) /\ PointerOf(top) \cap P = {}
    BY <1>2, <2>1 DEF Joins, PointerOf, Sound
  <2>4. P \subseteq Pointers(Saved) /\ P \cap ElementPointers(heap) = {}
    BY <1>2, <2>1 DEF Owned
  <2> QED BY <2>1, <2>2, <2>3, <2>4 DEF Owned
<1>6. ASSUME notop # TRUE
      PROVE  /\ Denote(d.heap, top) = t /\ Machine!Executing("Ret", 1)
             /\ PlainStack = Append(a, t) /\ Len(PlainStack) = n + 1 /\ Machine!Top = t
  <2> HIDE DEF d, P
  <2>1. Denote(d.heap, top) = t
    BY <1>2, <1>5, <1>6, SameValue DEF Evolves, Moves
  <2>2. /\ Len(Saved) = n + 1 /\ Saved # <<>> /\ Last(Saved) = top /\ Saved \in Seq(ValuePair)
    <3>1. Saved \in Seq(ValuePair) /\ Len(Saved) = n + 1 /\ Saved[n + 1] = top
      BY <1>2, <1>5, <1>6, AppendProperties
    <3> QED BY <1>2, <3>1 DEF Last
  <2>3. Machine!Executing("Ret", 1)
    BY <1>2, <1>3, <2>2
  <2>4. PlainStack = Append(a, t) /\ Len(PlainStack) = n + 1
    BY <1>2, <1>3, <1>5, <1>6, <2>2, DenoteAppend, DenoteSeq
  <2>5. Machine!Top = t
    BY <1>3, <2>2, DenoteFront, SameEnds DEF Machine!Top
  <2> QED BY <2>1, <2>3, <2>4, <2>5
<1>7. CASE notop # TRUE /\ Len(pcStack) = 1 /\ Leave("return", top, d.heap)
  <2>1. P \subseteq Pointers(Operands) /\ Evolves(heap, d.heap, P) /\ top \in ValuePair
    BY <1>2, <1>5, <1>7
  <2> HIDE DEF d, P
  <2>2. Machine!Stopped("return", Denote(d.heap, top)) /\ PlainGlobals' = PlainGlobals
    BY <1>7, <2>1, LeaveMeans
  <2>3. Machine!Stopped("return", Machine!Top)
    BY <1>6, <1>7, <2>2
  <2>4. Len(PlainFrames) = 1 /\ Machine!Executing("Ret", 1)
    BY <1>3, <1>6, <1>7
  <2>5. Machine!Return
    BY <2>2, <2>3, <2>4 DEF Machine!Return
  <2> QED BY <2>5 DEF Machine!Next
<1>8. CASE /\ notop # TRUE /\ sp >= -1 /\ Len(pcStack) # 1
           /\ stack' = left /\ heap' = d.heap
           /\ rpStack' = Front(rpStack) /\ spStack' = Front(spStack)
           /\ pcStack' = Front(pcStack)
           /\ pc' = Last(pcStack)
           /\ UNCHANGED <<top, notop, globals>> /\ UNCHANGED host
  <2>1. Len(pcStack) > 1 /\ Len(PlainFrames) > 1
    BY <1>1, <1>3, <1>8, StacksType DEF OInv
  <2>2. sp < n /\ sp \in Nat
    BY <1>1, <2>1 DEF StackDiscipline
  <2>3. left = SubSeq(stack, 1, sp + 1)
    <3>1. sp + 1 \in 0..n
      BY <1>2, <2>2
    <3> QED BY <1>2, <3>1, ResizeDown DEF RetLeft
  <2>4. left \in Seq(ValuePair) /\ AllLive(heap, left) /\ Pointers(left) \cap P = {}
        /\ Evolves(heap, d.heap, P) /\ P \cap ElementPointers(heap) = {}
        /\ P \subseteq Pointers(Saved)
    BY <1>5, <1>8
  <2>5. DenoteAll(heap, left) = SubSeq(a, 1, sp + 1)
    <3> DEFINE k == sp + 1
               one == 1
    <3>1. one \in 1..(Len(stack) + 1) /\ k \in (one - 1)..Len(stack)
      BY <1>2, <2>2
    <3> HIDE DEF k, one
    <3>2. DenoteAll(heap, SubSeq(stack, one, k)) = SubSeq(DenoteAll(heap, stack), one, k)
      BY <1>2, <3>1, DenoteSubSeq
    <3> QED BY <2>3, <3>2 DEF k, one
  <2>6. Saved' = s /\ status' = status /\ results' = results /\ functions' = functions
    <3>1. notop = FALSE
      BY <1>8 DEF OInv, IInv, TypeOK
    <3> QED BY <1>8, <3>1 DEF Saved, SaveTop, host
  <2> HIDE DEF left
  <2>7. DenoteAll(d.heap, left) = DenoteAll(heap, left)
    <3> HIDE DEF P, d
    <3> QED BY <1>2, <2>4, EvolvesValues
  <2>8. DenoteAll(d.heap, s) = Append(SubSeq(a, 1, sp + 1), t)
    <3>1. DenoteAll(d.heap, s) = Append(DenoteAll(d.heap, left), Denote(d.heap, top))
      <4> HIDE DEF d
      <4> QED BY <1>2, <2>4, DenoteAppend
    <3> QED BY <1>6, <1>8, <2>5, <2>7, <3>1
  <2>9. PlainStack' = Append(SubSeq(a, 1, sp + 1), t)
    BY <1>1, <1>8, <2>6, <2>8 DEF PlainStack
  <2>10. PlainGlobals' = PlainGlobals /\ PlainResults' = PlainResults
    <3>1. Evolves(heap, heap', P)
      BY <1>8, <2>4
    <3> HIDE DEF P, d
    <3> QED BY <1>1, <1>8, <2>4, <2>6, <3>1, OthersStay
  <2>11. PlainFrames' = Front(PlainFrames)
    <3>1. PlainFrames' = FramesOf(Front(rpStack), Front(spStack), Front(pcStack))
      BY <1>8 DEF PlainFrames, FramesOf
    <3> QED BY <1>1, <3>1, StacksType, FramesEnds DEF OInv
  <2> DEFINE kept == [i \in 1..1 |-> IF sp + i < Len(PlainStack) THEN PlainStack[sp + i]
                                     ELSE Machine!Unset]
  <2>12. SubSeq(PlainStack, 1, sp) \o kept = SubSeq(a, 1, sp + 1)
    <3> DEFINE S == {Denote(heap, y) : y \in ValuePair}
    <3>1. a \in Seq(S) /\ Len(a) = n
      BY <1>2, DenoteSeq
    <3>2. t \in S
      BY <1>2
    <3>3. PlainStack = Append(a, t) /\ Len(PlainStack) = n + 1
      BY <1>6, <1>8
    <3> HIDE DEF a, t, S
    <3>4. PlainStack \in Seq(S) /\ \A i \in 1..n : PlainStack[i] = a[i]
      BY <3>1, <3>2, <3>3, AppendProperties
    <3>5. kept = [i \in 1..1 |-> PlainStack[sp + i]]
      <4>1. \A i \in 1..1 : sp + i < Len(PlainStack)
        BY <1>2, <2>2, <3>3
      <4> QED BY <4>1
    <3> HIDE DEF kept, sp, n
    <3> QED BY <2>2, <3>1, <3>3, <3>4, <3>5, KeptOne
  <2>13. Machine!Return
    <3>1. Machine!Last(PlainFrames).base = sp /\ Machine!Last(PlainFrames).ret = Last(pcStack)
      BY <1>3
    <3>2. PlainStack' = Append(SubSeq(PlainStack, 1, sp) \o kept, Machine!Top)
      BY <1>6, <1>8, <2>9, <2>12
    <3>3. Machine!Executing("Ret", 1)
      BY <1>6, <1>8
    <3> HIDE DEF sp, n
    <3>4. /\ Machine!Executing("Ret", 1) /\ Len(PlainFrames) > 1
          /\ PlainStack' = Append(SubSeq(PlainStack, 1, Machine!Last(PlainFrames).base)
               \o [i \in 1..1 |-> IF Machine!Last(PlainFrames).base + i < Len(PlainStack)
                                  THEN PlainStack[Machine!Last(PlainFrames).base + i]
                                  ELSE Machine!Unset], Machine!Top)
          /\ pc' = Machine!Last(PlainFrames).ret
          /\ PlainFrames' = Machine!Front(PlainFrames)
          /\ UNCHANGED <<functions, status>>
          /\ PlainGlobals' = PlainGlobals /\ PlainResults' = PlainResults
      BY <1>8, <2>1, <2>6, <2>10, <2>11, <3>1, <3>2, <3>3, SameEnds
    <3> QED BY <3>4 DEF Machine!Return
  <2> QED BY <2>13 DEF Machine!Next
<1>9. Undefined => status' = "ub"
  BY DEF Undefined
<1>10. \/ Throw(heap)
       \/ /\ notop # TRUE
          /\ \/ d.exit = "throw" \/ d.exit = "ub"
             \/ Len(pcStack) = 1 /\ Leave("return", top, d.heap)
             \/ /\ sp >= -1 /\ Len(pcStack) # 1
                /\ stack' = left /\ heap' = d.heap
                /\ rpStack' = Front(rpStack) /\ spStack' = Front(spStack)
                /\ pcStack' = Front(pcStack)
                /\ pc' = Last(pcStack)
                /\ UNCHANGED <<top, notop, globals>> /\ UNCHANGED host
  BY <1>9 DEF Ret, RetFrame, RetLeft
<1>11. "throw" # "ok" /\ "ub" # "ok"
  OBVIOUS
<1> HIDE DEF d, n, sp, left
<1> QED BY <1>4, <1>5, <1>7, <1>8, <1>10, <1>11

-----------------------------------------------------------------------------
\* No frame starts below the stack.
FramesAbove == status = "running" => \A i \in 1..Len(spStack) : spStack[i] >= 0

StaysInFrame == status' # "running" \/ spStack' = spStack

LEMMA EndsStay ==
  ASSUME NEW h, NEW x, NEW how, Leave(how, x, h) \/ Throw(h) \/ Undefined
  PROVE  StaysInFrame
  BY DEF Leave, Throw, Undefined, StaysInFrame

LEMMA FinishStays ==
  ASSUME NEW r, NEW s, NEW n, Finish(r, s, n)
  PROVE  StaysInFrame
  BY EndsStay DEF Finish, Done, Goto, StaysInFrame

LEMMA PopStays ==
  ASSUME NEW h, NEW s, NEW target, PopInto(s, h, target) \/ TakeTop(s, h, target)
  PROVE  StaysInFrame
  BY EndsStay DEF PopInto, TakeTop, Goto, StaysInFrame

LEMMA StraightStays ==
  ASSUME \/ RunOff \/ GetI \/ AddI \/ SetI \/ JumpI \/ JumpFalseI \/ Iter
         \/ Pop \/ Dup \/ BuiltinUnaryOp \/ BinaryOp \/ ConstNum \/ ConstMisc
         \/ GetGlobalI \/ SetGlobalI \/ MakeRange \/ MakeList \/ Echo \/ Malformed \/ Stop
  PROVE  StaysInFrame
<1>1. RunOff \/ MakeList \/ Malformed \/ Stop => StaysInFrame
  BY EndsStay DEF RunOff, MakeList, Malformed, Stop, frames, StaysInFrame
<1>2. GetI \/ Dup \/ GetGlobalI => StaysInFrame
  BY EndsStay, FinishStays DEF GetI, Dup, GetGlobalI, Push
<1>3. AddI \/ ConstNum \/ ConstMisc \/ Echo => StaysInFrame
  BY EndsStay DEF AddI, ConstNum, ConstMisc, Echo, Done, Goto, StaysInFrame
<1>4. SetI \/ JumpFalseI => StaysInFrame
  BY EndsStay, PopStays DEF SetI, JumpFalseI
<1>5. JumpI => StaysInFrame
  BY EndsStay DEF JumpI, Goto, StaysInFrame
<1>6. Iter => StaysInFrame
  BY EndsStay, FinishStays, PopStays DEF Iter
<1>7. Pop => StaysInFrame
  BY EndsStay, PopStays DEF Pop
<1>8. BuiltinUnaryOp \/ BinaryOp => StaysInFrame
  BY EndsStay, FinishStays DEF BuiltinUnaryOp, BinaryOp
<1>9. SetGlobalI => StaysInFrame
  <2>1. status' = "idle" => StaysInFrame
    BY DEF StaysInFrame
  <2> QED BY <2>1, EndsStay, PopStays DEF SetGlobalI
<1>10. MakeRange => StaysInFrame
  BY EndsStay DEF MakeRange
<1> QED BY <1>1, <1>2, <1>3, <1>4, <1>5, <1>6, <1>7, <1>8, <1>9, <1>10

LEMMA StepAbove ==
  ASSUME IInv, CallsOnStack, FramesAbove, [Next]_vars
  PROVE  FramesAbove'
<1>1. spStack \in Seq(Int) /\ Len(spStack) \in Nat
  BY LenProperties DEF IInv, TypeOK
<1>2. ASSUME StaysInFrame, status = "running"
      PROVE  FramesAbove'
  BY <1>2 DEF StaysInFrame, FramesAbove
<1>3. CASE UNCHANGED vars
  BY <1>3 DEF vars, FramesAbove
<1>4. CASE Stop
  BY <1>4 DEF Stop, frames, FramesAbove
<1>5. ASSUME NEW id, Eval(id)
      PROVE  FramesAbove'
  <2>1. CASE Throw(heap)
    BY <2>1 DEF Throw, Leave, FramesAbove
  <2>2. CASE spStack' = <<0>>
    BY <2>2 DEF FramesAbove
  <2> QED BY <1>5, <2>1, <2>2 DEF Eval
<1>6. CASE CallI
  <2>1. status = "running" /\ pc < Len(Code) /\ Inst.op = "CallI"
    BY <1>6 DEF CallI, Fetched
  <2>2. CASE Throw(heap)
    BY <2>1, <2>2, <1>2, EndsStay
  <2>3. CASE IsFunction(Inst.imm) /\ spStack' = Append(spStack, FrameStart(Inst.imm))
    <3> DEFINE base == FrameStart(Inst.imm)
    <3>1. base >= 0
      BY <2>1, <2>3 DEF CallsOnStack, AtCall
    <3>2. base \in Int
      BY <2>3, ParametersType, SavedType, LenProperties DEF FrameStart
    <3> HIDE DEF base
    <3>3. /\ Len(Append(spStack, base)) = Len(spStack) + 1
          /\ Append(spStack, base)[Len(spStack) + 1] = base
          /\ \A i \in 1..Len(spStack) : Append(spStack, base)[i] = spStack[i]
      BY <1>1, <3>2, AppendProperties
    <3>4. spStack' = Append(spStack, base)
      BY <2>3 DEF base
    <3>5. \A i \in 1..Len(spStack') : spStack'[i] >= 0
      <4> TAKE i \in 1..Len(spStack')
      <4>1. i \in 1..Len(spStack) \/ i = Len(spStack) + 1
        BY <1>1, <3>3, <3>4
      <4> QED BY <2>1, <3>1, <3>3, <3>4, <4>1 DEF FramesAbove
    <3> QED BY <3>5 DEF FramesAbove
  <2> QED BY <1>6, <2>2, <2>3 DEF CallI
<1>7. CASE TailCallI
  <2>1. status = "running"
    BY <1>7 DEF TailCallI, Fetched
  <2>2. StaysInFrame
    BY <1>7, EndsStay DEF TailCallI, StaysInFrame
  <2> QED BY <1>2, <2>1, <2>2
<1>8. CASE Ret
  <2>1. status = "running"
    BY <1>8 DEF Ret, Fetched
  <2>2. StaysInFrame \/ spStack' = Front(spStack)
    BY <1>8, EndsStay DEF Ret
  <2>3. CASE spStack' = Front(spStack)
    <3>1. spStack # <<>>
      BY <2>1, Running
    <3>2. Len(Front(spStack)) = Len(spStack) - 1
          /\ \A i \in 1..(Len(spStack) - 1) : Front(spStack)[i] = spStack[i]
      BY <1>1, <3>1, FrontOK
    <3>3. \A i \in 1..(Len(spStack) - 1) : i \in 1..Len(spStack)
      BY <1>1
    <3> QED BY <2>1, <2>3, <3>2, <3>3 DEF FramesAbove
  <2> QED BY <1>2, <2>1, <2>2, <2>3
<1>9. CASE Execute /\ ~CallI /\ ~TailCallI /\ ~Ret
  <2>1. StaysInFrame
    BY <1>9, StraightStays DEF Execute
  <2>2. status = "running"
    BY <1>9 DEF Execute, RunOff, GetI, AddI, SetI, JumpI, JumpFalseI, Iter, Pop, Dup,
                BuiltinUnaryOp, BinaryOp, ConstNum, ConstMisc, GetGlobalI, SetGlobalI,
                MakeRange, MakeList, Echo, Malformed, Fetched
  <2> QED BY <1>2, <2>1, <2>2
<1> QED BY <1>3, <1>4, <1>5, <1>6, <1>7, <1>8, <1>9 DEF Next

LEMMA EvalMeans ==
  ASSUME OInv, NEW id \in 0..Len(functions), Eval(id)
  PROVE  Machine!Next
<1>1. functions \in Seq(FunctionEntry) /\ Len(functions) \in Nat /\ Good(heap)
  BY LenProperties DEF OInv, OwnedNow, IInv, TypeOK
<1>2. CASE Throw(heap)
  BY <1>2, ThrowHereMeans DEF Machine!Next
<1>3. CASE /\ id < Len(functions)
           /\ status' = "running"
           /\ stack' = <<>> /\ top' = Undef /\ notop' = TRUE
           /\ fn' = id /\ pc' = 0
           /\ rpStack' = <<id>> /\ spStack' = <<0>> /\ pcStack' = <<0>>
           /\ UNCHANGED <<functions, globals, flag, heap, results>>
  <2>1. status = "idle" /\ PlainStack = <<>>
    BY DEF Eval, PlainStack
  <2>2. PlainStack' = <<>>
    <3>1. Saved' = <<>>
      BY <1>3 DEF Saved, SaveTop
    <3> QED BY <1>3, <3>1 DEF PlainStack, DenoteAll
  <2>3. PlainGlobals' = PlainGlobals /\ PlainResults' = PlainResults
    BY <1>3 DEF PlainGlobals, PlainResults
  <2>4. PlainFrames' = <<[fn |-> id, base |-> 0, ret |-> 0]>>
    BY <1>3 DEF PlainFrames
  <2>5. Machine!Start(id) /\ id \in 0..(Len(functions) - 1)
    BY <1>1, <1>3, <2>1, <2>2, <2>3, <2>4 DEF Machine!Start
  <2> QED BY <2>5 DEF Machine!Next
<1> QED BY <1>2, <1>3 DEF Eval

LEMMA StayMeans ==
  ASSUME UNCHANGED vars \/ Stop
  PROVE  UNCHANGED Machine!vars
<1>1. UNCHANGED <<functions, globals, heap, status, results, stack, top, notop, fn, pc,
                  rpStack, spStack, pcStack>>
  BY DEF vars, Stop, operands, frames
<1> QED BY <1>1 DEF Machine!vars, PlainStack, PlainGlobals, PlainResults, PlainFrames, Saved, SaveTop

LEMMA ExecuteMeans ==
  ASSUME OInv, StackDiscipline, CallsOnStack, FramesAbove, Execute, status' # "ub"
  PROVE  Machine!Next
<1>1. ~RunOff
  BY DEF RunOff, Undefined
<1>2. Ret => Last(spStack) >= 0
  <2>1. ASSUME status = "running"
        PROVE  Last(spStack) >= 0
    <3>1. spStack \in Seq(Int) /\ Len(spStack) \in Nat /\ spStack # <<>>
      BY <2>1, Running, LenProperties DEF OInv, IInv, TypeOK
    <3>2. Len(spStack) \in 1..Len(spStack)
      BY <3>1
    <3> QED BY <2>1, <3>2 DEF FramesAbove, Last
  <2> QED BY <2>1 DEF Ret, Fetched
<1>3. GetI \/ AddI \/ SetI \/ JumpI \/ JumpFalseI \/ Iter => Machine!Next
  BY GetIMeans, AddIMeans, SetIMeans, JumpIMeans, JumpFalseIMeans, IterMeans
<1>4. Pop \/ Dup \/ BuiltinUnaryOp \/ BinaryOp \/ ConstNum \/ ConstMisc => Machine!Next
  BY PopMeans, DupMeans, BuiltinUnaryOpMeans, BinaryOpMeans, ConstNumMeans, ConstMiscMeans
<1>5. GetGlobalI \/ SetGlobalI \/ CallI \/ TailCallI \/ Ret => Machine!Next
  BY <1>2, GetGlobalIMeans, SetGlobalIMeans, CallIMeans, TailCallIMeans, RetMeans
<1>6. MakeRange \/ MakeList \/ Echo \/ Malformed => Machine!Next
  BY MakeRangeMeans, MakeListMeans, EchoMeans, MalformedMeans
<1> QED BY <1>1, <1>3, <1>4, <1>5, <1>6 DEF Execute

\* Each step of eval is a step of the machine, or one that the machine does not see.
LEMMA StepMeans ==
  ASSUME OInv, StackDiscipline, CallsOnStack, FramesAbove, [Next]_vars, status' # "ub"
  PROVE  [Machine!Next]_(Machine!vars)
<1>1. CASE UNCHANGED vars \/ Stop
  BY <1>1, StayMeans
<1>2. CASE Execute
  BY <1>2, ExecuteMeans
<1>3. CASE \E id \in 0..Len(functions) : Eval(id)
  BY <1>3, EvalMeans
<1> QED BY <1>1, <1>2, <1>3 DEF Next

LEMMA InitMeans == Init => Machine!Init /\ FramesAbove
  BY DEF Init, Machine!Init, PlainStack, PlainResults, PlainFrames, FramesAbove

\* Sharing is not observable: with its heap of counted buffers, its updates in place, its
\* cached top and its dropped frames, eval computes what a stack machine over plain values
\* computes (Evaluator::eval against the comments of instructions.h), in every run that
\* keeps the discipline eval takes for granted, in which no frame starts below the
\* stack, and that does not run into undefined behaviour.
THEOREM SharingIsUnseen ==
  Spec /\ []StackDiscipline /\ []CallsOnStack /\ [](status # "ub") => ImplementsStackMachine
<1> DEFINE Defined == status # "ub"
           Simulates == [Machine!Next]_(Machine!vars)
<1>1. Init => OwnedNow /\ FramesAbove /\ Machine!Init
  BY InitOwned, InitMeans
<1>2. IInv /\ OwnedNow /\ FramesAbove /\ StackDiscipline /\ CallsOnStack /\ Defined'
        /\ [Next]_vars
      => OwnedNow' /\ FramesAbove' /\ Simulates
  BY StepOwned, StepAbove, StepMeans DEF OInv
<1>3. Machine!Spec <=> Machine!Init /\ [][Machine!Next]_(Machine!vars)
  BY DEF Machine!Spec
<1> QED BY <1>1, <1>2, <1>3, Inductive, PTL DEF Spec, ImplementsStackMachine
-----------------------------------------------------------------------------
\* What lies beneath the frame.

\* The first b elements of s are those of t.
KeepsBelow(s, b, t) == /\ \E S : s \in Seq(S)
                  /\ \E T : t \in Seq(T)
                  /\ b \in Nat /\ b <= Len(s) /\ b <= Len(t)
                  /\ \A i \in 1..b : t[i] = s[i]

\* The first n elements of s.
LEMMA StartOf ==
  ASSUME NEW S, NEW s \in Seq(S), NEW n \in 0..Len(s)
  PROVE  /\ SubSeq(s, 1, n) \in Seq(S) /\ Len(SubSeq(s, 1, n)) = n
         /\ \A i \in 1..n : SubSeq(s, 1, n)[i] = s[i]
<1>1. Len(s) \in Nat /\ n \in Nat
  BY LenProperties
<1> QED BY <1>1

LEMMA KeepsPrefix ==
  ASSUME NEW s, NEW b, NEW t, KeepsBelow(s, b, t)
  PROVE  IsPrefix(SubSeq(s, 1, b), t)
<1> DEFINE u == SubSeq(s, 1, b)
           v == SubSeq(t, 1, b)
<1>1. PICK S, T : s \in Seq(S) /\ t \in Seq(T)
  BY DEF KeepsBelow
<1>2. /\ b \in Nat /\ b <= Len(s) /\ b <= Len(t) /\ Len(s) \in Nat /\ Len(t) \in Nat
      /\ \A i \in 1..b : t[i] = s[i]
  BY <1>1, LenProperties DEF KeepsBelow
<1> DEFINE U == S \cup T
<1>3. s \in Seq(U) /\ t \in Seq(U)
  BY <1>1, SeqMonotonic
<1> HIDE DEF U
<1>4. u \in Seq(U) /\ Len(u) = b /\ \A i \in 1..b : u[i] = s[i]
  BY <1>2, <1>3, StartOf
<1>5. v \in Seq(U) /\ Len(v) = b /\ \A i \in 1..b : v[i] = t[i]
  BY <1>2, <1>3, StartOf
<1> HIDE DEF u, v
<1>6. u = v
  BY <1>2, <1>4, <1>5, SeqEqual
<1>7. v = SubSeq(t, 1, Len(u))
  BY <1>4 DEF v
<1>8. SubSeq(u, 1, Len(u)) = u
  <2>1. SubSeq(u, 1, b) \in Seq(U) /\ Len(SubSeq(u, 1, b)) = b
        /\ \A i \in 1..b : SubSeq(u, 1, b)[i] = u[i]
    BY <1>2, <1>4, StartOf
  <2>2. SubSeq(u, 1, b) = u
    BY <1>4, <2>1, SeqEqual
  <2> QED BY <1>4, <2>2
<1>9. IsPrefix(u, t)
  BY <1>2, <1>4, <1>6, <1>7, <1>8 DEF IsPrefix
<1> QED BY <1>9 DEF u

LEMMA KeepsOn ==
  ASSUME NEW s, NEW b, NEW t, NEW u, KeepsBelow(s, b, t), KeepsBelow(t, b, u)
  PROVE  KeepsBelow(s, b, u)
  BY DEF KeepsBelow

LEMMA KeepsItself ==
  ASSUME NEW S, NEW s \in Seq(S), NEW b \in 0..Len(s)
  PROVE  KeepsBelow(s, b, s)
  BY LenProperties DEF KeepsBelow

LEMMA FrontKeeps ==
  ASSUME NEW S, NEW s \in Seq(S), NEW b \in Nat, b < Len(s)
  PROVE  KeepsBelow(s, b, Front(s)) /\ Front(s) \in Seq(S) /\ Len(Front(s)) = Len(s) - 1
<1>1. Len(s) \in Nat /\ s # <<>>
  BY LenProperties
<1>2. Front(s) \in Seq(S) /\ Len(Front(s)) = Len(s) - 1
      /\ \A i \in 1..(Len(s) - 1) : Front(s)[i] = s[i]
  BY <1>1, FrontOK
<1>3. b <= Len(s) /\ b <= Len(Front(s)) /\ \A i \in 1..b : Front(s)[i] = s[i]
  BY <1>1, <1>2
<1> QED BY <1>2, <1>3 DEF KeepsBelow

LEMMA AppendKeeps ==
  ASSUME NEW S, NEW s \in Seq(S), NEW b \in 0..Len(s), NEW x
  PROVE  KeepsBelow(s, b, Append(s, x))
<1> DEFINE T == S \cup {x}
           t == Append(s, x)
<1>1. s \in Seq(T) /\ x \in T /\ Len(s) \in Nat
  BY SeqMonotonic, LenProperties
<1> HIDE DEF T
<1>2. t \in Seq(T) /\ Len(t) = Len(s) + 1 /\ \A i \in 1..Len(s) : t[i] = s[i]
  BY <1>1, AppendProperties
<1> HIDE DEF t
<1>3. KeepsBelow(s, b, t)
  BY <1>1, <1>2 DEF KeepsBelow
<1> QED BY <1>3 DEF t

LEMMA ExceptKeeps ==
  ASSUME NEW S, NEW s \in Seq(S), NEW b \in 0..Len(s), NEW j \in 1..Len(s), b < j,
         NEW x \in S
  PROVE  KeepsBelow(s, b, [s EXCEPT ![j] = x])
<1>1. Len(s) \in Nat
  BY LenProperties
<1>2. /\ [s EXCEPT ![j] = x] \in Seq(S) /\ Len([s EXCEPT ![j] = x]) = Len(s)
      /\ \A i \in 1..Len(s) : [s EXCEPT ![j] = x][i] = IF i = j THEN x ELSE s[i]
  BY ExceptSeq
<1> QED BY <1>1, <1>2 DEF KeepsBelow

\* The start of s, with something behind it.
LEMMA StartKeeps ==
  ASSUME NEW S, NEW s \in Seq(S), NEW b \in 0..Len(s), NEW T, NEW u \in Seq(T)
  PROVE  KeepsBelow(s, b, SubSeq(s, 1, b) \o u)
<1> DEFINE U == S \cup T
           v == SubSeq(s, 1, b)
           w == v \o u
<1>1. s \in Seq(U) /\ u \in Seq(U) /\ Len(s) \in Nat /\ b \in Nat /\ Len(u) \in Nat
  BY SeqMonotonic, LenProperties
<1> HIDE DEF U
<1>3. v \in Seq(U) /\ Len(v) = b /\ \A i \in 1..b : v[i] = s[i]
  BY <1>1, StartOf
<1> HIDE DEF v
<1>4. w \in Seq(U) /\ Len(w) = b + Len(u) /\ \A i \in 1..b : w[i] = v[i]
  <2>1. w \in Seq(U) /\ Len(w) = Len(v) + Len(u)
        /\ \A i \in 1..(Len(v) + Len(u)) : w[i] = IF i <= Len(v) THEN v[i] ELSE u[i - Len(v)]
    BY <1>1, <1>3, ConcatProperties
  <2> QED BY <1>1, <1>3, <2>1
<1> HIDE DEF w
<1>5. KeepsBelow(s, b, w)
  BY <1>1, <1>3, <1>4 DEF KeepsBelow
<1> QED BY <1>5 DEF w, v

LEMMA ReadsIs ==
  /\ Inst.op \in {"SetI", "AddI", "JumpFalseI", "SetGlobalI", "Pop", "Dup",
                  "BuiltinUnaryOp", "Echo", "Ret"} => Reads = 1
  /\ Inst.op \in {"BinaryOp", "Iter"} => Reads = 2
  /\ Inst.op = "MakeRange" => Reads = 3
  BY DEF Reads, ReadBy, ReadsTop

LEMMA ReadsType ==
  ASSUME IInv, status = "running"
  PROVE  Reads \in Nat
  BY ReadByType DEF Reads, IInv, TypeOK

\* Where the machine is when the evaluator executes an instruction that keeps to its frame.
LEMMA FrameSeen ==
  ASSUME OInv, FramesAbove, KeepsToFrame, status = "running"
  PROVE  /\ \E S : PlainStack \in Seq(S)
         /\ Len(PlainStack) \in Nat /\ Last(spStack) \in Nat /\ Reads \in Nat
         /\ Last(spStack) + Reads <= Len(PlainStack)
         /\ Machine!Inst = Inst /\ Machine!Last(PlainFrames).base = Last(spStack)
<1>1. IInv
  BY DEF OInv
<1>2. spStack \in Seq(Int) /\ Len(spStack) \in Nat /\ spStack # <<>> /\ Last(spStack) \in Int
  BY <1>1, Running, LenProperties DEF IInv, TypeOK
<1>3. Last(spStack) >= 0
  <2>1. Len(spStack) \in 1..Len(spStack)
    BY <1>2
  <2> QED BY <2>1 DEF FramesAbove, Last
<1>4. Saved \in Seq(ValuePair)
  BY <1>1, SlotTypes
<1>5. /\ PlainStack \in Seq({Denote(heap, x) : x \in ValuePair})
      /\ Len(PlainStack) = Len(Saved) /\ Len(Saved) \in Nat
  BY <1>4, DenoteSeq DEF PlainStack
<1>6. Machine!Inst = Inst /\ Machine!Last(PlainFrames).base = Last(spStack)
  BY <1>1, FramesSeen
<1> QED BY <1>1, <1>2, <1>3, <1>5, <1>6, ReadsType DEF KeepsToFrame

\* The ways in which a step of the machine leaves the stack.
LEMMA ShapesKeep ==
  ASSUME NEW S, NEW s \in Seq(S), NEW b \in Nat, NEW n \in Nat, b + n <= Len(s)
  PROVE  /\ KeepsBelow(s, b, s)
         /\ \A x : KeepsBelow(s, b, Append(s, x))
         /\ n >= 1 => KeepsBelow(s, b, Front(s)) /\ \A x : KeepsBelow(s, b, Append(Front(s), x))
         /\ n >= 2 => /\ KeepsBelow(s, b, Front(Front(s)))
                      /\ \A x : KeepsBelow(s, b, Append(Front(Front(s)), x))
                      /\ \A x, y : KeepsBelow(s, b, Front(s) \o <<x, y>>)
         /\ n >= 3 => \A x : KeepsBelow(s, b, Append(Front(Front(Front(s))), x))
<1> DEFINE f == Front(s)
           ff == Front(f)
           fff == Front(ff)
<1>1. Len(s) \in Nat /\ b \in 0..Len(s)
  BY LenProperties
<1>2. n >= 1 => f \in Seq(S) /\ KeepsBelow(s, b, f) /\ Len(f) = Len(s) - 1
  BY <1>1, FrontKeeps
<1> HIDE DEF f
<1>3. n >= 2 => ff \in Seq(S) /\ KeepsBelow(f, b, ff) /\ Len(ff) = Len(s) - 2
  BY <1>1, <1>2, FrontKeeps
<1> HIDE DEF ff
<1>4. n >= 3 => fff \in Seq(S) /\ KeepsBelow(ff, b, fff) /\ Len(fff) = Len(s) - 3
  BY <1>1, <1>2, <1>3, FrontKeeps
<1> HIDE DEF fff
<1>5. KeepsBelow(s, b, s) /\ \A x : KeepsBelow(s, b, Append(s, x))
  BY <1>1, KeepsItself, AppendKeeps
<1>6. ASSUME n >= 1
      PROVE  KeepsBelow(s, b, f) /\ \A x : KeepsBelow(s, b, Append(f, x))
  <2>1. b \in 0..Len(f)
    BY <1>1, <1>2, <1>6
  <2>2. \A x : KeepsBelow(f, b, Append(f, x))
    BY <1>2, <1>6, <2>1, AppendKeeps
  <2> QED BY <1>2, <1>6, <2>2, KeepsOn
<1>7. ASSUME n >= 2
      PROVE  /\ KeepsBelow(s, b, ff) /\ \A x : KeepsBelow(s, b, Append(ff, x))
             /\ \A x, y : KeepsBelow(s, b, f \o <<x, y>>)
  <2>1. b \in 0..Len(ff) /\ b \in 0..Len(f) /\ n >= 1
    BY <1>1, <1>2, <1>3, <1>7
  <2>2. KeepsBelow(s, b, ff)
    BY <1>2, <1>3, <1>7, <2>1, KeepsOn
  <2>3. \A x : KeepsBelow(ff, b, Append(ff, x))
    BY <1>3, <1>7, <2>1, AppendKeeps
  <2>4. ASSUME NEW x, NEW y
        PROVE  KeepsBelow(s, b, f \o <<x, y>>)
    <3> DEFINE T == S \cup {x}
               g == Append(f, x)
    <3>1. KeepsBelow(f, b, g)
      BY <1>2, <2>1, AppendKeeps
    <3>2. g \in Seq(T) /\ Len(g) = Len(f) + 1
      <4>1. f \in Seq(T) /\ x \in T
        BY <1>2, <2>1, SeqMonotonic
      <4> HIDE DEF T
      <4> QED BY <4>1, AppendProperties
    <3> HIDE DEF g, T
    <3>3. KeepsBelow(g, b, Append(g, y))
      <4>1. b \in 0..Len(g)
        BY <1>1, <1>2, <2>1, <3>2
      <4> QED BY <3>2, <4>1, AppendKeeps
    <3>4. f \o <<x, y>> = Append(g, y)
      BY <1>2, <2>1, AppendTwo DEF g
    <3>5. KeepsBelow(s, b, g)
      BY <1>2, <2>1, <3>1, KeepsOn
    <3> QED BY <3>3, <3>4, <3>5, KeepsOn
  <2> QED BY <2>2, <2>3, <2>4, KeepsOn
<1>8. ASSUME n >= 3
      PROVE  \A x : KeepsBelow(s, b, Append(fff, x))
  <2>1. b \in 0..Len(fff) /\ n >= 2
    BY <1>1, <1>4, <1>8
  <2>2. KeepsBelow(s, b, fff)
    BY <1>4, <1>7, <1>8, <2>1, KeepsOn
  <2>3. \A x : KeepsBelow(fff, b, Append(fff, x))
    BY <1>4, <1>8, <2>1, AppendKeeps
  <2> QED BY <2>2, <2>3, KeepsOn
<1> QED BY <1>5, <1>6, <1>7, <1>8 DEF f, ff, fff

\* The operand the machine sets, that of a frame, lies above it.
LEMMA SetKeeps ==
  ASSUME OInv, FramesAbove, KeepsToFrame, status = "running",
         Machine!Executing("SetI", 1), Machine!IsLocal(Machine!Inst.imm), NEW x,
         PlainStack' = Machine!Front([PlainStack EXCEPT ![Machine!Local(Machine!Inst.imm)] = x]),
         \E i \in 1..Len(PlainStack) : x = PlainStack[i]
  PROVE  KeepsBelow(PlainStack, Last(spStack), PlainStack')
<1> DEFINE b == Last(spStack)
           j == Machine!Local(Machine!Inst.imm)
           t == [PlainStack EXCEPT ![j] = x]
<1>1. PICK S : PlainStack \in Seq(S)
  BY FrameSeen
<1>2. /\ Len(PlainStack) \in Nat /\ b \in Nat /\ b + 1 <= Len(PlainStack)
      /\ Inst.op = "SetI" /\ Machine!Inst = Inst /\ Machine!Last(PlainFrames).base = b
  BY FrameSeen, ReadsIs DEF Machine!Executing
<1>3. j = b + Inst.imm + 1 /\ j \in 1..Len(PlainStack) /\ Inst.imm >= 0 /\ Inst.imm \in Int
  <2>1. Inst.imm >= 0 /\ pc < Len(Code)
    BY <1>2 DEF KeepsToFrame
  <2>2. Inst.imm \in Int
    <3>1. Code \in Seq(Instruction) /\ pc \in Nat
      BY Running DEF OInv, IInv, TypeOK
    <3>2. Inst \in Instruction
      BY <2>1, <3>1, LenProperties DEF Inst
    <3> QED BY <1>2, <3>2 DEF Instruction, ImmediateOp, PlainOp
  <2> QED BY <1>2, <2>1, <2>2 DEF Machine!IsLocal, Machine!Local
<1> HIDE DEF b, j
<1>4. b < j /\ b \in 0..Len(PlainStack)
  BY <1>2, <1>3
<1>5. x \in S
  BY <1>1, LenProperties
<1>6. t \in Seq(S) /\ Len(t) = Len(PlainStack) /\ KeepsBelow(PlainStack, b, t)
  <2>1. t \in Seq(S) /\ Len(t) = Len(PlainStack)
    BY <1>1, <1>3, <1>5, ExceptSeq
  <2>2. KeepsBelow(PlainStack, b, t)
    BY <1>1, <1>3, <1>4, <1>5, ExceptKeeps
  <2> QED BY <2>1, <2>2
<1>7. PlainStack' = Front(t)
  BY SameEnds DEF j
<1> HIDE DEF t
<1>8. KeepsBelow(t, b, Front(t))
  <2>1. b < Len(t)
    BY <1>2, <1>6
  <2> QED BY <1>2, <1>6, <2>1, FrontKeeps
<1> QED BY <1>6, <1>7, <1>8, KeepsOn DEF b

\* A step that takes at most n operands off, where it reads as many.
Shape(n) ==
  LET s == PlainStack
      f == Machine!Front(s)
      ff == Machine!Front(f)
  IN \/ PlainStack' = s
     \/ \E x : PlainStack' = Append(s, x)
     \/ n >= 1 /\ (PlainStack' = f \/ \E x : PlainStack' = Append(f, x))
     \/ n >= 2 /\ \/ PlainStack' = ff \/ \E x : PlainStack' = Append(ff, x)
                  \/ \E x, y : PlainStack' = f \o <<x, y>>
     \/ n >= 3 /\ \E x : PlainStack' = Append(Machine!Front(ff), x)

LEMMA ShapeKeeps ==
  ASSUME OInv, FramesAbove, KeepsToFrame, status = "running", Shape(Reads)
  PROVE  KeepsBelow(PlainStack, Last(spStack), PlainStack')
<1> DEFINE s == PlainStack
           b == Last(spStack)
           n == Reads
<1>1. PICK S : s \in Seq(S)
  BY FrameSeen
<1>2. b \in Nat /\ n \in Nat /\ b + n <= Len(s)
  BY FrameSeen
<1> HIDE DEF s, b, n
<1>3. /\ KeepsBelow(s, b, s)
      /\ \A x : KeepsBelow(s, b, Append(s, x))
      /\ n >= 1 => KeepsBelow(s, b, Front(s)) /\ \A x : KeepsBelow(s, b, Append(Front(s), x))
      /\ n >= 2 => /\ KeepsBelow(s, b, Front(Front(s)))
                   /\ \A x : KeepsBelow(s, b, Append(Front(Front(s)), x))
                   /\ \A x, y : KeepsBelow(s, b, Front(s) \o <<x, y>>)
      /\ n >= 3 => \A x : KeepsBelow(s, b, Append(Front(Front(Front(s))), x))
  BY <1>1, <1>2, ShapesKeep
<1>4. \/ PlainStack' = s
      \/ \E x : PlainStack' = Append(s, x)
      \/ n >= 1 /\ (PlainStack' = Front(s) \/ \E x : PlainStack' = Append(Front(s), x))
      \/ n >= 2 /\ \/ PlainStack' = Front(Front(s))
                   \/ \E x : PlainStack' = Append(Front(Front(s)), x)
                   \/ \E x, y : PlainStack' = Front(s) \o <<x, y>>
      \/ n >= 3 /\ \E x : PlainStack' = Append(Front(Front(Front(s))), x)
  BY SameEnds DEF Shape, s, n
<1>5. KeepsBelow(s, b, PlainStack')
  BY <1>3, <1>4
<1> QED BY <1>5 DEF s, b

LEMMA StraightKeeps ==
  ASSUME OInv, FramesAbove, KeepsToFrame, status = "running", Machine!Straight
  PROVE  KeepsBelow(PlainStack, Last(spStack), PlainStack')
<1>1. \A op, n : Machine!Executing(op, n) => Inst.op = op
  BY FrameSeen DEF Machine!Executing
<1>2. \A s : Machine!Step(s) => PlainStack' = s
  BY DEF Machine!Step, Machine!Go, Machine!To
<1>3. ASSUME /\ Machine!Executing("SetI", 1) /\ Machine!IsLocal(Machine!Inst.imm)
             /\ Machine!Step(Machine!Front([PlainStack EXCEPT
                                ![Machine!Local(Machine!Inst.imm)] = Machine!Top]))
      PROVE  KeepsBelow(PlainStack, Last(spStack), PlainStack')
  <2>1. Len(PlainStack) \in 1..Len(PlainStack)
    BY <1>3, FrameSeen DEF Machine!Executing
  <2>2. Machine!Top = PlainStack[Len(PlainStack)]
    BY DEF Machine!Top, Machine!Last
  <2> QED BY <1>2, <1>3, <2>1, <2>2, SetKeeps
<1>4. ASSUME NEW x, Machine!Step(Append(PlainStack, x))
      PROVE  Shape(Reads)
  BY <1>2, <1>4 DEF Shape
<1>5. ASSUME NEW x, Machine!Step(Append(Machine!Rest, x)),
             NEW op \in {"AddI", "BuiltinUnaryOp"}, Machine!Executing(op, 1)
      PROVE  Shape(Reads)
  <2>1. PlainStack' = Append(Machine!Front(PlainStack), x)
    BY <1>2, <1>5 DEF Machine!Rest
  <2>2. Reads >= 1
    BY <1>1, <1>5, ReadsIs
  <2> QED BY <2>1, <2>2, Zenon DEF Shape
<1>6. ASSUME Machine!Executing("Pop", 1), Machine!Step(Machine!Rest)
      PROVE  Shape(Reads)
  BY <1>1, <1>2, <1>6, ReadsIs DEF Shape, Machine!Rest
<1>7. ASSUME NEW x, Machine!Step(Append(Machine!Front(Machine!Rest), x)),
             Machine!Executing("BinaryOp", 2)
      PROVE  Shape(Reads)
  <2>1. PlainStack' = Append(Machine!Front(Machine!Front(PlainStack)), x)
    BY <1>2, <1>7 DEF Machine!Rest
  <2>2. Reads >= 2
    BY <1>1, <1>7, ReadsIs
  <2> QED BY <2>1, <2>2, Zenon DEF Shape
<1>8. ASSUME Machine!Executing("SetGlobalI", 1), Machine!To(pc + 1, Machine!Rest)
      PROVE  Shape(Reads)
  BY <1>1, <1>8, ReadsIs DEF Shape, Machine!Rest, Machine!To
<1>9. ASSUME NEW x, Machine!Executing("MakeRange", 3),
             Machine!Step(Append(Machine!Front(Machine!Front(Machine!Rest)), x))
      PROVE  Shape(Reads)
  <2>1. PlainStack' = Append(Machine!Front(Machine!Front(Machine!Front(PlainStack))), x)
    BY <1>2, <1>9 DEF Machine!Rest
  <2>2. Reads >= 3
    BY <1>1, <1>9, ReadsIs
  <2> QED BY <2>1, <2>2, Zenon DEF Shape
<1>10. ASSUME Machine!Step(PlainStack)
       PROVE  Shape(Reads)
  BY <1>2, <1>10 DEF Shape
<1> QED BY <1>3, <1>4, <1>5, <1>6, <1>7, <1>8, <1>9, <1>10, ShapeKeeps DEF Machine!Straight

\* A tail call that is not refused is one of a function.
LEMMA TailCallKnown ==
  ASSUME [Next]_vars, status = "running", status' = "running", pc < Len(Code), IInv
  PROVE  UNCHANGED Machine!vars \/ (Inst.op = "TailCallI" => IsFunction(Inst.imm))
<1>1. CASE UNCHANGED vars \/ Stop
  BY <1>1, StayMeans
<1>2. \A id : ~Eval(id)
  BY DEF Eval
<1>3. Code \in Seq(Instruction) /\ pc \in Nat
  BY Running DEF IInv, TypeOK
<1>4. ~RunOff
  BY <1>3, LenProperties DEF RunOff
<1>5. TailCallI => IsFunction(Inst.imm)
  BY DEF TailCallI, Throw, Leave
<1>6. Execute /\ ~TailCallI => Inst.op # "TailCallI"
  BY <1>4 DEF Execute, GetI, AddI, SetI, JumpI, JumpFalseI, Iter, Pop, Dup, BuiltinUnaryOp,
              BinaryOp, ConstNum, ConstMisc, GetGlobalI, SetGlobalI, CallI, Ret, MakeRange,
              MakeList, Echo, Malformed, Fetched
<1> QED BY <1>1, <1>2, <1>5, <1>6 DEF Next

\* One step of the machine leaves what lies beneath the frame alone.
LEMMA MachineKeeps ==
  ASSUME OInv, FramesAbove, KeepsToFrame, status = "running", status' = "running",
         [Machine!Next]_(Machine!vars),
         UNCHANGED Machine!vars \/ (Inst.op = "TailCallI" => IsFunction(Inst.imm))
  PROVE  KeepsBelow(PlainStack, Last(spStack), PlainStack')
<1>1. \A op, n : Machine!Executing(op, n) => Inst.op = op
  BY FrameSeen DEF Machine!Executing
<1>2. CASE PlainStack' = PlainStack
  BY <1>2, ShapeKeeps DEF Shape
<1>3. CASE Machine!Branch
  <2>1. CASE Machine!Executing("JumpI", 0)
    BY <1>1, <1>2, <1>3, <2>1 DEF Machine!Branch, Machine!Executing, Machine!Go, Machine!To
  <2>2. CASE Machine!Executing("JumpFalseI", 1)
    <3>1. PlainStack' = Machine!Front(PlainStack)
      BY <1>1, <1>3, <2>2 DEF Machine!Branch, Machine!Executing, Machine!Go, Machine!To, Machine!Rest
    <3> QED BY <1>1, <2>2, <3>1, ReadsIs, ShapeKeeps DEF Shape
  <2> QED BY <1>3, <2>1, <2>2 DEF Machine!Branch
<1>4. CASE Machine!Loop
  <2>1. Reads = 2
    BY <1>1, <1>4, ReadsIs DEF Machine!Loop
  <2>2. \/ PlainStack' = Machine!Front(Machine!Front(PlainStack))
        \/ \E x, y : PlainStack' = Machine!Front(PlainStack) \o <<x, y>>
    <3>1. \A s, target : Machine!Go(target, s) => PlainStack' = s
      BY DEF Machine!Go, Machine!To
    <3>2. \A s : Machine!Step(s) => PlainStack' = s
      BY <3>1 DEF Machine!Step
    <3> QED BY <1>4, <3>1, <3>2 DEF Machine!Loop, Machine!Rest
  <2>3. Reads >= 2
    BY <2>1
  <2>4. Shape(Reads)
    BY <2>2, <2>3, Zenon DEF Shape
  <2> QED BY <2>4, ShapeKeeps
<1>5. PICK S : PlainStack \in Seq(S)
  BY FrameSeen
<1>6. /\ Len(PlainStack) \in Nat /\ Last(spStack) \in 0..Len(PlainStack)
      /\ Machine!Last(PlainFrames).base = Last(spStack)
  BY FrameSeen
<1>7. CASE Machine!TailCall /\ IsFunction(Inst.imm)
  <2> DEFINE n == Len(PlainStack)
             params == functions[Machine!Inst.imm + 1].parameters
             args == SubSeq(PlainStack, n - params + 1, n)
  <2>1. PlainStack' = SubSeq(PlainStack, 1, Last(spStack)) \o args
    BY <1>6, <1>7 DEF Machine!TailCall
  <2>2. \E T : args \in Seq(T)
    <3>1. params \in Nat /\ n \in Nat /\ params <= n
      <4>1. Machine!Inst = Inst
        BY FrameSeen
      <4>2. params \in Nat
        BY <1>7, <4>1, ParametersType DEF OInv
      <4>3. params <= n
        BY <1>6, <1>7, <4>2 DEF Machine!TailCall, Machine!Executing
      <4> QED BY <1>6, <4>2, <4>3
    <3> DEFINE m == n - params + 1
    <3>2. m \in Int /\ n \in Int /\ m >= 1
      BY <3>1
    <3> HIDE DEF m, n
    <3>3. \A i \in m..n : PlainStack[i] \in S
      BY <1>5, <3>2, LenProperties DEF n
    <3>4. SubSeq(PlainStack, m, n) \in Seq(S)
      BY <3>2, <3>3, SubSeqProperties
    <3> QED BY <3>4 DEF m
  <2> HIDE DEF args
  <2> QED BY <1>5, <1>6, <2>1, <2>2, StartKeeps
<1>8. CASE Machine!Return
  <2> DEFINE b == Last(spStack)
             keep == [i \in 1..1 |-> IF b + i < Len(PlainStack) THEN PlainStack[b + i]
                                     ELSE Machine!Unset]
             u == SubSeq(PlainStack, 1, b) \o keep
  <2>1. PlainStack' = Append(u, Machine!Top)
    BY <1>6, <1>8 DEF Machine!Return, Machine!Stopped
  <2>2. keep \in Seq({keep[1]})
    <3>1. keep \in [1..1 -> {keep[1]}]
      OBVIOUS
    <3> HIDE DEF keep
    <3> QED BY <3>1, SeqDef
  <2> HIDE DEF keep
  <2>3. KeepsBelow(PlainStack, b, u)
    BY <1>5, <1>6, <2>2, StartKeeps
  <2> HIDE DEF u
  <2>4. KeepsBelow(u, b, Append(u, Machine!Top))
    <3>1. PICK U : u \in Seq(U)
      BY <2>3 DEF KeepsBelow
    <3>2. b \in 0..Len(u)
      BY <2>3, <3>1, LenProperties DEF KeepsBelow
    <3> QED BY <3>1, <3>2, AppendKeeps
  <2> QED BY <2>1, <2>3, <2>4, KeepsOn
<1>9. \A id : ~Machine!Start(id)
  BY DEF Machine!Start
<1>10. ~Machine!Refuse
  BY DEF Machine!Refuse, Machine!Stopped
<1>11. Machine!Call \/ UNCHANGED Machine!vars => PlainStack' = PlainStack
  BY DEF Machine!Call, Machine!vars
<1>12. Machine!TailCall => Inst.op = "TailCallI"
  BY <1>1 DEF Machine!TailCall
<1> QED BY <1>2, <1>3, <1>4, <1>7, <1>8, <1>9, <1>10, <1>11, <1>12, StraightKeeps
        DEF Machine!Next

\* Whatever a callee does, its callers find again what they have left on the stack beneath
\* it, and in their lists, as long as each instruction keeps to its frame (CallI, TailCallI,
\* Ret, and copy-on-write), under the hypotheses of SharingIsUnseen.
THEOREM CallersAreKept ==
  Spec /\ []StackDiscipline /\ []CallsOnStack /\ [](status # "ub") => CallersKept
<1> DEFINE Defined == status # "ub"
           Beneath == status = "running" /\ status' = "running" /\ KeepsToFrame =>
                        IsPrefix(SubSeq(PlainStack, 1, Last(spStack)), PlainStack')
<1>1. Init => OwnedNow /\ FramesAbove
  BY InitOwned, InitMeans
<1>2. IInv /\ OwnedNow /\ FramesAbove /\ StackDiscipline /\ CallsOnStack /\ Defined'
        /\ [Next]_vars
      => OwnedNow' /\ FramesAbove' /\ [Beneath]_vars
  <2> HAVE IInv /\ OwnedNow /\ FramesAbove /\ StackDiscipline /\ CallsOnStack /\ Defined'
           /\ [Next]_vars
  <2>1. OwnedNow' /\ FramesAbove' /\ [Machine!Next]_(Machine!vars)
    BY StepOwned, StepAbove, StepMeans DEF OInv
  <2>2. ASSUME status = "running", status' = "running", KeepsToFrame
        PROVE  IsPrefix(SubSeq(PlainStack, 1, Last(spStack)), PlainStack')
    BY <2>1, <2>2, TailCallKnown, MachineKeeps, KeepsPrefix DEF OInv, KeepsToFrame
  <2> QED BY <2>1, <2>2
<1> QED BY <1>1, <1>2, Inductive, PTL DEF Spec, CallersKept

-----------------------------------------------------------------------------
\* Verified code.

\* A verified program that indexes no list and goes on with no loop at a negative number
\* has no undefined behaviour, whatever its heap, its lists and its calls.
THEOREM VerifiedIsDefined == Spec /\ Verified /\ []~NegativeIndex => [](status # "ub")
<1>1. Init => status # "ub"
  BY DEF Init
<1>2. status # "ub" /\ ~NegativeIndex
        /\ [status' = "ub" /\ status # "ub" => NegativeIndex]_vars => (status # "ub")'
  BY DEF vars
<1> QED BY <1>1, <1>2, OnlyNegativeIndex, PTL DEF Spec

\* Such a program computes what the machine over plain values computes: no sharing of
\* buffers, no cached top and no copy-on-write can be seen in what it returns
\* (evaluator.cpp:177 to 577, 263 to 534).
THEOREM VerifiedSharingIsUnseen == Spec /\ Verified /\ []~NegativeIndex => ImplementsStackMachine
  BY VerifiedDiscipline, VerifiedOnStack, VerifiedIsDefined, SharingIsUnseen, PTL

\* And its functions leave alone what their callers have on the stack, with no condition
\* on the single instruction: verified code keeps to its frame.
THEOREM VerifiedCallersAreKept == Spec /\ Verified /\ []~NegativeIndex => CallersKept
  BY VerifiedDiscipline, VerifiedOnStack, VerifiedIsDefined, CallersAreKept, PTL

LEMMA EmptyPrefix ==
  ASSUME NEW s, Len(s) \in Nat
  PROVE  IsPrefix(<<>>, s)
<1>1. Len(<<>>) = 0 /\ SubSeq(<<>>, 1, 0) = <<>> /\ SubSeq(s, 1, 0) = <<>>
  BY SubSeqEmpty
<1>2. 0 <= Len(s)
  OBVIOUS
<1> QED BY <1>1, <1>2 DEF IsPrefix

\* The same without the condition: whatever a function does, its callers find again what
\* they have left on the stack beneath it, and in their lists.
THEOREM VerifiedLeavesCallersAlone ==
  Spec /\ Verified /\ []~NegativeIndex =>
    [][status = "running" /\ status' = "running" =>
         IsPrefix(SubSeq(PlainStack, 1, Last(spStack)), PlainStack')]_vars
<1> DEFINE Prefix == IsPrefix(SubSeq(PlainStack, 1, Last(spStack)), PlainStack')
           Kept == status = "running" /\ status' = "running" /\ KeepsToFrame => Prefix
           Alone == status = "running" /\ status' = "running" => Prefix
<1>1. IInv /\ IInv' /\ WellShaped /\ [Kept]_vars => [Alone]_vars
  <2> SUFFICES ASSUME IInv, IInv', WellShaped, Kept, status = "running", status' = "running"
               PROVE  Prefix
    OBVIOUS
  <2>1. KeepsToFrame \/ Last(spStack) = 0
    BY ShapedKeepsToFrame DEF WellShaped
  <2>2. CASE Last(spStack) = 0
    <3>1. SubSeq(PlainStack, 1, Last(spStack)) = <<>>
      BY <2>2, SubSeqEmpty
    <3>2. Saved' \in Seq(ValuePair)
      BY AppendProperties DEF IInv, TypeOK, Saved, SaveTop
    <3>3. Len(PlainStack') = Len(Saved') /\ Len(Saved') \in Nat
      BY <3>2, LenProperties DEF PlainStack, DenoteAll
    <3> QED BY <3>1, <3>3, EmptyPrefix
  <2> QED BY <2>1, <2>2
<1> QED BY <1>1, ShapesKept, Inductive, VerifiedCallersAreKept, PTL DEF CallersKept

=============================================================================
