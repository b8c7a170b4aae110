-------------------------- MODULE EvaluatorProofs ---------------------------
(***************************************************************************)
(* What holds of Evaluator for every program, heap and bound: the types,   *)
(* the agreement of the call stacks with the code, and copy-on-write:      *)
(* however many boxes share a buffer, an instruction changes the elements  *)
(* of no list but its left operand.                                        *)
(*                                                                         *)
(* And, for verified programs, the stack discipline: each frame has the    *)
(* shape of a point of the typing (InShape), whatever is called.           *)
(***************************************************************************)
EXTENDS EvaluatorProperties, SequenceTheorems, TLAPS

-----------------------------------------------------------------------------
\* What the operations of Values preserve, whatever heap and operands they are
\* applied to.

Exit == {"ok", "throw", "ub"}
IsOutcome(r) == IsHeap(r.heap) /\ r.val \in ValuePair /\ r.exit \in Exit

-----------------------------------------------------------------------------
\* The parts of a well formed heap make one.
LEMMA HeapOK ==
  ASSUME NEW vec, NEW range, NEW buf, NEW next \in Nat \ {0},
         \A a \in DOMAIN vec \cup DOMAIN range \cup DOMAIN buf :
           a \in Nat /\ 0 < a /\ a < next,
         DOMAIN vec \cap DOMAIN range = {},
         vec \in [DOMAIN vec -> DOMAIN buf],
         range \in [DOMAIN range -> SRange],
         buf \in [DOMAIN buf -> Seq(ValuePair)],
         \A b \in DOMAIN buf : \E a \in DOMAIN vec : vec[a] = b
  PROVE  IsHeap(Heap(vec, range, buf, next))
  BY DEF IsHeap, Heap

LEMMA OutcomeOK ==
  ASSUME NEW h, NEW x \in ValuePair, IsHeap(h)
  PROVE  IsOutcome(Ok(h, x)) /\ IsOutcome(Throws(h)) /\ IsOutcome(UB(h))
  BY DEF IsOutcome, Ok, Throws, UB, Undef, ValuePair, ValueTag, Exit

\* The next address is fresh.
LEMMA NextIsFresh ==
  ASSUME NEW h, IsHeap(h)
  PROVE  /\ h.next \in Nat \ {0}
         /\ h.next \notin DOMAIN h.vec
         /\ h.next \notin DOMAIN h.range
         /\ h.next \notin DOMAIN h.buf
         /\ Vec(h.next) \in ValuePair /\ Rng(h.next) \in ValuePair
  BY DEF IsHeap, Vec, Rng, ValuePair, ValueTag, AllocatedTag

LEMMA PutFresh ==
  ASSUME NEW f, NEW k, NEW x, NEW S, f \in [DOMAIN f -> S], x \in S
  PROVE  /\ DOMAIN Put(f, k, x) = DOMAIN f \cup {k}
         /\ Put(f, k, x) \in [DOMAIN f \cup {k} -> S]
         /\ Put(f, k, x)[k] = x
         /\ \A i \in DOMAIN f : i # k => Put(f, k, x)[i] = f[i]
  BY DEF Put

\* A new box on a new buffer with elements s.
LEMMA NewVectorOK ==
  ASSUME NEW h, IsHeap(h), NEW s \in Seq(ValuePair)
  PROVE  IsHeap(Heap(Put(h.vec, h.next, h.next), h.range, Put(h.buf, h.next, s),
                     h.next + 1))
<1> DEFINE n == h.next
           vec == Put(h.vec, n, n)
           buf == Put(h.buf, n, s)
<1>1. n \in Nat \ {0} /\ n \notin DOMAIN h.vec /\ n \notin DOMAIN h.range
  BY NextIsFresh
<1>2. DOMAIN vec = DOMAIN h.vec \cup {n} /\ DOMAIN buf = DOMAIN h.buf \cup {n}
  BY DEF Put
<1>3. vec \in [DOMAIN vec -> DOMAIN buf]
  BY <1>1, <1>2 DEF Put, IsHeap
<1>4. buf \in [DOMAIN buf -> Seq(ValuePair)]
  BY <1>1, <1>2 DEF Put, IsHeap
<1>5. \A b \in DOMAIN buf : \E a \in DOMAIN vec : vec[a] = b
  BY <1>1, <1>2 DEF Put, IsHeap
<1>6. \A x \in DOMAIN vec \cup DOMAIN h.range \cup DOMAIN buf :
        x \in Nat /\ 0 < x /\ x < n + 1
  BY <1>1, <1>2 DEF IsHeap
<1>7. DOMAIN vec \cap DOMAIN h.range = {} /\ n + 1 \in Nat \ {0}
  BY <1>1, <1>2 DEF IsHeap
<1>8. h.range \in [DOMAIN h.range -> SRange]
  BY DEF IsHeap
<1> HIDE DEF vec, buf
<1>9. IsHeap(Heap(vec, h.range, buf, n + 1))
  BY <1>3, <1>4, <1>5, <1>6, <1>7, <1>8, HeapOK
<1> QED BY <1>9 DEF vec, buf

LEMMA NewListOK ==
  ASSUME NEW h, IsHeap(h)
  PROVE  IsOutcome(NewList(h))
<1> DEFINE s == <<>>
<1>0. s \in Seq(ValuePair)
  OBVIOUS
<1> HIDE DEF s
<1>1. IsHeap(Heap(Put(h.vec, h.next, h.next), h.range, Put(h.buf, h.next, s), h.next + 1))
  BY <1>0, NewVectorOK
<1>2. Vec(h.next) \in ValuePair
  BY NextIsFresh
<1> QED BY <1>1, <1>2, OutcomeOK DEF NewList, s

LEMMA NewRangeOK ==
  ASSUME NEW h, IsHeap(h), NEW r \in SRange
  PROVE  IsOutcome(NewRange(h, r))
<1> DEFINE n == h.next
           range == Put(h.range, n, r)
<1>1. n \in Nat \ {0} /\ n \notin DOMAIN h.vec
  BY NextIsFresh
<1>2. DOMAIN range = DOMAIN h.range \cup {n} /\ range \in [DOMAIN range -> SRange]
  BY DEF Put, IsHeap
<1>3. \A x \in DOMAIN h.vec \cup DOMAIN range \cup DOMAIN h.buf :
        x \in Nat /\ 0 < x /\ x < n + 1
  BY <1>1, <1>2 DEF IsHeap
<1>4. DOMAIN h.vec \cap DOMAIN range = {} /\ n + 1 \in Nat \ {0}
  BY <1>1, <1>2 DEF IsHeap
<1>5. /\ h.vec \in [DOMAIN h.vec -> DOMAIN h.buf]
      /\ h.buf \in [DOMAIN h.buf -> Seq(ValuePair)]
      /\ \A b \in DOMAIN h.buf : \E a \in DOMAIN h.vec : h.vec[a] = b
  BY DEF IsHeap
<1> HIDE DEF range
<1>6. IsHeap(Heap(h.vec, range, h.buf, n + 1))
  BY <1>2, <1>3, <1>4, <1>5, HeapOK
<1>7. Rng(h.next) \in ValuePair
  BY NextIsFresh
<1> QED BY <1>6, <1>7, OutcomeOK DEF NewRange, range

\* A second box on the buffer of a.
LEMMA ShareOK ==
  ASSUME NEW h, IsHeap(h), NEW a \in DOMAIN h.vec
  PROVE  IsHeap(Heap(Put(h.vec, h.next, h.vec[a]), h.range, h.buf, h.next + 1))
<1> DEFINE n == h.next
           vec == Put(h.vec, n, h.vec[a])
<1>1. n \in Nat \ {0} /\ n \notin DOMAIN h.vec /\ n \notin DOMAIN h.range
  BY NextIsFresh
<1>2. DOMAIN vec = DOMAIN h.vec \cup {n} /\ vec \in [DOMAIN vec -> DOMAIN h.buf]
  BY DEF Put, IsHeap
<1>3. \A x \in DOMAIN vec \cup DOMAIN h.range \cup DOMAIN h.buf :
        x \in Nat /\ 0 < x /\ x < n + 1
  BY <1>1, <1>2 DEF IsHeap
<1>4. \A b \in DOMAIN h.buf : \E x \in DOMAIN vec : vec[x] = b
  BY <1>1, <1>2 DEF Put, IsHeap
<1>5. DOMAIN vec \cap DOMAIN h.range = {} /\ n + 1 \in Nat \ {0}
  <2>1. DOMAIN h.vec \cap DOMAIN h.range = {}
    BY DEF IsHeap
  <2> HIDE DEF vec
  <2> QED BY <1>1, <1>2, <2>1
<1>6. /\ h.range \in [DOMAIN h.range -> SRange]
      /\ h.buf \in [DOMAIN h.buf -> Seq(ValuePair)]
  BY DEF IsHeap
<1> HIDE DEF vec
<1>7. IsHeap(Heap(vec, h.range, h.buf, n + 1))
  BY <1>2, <1>3, <1>4, <1>5, <1>6, HeapOK
<1> QED BY <1>7 DEF vec

LEMMA FreeAllOK ==
  ASSUME NEW h, IsHeap(h), NEW A
  PROVE  IsHeap(FreeAll(h, A))
<1> DEFINE vec == Without(h.vec, A)
           range == Without(h.range, A)
           buf == Restrict(h.buf, {b \in DOMAIN h.buf :
                                     \E a \in DOMAIN h.vec \ A : h.vec[a] = b})
<1>1. DOMAIN vec = DOMAIN h.vec \ A /\ DOMAIN range = DOMAIN h.range \ A
  BY DEF Without, Restrict
<1>2. DOMAIN buf = {b \in DOMAIN h.buf : \E a \in DOMAIN h.vec \ A : h.vec[a] = b}
  BY DEF Restrict
<1>3. vec \in [DOMAIN vec -> DOMAIN buf]
  BY <1>1, <1>2 DEF Without, Restrict, IsHeap
<1>4. range \in [DOMAIN range -> SRange]
  BY <1>1 DEF Without, Restrict, IsHeap
<1>5. buf \in [DOMAIN buf -> Seq(ValuePair)]
  BY <1>2 DEF Restrict, IsHeap
<1>6. \A b \in DOMAIN buf : \E a \in DOMAIN vec : vec[a] = b
  BY <1>1, <1>2 DEF Without, Restrict
<1> HIDE DEF vec, range, buf
<1>7. DOMAIN vec \cap DOMAIN range = {} /\ h.next \in Nat \ {0}
  BY <1>1 DEF IsHeap
<1>8. \A x \in DOMAIN vec \cup DOMAIN range \cup DOMAIN buf :
        x \in Nat /\ 0 < x /\ x < h.next
  BY <1>1, <1>2 DEF IsHeap
<1>9. IsHeap(Heap(vec, range, buf, h.next))
  BY <1>3, <1>4, <1>5, <1>6, <1>7, <1>8, HeapOK
<1> QED BY <1>9 DEF FreeAll, vec, range, buf

\* Other elements in the buffer of a live list.
LEMMA SetElementsOK ==
  ASSUME NEW h, IsHeap(h), NEW a \in DOMAIN h.vec, NEW s \in Seq(ValuePair)
  PROVE  IsHeap(SetElements(h, a, s))
<1> DEFINE buf == Put(h.buf, h.vec[a], s)
<1>1. h.vec[a] \in DOMAIN h.buf
  BY DEF IsHeap
<1>2. DOMAIN buf = DOMAIN h.buf
  BY <1>1 DEF Put
<1>3. buf \in [DOMAIN buf -> Seq(ValuePair)]
  BY <1>1 DEF Put, IsHeap
<1> HIDE DEF buf
<1>5. /\ h.next \in Nat \ {0}
      /\ \A x \in DOMAIN h.vec \cup DOMAIN h.range \cup DOMAIN buf :
           x \in Nat /\ 0 < x /\ x < h.next
      /\ DOMAIN h.vec \cap DOMAIN h.range = {}
      /\ h.vec \in [DOMAIN h.vec -> DOMAIN buf]
      /\ h.range \in [DOMAIN h.range -> SRange]
      /\ \A b \in DOMAIN buf : \E x \in DOMAIN h.vec : h.vec[x] = b
  BY <1>2 DEF IsHeap
<1>4. IsHeap(Heap(h.vec, h.range, buf, h.next))
  BY <1>3, <1>5, HeapOK
<1> QED BY <1>4 DEF SetElements, buf

LEMMA LiveParts ==
  ASSUME NEW h, IsHeap(h), NEW x, Live(h, x)
  PROVE  /\ x.tag = "VECTOR" => /\ x.v \in DOMAIN h.vec
                               /\ h.vec[x.v] \in DOMAIN h.buf
                               /\ Elements(h, x.v) \in Seq(ValuePair)
         /\ x.tag = "RANGE" => h.range[x.v] \in SRange
  BY DEF Live, Elements, IsHeap

LEMMA CopyOK ==
  ASSUME NEW h, IsHeap(h), NEW x \in ValuePair
  PROVE  IsOutcome(Copy(h, x))
<1>1. CASE ~isAllocated(x)
  BY <1>1, OutcomeOK DEF Copy, isAllocated, AllocatedTag
<1>2. CASE x.tag = "VECTOR" /\ Live(h, x)
  <2>1. x.v \in DOMAIN h.vec
    BY <1>2, LiveParts
  <2>2. IsHeap(Heap(Put(h.vec, h.next, h.vec[x.v]), h.range, h.buf, h.next + 1))
    BY <2>1, ShareOK
  <2>3. Vec(h.next) \in ValuePair
    BY NextIsFresh
  <2> HIDE DEF IsHeap
  <2>4. Copy(h, x) = Ok(Heap(Put(h.vec, h.next, h.vec[x.v]), h.range, h.buf, h.next + 1),
                        Vec(h.next))
    BY <1>2 DEF Copy, isAllocated, AllocatedTag
  <2> QED BY <2>2, <2>3, <2>4, OutcomeOK
<1>3. CASE x.tag = "RANGE" /\ Live(h, x)
  <2>1. h.range[x.v] \in SRange
    BY <1>3, LiveParts
  <2>2. Copy(h, x) = NewRange(h, h.range[x.v])
    BY <1>3 DEF Copy, isAllocated, AllocatedTag
  <2> QED BY <2>1, <2>2, NewRangeOK
<1>4. CASE x.tag = "STRING"
  BY <1>4, OutcomeOK DEF Copy, isAllocated, AllocatedTag
<1>5. CASE isAllocated(x) /\ x.tag # "STRING" /\ ~Live(h, x)
  BY <1>5, OutcomeOK DEF Copy, isAllocated, AllocatedTag
<1> QED BY <1>1, <1>2, <1>3, <1>4, <1>5 DEF isAllocated, AllocatedTag, Live

LEMMA DropOK ==
  ASSUME NEW h, IsHeap(h), NEW x \in ValuePair
  PROVE  IsOutcome(Drop(h, x))
<1>1. Undef \in ValuePair
  BY DEF Undef, ValuePair, ValueTag
<1>2. CASE ~isAllocated(x)
  BY <1>1, <1>2, OutcomeOK DEF Drop, isAllocated, AllocatedTag, Live
<1>3. CASE isAllocated(x) /\ Live(h, x)
  <2>1. Drop(h, x) = Ok(FreeAll(h, {x.v}), Undef)
    BY <1>3 DEF Drop, isAllocated, AllocatedTag, Live
  <2> QED BY <1>1, <2>1, FreeAllOK, OutcomeOK
<1>4. CASE x.tag = "STRING"
  BY <1>4, OutcomeOK DEF Drop, isAllocated, AllocatedTag, Live
<1>5. CASE isAllocated(x) /\ x.tag # "STRING" /\ ~Live(h, x)
  BY <1>5, OutcomeOK DEF Drop, isAllocated, AllocatedTag
<1> QED BY <1>2, <1>3, <1>4, <1>5

LEMMA DropAllOK ==
  ASSUME NEW h, IsHeap(h), NEW s
  PROVE  IsOutcome(DropAll(h, s))
<1>1. Undef \in ValuePair
  BY DEF Undef, ValuePair, ValueTag
<1>2. \E A : DropAll(h, s) \in {Ok(FreeAll(h, A), Undef), Throws(FreeAll(h, A)), UB(FreeAll(h, A))}
  BY DEF DropAll
<1>3. PICK A : DropAll(h, s) \in {Ok(FreeAll(h, A), Undef), Throws(FreeAll(h, A)), UB(FreeAll(h, A))}
  BY <1>2
<1>4. IsHeap(FreeAll(h, A))
  BY FreeAllOK
<1> QED BY <1>1, <1>3, <1>4, OutcomeOK

LEMMA DropBothOK ==
  ASSUME NEW h, IsHeap(h), NEW l, NEW r
  PROVE  IsOutcome(DropBoth(h, l, r))
  BY DropAllOK DEF DropBoth

\* An unshared list is live, on a buffer of its own.
LEMMA UnshareOK ==
  ASSUME NEW h, IsHeap(h), NEW a \in DOMAIN h.vec, a \in Nat
  PROVE  /\ IsHeap(Unshare(h, a).heap)
         /\ Unshare(h, a).val \in ValuePair
         /\ Unshare(h, a).val.v \in DOMAIN Unshare(h, a).heap.vec
<1>1. CASE UseCountIsOne(h, a)
  BY <1>1 DEF Unshare, Ok, Vec, ValuePair, ValueTag, AllocatedTag
<1>2. CASE ~UseCountIsOne(h, a)
  <2> DEFINE g == Heap(Put(h.vec, h.next, h.next), h.range,
                       Put(h.buf, h.next, Elements(h, a)), h.next + 1)
  <2>1. Elements(h, a) \in Seq(ValuePair)
    BY DEF Elements, IsHeap
  <2>2. IsHeap(g)
    BY <2>1, NewVectorOK
  <2>3. h.next \in DOMAIN g.vec
    BY DEF Heap, Put
  <2>4. h.next # a
    BY NextIsFresh
  <2> HIDE DEF g
  <2>5. IsHeap(FreeAll(g, {a}))
    BY <2>2, FreeAllOK
  <2>6. h.next \in DOMAIN FreeAll(g, {a}).vec
    BY <2>3, <2>4 DEF FreeAll, Heap, Without, Restrict
  <2>7. Unshare(h, a) = Ok(FreeAll(g, {a}), Vec(h.next))
    BY <1>2 DEF Unshare, g
  <2> QED BY <2>5, <2>6, <2>7, NextIsFresh DEF Ok, Vec
<1> QED BY <1>1, <1>2

LEMMA HandleUnaryOK ==
  ASSUME NEW h, IsHeap(h), NEW x \in ValuePair, NEW op \in BuiltinUnary
  PROVE  IsOutcome(HandleUnary(h, x, op))
<1>1. x.v \in Int /\ IsOutcome(Drop(h, x)) /\ IsOutcome(Throws(h))
  BY DropOK, OutcomeOK DEF ValuePair
<1>2. \A n \in Int : Num(n) \in ValuePair
  BY DEF Num, ValuePair, ValueTag
<1>3. Bool(TRUE) \in ValuePair /\ Bool(FALSE) \in ValuePair
  BY DEF Bool, ValuePair, ValueTag
<1>4. CASE op = "NOT"
  BY <1>1, <1>3, <1>4, OutcomeOK DEF HandleUnary, RangeGetter, NumericUnary
<1>5. CASE op = "NORM"
  BY <1>1, <1>5 DEF HandleUnary, RangeGetter, NumericUnary
<1>6. CASE op = "LEN"
  <2>1. CASE x.tag = "VECTOR" /\ Live(h, x)
    <3>1. Len(Elements(h, x.v)) \in Int
      BY <2>1, LiveParts
    <3>2. HandleUnary(h, x, op) = Ok(FreeAll(h, {x.v}), Num(Len(Elements(h, x.v))))
      BY <1>6, <2>1 DEF HandleUnary, RangeGetter, NumericUnary
    <3> QED BY <1>2, <3>1, <3>2, FreeAllOK, OutcomeOK
  <2>2. CASE ~(x.tag = "VECTOR" /\ Live(h, x))
    BY <1>1, <1>6, <2>2 DEF HandleUnary, RangeGetter, NumericUnary
  <2> QED BY <2>1, <2>2
<1>7. CASE op \in RangeGetter
  <2>1. CASE x.tag = "RANGE" /\ Live(h, x)
    <3>1. FieldOf(op, h.range[x.v]) \in Int
      BY <1>7, <2>1, LiveParts DEF FieldOf, RangeGetter, SRange
    <3>2. HandleUnary(h, x, op) = Ok(FreeAll(h, {x.v}), Num(FieldOf(op, h.range[x.v])))
      BY <1>7, <2>1 DEF HandleUnary, RangeGetter, NumericUnary
    <3> QED BY <1>2, <3>1, <3>2, FreeAllOK, OutcomeOK
  <2>2. CASE ~(x.tag = "RANGE" /\ Live(h, x))
    BY <1>1, <1>7, <2>2 DEF HandleUnary, RangeGetter, NumericUnary
  <2> QED BY <2>1, <2>2
<1>8. CASE op \in NumericUnary
  <2>1. NumberOf(op, x.v) \in Int
    BY <1>1, <1>8 DEF NumberOf, NumericUnary
  <2> QED BY <1>1, <1>2, <1>8, <2>1, OutcomeOK DEF HandleUnary, RangeGetter, NumericUnary
<1> QED BY <1>4, <1>5, <1>6, <1>7, <1>8 DEF BuiltinUnary

LEMMA AppendToOK ==
  ASSUME NEW h, IsHeap(h), NEW l \in ValuePair, NEW r \in ValuePair
  PROVE  IsOutcome(AppendTo(h, l, r))
<1>1. CASE l.tag # "VECTOR"
  BY <1>1, DropBothOK DEF AppendTo
<1>2. CASE l.tag = "VECTOR" /\ Live(h, l)
  <2> DEFINE u == Unshare(h, l.v)
             s == Append(Elements(h, l.v), r)
  <2>1. l.v \in DOMAIN h.vec /\ s \in Seq(ValuePair)
    BY <1>2, LiveParts, AppendProperties
  <2>2. l.v \in Nat
    BY <2>1 DEF IsHeap
  <2>3. IsHeap(u.heap) /\ u.val \in ValuePair /\ u.val.v \in DOMAIN u.heap.vec
    BY <2>1, <2>2, UnshareOK
  <2>4. AppendTo(h, l, r) = Ok(SetElements(u.heap, u.val.v, s), u.val)
    BY <1>2 DEF AppendTo
  <2> HIDE DEF u, s
  <2> QED BY <2>1, <2>3, <2>4, SetElementsOK, OutcomeOK
<1>3. CASE l.tag = "VECTOR" /\ ~Live(h, l)
  BY <1>3, OutcomeOK DEF AppendTo
<1> QED BY <1>1, <1>2, <1>3

LEMMA ConcatOK ==
  ASSUME NEW h, IsHeap(h), NEW l \in ValuePair, NEW r \in ValuePair
  PROVE  IsOutcome(Concat(h, l, r))
<1> DEFINE lists == l.tag = "VECTOR" /\ r.tag = "VECTOR"
           valid == Live(h, l) /\ Live(h, r) /\ l.v # r.v
<1>1. CASE ~lists
  BY <1>1, DropBothOK DEF Concat
<1>2. CASE lists /\ valid
  <2> DEFINE u == Unshare(h, l.v)
             s == Elements(h, l.v) \o Elements(h, r.v)
  <2>1. l.v \in DOMAIN h.vec /\ s \in Seq(ValuePair)
    BY <1>2, LiveParts, ConcatProperties
  <2>2. l.v \in Nat
    BY <2>1 DEF IsHeap
  <2>3. IsHeap(u.heap) /\ u.val \in ValuePair /\ u.val.v \in DOMAIN u.heap.vec
    BY <2>1, <2>2, UnshareOK
  <2>4. Concat(h, l, r) = Ok(SetElements(u.heap, u.val.v, s), u.val)
    BY <1>2 DEF Concat
  <2> HIDE DEF u, s
  <2> QED BY <2>1, <2>3, <2>4, SetElementsOK, OutcomeOK
<1>3. CASE lists /\ ~valid
  BY <1>3, OutcomeOK DEF Concat
<1> QED BY <1>1, <1>2, <1>3

LEMMA IndexOK ==
  ASSUME NEW h, IsHeap(h), NEW l \in ValuePair, NEW r \in ValuePair
  PROVE  IsOutcome(Index(h, l, r))
<1> DEFINE typed == l.tag = "VECTOR" /\ r.tag = "NUMBER"
           valid == Live(h, l) /\ r.v >= 0
<1>1. r.v \in Int
  BY DEF ValuePair
<1>2. CASE ~typed
  BY <1>2, DropBothOK DEF Index
<1>3. CASE typed /\ valid
  <2> DEFINE s == Elements(h, l.v)
             c == Copy(h, s[r.v + 1])
  <2>1. s \in Seq(ValuePair)
    BY <1>3, LiveParts
  <2>2. CASE r.v >= Len(s)
    <3>1. Index(h, l, r) = Drop(h, l)
      BY <1>1, <1>3, <2>2 DEF Index
    <3> QED BY <3>1, DropOK
  <2>3. CASE ~(r.v >= Len(s))
    <3>1. s[r.v + 1] \in ValuePair
      BY <1>1, <1>3, <2>1, <2>3
    <3>2. IsOutcome(c)
      BY <3>1, CopyOK
    <3>3. IsOutcome(Ok(FreeAll(c.heap, {l.v}), c.val))
      BY <3>2, FreeAllOK, OutcomeOK DEF IsOutcome
    <3>4. Index(h, l, r) \in {Ok(FreeAll(c.heap, {l.v}), c.val), c}
      BY <1>1, <1>3, <2>3 DEF Index
    <3> QED BY <3>2, <3>3, <3>4
  <2> QED BY <2>2, <2>3
<1>4. CASE typed /\ ~valid
  BY <1>1, <1>4, OutcomeOK DEF Index
<1> QED BY <1>2, <1>3, <1>4

LEMMA HandleBinaryOK ==
  ASSUME NEW h, IsHeap(h), NEW l \in ValuePair, NEW r \in ValuePair, NEW op \in BinOp
  PROVE  IsOutcome(HandleBinary(h, l, r, op))
<1> USE DEF ArithmeticOp, CompareOp, EqualityOp, LogicOp
<1>1. l.v \in Int /\ r.v \in Int
  BY DEF ValuePair
<1>2. \A n \in Int : Num(n) \in ValuePair
  BY DEF Num, ValuePair, ValueTag
<1>3. \A b : Bool(b) \in ValuePair
  BY DEF Bool, ValuePair, ValueTag
<1>4. CASE op \in ArithmeticOp
  <2>1. HandleBinary(h, l, r, op) = Arithmetic(h, l, r, op)
    BY <1>4 DEF HandleBinary
  <2>2. l.v + r.v \in Int /\ l.v - r.v \in Int /\ l.v * r.v \in Int
    BY <1>1
  <2> QED BY <1>2, <1>4, <2>1, <2>2, DropBothOK, OutcomeOK DEF Arithmetic
<1>5. CASE op \in CompareOp
  <2>1. HandleBinary(h, l, r, op) = Compare(h, l, r, op)
    BY <1>5 DEF HandleBinary
  <2> QED BY <1>3, <2>1, DropBothOK, OutcomeOK DEF Compare
<1>6. CASE op \in EqualityOp
  <2>1. HandleBinary(h, l, r, op) = Equality(h, l, r)
    BY <1>6 DEF HandleBinary
  <2> DEFINE d == DropBoth(h, l, r)
  <2>2. IsOutcome(d) /\ IsOutcome(UB(h))
    BY <1>1, <1>2, DropBothOK, OutcomeOK
  <2>3. IsOutcome(Ok(d.heap, Bool(Equal(h, l, r) = "yes")))
    BY <1>3, <2>2, OutcomeOK DEF IsOutcome
  <2> HIDE DEF d
  <2>4. Equality(h, l, r) \in {UB(h), d, Ok(d.heap, Bool(Equal(h, l, r) = "yes"))}
    BY DEF Equality, d
  <2> QED BY <2>1, <2>2, <2>3, <2>4
<1>7. CASE op \in LogicOp
  <2>1. HandleBinary(h, l, r, op) = Logic(h, l, r, op)
    BY <1>7 DEF HandleBinary
  <2> QED BY <1>3, <2>1, DropBothOK, OutcomeOK DEF Logic
<1>8. CASE op = "APPEND"
  BY <1>8, AppendToOK DEF HandleBinary
<1>9. CASE op = "CONCAT"
  BY <1>9, ConcatOK DEF HandleBinary
<1>10. CASE op = "INDEX"
  BY <1>10, IndexOK DEF HandleBinary
<1> QED BY <1>4, <1>5, <1>6, <1>7, <1>8, <1>9, <1>10 DEF BinOp

-----------------------------------------------------------------------------
\* The types, and the call stacks.

IInv == TypeOK /\ FramesMatchCode

Outcome == [how : {"return", "throw"}, val : ValuePair]

LEMMA UndefType == Undef \in ValuePair
  BY DEF Undef, ValuePair, ValueTag

\* Where the evaluator is when it fetches an instruction, and what it fetches.
LEMMA Running ==
  ASSUME IInv, status = "running"
  PROVE  /\ fn \in 0..(Len(functions) - 1)
         /\ functions[fn + 1] \in FunctionEntry
         /\ Code \in Seq(Instruction)
         /\ rpStack # <<>> /\ spStack # <<>> /\ pcStack # <<>>
         /\ Last(spStack) \in Int /\ Last(pcStack) \in Nat
<1>1. /\ functions \in Seq(FunctionEntry) /\ fn \in Nat
      /\ rpStack \in Seq(Nat) /\ spStack \in Seq(Int) /\ pcStack \in Seq(Nat)
  BY DEF IInv, TypeOK
<1>2. /\ Len(rpStack) = Len(pcStack) /\ Len(rpStack) = Len(spStack)
      /\ rpStack # <<>> /\ fn = rpStack[Len(rpStack)]
      /\ \A i \in 1..Len(rpStack) : rpStack[i] < Len(functions)
  BY DEF IInv, FramesMatchCode
<1>3. Len(rpStack) \in 1..Len(rpStack)
  BY <1>1, <1>2
<1>4. fn \in 0..(Len(functions) - 1)
  BY <1>1, <1>2, <1>3
<1>5. functions[fn + 1] \in FunctionEntry
  BY <1>1, <1>4
<1>6. Code \in Seq(Instruction)
  BY <1>5 DEF Code, FunctionEntry
<1>7. spStack # <<>> /\ pcStack # <<>>
  <2>1. Len(spStack) > 0 /\ Len(pcStack) > 0
    BY <1>1, <1>2, <1>3
  <2>2. \A S : \A s \in Seq(S) : Len(s) > 0 => s # <<>>
    OBVIOUS
  <2> QED BY <1>1, <2>1, <2>2
<1>8. Last(spStack) \in Int /\ Last(pcStack) \in Nat
  BY <1>1, <1>7 DEF Last
<1> QED BY <1>2, <1>4, <1>5, <1>6, <1>7, <1>8

LEMMA FetchedInst ==
  ASSUME IInv, NEW op, Fetched(op)
  PROVE  /\ status = "running" /\ pc \in Nat /\ pc < Len(Code)
         /\ Inst \in Instruction /\ Inst.op = op
         /\ op \in ImmediateOp => Inst.imm \in Int
         /\ op = "BuiltinUnaryOp" => Inst.unary \in BuiltinUnary
         /\ op = "BinaryOp" => Inst.binary \in BinOp
<1>1. status = "running" /\ pc \in Nat /\ pc < Len(Code) /\ Inst.op = op
  BY DEF Fetched, IInv, TypeOK
<1>2. Inst \in Instruction
  BY <1>1, Running DEF Inst
<1> QED BY <1>1, <1>2 DEF Instruction, ImmediateOp, PlainOp

LEMMA SavedType ==
  ASSUME IInv
  PROVE  Saved \in Seq(ValuePair)
  BY AppendProperties DEF IInv, TypeOK, Saved, SaveTop

-----------------------------------------------------------------------------
\* The common endings of the instructions.

LEMMA LeaveOK ==
  ASSUME IInv, NEW how \in {"return", "throw"}, NEW x \in ValuePair, NEW h, IsHeap(h),
         Leave(how, x, h)
  PROVE  IInv'
<1>1. [how |-> how, val |-> x] \in [how : {"return", "throw"}, val : ValuePair]
  OBVIOUS
<1>2. results' \in Seq([how : {"return", "throw"}, val : ValuePair])
  BY <1>1, AppendProperties DEF IInv, TypeOK, Leave
<1>3. TypeOK'
  BY <1>2, UndefType DEF IInv, TypeOK, Leave, NoLocals
<1>4. FramesMatchCode'
  BY DEF FramesMatchCode, Leave
<1> QED BY <1>3, <1>4 DEF IInv

LEMMA ThrowOK ==
  ASSUME IInv, NEW h, IsHeap(h), Throw(h)
  PROVE  IInv'
  BY LeaveOK, UndefType DEF Throw

LEMMA UndefinedOK ==
  ASSUME IInv, Undefined
  PROVE  IInv'
<1>1. TypeOK'
  BY DEF IInv, TypeOK, Undefined, operands, frames
<1>2. FramesMatchCode'
  BY DEF FramesMatchCode, Undefined
<1> QED BY <1>1, <1>2 DEF IInv

\* A step that stays in its frame keeps the call stacks in order.
LEMMA SameFrames ==
  ASSUME IInv, UNCHANGED <<fn, rpStack, spStack, pcStack>>, UNCHANGED host,
         IsHeap(heap'), globals' \in Seq(ValuePair),
         stack' \in Seq(ValuePair), top' \in ValuePair, notop' \in BOOLEAN, pc' \in Nat
  PROVE  IInv'
<1>1. TypeOK'
  BY DEF IInv, TypeOK, host
<1>2. FramesMatchCode'
  BY DEF IInv, FramesMatchCode, host
<1> QED BY <1>1, <1>2 DEF IInv

LEMMA DoneOK ==
  ASSUME IInv, NEW h, IsHeap(h), NEW x \in ValuePair, NEW s \in Seq(ValuePair),
         NEW n \in BOOLEAN, Done(h, x, s, n)
  PROVE  IInv'
<1>1. /\ UNCHANGED <<fn, rpStack, spStack, pcStack>> /\ UNCHANGED host
      /\ heap' = h /\ stack' = s /\ top' = x /\ notop' = n /\ globals' = globals
      /\ pc' = pc + 1
  BY DEF Done, Goto
<1>2. globals \in Seq(ValuePair) /\ pc \in Nat
  BY DEF IInv, TypeOK
<1> QED BY <1>1, <1>2, SameFrames

LEMMA FinishOK ==
  ASSUME IInv, NEW r, IsOutcome(r), NEW s \in Seq(ValuePair), NEW n \in BOOLEAN,
         Finish(r, s, n)
  PROVE  IInv'
<1>1. IsHeap(r.heap) /\ r.val \in ValuePair
  BY DEF IsOutcome
<1>2. CASE Done(r.heap, r.val, s, n)
  BY <1>1, <1>2, DoneOK
<1>3. CASE Throw(r.heap)
  BY <1>1, <1>3, ThrowOK
<1>4. CASE Undefined
  BY <1>4, UndefinedOK
<1> QED BY <1>2, <1>3, <1>4 DEF Finish

LEMMA PushOK ==
  ASSUME IInv, NEW r, IsOutcome(r), Push(r)
  PROVE  IInv'
  BY FinishOK, SavedType DEF Push

LEMMA TakeTopOK ==
  ASSUME IInv, NEW s \in Seq(ValuePair), NEW h, IsHeap(h), NEW target \in Nat,
         TakeTop(s, h, target), globals' \in Seq(ValuePair)
  PROVE  IInv'
<1>1. /\ UNCHANGED <<fn, rpStack, spStack, pcStack>> /\ UNCHANGED host
      /\ heap' = h /\ stack' = Front(s) /\ top' = Last(s) /\ notop' = notop
      /\ pc' = target /\ s # <<>>
  BY DEF TakeTop, Goto
<1>2. Front(s) \in Seq(ValuePair) /\ Last(s) \in ValuePair
  BY <1>1 DEF Front, Last
<1>3. notop \in BOOLEAN
  BY DEF IInv, TypeOK
<1> QED BY <1>1, <1>2, <1>3, SameFrames

LEMMA PopIntoOK ==
  ASSUME IInv, NEW s \in Seq(ValuePair), NEW h, IsHeap(h), NEW target \in Nat,
         PopInto(s, h, target)
  PROVE  IInv'
<1>1. globals \in Seq(ValuePair)
  BY DEF IInv, TypeOK
<1>2. CASE Throw(h)
  BY <1>2, ThrowOK
<1>3. CASE TakeTop(s, h, target) /\ UNCHANGED globals
  BY <1>1, <1>3, TakeTopOK
<1> QED BY <1>2, <1>3 DEF PopInto

-----------------------------------------------------------------------------
\* The instructions, one lemma for each that does more than end in one of the
\* ways above.

LEMMA GetIOK ==
  ASSUME IInv, GetI
  PROVE  IInv'
<1> DEFINE index == Last(spStack) + Inst.imm
<1>1. Fetched("GetI") /\ IsHeap(heap)
  BY DEF GetI, IInv, TypeOK
<1>2. CASE Throw(heap)
  BY <1>1, <1>2, ThrowOK
<1>3. CASE index \in 0..(Len(Saved) - 1) /\ Push(Copy(heap, Saved[index + 1]))
  <2>1. Saved[index + 1] \in ValuePair
    BY <1>3, SavedType
  <2> QED BY <1>1, <1>3, <2>1, CopyOK, PushOK
<1> QED BY <1>2, <1>3 DEF GetI

LEMMA AddIOK ==
  ASSUME IInv, AddI
  PROVE  IInv'
<1>1. IsHeap(heap) /\ top \in ValuePair /\ stack \in Seq(ValuePair) /\ notop \in BOOLEAN
  BY DEF IInv, TypeOK
<1>2. Inst.imm \in Int
  BY FetchedInst DEF AddI, ImmediateOp
<1>3. Num(top.v + Inst.imm) \in ValuePair
  BY <1>1, <1>2 DEF Num, ValuePair, ValueTag
<1>4. CASE Throw(heap)
  BY <1>1, <1>4, ThrowOK
<1>5. CASE Done(heap, Num(top.v + Inst.imm), stack, notop)
  BY <1>1, <1>3, <1>5, DoneOK
<1> QED BY <1>4, <1>5 DEF AddI

LEMMA SetIOK ==
  ASSUME IInv, SetI
  PROVE  IInv'
<1> DEFINE index == Last(spStack) + Inst.imm
           s == [stack EXCEPT ![index + 1] = top]
<1>1. /\ IsHeap(heap) /\ top \in ValuePair /\ stack \in Seq(ValuePair) /\ pc \in Nat
      /\ globals \in Seq(ValuePair)
  BY DEF IInv, TypeOK
<1>2. CASE Throw(heap)
  BY <1>1, <1>2, ThrowOK
<1>3. CASE /\ index \in 0..(Len(stack) - 1) /\ TakeTop(s, heap, pc + 1)
           /\ UNCHANGED globals
  <2>1. s \in Seq(ValuePair) /\ pc + 1 \in Nat
    BY <1>1, <1>3
  <2> HIDE DEF s, index
  <2> QED BY <1>1, <1>3, <2>1, TakeTopOK
<1> QED BY <1>2, <1>3 DEF SetI

LEMMA TargetType ==
  ASSUME NEW target, ValidTarget(target)
  PROVE  target \in Nat
  BY DEF ValidTarget

LEMMA JumpIOK ==
  ASSUME IInv, JumpI
  PROVE  IInv'
<1>1. /\ IsHeap(heap) /\ top \in ValuePair /\ stack \in Seq(ValuePair) /\ notop \in BOOLEAN
      /\ globals \in Seq(ValuePair)
  BY DEF IInv, TypeOK
<1>2. CASE Throw(heap)
  BY <1>1, <1>2, ThrowOK
<1>3. CASE /\ ValidTarget(pc + Inst.imm) /\ Goto(pc + Inst.imm)
           /\ UNCHANGED operands /\ UNCHANGED host /\ UNCHANGED <<heap, globals>>
  BY <1>1, <1>3, TargetType, SameFrames DEF Goto, operands
<1> QED BY <1>2, <1>3 DEF JumpI

LEMMA JumpFalseIOK ==
  ASSUME IInv, JumpFalseI
  PROVE  IInv'
<1> DEFINE target == IF top.v = 1 THEN pc + 1 ELSE pc + Inst.imm
<1>1. IsHeap(heap) /\ stack \in Seq(ValuePair) /\ pc \in Nat
  BY DEF IInv, TypeOK
<1>2. CASE Throw(heap)
  BY <1>1, <1>2, ThrowOK
<1>3. CASE ValidTarget(pc + Inst.imm) /\ PopInto(stack, heap, target)
  <2>1. target \in Nat
    BY <1>1, <1>3, TargetType
  <2> QED BY <1>1, <1>3, <2>1, PopIntoOK
<1> QED BY <1>2, <1>3 DEF JumpFalseI

LEMMA IterOK ==
  ASSUME IInv, Iter
  PROVE  IInv'
<1> DEFINE x == Last(stack)
           n == top.v + 1
<1>1. /\ IsHeap(heap) /\ top \in ValuePair /\ stack \in Seq(ValuePair)
      /\ notop \in BOOLEAN /\ n \in Int
  BY DEF IInv, TypeOK, ValuePair
<1>2. CASE Throw(heap)
  BY <1>1, <1>2, ThrowOK
<1>3. CASE Undefined
  BY <1>3, UndefinedOK
<1>4. CASE /\ ~IterInvalid /\ Live(heap, x)
           /\ PopInto(Front(stack), Drop(heap, x).heap, pc + Inst.imm)
  <2>1. stack # <<>> /\ pc + Inst.imm \in Nat
    BY <1>4, TargetType DEF IterInvalid
  <2>2. x \in ValuePair /\ Front(stack) \in Seq(ValuePair)
    BY <1>1, <2>1 DEF Last, Front
  <2>3. IsHeap(Drop(heap, x).heap)
    BY <1>1, <2>2, DropOK DEF IsOutcome
  <2> QED BY <1>4, <2>1, <2>2, <2>3, PopIntoOK
<1>5. CASE /\ ~IterInvalid /\ Live(heap, x) /\ ~Exhausted(x, n)
           /\ Finish(ElementAt(x, n), SaveTop(Num(n)), FALSE)
  <2>1. stack # <<>> /\ x.tag \in {"VECTOR", "RANGE"}
    BY <1>5 DEF IterInvalid
  <2>2. SaveTop(Num(n)) \in Seq(ValuePair)
    <3>1. Num(n) \in ValuePair
      BY <1>1 DEF Num, ValuePair, ValueTag
    <3> QED BY <1>1, <3>1, AppendProperties DEF SaveTop
  <2>3. IsOutcome(ElementAt(x, n))
    <3>1. CASE x.tag = "VECTOR" /\ n < 0
      <4>1. ~(n >= 0)
        BY <1>1, <3>1
      <4> HIDE DEF n, x
      <4>2. ElementAt(x, n) = UB(heap)
        BY <3>1, <4>1 DEF ElementAt
      <4> QED BY <1>1, <4>2, UndefType, OutcomeOK
    <3>2. CASE x.tag = "VECTOR" /\ n >= 0
      <4>1. Elements(heap, x.v) \in Seq(ValuePair)
        BY <1>1, <1>5, <3>2, LiveParts
      <4>2. n < Len(Elements(heap, x.v))
        BY <1>1, <1>5, <3>2, <4>1 DEF Exhausted
      <4>3. Elements(heap, x.v)[n + 1] \in ValuePair
        BY <1>1, <3>2, <4>1, <4>2
      <4>4. ~(n < 0)
        BY <1>1, <3>2
      <4> HIDE DEF n, x
      <4>5. ElementAt(x, n) = Copy(heap, Elements(heap, x.v)[n + 1])
        BY <3>2, <4>4 DEF ElementAt
      <4> QED BY <1>1, <4>3, <4>5, CopyOK
    <3>3. CASE x.tag = "RANGE"
      <4> DEFINE r == heap.range[x.v]
      <4>1. r \in SRange
        BY <1>1, <1>5, <3>3, LiveParts
      <4>2. Num(n * r.step + r.begin) \in ValuePair
        BY <1>1, <4>1 DEF SRange, Num, ValuePair, ValueTag
      <4> HIDE DEF n
      <4>3. ElementAt(x, n) = Ok(heap, Num(n * r.step + r.begin))
        BY <3>3 DEF ElementAt
      <4> QED BY <1>1, <4>2, <4>3, OutcomeOK
    <3> QED BY <1>1, <2>1, <3>1, <3>2, <3>3
  <2> QED BY <1>5, <2>2, <2>3, FinishOK
<1> QED BY <1>2, <1>3, <1>4, <1>5 DEF Iter

LEMMA PopOK ==
  ASSUME IInv, Pop
  PROVE  IInv'
<1>1. IsHeap(heap) /\ top \in ValuePair /\ stack \in Seq(ValuePair) /\ pc + 1 \in Nat
  BY DEF IInv, TypeOK
<1>2. IsHeap(Drop(heap, top).heap)
  BY <1>1, DropOK DEF IsOutcome
<1>3. CASE PopInto(stack, Drop(heap, top).heap, pc + 1)
  BY <1>1, <1>2, <1>3, PopIntoOK
<1>4. CASE Throw(heap)
  BY <1>1, <1>4, ThrowOK
<1>5. CASE Undefined
  BY <1>5, UndefinedOK
<1> QED BY <1>3, <1>4, <1>5 DEF Pop

LEMMA DupOK ==
  ASSUME IInv, Dup
  PROVE  IInv'
  BY CopyOK, PushOK DEF Dup, IInv, TypeOK

LEMMA BuiltinUnaryOpOK ==
  ASSUME IInv, BuiltinUnaryOp
  PROVE  IInv'
<1>1. IsHeap(heap) /\ top \in ValuePair /\ stack \in Seq(ValuePair) /\ notop \in BOOLEAN
  BY DEF IInv, TypeOK
<1>2. Inst.unary \in BuiltinUnary
  BY FetchedInst DEF BuiltinUnaryOp
<1>3. IsOutcome(HandleUnary(heap, top, Inst.unary))
  BY <1>1, <1>2, HandleUnaryOK
<1> QED BY <1>1, <1>3, FinishOK DEF BuiltinUnaryOp

LEMMA BinaryOpOK ==
  ASSUME IInv, BinaryOp
  PROVE  IInv'
<1> DEFINE r == HandleBinary(heap, Last(stack), top, Inst.binary)
<1>1. IsHeap(heap) /\ top \in ValuePair /\ stack \in Seq(ValuePair) /\ notop \in BOOLEAN
  BY DEF IInv, TypeOK
<1>2. Inst.binary \in BinOp
  BY FetchedInst DEF BinaryOp
<1>3. CASE Throw(heap)
  BY <1>1, <1>3, ThrowOK
<1>4. CASE stack # <<>> /\ Finish(r, Front(stack), notop)
  <2>1. Last(stack) \in ValuePair /\ Front(stack) \in Seq(ValuePair)
    BY <1>1, <1>4 DEF Last, Front
  <2>2. IsOutcome(r)
    BY <1>1, <1>2, <2>1, HandleBinaryOK
  <2> QED BY <1>1, <1>4, <2>1, <2>2, FinishOK
<1> QED BY <1>3, <1>4 DEF BinaryOp

LEMMA ConstOK ==
  ASSUME IInv, ConstNum \/ ConstMisc
  PROVE  IInv'
<1>1. IsHeap(heap) /\ Saved \in Seq(ValuePair)
  BY SavedType DEF IInv, TypeOK
<1>2. CASE ConstNum
  <2>1. Inst.imm \in Int
    BY <1>2, FetchedInst DEF ConstNum, ImmediateOp
  <2>2. Num(Inst.imm) \in ValuePair
    BY <2>1 DEF Num, ValuePair, ValueTag
  <2> QED BY <1>1, <1>2, <2>2, DoneOK DEF ConstNum
<1>3. CASE ConstMisc
  <2>1. (CASE Inst.imm = 0 -> Bool(FALSE) [] Inst.imm = 1 -> Bool(TRUE) [] OTHER -> Undef)
          \in ValuePair
    BY UndefType DEF Bool, ValuePair, ValueTag
  <2> QED BY <1>1, <1>3, <2>1, DoneOK DEF ConstMisc
<1> QED BY <1>2, <1>3

LEMMA GetGlobalIOK ==
  ASSUME IInv, GetGlobalI
  PROVE  IInv'
<1>1. IsHeap(heap) /\ globals \in Seq(ValuePair)
  BY DEF IInv, TypeOK
<1>2. CASE Throw(heap)
  BY <1>1, <1>2, ThrowOK
<1>3. CASE IsGlobal(Inst.imm) /\ Push(Copy(heap, globals[Inst.imm + 1]))
  <2>1. globals[Inst.imm + 1] \in ValuePair
    BY <1>1, <1>3 DEF IsGlobal
  <2> QED BY <1>1, <1>3, <2>1, CopyOK, PushOK
<1> QED BY <1>2, <1>3 DEF GetGlobalI

LEMMA SetGlobalIOK ==
  ASSUME IInv, SetGlobalI
  PROVE  IInv'
<1> DEFINE g == [globals EXCEPT ![Inst.imm + 1] = top]
<1>1. /\ IsHeap(heap) /\ globals \in Seq(ValuePair) /\ top \in ValuePair
      /\ stack \in Seq(ValuePair) /\ pc + 1 \in Nat
  BY DEF IInv, TypeOK
<1>2. CASE Throw(heap)
  BY <1>1, <1>2, ThrowOK
<1>3. CASE IsGlobal(Inst.imm) /\ globals' = g /\ ~Throw(heap)
  <2>1. globals' \in Seq(ValuePair)
    BY <1>1, <1>3 DEF IsGlobal
  <2> HIDE DEF g
  <2>2. CASE TakeTop(stack, heap, pc + 1)
    BY <1>1, <2>1, <2>2, TakeTopOK
  <2>3. CASE /\ status' = "idle"
             /\ results' = Append(results, [how |-> "throw", val |-> Undef])
             /\ NoLocals
             /\ UNCHANGED <<functions, flag, heap>>
    <3>1. [how |-> "throw", val |-> Undef] \in [how : {"return", "throw"}, val : ValuePair]
      BY UndefType
    <3>2. results' \in Seq([how : {"return", "throw"}, val : ValuePair])
      BY <2>3, <3>1, AppendProperties DEF IInv, TypeOK
    <3>3. TypeOK'
      BY <2>1, <2>3, <3>2, UndefType DEF IInv, TypeOK, NoLocals
    <3>4. FramesMatchCode'
      BY <2>3 DEF FramesMatchCode
    <3> QED BY <3>3, <3>4 DEF IInv
  <2> QED BY <1>3, <2>2, <2>3 DEF SetGlobalI
<1> QED BY <1>2, <1>3 DEF SetGlobalI

\* The callee's frame goes on the call stacks; its return address is the pc
\* behind the CallI that has just been fetched from the caller's code.
LEMMA CallIOK ==
  ASSUME IInv, CallI
  PROVE  IInv'
<1>1. Fetched("CallI")
  BY DEF CallI
<1>2. /\ IsHeap(heap) /\ functions \in Seq(FunctionEntry) /\ pc \in Nat
      /\ rpStack \in Seq(Nat) /\ spStack \in Seq(Int) /\ pcStack \in Seq(Nat)
  BY DEF IInv, TypeOK
<1>3. status = "running" /\ pc < Len(Code) /\ Inst.op = "CallI" /\ Code \in Seq(Instruction)
  BY <1>1, FetchedInst, Running
<1>4. CASE Throw(heap)
  BY <1>2, <1>4, ThrowOK
<1>5. CASE IsFunction(Inst.imm) /\ ~Throw(heap)
  <2> DEFINE id == Inst.imm
  <2>1. id \in Nat /\ id < Len(functions)
    BY <1>2, <1>5 DEF IsFunction
  <2>2. /\ stack' = Saved /\ notop' = TRUE /\ fn' = id /\ pc' = 0
        /\ pcStack' = Append(pcStack, pc + 1)
        /\ rpStack' = Append(rpStack, id)
        /\ spStack' = Append(spStack, FrameStart(id))
        /\ UNCHANGED <<top, heap, globals>> /\ UNCHANGED host
    BY <1>5 DEF CallI
  <2> HIDE DEF id
  <2>3. FrameStart(id) \in Int
    <3>1. functions[id + 1] \in FunctionEntry
      BY <1>2, <2>1
    <3> QED BY <3>1, SavedType, LenProperties DEF FrameStart, FunctionEntry
  <2>4. /\ rpStack' \in Seq(Nat) /\ spStack' \in Seq(Int) /\ pcStack' \in Seq(Nat)
    BY <1>2, <2>1, <2>2, <2>3, AppendProperties
  <2>5. TypeOK'
    BY <2>1, <2>2, <2>4, SavedType DEF IInv, TypeOK, host
  <2>6. FramesMatchCode'
    <3>1. /\ Len(rpStack) = Len(pcStack) /\ Len(rpStack) = Len(spStack)
          /\ rpStack # <<>> /\ fn = rpStack[Len(rpStack)]
          /\ \A i \in 1..Len(rpStack) : rpStack[i] < Len(functions)
          /\ \A i \in 1..(Len(rpStack) - 1) :
               /\ pcStack[i + 1] \in 1..Len(functions[rpStack[i] + 1].code)
               /\ functions[rpStack[i] + 1].code[pcStack[i + 1]].op = "CallI"
      BY <1>3 DEF IInv, FramesMatchCode
    <3> DEFINE n == Len(rpStack)
    <3>2. n \in Nat /\ n > 0
      BY <1>2, <3>1
    <3>a. /\ Len(rpStack') = n + 1 /\ rpStack'[n + 1] = id
          /\ \A i \in 1..n : rpStack'[i] = rpStack[i]
      BY <1>2, <2>1, <2>2, AppendProperties
    <3>b. /\ Len(pcStack') = n + 1 /\ pcStack'[n + 1] = pc + 1
          /\ \A i \in 1..n : pcStack'[i] = pcStack[i]
      <4>1. pc + 1 \in Nat /\ Len(pcStack) = n
        BY <1>2, <3>1
      <4> HIDE DEF n
      <4> QED BY <1>2, <2>2, <4>1, AppendProperties
    <3>c. Len(spStack') = n + 1
      <4>1. Len(spStack) = n
        BY <3>1
      <4> HIDE DEF n
      <4> QED BY <1>2, <2>2, <2>3, <4>1, AppendProperties
    <3>3. /\ Len(rpStack') = n + 1 /\ Len(pcStack') = n + 1 /\ Len(spStack') = n + 1
          /\ rpStack'[n + 1] = id /\ pcStack'[n + 1] = pc + 1
          /\ \A i \in 1..n : rpStack'[i] = rpStack[i] /\ pcStack'[i] = pcStack[i]
      BY <3>a, <3>b, <3>c
    <3>4. functions' = functions
      BY <2>2 DEF host
    <3>5. /\ pc + 1 \in 1..Len(functions[rpStack[n] + 1].code)
          /\ functions[rpStack[n] + 1].code[pc + 1].op = "CallI"
      BY <1>2, <1>3, <3>1 DEF Code, Inst
    <3> HIDE DEF n
    <3>6. rpStack' # <<>>
      BY <3>2, <3>3, <2>4
    <3>7. \A i \in 1..(n + 1) : rpStack'[i] < Len(functions)
      BY <2>1, <3>1, <3>2, <3>3 DEF n
    <3>8. \A i \in 1..n :
            /\ pcStack'[i + 1] \in 1..Len(functions[rpStack'[i] + 1].code)
            /\ functions[rpStack'[i] + 1].code[pcStack'[i + 1]].op = "CallI"
      <4> TAKE i \in 1..n
      <4>1. CASE i = n
        BY <3>2, <3>3, <3>5, <4>1
      <4>2. CASE i < n
        <5>1. i \in 1..(Len(rpStack) - 1) /\ i + 1 \in 1..n
          BY <3>2, <4>2 DEF n
        <5> QED BY <3>1, <3>3, <5>1
      <4> QED BY <3>2, <4>1, <4>2
    <3>9. /\ Len(rpStack') = Len(pcStack') /\ Len(rpStack') = Len(spStack')
          /\ fn' = rpStack'[Len(rpStack')]
      BY <2>2, <3>3
    <3>10. \A i \in 1..Len(rpStack') : rpStack'[i] < Len(functions')
      BY <3>3, <3>4, <3>7
    <3>11. Len(rpStack') - 1 = n
      BY <3>2, <3>3
    <3>12. \A i \in 1..(Len(rpStack') - 1) :
             /\ pcStack'[i + 1] \in 1..Len(functions'[rpStack'[i] + 1].code)
             /\ functions'[rpStack'[i] + 1].code[pcStack'[i + 1]].op = "CallI"
      BY <3>4, <3>8, <3>11
    <3> QED BY <3>6, <3>9, <3>10, <3>12 DEF FramesMatchCode
  <2> QED BY <2>5, <2>6 DEF IInv
<1> QED BY <1>4, <1>5 DEF CallI

LEMMA FrontOK ==
  ASSUME NEW S, NEW s \in Seq(S), s # <<>>
  PROVE  /\ Front(s) \in Seq(S) /\ Len(Front(s)) = Len(s) - 1
         /\ \A i \in 1..(Len(s) - 1) : Front(s)[i] = s[i]
<1>1. Len(s) \in Nat /\ Len(s) > 0
  BY EmptySeq, LenProperties
<1>2. Len(s) - 1 \in Nat /\ Len(s) - 1 + 1 \in 1..(Len(s) + 1) /\ Len(s) - 1 <= Len(s)
  BY <1>1
<1> DEFINE m == Len(s) - 1
<1>3. Front(s) = SubSeq(s, 1, m)
  BY DEF Front
<1>4. m \in Nat /\ m <= Len(s)
  BY <1>2
<1> HIDE DEF m
<1>5. SubSeq(s, 1, m) \in Seq(S) /\ Len(SubSeq(s, 1, m)) = m
      /\ \A i \in 1..m : SubSeq(s, 1, m)[i] = s[i]
  BY <1>4
<1> QED BY <1>3, <1>5 DEF m

LEMMA ResizeOK ==
  ASSUME NEW s \in Seq(ValuePair), NEW n \in Nat
  PROVE  Resize(s, n) \in Seq(ValuePair)
<1>1. Zero \in ValuePair
  BY DEF Zero, ValuePair, ValueTag, AllocatedTag
<1>2. \A i \in 1..n : (IF i <= Len(s) THEN s[i] ELSE Zero) \in ValuePair
  BY <1>1
<1> QED BY <1>2 DEF Resize

\* A tail call replaces the function of the frame and leaves its return address.
LEMMA TailCallIOK ==
  ASSUME IInv, TailCallI
  PROVE  IInv'
<1> DEFINE id == Inst.imm
           sp == Last(spStack)
           params == functions[id + 1].parameters
           stackEnd == Len(Saved) - params
           d == DropAll(heap, SubSeq(Saved, sp + 1, stackEnd))
<1>1. /\ IsHeap(heap) /\ functions \in Seq(FunctionEntry) /\ pc \in Nat
      /\ rpStack \in Seq(Nat) /\ spStack \in Seq(Int) /\ pcStack \in Seq(Nat)
  BY DEF IInv, TypeOK
<1>2. status = "running" /\ rpStack # <<>> /\ sp \in Int
  BY FetchedInst, Running DEF TailCallI
<1>3. IsHeap(d.heap)
  BY <1>1, DropAllOK DEF IsOutcome
<1>4. CASE Throw(heap)
  BY <1>1, <1>4, ThrowOK
<1>5. CASE Undefined
  BY <1>5, UndefinedOK
<1>6. CASE Throw(d.heap)
  BY <1>3, <1>6, ThrowOK
<1>7. CASE /\ IsFunction(id) /\ sp >= 0 /\ (stackEnd >= sp \/ params = 0)
           /\ stack' = MoveDown(sp, stackEnd)
           /\ heap' = d.heap /\ notop' = TRUE
           /\ fn' = id /\ pc' = 0
           /\ rpStack' = SetBack(rpStack, id)
           /\ UNCHANGED <<top, globals, spStack, pcStack>>
           /\ UNCHANGED host
  <2>1. id \in Nat /\ id < Len(functions) /\ params \in Nat
    <3>1. id \in Nat /\ id < Len(functions)
      BY <1>1, <1>7 DEF IsFunction
    <3>2. functions[id + 1] \in FunctionEntry
      BY <1>1, <3>1
    <3> QED BY <3>1, <3>2 DEF FunctionEntry
  <2>2. Len(Saved) \in Nat /\ stackEnd + 1 \in 1..(Len(Saved) + 1)
    BY <1>2, <1>7, <2>1, SavedType
  <2> HIDE DEF id, sp, params, stackEnd, d
  <2>3. stack' \in Seq(ValuePair)
    <3>1. Resize(Saved, sp) \in Seq(ValuePair)
      BY <1>2, <1>7, SavedType, ResizeOK
    <3>2. SubSeq(Saved, stackEnd + 1, Len(Saved)) \in Seq(ValuePair)
      BY <2>2, SavedType
    <3> QED BY <1>7, <3>1, <3>2, ConcatProperties DEF MoveDown
  <2>4. /\ rpStack' \in Seq(Nat) /\ Len(rpStack') = Len(rpStack)
        /\ rpStack'[Len(rpStack)] = id
        /\ \A i \in 1..(Len(rpStack) - 1) : rpStack'[i] = rpStack[i]
    <3>1. rpStack' = Append(Front(rpStack), id)
      BY <1>7 DEF SetBack
    <3> QED BY <1>1, <1>2, <2>1, <3>1, FrontOK, AppendProperties
  <2>5. TypeOK'
    BY <1>3, <1>7, <2>1, <2>3, <2>4 DEF IInv, TypeOK, host
  <2>6. FramesMatchCode'
    <3>1. /\ Len(rpStack) = Len(pcStack) /\ Len(rpStack) = Len(spStack)
          /\ \A i \in 1..Len(rpStack) : rpStack[i] < Len(functions)
          /\ \A i \in 1..(Len(rpStack) - 1) :
               /\ pcStack[i + 1] \in 1..Len(functions[rpStack[i] + 1].code)
               /\ functions[rpStack[i] + 1].code[pcStack[i + 1]].op = "CallI"
      BY <1>2 DEF IInv, FramesMatchCode
    <3>2. functions' = functions /\ pcStack' = pcStack /\ spStack' = spStack /\ fn' = id
      BY <1>7 DEF host
    <3>3. rpStack' # <<>>
      BY <1>1, <1>2, <2>4
    <3>4. \A i \in 1..Len(rpStack) : rpStack'[i] < Len(functions)
      BY <1>1, <2>1, <2>4, <3>1
    <3> QED BY <2>4, <3>1, <3>2, <3>3, <3>4 DEF FramesMatchCode
  <2> QED BY <2>5, <2>6 DEF IInv
<1> QED BY <1>4, <1>5, <1>6, <1>7 DEF TailCallI

\* A return takes the last frame off; the frame below is then the last one.
LEMMA RetOK ==
  ASSUME IInv, Ret
  PROVE  IInv'
<1> DEFINE sp == Last(spStack)
           d == DropAll(heap, IF sp < 0 THEN <<>> ELSE SubSeq(stack, sp + 1, Len(stack)))
<1>1. /\ IsHeap(heap) /\ functions \in Seq(FunctionEntry) /\ top \in ValuePair
      /\ stack \in Seq(ValuePair)
      /\ rpStack \in Seq(Nat) /\ spStack \in Seq(Int) /\ pcStack \in Seq(Nat)
  BY DEF IInv, TypeOK
<1>2. status = "running" /\ sp \in Int /\ Last(pcStack) \in Nat
  BY FetchedInst, Running DEF Ret
<1>3. IsHeap(d.heap)
  BY <1>1, DropAllOK DEF IsOutcome
<1>4. CASE Throw(heap)
  BY <1>1, <1>4, ThrowOK
<1>5. CASE Undefined
  BY <1>5, UndefinedOK
<1>6. CASE Throw(d.heap)
  BY <1>3, <1>6, ThrowOK
<1>7. CASE Leave("return", top, d.heap)
  BY <1>1, <1>3, <1>7, LeaveOK
<1>8. CASE /\ sp >= -1 /\ Len(pcStack) # 1
           /\ stack' = Resize(stack, sp + 1) /\ heap' = d.heap
           /\ rpStack' = Front(rpStack) /\ spStack' = Front(spStack)
           /\ pcStack' = Front(pcStack)
           /\ fn' = Last(Front(rpStack)) /\ pc' = Last(pcStack)
           /\ UNCHANGED <<top, notop, globals>> /\ UNCHANGED host
  <2> HIDE DEF sp, d
  <2> DEFINE n == Len(rpStack)
  <2>1. /\ n = Len(pcStack) /\ n = Len(spStack) /\ rpStack # <<>>
        /\ \A i \in 1..n : rpStack[i] < Len(functions)
        /\ \A i \in 1..(n - 1) :
             /\ pcStack[i + 1] \in 1..Len(functions[rpStack[i] + 1].code)
             /\ functions[rpStack[i] + 1].code[pcStack[i + 1]].op = "CallI"
    BY <1>2 DEF IInv, FramesMatchCode
  <2>2. n \in Nat /\ n >= 2 /\ pcStack # <<>> /\ spStack # <<>>
    BY <1>1, <1>2, <1>8, <2>1, Running
  <2>3. rpStack' \in Seq(Nat) /\ Len(rpStack') = n - 1
        /\ \A i \in 1..(n - 1) : rpStack'[i] = rpStack[i]
    BY <1>1, <1>8, <2>1, <2>2, FrontOK
  <2>4. pcStack' \in Seq(Nat) /\ Len(pcStack') = n - 1
        /\ \A i \in 1..(n - 1) : pcStack'[i] = pcStack[i]
    BY <1>1, <1>8, <2>1, <2>2, FrontOK
  <2>5. spStack' \in Seq(Int) /\ Len(spStack') = n - 1
    BY <1>1, <1>8, <2>1, <2>2, FrontOK
  <2>6. fn' = rpStack'[n - 1] /\ fn' \in Nat /\ rpStack' # <<>>
    <3>1. rpStack' # <<>>
      BY <2>2, <2>3
    <3>2. fn' = rpStack'[Len(rpStack')]
      BY <1>8, <3>1 DEF Last
    <3> QED BY <2>2, <2>3, <3>1, <3>2
  <2>7. stack' \in Seq(ValuePair)
    BY <1>1, <1>2, <1>8, ResizeOK
  <2>8. TypeOK'
    BY <1>2, <1>3, <1>8, <2>3, <2>4, <2>5, <2>6, <2>7 DEF IInv, TypeOK, host
  <2>9. FramesMatchCode'
    <3>1. functions' = functions
      BY <1>8 DEF host
    <3> HIDE DEF n
    <3>2. \A i \in 1..(n - 1) : rpStack'[i] < Len(functions)
      BY <2>1, <2>2, <2>3
    <3>3. \A i \in 1..(n - 2) :
            /\ pcStack'[i + 1] \in 1..Len(functions[rpStack'[i] + 1].code)
            /\ functions[rpStack'[i] + 1].code[pcStack'[i + 1]].op = "CallI"
      <4> TAKE i \in 1..(n - 2)
      <4>1. i \in 1..(n - 1) /\ i + 1 \in 1..(n - 1)
        BY <2>2
      <4>2. rpStack'[i] = rpStack[i] /\ pcStack'[i + 1] = pcStack[i + 1]
        BY <2>3, <2>4, <4>1
      <4> QED BY <2>1, <4>1, <4>2
    <3>4. n - 1 - 1 = n - 2
      BY <2>2
    <3> QED BY <2>3, <2>4, <2>5, <2>6, <3>1, <3>2, <3>3, <3>4 DEF FramesMatchCode
  <2> QED BY <2>8, <2>9 DEF IInv
<1> QED BY <1>4, <1>5, <1>6, <1>7, <1>8 DEF Ret

LEMMA MakeListOK ==
  ASSUME IInv, MakeList
  PROVE  IInv'
<1>1. IsHeap(NewList(heap).heap)
  BY NewListOK DEF IInv, TypeOK, IsOutcome
<1> QED BY <1>1, ThrowOK DEF MakeList

LEMMA MakeRangeOK ==
  ASSUME IInv, MakeRange
  PROVE  IInv'
<1> DEFINE start == stack[Len(stack) - 1]
           step  == Last(stack)
           parts == <<start, step, top>>
           d == DropAll(heap, parts)
           r == [begin |-> start.v, step |-> step.v, end |-> top.v]
<1>1. IsHeap(heap) /\ stack \in Seq(ValuePair) /\ top \in ValuePair
  BY DEF IInv, TypeOK
<1>2. IsHeap(d.heap) /\ IsHeap(NewList(d.heap).heap)
  <2>1. IsHeap(d.heap)
    BY <1>1, DropAllOK DEF IsOutcome
  <2> HIDE DEF d
  <2> QED BY <2>1, NewListOK DEF IsOutcome
<1>3. CASE Throw(heap)
  BY <1>1, <1>3, ThrowOK
<1>4. CASE Undefined
  BY <1>4, UndefinedOK
<1>5. CASE Throw(d.heap) \/ Throw(NewList(d.heap).heap)
  <2> HIDE DEF d
  <2> QED BY <1>2, <1>5, ThrowOK
<1>6. CASE Len(stack) > 1 /\ Throw(NewList(NewRange(heap, r).heap).heap)
  <2>1. start \in ValuePair
    BY <1>1, <1>6
  <2>2. step \in ValuePair
    BY <1>1, <1>6 DEF Last
  <2>3. r \in SRange
    BY <1>1, <2>1, <2>2 DEF ValuePair, SRange
  <2> HIDE DEF r
  <2>4. IsHeap(NewRange(heap, r).heap)
    BY <1>1, <2>3, NewRangeOK DEF IsOutcome
  <2>5. IsHeap(NewList(NewRange(heap, r).heap).heap)
    BY <2>4, NewListOK DEF IsOutcome
  <2> QED BY <1>6, <2>5, ThrowOK
<1> QED BY <1>3, <1>4, <1>5, <1>6 DEF MakeRange

LEMMA EchoOK ==
  ASSUME IInv, Echo
  PROVE  IInv'
<1>1. IsHeap(heap) /\ stack \in Seq(ValuePair) /\ top \in ValuePair /\ notop \in BOOLEAN
  BY DEF IInv, TypeOK
<1>2. CASE Throw(heap)
  BY <1>1, <1>2, ThrowOK
<1>3. CASE Done(heap, top, stack, notop)
  BY <1>1, <1>3, DoneOK
<1> QED BY <1>2, <1>3 DEF Echo

LEMMA MalformedOK ==
  ASSUME IInv, Malformed
  PROVE  IInv'
  BY ThrowOK DEF Malformed, IInv, TypeOK

\* The host's steps.
LEMMA EvalOK ==
  ASSUME IInv, NEW id \in 0..Len(functions), Eval(id)
  PROVE  IInv'
<1>1. /\ IsHeap(heap) /\ functions \in Seq(FunctionEntry)
  BY DEF IInv, TypeOK
<1>2. CASE Throw(heap)
  BY <1>1, <1>2, ThrowOK
<1>3. CASE /\ id < Len(functions)
           /\ status' = "running"
           /\ stack' = <<>> /\ top' = Undef /\ notop' = TRUE
           /\ fn' = id /\ pc' = 0
           /\ rpStack' = <<id>> /\ spStack' = <<0>> /\ pcStack' = <<0>>
           /\ UNCHANGED <<functions, globals, flag, heap, results>>
  <2>1. id \in Nat
    BY <1>1
  <2>2. TypeOK'
    BY <1>3, <2>1, UndefType DEF IInv, TypeOK
  <2>3. FramesMatchCode'
    BY <1>3 DEF FramesMatchCode
  <2> QED BY <2>2, <2>3 DEF IInv
<1> QED BY <1>2, <1>3 DEF Eval

LEMMA StopOK ==
  ASSUME IInv, Stop
  PROVE  IInv'
  BY DEF Stop, IInv, TypeOK, FramesMatchCode, operands, frames

-----------------------------------------------------------------------------

LEMMA InitOK == Init => IInv
<1> SUFFICES ASSUME Init PROVE IInv
  OBVIOUS
<1>1. /\ functions \in Seq(FunctionEntry) /\ globals \in Seq(ValuePair) /\ IsHeap(heap)
  BY ConstructionsAssumption DEF Init
<1>2. TypeOK
  BY <1>1, UndefType DEF Init, TypeOK
<1>3. FramesMatchCode
  BY DEF Init, FramesMatchCode
<1> QED BY <1>2, <1>3 DEF IInv

LEMMA NextOK == IInv /\ [Next]_vars => IInv'
<1> SUFFICES ASSUME IInv, [Next]_vars PROVE IInv'
  OBVIOUS
<1>1. CASE RunOff
  BY <1>1, UndefinedOK DEF RunOff
<1>2. CASE GetI \/ AddI \/ SetI \/ JumpI \/ JumpFalseI \/ Iter
  BY <1>2, GetIOK, AddIOK, SetIOK, JumpIOK, JumpFalseIOK, IterOK
<1>3. CASE Pop \/ Dup \/ BuiltinUnaryOp \/ BinaryOp \/ ConstNum \/ ConstMisc
  BY <1>3, PopOK, DupOK, BuiltinUnaryOpOK, BinaryOpOK, ConstOK
<1>4. CASE GetGlobalI \/ SetGlobalI \/ CallI \/ TailCallI \/ Ret
  BY <1>4, GetGlobalIOK, SetGlobalIOK, CallIOK, TailCallIOK, RetOK
<1>5. CASE MakeRange \/ MakeList \/ Echo \/ Malformed
  BY <1>5, MakeRangeOK, MakeListOK, EchoOK, MalformedOK
<1>6. CASE Stop
  BY <1>6, StopOK
<1>7. CASE \E id \in 0..Len(functions) : Eval(id)
  BY <1>7, EvalOK
<1>8. CASE UNCHANGED vars
  BY <1>8 DEF vars, IInv, TypeOK, FramesMatchCode
<1> QED BY <1>1, <1>2, <1>3, <1>4, <1>5, <1>6, <1>7, <1>8 DEF Next, Execute

LEMMA Inductive == Spec => []IInv
  BY InitOK, NextOK, PTL DEF Spec

\* Whatever the programs do, the interpreter's variables keep their types and
\* its heap stays well formed: each list box refers to a live buffer, and a
\* buffer goes exactly when the last box that shares it does.
THEOREM TypeCorrect == Spec => []TypeOK
<1>1. IInv => TypeOK
  BY DEF IInv
<1> QED BY <1>1, Inductive, PTL

\* Whatever the programs do, the three call stacks agree with each other and
\* each return address lies behind a CallI of the function it returns into.
THEOREM FramesCorrect == Spec => []FramesMatchCode
<1>1. IInv => FramesMatchCode
  BY DEF IInv
<1> QED BY <1>1, Inductive, PTL

-----------------------------------------------------------------------------
\* Copy-on-write.

\* From heap h to heap g no freed list comes back, and the lists of h that are
\* left have their elements, except perhaps the one at a.
PreservesBut(h, g, a) ==
  /\ h.next <= g.next
  /\ \A x \in DOMAIN g.vec :
       x < h.next => /\ x \in DOMAIN h.vec
                     /\ x # a => Elements(g, x) = Elements(h, x)

\* 0 is the address of no list.
Preserves(h, g) == PreservesBut(h, g, 0)

LEMMA PreservesFacts ==
  ASSUME NEW h, IsHeap(h), NEW g, IsHeap(g), Preserves(h, g)
  PROVE  /\ \A x \in DOMAIN g.vec : x < h.next => Elements(g, x) = Elements(h, x)
         /\ \A a : PreservesBut(h, g, a)
  BY DEF Preserves, PreservesBut, IsHeap

LEMMA PreservesItself ==
  ASSUME NEW h, IsHeap(h)
  PROVE  Preserves(h, h)
  BY DEF Preserves, PreservesBut, IsHeap

LEMMA PreservesChain ==
  ASSUME NEW f, IsHeap(f), NEW g, IsHeap(g), NEW h, IsHeap(h),
         Preserves(f, g), Preserves(g, h)
  PROVE  Preserves(f, h)
<1>1. f.next \in Nat /\ g.next \in Nat /\ h.next \in Nat
  BY DEF IsHeap
<1>2. \A x \in DOMAIN h.vec : x \in Nat /\ x # 0
  BY DEF IsHeap
<1> QED BY <1>1, <1>2 DEF Preserves, PreservesBut

LEMMA NewVectorPreserves ==
  ASSUME NEW h, IsHeap(h), NEW s
  PROVE  Preserves(h, Heap(Put(h.vec, h.next, h.next), h.range,
                           Put(h.buf, h.next, s), h.next + 1))
<1> DEFINE n == h.next
           g == Heap(Put(h.vec, n, n), h.range, Put(h.buf, n, s), n + 1)
<1>1. n \in Nat
  BY DEF IsHeap
<1>2. /\ g.next = n + 1 /\ DOMAIN g.vec = DOMAIN h.vec \cup {n}
      /\ \A x \in DOMAIN h.vec : x # n => g.vec[x] = h.vec[x]
      /\ \A b \in DOMAIN h.buf : b # n => g.buf[b] = h.buf[b]
  BY DEF Heap, Put
<1>3. \A x \in DOMAIN h.vec : h.vec[x] \in DOMAIN h.buf /\ h.vec[x] < n
  BY DEF IsHeap
<1> HIDE DEF g
<1>4. Preserves(h, g)
  BY <1>1, <1>2, <1>3 DEF Preserves, PreservesBut, Elements
<1> QED BY <1>4 DEF g

LEMMA NewListPreserves ==
  ASSUME NEW h, IsHeap(h)
  PROVE  Preserves(h, NewList(h).heap)
  BY NewVectorPreserves DEF NewList, Ok

LEMMA NewRangePreserves ==
  ASSUME NEW h, IsHeap(h), NEW r
  PROVE  Preserves(h, NewRange(h, r).heap)
  BY DEF NewRange, Ok, Heap, Preserves, PreservesBut, Elements, IsHeap

LEMMA SharePreserves ==
  ASSUME NEW h, IsHeap(h), NEW b
  PROVE  Preserves(h, Heap(Put(h.vec, h.next, b), h.range, h.buf, h.next + 1))
<1> DEFINE n == h.next
           g == Heap(Put(h.vec, n, b), h.range, h.buf, n + 1)
<1>1. n \in Nat
  BY DEF IsHeap
<1>2. /\ g.next = n + 1 /\ DOMAIN g.vec = DOMAIN h.vec \cup {n} /\ g.buf = h.buf
      /\ \A x \in DOMAIN h.vec : x # n => g.vec[x] = h.vec[x]
  BY DEF Heap, Put
<1> HIDE DEF g
<1>3. Preserves(h, g)
  BY <1>1, <1>2 DEF Preserves, PreservesBut, Elements
<1> QED BY <1>3 DEF g

LEMMA FreeAllPreserves ==
  ASSUME NEW h, IsHeap(h), NEW A
  PROVE  Preserves(h, FreeAll(h, A))
<1> DEFINE g == FreeAll(h, A)
<1>1. h.next \in Nat /\ \A x \in DOMAIN h.vec : h.vec[x] \in DOMAIN h.buf
  BY DEF IsHeap
<1>2. /\ g.next = h.next /\ DOMAIN g.vec = DOMAIN h.vec \ A
      /\ \A x \in DOMAIN h.vec \ A : g.vec[x] = h.vec[x]
  BY DEF FreeAll, Heap, Without, Restrict
<1>3. \A x \in DOMAIN h.vec \ A : g.buf[h.vec[x]] = h.buf[h.vec[x]]
  BY <1>1 DEF FreeAll, Heap, Restrict
<1> HIDE DEF g
<1>4. Preserves(h, g)
  BY <1>1, <1>2, <1>3 DEF Preserves, PreservesBut, Elements
<1> QED BY <1>4 DEF g

LEMMA CopyPreserves ==
  ASSUME NEW h, IsHeap(h), NEW x \in ValuePair
  PROVE  Preserves(h, Copy(h, x).heap)
<1>1. CASE Copy(h, x).heap = h
  BY <1>1, PreservesItself
<1>2. CASE x.tag = "VECTOR" /\ Live(h, x)
  <2>1. Copy(h, x) = Ok(Heap(Put(h.vec, h.next, h.vec[x.v]), h.range, h.buf, h.next + 1),
                        Vec(h.next))
    BY <1>2 DEF Copy, isAllocated, AllocatedTag
  <2> QED BY <2>1, SharePreserves DEF Ok
<1>3. CASE x.tag = "RANGE" /\ Live(h, x)
  <2>1. Copy(h, x) = NewRange(h, h.range[x.v])
    BY <1>3 DEF Copy, isAllocated, AllocatedTag
  <2> QED BY <2>1, NewRangePreserves
<1>4. CASE ~(x.tag = "VECTOR" /\ Live(h, x)) /\ ~(x.tag = "RANGE" /\ Live(h, x))
  <2>1. Copy(h, x) \in {Ok(h, x), Throws(h), UB(h)}
    BY <1>4 DEF Copy, isAllocated, AllocatedTag
  <2> QED BY <1>1, <2>1 DEF Ok, Throws, UB
<1> QED BY <1>2, <1>3, <1>4

LEMMA DropPreserves ==
  ASSUME NEW h, IsHeap(h), NEW x \in ValuePair
  PROVE  Preserves(h, Drop(h, x).heap)
<1>1. Drop(h, x).heap \in {h, FreeAll(h, {x.v})}
  BY DEF Drop, Ok, Throws, UB
<1> QED BY <1>1, PreservesItself, FreeAllPreserves

LEMMA DropAllPreserves ==
  ASSUME NEW h, IsHeap(h), NEW s
  PROVE  Preserves(h, DropAll(h, s).heap)
<1>1. \E A : DropAll(h, s).heap = FreeAll(h, A)
  BY DEF DropAll, Ok, Throws, UB
<1> QED BY <1>1, FreeAllPreserves

-----------------------------------------------------------------------------
\* An unshared list shares its buffer with no other box, and is either the list
\* it was made of or a new one.
LEMMA UnshareOwns ==
  ASSUME NEW h, IsHeap(h), NEW a \in DOMAIN h.vec
  PROVE  /\ Preserves(h, Unshare(h, a).heap)
         /\ UseCountIsOne(Unshare(h, a).heap, Unshare(h, a).val.v)
         /\ Unshare(h, a).val.v = a \/ Unshare(h, a).val.v >= h.next
<1> DEFINE n == h.next
<1>1. n \in Nat
  BY DEF IsHeap
<1>2. CASE UseCountIsOne(h, a)
  BY <1>2, PreservesItself DEF Unshare, Ok, Vec
<1>3. CASE ~UseCountIsOne(h, a)
  <2> DEFINE g == Heap(Put(h.vec, n, n), h.range, Put(h.buf, n, Elements(h, a)), n + 1)
             k == FreeAll(g, {a})
  <2>1. Unshare(h, a) = Ok(k, Vec(n))
    BY <1>3 DEF Unshare
  <2>2. Elements(h, a) \in Seq(ValuePair)
    BY DEF Elements, IsHeap
  <2>3. IsHeap(g) /\ Preserves(h, g)
    BY <2>2, NewVectorOK, NewVectorPreserves
  <2>4. DOMAIN g.vec = DOMAIN h.vec \cup {n} /\ g.vec[n] = n
        /\ \A x \in DOMAIN h.vec : x # n => g.vec[x] = h.vec[x]
    BY DEF Heap, Put
  <2>5. \A x \in DOMAIN h.vec : h.vec[x] # n
    BY NextIsFresh DEF IsHeap
  <2>6. n # a
    BY NextIsFresh
  <2> HIDE DEF g, n
  <2>7. IsHeap(k) /\ Preserves(g, k)
    BY <2>3, FreeAllOK, FreeAllPreserves
  <2>8. DOMAIN k.vec = DOMAIN g.vec \ {a} /\ \A x \in DOMAIN k.vec : k.vec[x] = g.vec[x]
    BY DEF FreeAll, Heap, Without, Restrict
  <2> HIDE DEF k
  <2>9. UseCountIsOne(k, n)
    BY <2>4, <2>5, <2>6, <2>8 DEF UseCountIsOne
  <2>10. Preserves(h, k)
    BY <2>3, <2>7, PreservesChain
  <2> QED BY <1>1, <2>1, <2>9, <2>10 DEF Ok, Vec, n
<1> QED BY <1>2, <1>3

\* Writing into an unshared list changes no other.
LEMMA WritePreserves ==
  ASSUME NEW h, IsHeap(h), NEW a \in DOMAIN h.vec, NEW s
  PROVE  PreservesBut(h, SetElements(Unshare(h, a).heap, Unshare(h, a).val.v, s), a)
<1> DEFINE g == Unshare(h, a).heap
           b == Unshare(h, a).val.v
           k == SetElements(g, b, s)
<1>1. /\ IsHeap(g) /\ b \in DOMAIN g.vec /\ Preserves(h, g) /\ UseCountIsOne(g, b)
      /\ b = a \/ b >= h.next
  <2>1. a \in Nat
    BY DEF IsHeap
  <2> HIDE DEF b, g
  <2> QED BY <2>1, UnshareOK, UnshareOwns DEF b, g
<1>2. h.next \in Nat /\ g.next \in Nat
  BY <1>1 DEF IsHeap
<1> HIDE DEF g, b
<1>3. /\ k.next = g.next /\ k.vec = g.vec
      /\ \A c \in DOMAIN g.buf : c # g.vec[b] => k.buf[c] = g.buf[c]
  BY DEF SetElements, Heap, Put
<1> HIDE DEF k
<1>4. ASSUME NEW x \in DOMAIN k.vec, x < h.next
      PROVE  x \in DOMAIN h.vec /\ (x # a => Elements(k, x) = Elements(h, x))
  <2>1. x \in DOMAIN h.vec /\ Elements(g, x) = Elements(h, x)
    BY <1>1, <1>3, <1>4, PreservesFacts DEF Preserves, PreservesBut
  <2>2. ASSUME x # a PROVE Elements(k, x) = Elements(g, x)
    <3>1. x # b
      BY <1>1, <1>2, <1>4, <2>1, <2>2 DEF IsHeap
    <3>2. g.vec[x] # g.vec[b]
      BY <1>1, <1>3, <3>1 DEF UseCountIsOne
    <3>3. g.vec[x] \in DOMAIN g.buf
      BY <1>1, <1>3 DEF IsHeap
    <3> QED BY <1>3, <3>2, <3>3 DEF Elements
  <2> QED BY <2>1, <2>2
<1>5. h.next <= k.next
  BY <1>1, <1>3 DEF Preserves, PreservesBut
<1>6. PreservesBut(h, k, a)
  BY <1>4, <1>5 DEF PreservesBut
<1> QED BY <1>6 DEF k, g, b

LEMMA HandleUnaryPreserves ==
  ASSUME NEW h, IsHeap(h), NEW x \in ValuePair, NEW op \in BuiltinUnary
  PROVE  Preserves(h, HandleUnary(h, x, op).heap)
<1>1. HandleUnary(h, x, op).heap \in {h, FreeAll(h, {x.v}), Drop(h, x).heap}
  BY DEF HandleUnary, RangeGetter, NumericUnary, BuiltinUnary, Ok, Throws
<1> QED BY <1>1, PreservesItself, FreeAllPreserves, DropPreserves

LEMMA AppendToPreserves ==
  ASSUME NEW h, IsHeap(h), NEW l \in ValuePair, NEW r
  PROVE  PreservesBut(h, AppendTo(h, l, r).heap, ListAt(l))
<1>1. CASE l.tag # "VECTOR"
  <2>1. AppendTo(h, l, r) = DropBoth(h, l, r)
    BY <1>1 DEF AppendTo
  <2>2. IsHeap(DropBoth(h, l, r).heap) /\ Preserves(h, DropBoth(h, l, r).heap)
    BY DropBothOK, DropAllPreserves DEF DropBoth, IsOutcome
  <2> QED BY <2>1, <2>2, PreservesFacts
<1>2. CASE l.tag = "VECTOR" /\ Live(h, l)
  <2> DEFINE u == Unshare(h, l.v)
             s == Append(Elements(h, l.v), r)
  <2>1. l.v \in DOMAIN h.vec
    BY <1>2, LiveParts
  <2>2. AppendTo(h, l, r) = Ok(SetElements(u.heap, u.val.v, s), u.val)
    BY <1>2 DEF AppendTo
  <2> HIDE DEF s
  <2>3. PreservesBut(h, SetElements(u.heap, u.val.v, s), l.v)
    BY <2>1, WritePreserves
  <2> HIDE DEF u
  <2> QED BY <1>2, <2>2, <2>3 DEF Ok, ListAt
<1>3. CASE l.tag = "VECTOR" /\ ~Live(h, l)
  BY <1>3, PreservesItself, PreservesFacts DEF AppendTo, UB
<1> QED BY <1>1, <1>2, <1>3

LEMMA ConcatPreserves ==
  ASSUME NEW h, IsHeap(h), NEW l \in ValuePair, NEW r \in ValuePair
  PROVE  PreservesBut(h, Concat(h, l, r).heap, ListAt(l))
<1> DEFINE lists == l.tag = "VECTOR" /\ r.tag = "VECTOR"
           valid == Live(h, l) /\ Live(h, r) /\ l.v # r.v
<1>1. CASE ~lists
  <2>1. Concat(h, l, r) = DropBoth(h, l, r)
    BY <1>1 DEF Concat
  <2>2. IsHeap(DropBoth(h, l, r).heap) /\ Preserves(h, DropBoth(h, l, r).heap)
    BY DropBothOK, DropAllPreserves DEF DropBoth, IsOutcome
  <2> QED BY <2>1, <2>2, PreservesFacts
<1>2. CASE lists /\ valid
  <2> DEFINE u == Unshare(h, l.v)
             s == Elements(h, l.v) \o Elements(h, r.v)
  <2>1. l.v \in DOMAIN h.vec
    BY <1>2, LiveParts
  <2>2. Concat(h, l, r) = Ok(SetElements(u.heap, u.val.v, s), u.val)
    BY <1>2 DEF Concat
  <2> HIDE DEF s
  <2>3. PreservesBut(h, SetElements(u.heap, u.val.v, s), l.v)
    BY <2>1, WritePreserves
  <2> HIDE DEF u
  <2> QED BY <1>2, <2>2, <2>3 DEF Ok, ListAt
<1>3. CASE lists /\ ~valid
  BY <1>3, PreservesItself, PreservesFacts DEF Concat, UB
<1> QED BY <1>1, <1>2, <1>3

LEMMA IndexPreserves ==
  ASSUME NEW h, IsHeap(h), NEW l \in ValuePair, NEW r \in ValuePair
  PROVE  Preserves(h, Index(h, l, r).heap)
<1> DEFINE typed == l.tag = "VECTOR" /\ r.tag = "NUMBER"
           valid == Live(h, l) /\ r.v >= 0
<1>1. r.v \in Int
  BY DEF ValuePair
<1>2. CASE ~typed
  BY <1>2, DropAllPreserves DEF Index, DropBoth
<1>3. CASE typed /\ valid
  <2> DEFINE s == Elements(h, l.v)
             c == Copy(h, s[r.v + 1])
  <2>1. CASE r.v >= Len(s)
    <3>1. Index(h, l, r) = Drop(h, l)
      BY <1>1, <1>3, <2>1 DEF Index
    <3> QED BY <3>1, DropPreserves
  <2>2. CASE ~(r.v >= Len(s))
    <3>1. s[r.v + 1] \in ValuePair
      BY <1>1, <1>3, <2>2, LiveParts
    <3>2. IsHeap(c.heap) /\ Preserves(h, c.heap)
      BY <3>1, CopyOK, CopyPreserves DEF IsOutcome
    <3>3. Index(h, l, r).heap \in {FreeAll(c.heap, {l.v}), c.heap}
      BY <1>1, <1>3, <2>2 DEF Index, Ok
    <3> HIDE DEF c
    <3>4. IsHeap(FreeAll(c.heap, {l.v})) /\ Preserves(c.heap, FreeAll(c.heap, {l.v}))
      BY <3>2, FreeAllOK, FreeAllPreserves
    <3> QED BY <3>2, <3>3, <3>4, PreservesChain
  <2> QED BY <2>1, <2>2
<1>4. CASE typed /\ ~valid
  <2>1. Index(h, l, r) = UB(h)
    BY <1>1, <1>4 DEF Index
  <2> QED BY <2>1, PreservesItself DEF UB
<1> QED BY <1>2, <1>3, <1>4

LEMMA HandleBinaryPreserves ==
  ASSUME NEW h, IsHeap(h), NEW l \in ValuePair, NEW r \in ValuePair, NEW op \in BinOp
  PROVE  PreservesBut(h, HandleBinary(h, l, r, op).heap, ListAt(l))
<1> DEFINE g == HandleBinary(h, l, r, op).heap
<1>1. IsHeap(g)
  BY HandleBinaryOK DEF IsOutcome
<1>2. CASE op = "APPEND"
  BY <1>2, AppendToPreserves DEF HandleBinary, ArithmeticOp, CompareOp, EqualityOp, LogicOp
<1>3. CASE op = "CONCAT"
  BY <1>3, ConcatPreserves DEF HandleBinary, ArithmeticOp, CompareOp, EqualityOp, LogicOp
<1>4. CASE op = "INDEX"
  <2>1. g = Index(h, l, r).heap
    BY <1>4 DEF HandleBinary, ArithmeticOp, CompareOp, EqualityOp, LogicOp
  <2> QED BY <1>1, <2>1, IndexPreserves, PreservesFacts
<1>5. CASE op \notin {"APPEND", "CONCAT", "INDEX"}
  <2>1. op \in ArithmeticOp \cup CompareOp \cup EqualityOp \cup LogicOp
    BY <1>5 DEF BinOp
  <2>2. HandleBinary(h, l, r, op) \in
          {Arithmetic(h, l, r, op), Compare(h, l, r, op), Equality(h, l, r), Logic(h, l, r, op)}
    BY <2>1 DEF HandleBinary, ArithmeticOp, CompareOp, EqualityOp, LogicOp
  <2>3. /\ Arithmetic(h, l, r, op).heap \in {h, DropBoth(h, l, r).heap}
        /\ Equality(h, l, r).heap \in {h, DropBoth(h, l, r).heap}
        /\ Logic(h, l, r, op).heap \in {h, DropBoth(h, l, r).heap}
    BY DEF Arithmetic, Equality, Logic, Ok, UB
  <2>4. Compare(h, l, r, op).heap \in {h, DropBoth(h, l, r).heap, DropBoth(h, r, l).heap}
    BY DEF Compare, Ok
  <2>5. \A x, y : Preserves(h, DropBoth(h, x, y).heap)
    BY DropAllPreserves DEF DropBoth
  <2>6. Preserves(h, g)
    BY <2>2, <2>3, <2>4, <2>5, PreservesItself
  <2> HIDE DEF g
  <2>7. PreservesBut(h, g, ListAt(l))
    BY <1>1, <2>6, PreservesFacts
  <2> QED BY <2>7 DEF g
<1> QED BY <1>2, <1>3, <1>4, <1>5

-----------------------------------------------------------------------------
\* What an instruction leaves in heap'.

LEMMA FinishHeap ==
  ASSUME NEW r, NEW s, NEW n, Finish(r, s, n)
  PROVE  heap' \in {heap, r.heap}
  BY DEF Finish, Done, Throw, Leave, Undefined

LEMMA PopIntoHeap ==
  ASSUME NEW s, NEW h, NEW target, PopInto(s, h, target)
  PROVE  heap' = h
  BY DEF PopInto, Throw, Leave, TakeTop

\* The instructions that touch no list.
LEMMA KeepHeap ==
  ASSUME \/ RunOff \/ AddI \/ SetI \/ JumpI \/ JumpFalseI \/ ConstNum \/ ConstMisc
         \/ SetGlobalI \/ CallI \/ Echo \/ Malformed \/ Stop
         \/ \E id \in 0..Len(functions) : Eval(id)
         \/ UNCHANGED vars
  PROVE  heap' = heap
<1>1. ASSUME Throw(heap) \/ Undefined PROVE heap' = heap
  BY <1>1 DEF Throw, Leave, Undefined
<1>2. CASE RunOff \/ Malformed \/ Stop \/ UNCHANGED vars
  BY <1>1, <1>2 DEF RunOff, Malformed, Stop, vars
<1>3. CASE AddI \/ ConstNum \/ ConstMisc \/ Echo
  BY <1>1, <1>3 DEF AddI, ConstNum, ConstMisc, Echo, Done
<1>4. CASE SetI \/ SetGlobalI
  BY <1>1, <1>4 DEF SetI, SetGlobalI, TakeTop
<1>5. CASE JumpI \/ JumpFalseI
  BY <1>1, <1>5, PopIntoHeap DEF JumpI, JumpFalseI
<1>6. CASE CallI \/ \E id \in 0..Len(functions) : Eval(id)
  BY <1>1, <1>6 DEF CallI, Eval
<1> QED BY <1>2, <1>3, <1>4, <1>5, <1>6

\* The instructions that copy values.
LEMMA CopiesPreserve ==
  ASSUME IInv, GetI \/ Dup \/ GetGlobalI
  PROVE  Preserves(heap, heap')
<1>1. IsHeap(heap) /\ top \in ValuePair /\ globals \in Seq(ValuePair)
  BY DEF IInv, TypeOK
<1>2. \/ Throw(heap)
      \/ \E x \in ValuePair : Push(Copy(heap, x))
  <2>1. CASE GetI
    <3>1. CASE /\ Last(spStack) + Inst.imm \in 0..(Len(Saved) - 1)
               /\ Push(Copy(heap, Saved[Last(spStack) + Inst.imm + 1]))
      <4>1. Saved[Last(spStack) + Inst.imm + 1] \in ValuePair
        BY <3>1, SavedType
      <4> QED BY <3>1, <4>1
    <3> QED BY <2>1, <3>1 DEF GetI
  <2>2. CASE Dup
    BY <1>1, <2>2 DEF Dup
  <2>3. CASE GetGlobalI
    <3>1. CASE IsGlobal(Inst.imm) /\ Push(Copy(heap, globals[Inst.imm + 1]))
      <4>1. globals[Inst.imm + 1] \in ValuePair
        BY <1>1, <3>1 DEF IsGlobal
      <4> QED BY <3>1, <4>1
    <3> QED BY <2>3, <3>1 DEF GetGlobalI
  <2> QED BY <2>1, <2>2, <2>3
<1>3. CASE Throw(heap)
  BY <1>1, <1>3, PreservesItself DEF Throw, Leave
<1>4. ASSUME NEW x \in ValuePair, Push(Copy(heap, x))
      PROVE  Preserves(heap, heap')
  <2>1. heap' \in {heap, Copy(heap, x).heap}
    BY <1>4, FinishHeap DEF Push
  <2> QED BY <1>1, <2>1, PreservesItself, CopyPreserves
<1> QED BY <1>2, <1>3, <1>4

\* A loop frees its source or copies one of its elements.
LEMMA IterPreserves ==
  ASSUME IInv, Iter
  PROVE  Preserves(heap, heap')
<1> DEFINE x == Last(stack)
           n == top.v + 1
<1>1. IsHeap(heap) /\ stack \in Seq(ValuePair) /\ n \in Int
  BY DEF IInv, TypeOK, ValuePair
<1>2. CASE Throw(heap) \/ Undefined
  BY <1>1, <1>2, PreservesItself DEF Throw, Leave, Undefined
<1>3. CASE /\ ~IterInvalid
           /\ PopInto(Front(stack), Drop(heap, x).heap, pc + Inst.imm)
  <2>1. x \in ValuePair
    BY <1>1, <1>3 DEF IterInvalid, Last
  <2> QED BY <1>1, <1>3, <2>1, PopIntoHeap, DropPreserves
<1>4. CASE /\ ~IterInvalid /\ Live(heap, x) /\ ~Exhausted(x, n)
           /\ Finish(ElementAt(x, n), SaveTop(Num(n)), FALSE)
  <2>1. heap' \in {heap, ElementAt(x, n).heap}
    BY <1>4, FinishHeap
  <2>2. x.tag \in {"VECTOR", "RANGE"}
    BY <1>4 DEF IterInvalid
  <2>3. CASE x.tag = "VECTOR" /\ n >= 0
    <3>1. Elements(heap, x.v) \in Seq(ValuePair)
      BY <1>1, <1>4, <2>3, LiveParts
    <3>2. n < Len(Elements(heap, x.v))
      BY <1>1, <1>4, <2>3, <3>1 DEF Exhausted
    <3>3. Elements(heap, x.v)[n + 1] \in ValuePair
      BY <1>1, <2>3, <3>1, <3>2
    <3>4. ~(n < 0)
      BY <1>1, <2>3
    <3> HIDE DEF n, x
    <3>5. ElementAt(x, n) = Copy(heap, Elements(heap, x.v)[n + 1])
      BY <2>3, <3>4 DEF ElementAt
    <3> QED BY <1>1, <2>1, <3>3, <3>5, CopyPreserves, PreservesItself
  <2>4. CASE ~(x.tag = "VECTOR" /\ n >= 0)
    <3>1. x.tag = "RANGE" \/ n < 0
      BY <1>1, <2>2, <2>4
    <3> HIDE DEF n, x
    <3>2. ElementAt(x, n).heap = heap
      BY <2>2, <2>4, <3>1 DEF ElementAt, Ok, UB
    <3> QED BY <1>1, <2>1, <3>2, PreservesItself
  <2> QED BY <2>3, <2>4
<1> QED BY <1>2, <1>3, <1>4 DEF Iter

\* The instructions that release values.
LEMMA ReleasesPreserve ==
  ASSUME IInv, Pop \/ BuiltinUnaryOp \/ TailCallI \/ Ret
  PROVE  Preserves(heap, heap')
<1>1. IsHeap(heap) /\ top \in ValuePair
  BY DEF IInv, TypeOK
<1>2. CASE heap' = heap
  BY <1>1, <1>2, PreservesItself
<1>3. CASE Pop
  <2>1. heap' \in {heap, Drop(heap, top).heap}
    BY <1>3, PopIntoHeap DEF Pop, Throw, Leave, Undefined
  <2> QED BY <1>1, <1>2, <2>1, DropPreserves
<1>4. CASE BuiltinUnaryOp
  <2>1. heap' \in {heap, HandleUnary(heap, top, Inst.unary).heap}
    BY <1>4, FinishHeap DEF BuiltinUnaryOp
  <2>2. Inst.unary \in BuiltinUnary
    BY <1>4, FetchedInst DEF BuiltinUnaryOp
  <2> QED BY <1>1, <1>2, <2>1, <2>2, HandleUnaryPreserves
<1>5. CASE TailCallI
  <2>1. \E s : heap' \in {heap, DropAll(heap, s).heap}
    BY <1>5 DEF TailCallI, Throw, Leave, Undefined
  <2> QED BY <1>1, <1>2, <2>1, DropAllPreserves
<1>6. CASE Ret
  <2>1. \E s : heap' \in {heap, DropAll(heap, s).heap}
    BY <1>6 DEF Ret, Throw, Leave, Undefined
  <2> QED BY <1>1, <1>2, <2>1, DropAllPreserves
<1> QED BY <1>3, <1>4, <1>5, <1>6

\* The instructions that make a list.
LEMMA MakesPreserve ==
  ASSUME IInv, MakeList \/ MakeRange
  PROVE  Preserves(heap, heap')
<1>1. IsHeap(heap) /\ stack \in Seq(ValuePair) /\ top \in ValuePair
  BY DEF IInv, TypeOK
<1>2. ASSUME NEW h, IsHeap(h), Preserves(heap, h), heap' = NewList(h).heap
      PROVE  Preserves(heap, heap')
  <2>1. IsHeap(NewList(h).heap)
    BY <1>2, NewListOK DEF IsOutcome
  <2>2. Preserves(h, NewList(h).heap)
    BY <1>2, NewListPreserves
  <2> QED BY <1>1, <1>2, <2>1, <2>2, PreservesChain
<1>3. CASE MakeList
  BY <1>1, <1>2, <1>3, PreservesItself DEF MakeList, Throw, Leave
<1>4. CASE MakeRange
  <2> DEFINE start == stack[Len(stack) - 1]
             step  == Last(stack)
             d == DropAll(heap, <<start, step, top>>)
             r == [begin |-> start.v, step |-> step.v, end |-> top.v]
  <2>1. \/ heap' = heap
        \/ heap' = d.heap
        \/ heap' = NewList(d.heap).heap
        \/ Len(stack) > 1 /\ heap' = NewList(NewRange(heap, r).heap).heap
    BY <1>4 DEF MakeRange, Throw, Leave, Undefined
  <2>2. IsHeap(d.heap) /\ Preserves(heap, d.heap)
    BY <1>1, DropAllOK, DropAllPreserves DEF IsOutcome
  <2>3. ASSUME Len(stack) > 1
        PROVE  IsHeap(NewRange(heap, r).heap) /\ Preserves(heap, NewRange(heap, r).heap)
    <3>1. start \in ValuePair
      BY <1>1, <2>3
    <3>2. step \in ValuePair
      BY <1>1, <2>3 DEF Last
    <3>3. r \in SRange
      BY <1>1, <3>1, <3>2 DEF ValuePair, SRange
    <3> HIDE DEF r
    <3> QED BY <1>1, <3>3, NewRangeOK, NewRangePreserves DEF IsOutcome
  <2> HIDE DEF d, r
  <2>4. CASE heap' = heap \/ heap' = d.heap
    BY <1>1, <2>2, <2>4, PreservesItself
  <2>5. CASE heap' = NewList(d.heap).heap
    BY <1>2, <2>2, <2>5
  <2>6. CASE Len(stack) > 1 /\ heap' = NewList(NewRange(heap, r).heap).heap
    BY <1>2, <2>3, <2>6
  <2> QED BY <2>1, <2>4, <2>5, <2>6
<1> QED BY <1>3, <1>4

\* The instruction that may write into a list, its left operand.
LEMMA BinaryOpPreserves ==
  ASSUME IInv, BinaryOp
  PROVE  \/ Preserves(heap, heap')
         \/ /\ status = "running" /\ stack # <<>>
            /\ PreservesBut(heap, heap', ListAt(Last(stack)))
<1>1. IsHeap(heap) /\ stack \in Seq(ValuePair) /\ top \in ValuePair
  BY DEF IInv, TypeOK
<1>2. CASE heap' = heap
  BY <1>1, <1>2, PreservesItself
<1>3. CASE stack # <<>> /\ heap' = HandleBinary(heap, Last(stack), top, Inst.binary).heap
  <2>1. Inst.binary \in BinOp /\ status = "running"
    BY FetchedInst DEF BinaryOp
  <2>2. Last(stack) \in ValuePair
    BY <1>1, <1>3 DEF Last
  <2> QED BY <1>1, <1>3, <2>1, <2>2, HandleBinaryPreserves
<1> QED BY <1>2, <1>3, FinishHeap DEF BinaryOp, Throw, Leave

LEMMA StepIsPrivate ==
  ASSUME IInv, [Next]_vars
  PROVE  MutatesOnly(LeftList)
<1>1. IsHeap(heap) /\ heap.next \in Nat /\ \A x \in DOMAIN heap.vec : x < heap.next
  BY DEF IInv, TypeOK, IsHeap
<1>2. CASE Preserves(heap, heap')
  <2>1. \A x \in DOMAIN heap'.vec : x \in DOMAIN heap.vec /\ x # 0 =>
          Elements(heap', x) = Elements(heap, x)
    BY <1>1, <1>2 DEF Preserves, PreservesBut
  <2>2. 0 \notin DOMAIN heap.vec
    BY <1>1 DEF IsHeap
  <2> QED BY <2>1, <2>2 DEF MutatesOnly
<1>3. CASE /\ status = "running" /\ stack # <<>>
           /\ PreservesBut(heap, heap', ListAt(Last(stack)))
  BY <1>1, <1>3 DEF MutatesOnly, PreservesBut, LeftList
<1>4. CASE heap' = heap
  BY <1>1, <1>2, <1>4, PreservesItself
<1>5. CASE BinaryOp
  BY <1>2, <1>3, <1>5, BinaryOpPreserves
<1>6. CASE GetI \/ Dup \/ GetGlobalI \/ Iter
  BY <1>2, <1>6, CopiesPreserve, IterPreserves
<1>7. CASE Pop \/ BuiltinUnaryOp \/ TailCallI \/ Ret \/ MakeList \/ MakeRange
  BY <1>2, <1>7, ReleasesPreserve, MakesPreserve
<1> QED BY <1>4, <1>5, <1>6, <1>7, KeepHeap DEF Next, Execute

\* Copy-on-write (values.h:32-38, handleBinary's APPEND and CONCAT): in every
\* run of every program an instruction changes the elements of no list but its
\* own left operand, whichever lists share a buffer with it.
THEOREM CopyOnWrite == Spec => MutationIsPrivate
<1>1. IInv /\ [Next]_vars => [MutatesOnly(LeftList)]_vars
  BY StepIsPrivate
<1> QED BY <1>1, Inductive, PTL DEF Spec, MutationIsPrivate

-----------------------------------------------------------------------------
\* The operands of s above base have shape t.
Holds(s, base, t) == \A j \in 1..Len(t) : t[j] = "plain" => ~isAllocated(s[base + j])

GlobalsHold(ty) == Len(globals) = Len(ty.globals) /\ Holds(globals, 0, ty.globals)

\* The frame being executed is at a point of the typing.
CurrentShaped(ty) ==
  \E t \in Seq(Kind) : /\ At(fn, Len(rpStack) = 1, pc, t, ~notop) \in ty.points
                       /\ Len(Saved) = Last(spStack) + Len(t)
                       /\ Holds(Saved, Last(spStack), t)

\* Frame i waits for the return of the frame above it, which then is at a point, too.
WaitingShaped(ty, i) ==
  \E t \in Seq(Kind), r \in Kind :
    /\ At(rpStack[i], i = 1, pcStack[i + 1], t \o <<"plain", r>>, TRUE) \in ty.points
    /\ Usable(ty.result[rpStack[i + 1] + 1], r)
    /\ spStack[i + 1] = spStack[i] + Len(t)
    /\ Holds(Saved, spStack[i], t)

Bases == /\ spStack[1] = 0
         /\ \A i, j \in 1..Len(spStack) : i <= j => spStack[i] <= spStack[j]

\* The whole stack has the shape that the typing gives it.
InShape(ty) ==
  /\ GlobalsHold(ty)
  /\ status = "running" => /\ Bases
                           /\ CurrentShaped(ty)
                           /\ \A i \in 1..(Len(rpStack) - 1) : WaitingShaped(ty, i)

-----------------------------------------------------------------------------
\* Sequence s has shape t above base b, and agrees with sequence o below it.
Over(s, b, t, o) ==
  /\ s \in Seq(ValuePair) /\ t \in Seq(Kind) /\ b \in Nat
  /\ Len(s) = b + Len(t)
  /\ \A j \in 1..b : s[j] = o[j]
  /\ Holds(s, b, t)

LEMMA FrontLast ==
  ASSUME NEW s \in Seq(ValuePair), s # <<>>
  PROVE  /\ Front(s) \in Seq(ValuePair) /\ Last(s) \in ValuePair
         /\ s = Append(Front(s), Last(s))
<1>1. Front(s) \in Seq(ValuePair) /\ Len(Front(s)) = Len(s) - 1
      /\ \A i \in 1..(Len(s) - 1) : Front(s)[i] = s[i]
  BY FrontOK
<1>2. Len(s) \in Nat /\ Len(s) > 0
  BY EmptySeq, LenProperties
<1>3. Last(s) = s[Len(s)] /\ Last(s) \in ValuePair
  BY <1>2 DEF Last
<1> HIDE DEF Front, Last
<1>4. /\ Append(Front(s), Last(s)) \in Seq(ValuePair)
      /\ Len(Append(Front(s), Last(s))) = Len(s)
      /\ Append(Front(s), Last(s))[Len(s)] = Last(s)
      /\ \A i \in 1..(Len(s) - 1) : Append(Front(s), Last(s))[i] = Front(s)[i]
  <2>1. Len(s) - 1 + 1 = Len(s)
    BY <1>2
  <2> QED BY <1>1, <1>3, <2>1, AppendProperties
<1>5. \A i \in 1..Len(s) : Append(Front(s), Last(s))[i] = s[i]
  BY <1>1, <1>2, <1>3, <1>4
<1>6. s = Append(Front(s), Last(s))
  BY <1>4, <1>5, SeqEqual
<1> QED BY <1>1, <1>3, <1>6

LEMMA FrontAppend ==
  ASSUME NEW S, NEW s \in Seq(S), NEW x \in S
  PROVE  Front(Append(s, x)) = s /\ Last(Append(s, x)) = x
<1> DEFINE a == Append(s, x)
<1>1. /\ a \in Seq(S) /\ Len(a) = Len(s) + 1 /\ a[Len(s) + 1] = x
      /\ \A i \in 1..Len(s) : a[i] = s[i]
  BY AppendProperties
<1>2. Len(s) \in Nat
  BY LenProperties
<1> HIDE DEF a
<1>3. a # <<>>
  BY <1>1, <1>2
<1>4. /\ Front(a) \in Seq(S) /\ Len(Front(a)) = Len(s)
      /\ \A i \in 1..Len(s) : Front(a)[i] = s[i]
  BY <1>1, <1>2, <1>3, FrontOK
<1>5. Front(a) = s
  BY <1>4, SeqEqual
<1>6. Last(a) = x
  BY <1>1 DEF Last
<1> QED BY <1>5, <1>6 DEF a

LEMMA OverAppend ==
  ASSUME NEW s, NEW b, NEW t, NEW o, Over(s, b, t, o), NEW x \in ValuePair, NEW k \in Kind,
         k = "plain" => ~isAllocated(x)
  PROVE  Over(Append(s, x), b, Append(t, k), o)
<1>1. /\ s \in Seq(ValuePair) /\ t \in Seq(Kind) /\ b \in Nat /\ Len(s) = b + Len(t)
      /\ \A j \in 1..b : s[j] = o[j]
      /\ \A j \in 1..Len(t) : t[j] = "plain" => ~isAllocated(s[b + j])
  BY DEF Over, Holds
<1> DEFINE s1 == Append(s, x)
           t1 == Append(t, k)
<1>2. /\ s1 \in Seq(ValuePair) /\ Len(s1) = Len(s) + 1 /\ s1[Len(s) + 1] = x
      /\ \A i \in 1..Len(s) : s1[i] = s[i]
  BY <1>1, AppendProperties
<1>3. /\ t1 \in Seq(Kind) /\ Len(t1) = Len(t) + 1 /\ t1[Len(t) + 1] = k
      /\ \A i \in 1..Len(t) : t1[i] = t[i]
  BY <1>1, AppendProperties
<1>4. Len(s) \in Nat /\ Len(t) \in Nat
  BY <1>1, LenProperties
<1> HIDE DEF s1, t1
<1>5. Len(s1) = b + Len(t1)
  BY <1>1, <1>2, <1>3, <1>4
<1>6. \A j \in 1..b : s1[j] = o[j]
  BY <1>1, <1>2, <1>4
<1>7. ASSUME NEW j \in 1..Len(t1), t1[j] = "plain"
      PROVE  ~isAllocated(s1[b + j])
  <2>1. CASE j = Len(t) + 1
    <3>1. b + j = Len(s) + 1
      BY <1>1, <1>4, <2>1
    <3> QED BY <1>2, <1>3, <1>7, <2>1, <3>1
  <2>2. CASE j \in 1..Len(t)
    <3>1. b + j \in 1..Len(s)
      BY <1>1, <1>4, <2>2
    <3> QED BY <1>1, <1>2, <1>3, <1>7, <2>2, <3>1
  <2> QED BY <1>3, <1>4, <2>1, <2>2
<1> QED BY <1>1, <1>2, <1>3, <1>5, <1>6, <1>7 DEF Over, Holds, s1, t1

LEMMA OverFront ==
  ASSUME NEW s, NEW b, NEW t, NEW o, Over(s, b, t, o), Len(t) >= 1
  PROVE  /\ Over(Front(s), b, Front(t), o)
         /\ Len(Front(t)) = Len(t) - 1
         /\ s # <<>> /\ Last(s) \in ValuePair /\ Last(t) \in Kind
         /\ Last(t) = "plain" => ~isAllocated(Last(s))
<1>1. /\ s \in Seq(ValuePair) /\ t \in Seq(Kind) /\ b \in Nat /\ Len(s) = b + Len(t)
      /\ \A j \in 1..b : s[j] = o[j]
      /\ \A j \in 1..Len(t) : t[j] = "plain" => ~isAllocated(s[b + j])
  BY DEF Over, Holds
<1>2. Len(s) \in Nat /\ Len(t) \in Nat /\ Len(s) >= 1
  BY <1>1, LenProperties
<1>3. s # <<>> /\ t # <<>>
  BY <1>2
<1> DEFINE s1 == Front(s)
           t1 == Front(t)
<1>4. /\ s1 \in Seq(ValuePair) /\ Len(s1) = Len(s) - 1
      /\ \A i \in 1..(Len(s) - 1) : s1[i] = s[i]
  BY <1>1, <1>3, FrontOK
<1>5. /\ t1 \in Seq(Kind) /\ Len(t1) = Len(t) - 1
      /\ \A i \in 1..(Len(t) - 1) : t1[i] = t[i]
  BY <1>1, <1>3, FrontOK
<1>6. /\ Last(s) = s[Len(s)] /\ Last(t) = t[Len(t)]
      /\ Last(s) \in ValuePair /\ Last(t) \in Kind
  BY <1>1, <1>2 DEF Last
<1> HIDE DEF s1, t1
<1>7. Len(s1) = b + Len(t1) /\ \A j \in 1..b : s1[j] = o[j]
  BY <1>1, <1>2, <1>4, <1>5
<1>8. ASSUME NEW j \in 1..Len(t1), t1[j] = "plain"
      PROVE  ~isAllocated(s1[b + j])
  <2>1. j \in 1..(Len(t) - 1) /\ b + j \in 1..(Len(s) - 1) /\ j \in 1..Len(t)
    BY <1>1, <1>2, <1>5
  <2> QED BY <1>1, <1>4, <1>5, <1>8, <2>1
<1>9. Last(t) = "plain" => ~isAllocated(Last(s))
  <2>1. Len(t) \in 1..Len(t) /\ b + Len(t) = Len(s)
    BY <1>1, <1>2
  <2> HIDE DEF s1, t1
  <2> QED BY <1>1, <1>6, <2>1
<1> QED BY <1>1, <1>3, <1>4, <1>5, <1>6, <1>7, <1>8, <1>9 DEF Over, Holds, s1, t1

LEMMA OverSet ==
  ASSUME NEW s, NEW b, NEW t, NEW o, Over(s, b, t, o), NEW n \in 1..Len(t),
         NEW x \in ValuePair, NEW k \in Kind, k = "plain" => ~isAllocated(x)
  PROVE  Over([s EXCEPT ![b + n] = x], b, [t EXCEPT ![n] = k], o)
<1>1. /\ s \in Seq(ValuePair) /\ t \in Seq(Kind) /\ b \in Nat /\ Len(s) = b + Len(t)
      /\ \A j \in 1..b : s[j] = o[j]
      /\ \A j \in 1..Len(t) : t[j] = "plain" => ~isAllocated(s[b + j])
  BY DEF Over, Holds
<1> DEFINE s1 == [s EXCEPT ![b + n] = x]
           t1 == [t EXCEPT ![n] = k]
<1>2. s1 \in Seq(ValuePair) /\ Len(s1) = Len(s) /\ \A i \in 1..Len(s) :
        s1[i] = IF i = b + n THEN x ELSE s[i]
  BY <1>1, ExceptSeq
<1>3. t1 \in Seq(Kind) /\ Len(t1) = Len(t) /\ \A i \in 1..Len(t) :
        t1[i] = IF i = n THEN k ELSE t[i]
  BY <1>1, ExceptSeq
<1> HIDE DEF s1, t1
<1>4. Len(s) \in Nat /\ Len(t) \in Nat
  BY <1>1, LenProperties
<1>5. \A j \in 1..b : s1[j] = o[j]
  BY <1>1, <1>2, <1>4
<1>6. ASSUME NEW j \in 1..Len(t1), t1[j] = "plain"
      PROVE  ~isAllocated(s1[b + j])
  <2>1. b + j \in 1..Len(s) /\ (b + j = b + n <=> j = n) /\ j \in 1..Len(t)
    BY <1>1, <1>3, <1>4
  <2> QED BY <1>1, <1>2, <1>3, <1>6, <2>1
<1> QED BY <1>1, <1>2, <1>3, <1>5, <1>6 DEF Over, Holds, s1, t1

-----------------------------------------------------------------------------
\* Where an evaluation is while it keeps the shapes.

Here(t) == At(fn, Len(rpStack) = 1, pc, t, ~notop)

\* The operands that the next instruction finds have shape t, which the verifier accepts.
Finds(ty, t) ==
  /\ Here(t) \in ty.points
  /\ Over(Saved, Last(spStack), t, Saved)
  /\ Accepted(ty, functions, Here(t))
  /\ FetchedAt(functions, Here(t)) = Inst
  /\ Len(t) >= ReadBy(functions, Inst) => After(ty, functions, Here(t)) \subseteq ty.points

Shaped(ty) == Shapely(ty, functions) /\ InShape(ty)

LEMMA ShapelyParts ==
  ASSUME NEW ty, Shapely(ty, functions)
  PROVE  /\ ty.args \in Seq(Seq(Kind)) /\ ty.result \in Seq(Kind) /\ ty.globals \in Seq(Kind)
         /\ ty.points \subseteq Point
         /\ Len(ty.args) = Len(functions) /\ Len(ty.result) = Len(functions)
         /\ \A f \in 1..Len(functions) : /\ Len(ty.args[f]) = functions[f].parameters
                                         /\ EntryPoint(f - 1) \in ty.points
  BY DEF Shapely, Typing

LEMMA FrameBase ==
  ASSUME IInv, status = "running", Bases
  PROVE  /\ Last(spStack) \in Nat /\ Last(spStack) = spStack[Len(spStack)]
         /\ Len(rpStack) = Len(spStack) /\ Len(pcStack) = Len(spStack)
         /\ Len(spStack) \in Nat \ {0}
         /\ \A i \in 1..Len(spStack) : spStack[i] \in Nat /\ spStack[i] <= Last(spStack)
         /\ Len(rpStack) = 1 => Last(spStack) = 0
<1>1. /\ spStack \in Seq(Int) /\ spStack # <<>>
      /\ Len(rpStack) = Len(spStack) /\ Len(pcStack) = Len(spStack)
  BY Running DEF IInv, TypeOK, FramesMatchCode
<1>2. Len(spStack) \in Nat /\ Len(spStack) >= 1 /\ Last(spStack) = spStack[Len(spStack)]
  BY <1>1 DEF Last
<1>3. spStack[1] = 0 /\ \A i, j \in 1..Len(spStack) : i <= j => spStack[i] <= spStack[j]
  BY DEF Bases
<1>4. \A i \in 1..Len(spStack) :
        spStack[i] \in Int /\ spStack[1] <= spStack[i] /\ spStack[i] <= Last(spStack)
  BY <1>1, <1>2, <1>3
<1> QED BY <1>1, <1>2, <1>3, <1>4

LEMMA ReadByType ==
  ASSUME functions \in Seq(FunctionEntry), NEW i
  PROVE  ReadBy(functions, i) \in Nat
<1>1. ASSUME Within(functions, i)
      PROVE  ParametersOf(functions, i) \in Nat
  <2>1. i.imm + 1 \in 1..Len(functions)
    BY <1>1, LenProperties DEF Within
  <2>2. functions[i.imm + 1] \in FunctionEntry
    BY <2>1
  <2> QED BY <2>2 DEF ParametersOf, FunctionEntry
<1> QED BY <1>1 DEF ReadBy

LEMMA Now ==
  ASSUME IInv, NEW ty, Shaped(ty), status = "running"
  PROVE  /\ \E t \in Seq(Kind) : Finds(ty, t)
         /\ pc < Len(Code)
<1>1. Shapely(ty, functions) /\ GlobalsHold(ty) /\ Bases /\ CurrentShaped(ty)
  BY DEF Shaped, InShape
<1>2. PICK t \in Seq(Kind) : /\ Here(t) \in ty.points
                             /\ Len(Saved) = Last(spStack) + Len(t)
                             /\ Holds(Saved, Last(spStack), t)
  BY <1>1 DEF CurrentShaped, Here
<1>3. Over(Saved, Last(spStack), t, Saved)
  BY <1>1, <1>2, FrameBase, SavedType DEF Over
<1>4. /\ Accepted(ty, functions, Here(t))
      /\ Refused(functions, Here(t)) \/ After(ty, functions, Here(t)) \subseteq ty.points
  BY <1>1, <1>2 DEF Shapely
<1>5. FetchedAt(functions, Here(t)) = Inst /\ Here(t).shape = t
  BY DEF FetchedAt, Here, At, Inst, Code
<1>6. Refused(functions, Here(t)) => Len(t) < ReadBy(functions, Inst)
  BY <1>5 DEF Refused
<1>7. pc < Len(Code)
  BY <1>4 DEF Accepted, Here, At, Code
<1>8. ReadBy(functions, Inst) \in Nat
  BY ReadByType DEF IInv, TypeOK
<1>9. Len(t) >= ReadBy(functions, Inst) => After(ty, functions, Here(t)) \subseteq ty.points
  BY <1>4, <1>6, <1>8, LenProperties
<1> QED BY <1>2, <1>3, <1>4, <1>5, <1>7, <1>9 DEF Finds

\* A frame that waits goes on waiting while nothing beneath the one above it changes.
LEMMA WaitingKept ==
  ASSUME NEW ty, NEW i, WaitingShaped(ty, i), spStack[i] \in Nat,
         rpStack'[i] = rpStack[i], pcStack'[i + 1] = pcStack[i + 1],
         spStack'[i] = spStack[i], spStack'[i + 1] = spStack[i + 1],
         \A r \in Kind : Usable(ty.result[rpStack[i + 1] + 1], r)
                           => Usable(ty.result[rpStack'[i + 1] + 1], r),
         \A j \in 1..spStack[i + 1] : Saved'[j] = Saved[j]
  PROVE  WaitingShaped(ty, i)'
<1>1. PICK t \in Seq(Kind), r \in Kind :
        /\ At(rpStack[i], i = 1, pcStack[i + 1], t \o <<"plain", r>>, TRUE) \in ty.points
        /\ Usable(ty.result[rpStack[i + 1] + 1], r)
        /\ spStack[i + 1] = spStack[i] + Len(t)
        /\ Holds(Saved, spStack[i], t)
  BY DEF WaitingShaped
<1>2. \A j \in 1..Len(t) : spStack[i] + j \in 1..spStack[i + 1]
  BY <1>1, LenProperties
<1>3. Holds(Saved', spStack[i], t)
  BY <1>1, <1>2 DEF Holds
<1> QED BY <1>1, <1>3 DEF WaitingShaped

\* A step within the frame, from one point of the typing to another.
LEMMA Landing ==
  ASSUME IInv, NEW ty, Shaped(ty), status = "running",
         UNCHANGED <<fn, rpStack, spStack, pcStack>>, UNCHANGED functions,
         GlobalsHold(ty)', NEW u,
         At(fn, Len(rpStack) = 1, pc', u, ~notop') \in ty.points,
         Over(Saved', Last(spStack), u, Saved)
  PROVE  Shaped(ty)'
<1>1. Shapely(ty, functions) /\ Bases /\ \A i \in 1..(Len(rpStack) - 1) : WaitingShaped(ty, i)
  BY DEF Shaped, InShape
<1>2. /\ u \in Seq(Kind) /\ Len(Saved') = Last(spStack) + Len(u)
      /\ Holds(Saved', Last(spStack), u)
      /\ \A j \in 1..Last(spStack) : Saved'[j] = Saved[j]
  BY DEF Over
<1>3. CurrentShaped(ty)'
  BY <1>2 DEF CurrentShaped
<1>4. Bases'
  BY <1>1 DEF Bases
<1>5. ASSUME NEW i \in 1..(Len(rpStack) - 1)
      PROVE  WaitingShaped(ty, i)'
  <2>1. /\ i \in 1..Len(spStack) /\ i + 1 \in 1..Len(spStack)
        /\ spStack[i] \in Nat /\ spStack[i + 1] \in Nat
        /\ spStack[i + 1] <= Last(spStack) /\ Last(spStack) \in Nat
    BY <1>1, FrameBase
  <2>2. \A j \in 1..spStack[i + 1] : Saved'[j] = Saved[j]
    BY <1>2, <2>1
  <2> QED BY <1>1, <2>1, <2>2, WaitingKept
<1> QED BY <1>1, <1>3, <1>4, <1>5 DEF Shaped, InShape

LEMMA Leaving ==
  ASSUME NEW ty, Shaped(ty), status' # "running", UNCHANGED functions, GlobalsHold(ty)'
  PROVE  Shaped(ty)'
  BY DEF Shaped, InShape

LEMMA SameGlobals ==
  ASSUME NEW ty, Shaped(ty), UNCHANGED globals
  PROVE  GlobalsHold(ty)'
  BY DEF Shaped, InShape, GlobalsHold

LEMMA ThrowShaped ==
  ASSUME NEW ty, Shaped(ty), NEW h, Throw(h)
  PROVE  Shaped(ty)'
  BY Leaving, SameGlobals DEF Throw, Leave

LEMMA UndefinedShaped ==
  ASSUME NEW ty, Shaped(ty), Undefined
  PROVE  Shaped(ty)'
  BY Leaving, SameGlobals DEF Undefined

LEMMA DoneShaped ==
  ASSUME IInv, NEW ty, Shaped(ty), status = "running", NEW h, NEW x, NEW s, NEW n,
         Done(h, x, s, n), NEW u,
         At(fn, Len(rpStack) = 1, pc + 1, u, ~n) \in ty.points,
         Over(IF n THEN s ELSE Append(s, x), Last(spStack), u, Saved)
  PROVE  Shaped(ty)'
<1>1. /\ UNCHANGED <<fn, rpStack, spStack, pcStack>> /\ UNCHANGED functions
      /\ UNCHANGED globals /\ pc' = pc + 1 /\ notop' = n /\ stack' = s /\ top' = x
  BY DEF Done, Goto, host
<1>2. Saved' = IF n THEN s ELSE Append(s, x)
  BY <1>1 DEF Saved, SaveTop
<1> QED BY <1>1, <1>2, Landing, SameGlobals

LEMMA FinishShaped ==
  ASSUME IInv, NEW ty, Shaped(ty), status = "running", NEW r, NEW s, NEW n,
         Finish(r, s, n), NEW u,
         r.exit = "ok" =>
           /\ At(fn, Len(rpStack) = 1, pc + 1, u, ~n) \in ty.points
           /\ Over(IF n THEN s ELSE Append(s, r.val), Last(spStack), u, Saved)
  PROVE  Shaped(ty)'
  BY DoneShaped, ThrowShaped, UndefinedShaped DEF Finish

LEMMA TakeTopShaped ==
  ASSUME IInv, NEW ty, Shaped(ty), status = "running", ~notop, NEW s \in Seq(ValuePair), NEW h,
         NEW target, TakeTop(s, h, target), GlobalsHold(ty)', NEW u,
         At(fn, Len(rpStack) = 1, target, u, ~notop) \in ty.points,
         Over(s, Last(spStack), u, Saved)
  PROVE  Shaped(ty)'
<1>1. /\ UNCHANGED <<fn, rpStack, spStack, pcStack>> /\ UNCHANGED functions
      /\ pc' = target /\ notop' = notop /\ stack' = Front(s) /\ top' = Last(s) /\ s # <<>>
  BY DEF TakeTop, Goto, host
<1>2. Saved' = s
  BY <1>1, FrontLast DEF Saved, SaveTop
<1> QED BY <1>1, <1>2, Landing

LEMMA PopIntoShaped ==
  ASSUME IInv, NEW ty, Shaped(ty), status = "running", ~notop, NEW s \in Seq(ValuePair), NEW h,
         NEW target, PopInto(s, h, target), NEW u,
         s # <<>> =>
           /\ At(fn, Len(rpStack) = 1, target, u, ~notop) \in ty.points
           /\ Over(s, Last(spStack), u, Saved)
  PROVE  Shaped(ty)'
  BY TakeTopShaped, ThrowShaped, SameGlobals DEF PopInto, TakeTop

-----------------------------------------------------------------------------
\* The instructions that work on the top of the stack.

LEMMA Found ==
  ASSUME IInv, NEW ty, Shaped(ty), NEW op, Fetched(op)
  PROVE  /\ status = "running" /\ Inst.op = op
         /\ op \in ImmediateOp => Inst.imm \in Int
         /\ \E t \in Seq(Kind) :
              /\ Finds(ty, t)
              /\ op \in ReadsTop => /\ ~notop /\ Len(t) >= 1
                                    /\ stack = Front(Saved) /\ top = Last(Saved)
<1>1. /\ status = "running" /\ Inst.op = op
      /\ op \in ImmediateOp => Inst.imm \in Int
  BY FetchedInst
<1>2. PICK t \in Seq(Kind) : Finds(ty, t)
  BY <1>1, Now
<1>3. stack \in Seq(ValuePair) /\ top \in ValuePair
  BY DEF IInv, TypeOK
<1>4. ASSUME op \in ReadsTop
      PROVE  /\ ~notop /\ Len(t) >= 1 /\ stack = Front(Saved) /\ top = Last(Saved)
  <2>1. ~notop /\ (Len(rpStack) = 1 \/ ReadBy(functions, Inst) <= Len(t))
    BY <1>1, <1>2, <1>4 DEF Finds, Accepted, Here, At
  <2>2. ReadBy(functions, Inst) \in Nat /\ ReadBy(functions, Inst) >= 1
    BY <1>1, <1>4 DEF ReadBy, ReadsTop
  <2>3. Saved = Append(stack, top)
    BY <2>1 DEF Saved, SaveTop
  <2>4. Len(Saved) = Len(stack) + 1 /\ Len(stack) \in Nat
    BY <1>3, <2>3, AppendProperties, LenProperties
  <2>5. Len(rpStack) = 1 => Last(spStack) = 0
    BY <1>1, FrameBase DEF Shaped, InShape
  <2>6. Len(t) >= 1
    BY <1>2, <2>1, <2>2, <2>4, <2>5, LenProperties DEF Finds, Over
  <2>7. stack = Front(Saved) /\ top = Last(Saved)
    BY <1>3, <2>3, FrontAppend
  <2> QED BY <2>1, <2>6, <2>7
<1> QED BY <1>1, <1>2, <1>4

\* The point behind an instruction that reads no more operands than it finds.
LEMMA Onward ==
  ASSUME NEW ty, NEW t, Finds(ty, t), Len(t) >= ReadBy(functions, Inst),
         NEW y \in After(ty, functions, Here(t))
  PROVE  y \in ty.points
  BY DEF Finds

LEMMA CopyPlain ==
  ASSUME NEW h, IsHeap(h), NEW x \in ValuePair
  PROVE  /\ IsOutcome(Copy(h, x)) /\ Copy(h, x).val \in ValuePair
         /\ ~isAllocated(x) => Copy(h, x).val = x
<1>1. IsOutcome(Copy(h, x)) /\ Copy(h, x).val \in ValuePair
  BY CopyOK DEF IsOutcome
<1>2. ~isAllocated(x) => Copy(h, x).val = x
  BY DEF Copy, Ok, isAllocated, AllocatedTag
<1> QED BY <1>1, <1>2

LEMMA GetIShaped ==
  ASSUME IInv, NEW ty, Shaped(ty), GetI
  PROVE  Shaped(ty)'
<1> DEFINE index == Last(spStack) + Inst.imm
<1>1. Fetched("GetI") /\ IsHeap(heap)
  BY DEF GetI, IInv, TypeOK
<1>2. CASE Throw(heap)
  BY <1>2, ThrowShaped
<1>3. CASE index \in 0..(Len(Saved) - 1) /\ Push(Copy(heap, Saved[index + 1]))
  <2>1. status = "running" /\ Inst.op = "GetI" /\ Inst.imm \in Int
    BY <1>1, Found DEF ImmediateOp
  <2>2. PICK t \in Seq(Kind) : Finds(ty, t)
    BY <1>1, Found
  <2> DEFINE x == Saved[index + 1]
             k == LocalKind(t, Inst.imm)
  <2>3. /\ Over(Saved, Last(spStack), t, Saved) /\ Last(spStack) \in Nat
        /\ Len(Saved) = Last(spStack) + Len(t) /\ Len(t) \in Nat
        /\ \A j \in 1..Len(t) : t[j] = "plain" => ~isAllocated(Saved[Last(spStack) + j])
    BY <2>2, LenProperties DEF Finds, Over, Holds
  <2>4. x \in ValuePair /\ Inst.imm < Len(t)
    BY <1>3, <2>1, <2>3, SavedType
  <2>5. k \in Kind /\ (k = "plain" => ~isAllocated(x))
    <3>1. CASE Inst.imm < 0
      BY <3>1 DEF LocalKind, Kind
    <3>2. CASE Inst.imm >= 0
      <4>1. Inst.imm + 1 \in 1..Len(t) /\ Last(spStack) + (Inst.imm + 1) = index + 1
        BY <2>1, <2>3, <2>4, <3>2
      <4> QED BY <2>1, <2>3, <3>2, <4>1 DEF LocalKind
    <3> QED BY <2>1, <3>1, <3>2
  <2>6. /\ IsOutcome(Copy(heap, x)) /\ Copy(heap, x).val \in ValuePair
        /\ ~isAllocated(x) => Copy(heap, x).val = x
    BY <1>1, <2>4, CopyPlain
  <2>7. At(fn, Len(rpStack) = 1, pc + 1, Append(t, k), TRUE) \in ty.points
    <3>1. ReadBy(functions, Inst) = 0
      BY <2>1 DEF ReadBy, ReadsTop
    <3>2. At(fn, Len(rpStack) = 1, pc + 1, Append(t, k), TRUE)
            \in After(ty, functions, Here(t))
      BY <2>1, <2>2, <2>4 DEF Finds, After, When, Pushing, Here, At
    <3>3. Len(t) >= ReadBy(functions, Inst)
      BY <2>3, <3>1
    <3> QED BY <2>2, <3>2, <3>3, Onward
  <2> HIDE DEF x, k
  <2>8. Over(Append(Saved, Copy(heap, x).val), Last(spStack), Append(t, k), Saved)
    BY <2>3, <2>5, <2>6, OverAppend DEF IsOutcome
  <2> QED BY <1>3, <2>1, <2>7, <2>8, FinishShaped DEF Push, x
<1> QED BY <1>2, <1>3 DEF GetI

\* Of the result of an instruction that takes operands off, the plain ones are known.
LEMMA FinishOver ==
  ASSUME IInv, NEW ty, Shaped(ty), status = "running", ~notop,
         NEW t, Finds(ty, t), NEW r, IsOutcome(r), NEW s, NEW u, NEW k \in Kind,
         Finish(r, s, notop), Over(s, Last(spStack), u, Saved),
         (r.exit = "ok" /\ k = "plain") => ~isAllocated(r.val),
         At(fn, Len(rpStack) = 1, pc + 1, Append(u, k), ~notop) \in ty.points
  PROVE  Shaped(ty)'
<1>1. r.exit = "ok" => Over(Append(s, r.val), Last(spStack), Append(u, k), Saved)
  BY OverAppend DEF IsOutcome
<1>2. notop = FALSE
  BY DEF IInv, TypeOK
<1> QED BY <1>1, <1>2, FinishShaped

LEMMA Top ==
  ASSUME NEW ty, NEW t \in Seq(Kind), Finds(ty, t), Len(t) >= 1,
         stack = Front(Saved), top = Last(Saved)
  PROVE  /\ Over(stack, Last(spStack), Front(t), Saved) /\ Len(Front(t)) = Len(t) - 1
         /\ Front(t) \in Seq(Kind)
         /\ Last(t) \in Kind /\ top \in ValuePair
         /\ Last(t) = "plain" => ~isAllocated(top)
<1>1. Over(Saved, Last(spStack), t, Saved)
  BY DEF Finds
<1>2. /\ Over(Front(Saved), Last(spStack), Front(t), Saved) /\ Len(Front(t)) = Len(t) - 1
      /\ Last(Saved) \in ValuePair /\ Last(t) \in Kind
      /\ Last(t) = "plain" => ~isAllocated(Last(Saved))
  BY <1>1, OverFront
<1>3. Front(t) \in Seq(Kind)
  BY <1>2 DEF Over
<1> QED BY <1>2, <1>3

LEMMA NumPlain ==
  ASSUME NEW n
  PROVE  ~isAllocated(Num(n)) /\ ~isAllocated(Undef) /\ ~isAllocated(Bool(n))
  BY DEF isAllocated, AllocatedTag, Num, Undef, Bool

LEMMA AddIShaped ==
  ASSUME IInv, NEW ty, Shaped(ty), AddI
  PROVE  Shaped(ty)'
<1>1. Fetched("AddI") /\ IsHeap(heap) /\ top \in ValuePair
  BY DEF AddI, IInv, TypeOK
<1>2. CASE Throw(heap)
  BY <1>2, ThrowShaped
<1>3. CASE Done(heap, Num(top.v + Inst.imm), stack, notop)
  <2>1. status = "running" /\ Inst.op = "AddI" /\ Inst.imm \in Int
    BY <1>1, Found DEF ImmediateOp
  <2>2. PICK t \in Seq(Kind) : /\ Finds(ty, t) /\ ~notop /\ Len(t) >= 1
                               /\ stack = Front(Saved) /\ top = Last(Saved)
    BY <1>1, Found DEF ReadsTop
  <2>3. Over(stack, Last(spStack), Front(t), Saved)
    BY <2>2, Top
  <2>4. Num(top.v + Inst.imm) \in ValuePair
    BY <1>1, <2>1 DEF Num, ValuePair, ValueTag
  <2>5. Over(Append(stack, Num(top.v + Inst.imm)), Last(spStack), Append(Front(t), "plain"), Saved)
    BY <2>3, <2>4, NumPlain, OverAppend DEF Kind
  <2>6. At(fn, Len(rpStack) = 1, pc + 1, Append(Front(t), "plain"), ~notop) \in ty.points
    <3>1. ReadBy(functions, Inst) = 1
      BY <2>1 DEF ReadBy, ReadsTop
    <3>2. At(fn, Len(rpStack) = 1, pc + 1, Append(Front(t), "plain"), ~notop)
            \in After(ty, functions, Here(t))
      BY <2>1, <2>2 DEF Finds, After, Behind, Here, At
    <3> QED BY <2>2, <3>1, <3>2, Onward
  <2> QED BY <1>3, <2>1, <2>2, <2>5, <2>6, DoneShaped
<1> QED BY <1>2, <1>3 DEF AddI

LEMMA EchoShaped ==
  ASSUME IInv, NEW ty, Shaped(ty), Echo
  PROVE  Shaped(ty)'
<1>1. Fetched("Echo")
  BY DEF Echo
<1>2. CASE Throw(heap)
  BY <1>2, ThrowShaped
<1>3. CASE Done(heap, top, stack, notop)
  <2>1. status = "running" /\ Inst.op = "Echo"
    BY <1>1, Found
  <2>2. PICK t \in Seq(Kind) : /\ Finds(ty, t) /\ ~notop /\ Len(t) >= 1
                               /\ stack = Front(Saved) /\ top = Last(Saved)
    BY <1>1, Found DEF ReadsTop
  <2>3. Saved = Append(stack, top)
    BY <2>2 DEF Saved, SaveTop
  <2>4. Over(Append(stack, top), Last(spStack), t, Saved)
    BY <2>2, <2>3 DEF Finds
  <2>5. At(fn, Len(rpStack) = 1, pc + 1, t, ~notop) \in ty.points
    <3>1. ReadBy(functions, Inst) = 1
      BY <2>1 DEF ReadBy, ReadsTop
    <3>2. At(fn, Len(rpStack) = 1, pc + 1, t, ~notop) \in After(ty, functions, Here(t))
      BY <2>1, <2>2 DEF Finds, After, Behind, Here, At
    <3> QED BY <2>2, <3>1, <3>2, Onward
  <2> QED BY <1>3, <2>1, <2>2, <2>4, <2>5, DoneShaped
<1> QED BY <1>2, <1>3 DEF Echo

LEMMA DropAllPlain ==
  ASSUME NEW h, NEW s
  PROVE  ~isAllocated(DropAll(h, s).val)
  BY NumPlain DEF DropAll, Ok, Throws, UB

LEMMA UnaryPlain ==
  ASSUME NEW h, NEW x, NEW op \in BuiltinUnary
  PROVE  ~isAllocated(HandleUnary(h, x, op).val)
<1>1. ~isAllocated(Drop(h, x).val)
  BY NumPlain DEF Drop, Ok, Throws, UB, isAllocated, AllocatedTag, Live
<1>2. CASE op \in {"NOT", "NORM"}
  BY <1>2, NumPlain DEF HandleUnary, Ok, Throws, RangeGetter, NumericUnary
<1>3. CASE op = "LEN"
  BY <1>1, <1>3, NumPlain DEF HandleUnary, Ok, Throws, RangeGetter, NumericUnary
<1>4. CASE op \in RangeGetter
  BY <1>1, <1>4, NumPlain DEF HandleUnary, Ok, Throws, RangeGetter, NumericUnary
<1>5. CASE op \in NumericUnary
  BY <1>1, <1>5, NumPlain DEF HandleUnary, Ok, Throws, RangeGetter, NumericUnary
<1> QED BY <1>2, <1>3, <1>4, <1>5 DEF BuiltinUnary

LEMMA BuiltinUnaryOpShaped ==
  ASSUME IInv, NEW ty, Shaped(ty), BuiltinUnaryOp
  PROVE  Shaped(ty)'
<1> DEFINE r == HandleUnary(heap, top, Inst.unary)
<1>1. /\ Fetched("BuiltinUnaryOp") /\ IsHeap(heap) /\ top \in ValuePair
      /\ Finish(r, stack, notop) /\ Inst.unary \in BuiltinUnary
  BY FetchedInst DEF BuiltinUnaryOp, IInv, TypeOK
<1>2. status = "running" /\ Inst.op = "BuiltinUnaryOp"
  BY <1>1, Found
<1>3. PICK t \in Seq(Kind) : /\ Finds(ty, t) /\ ~notop /\ Len(t) >= 1
                             /\ stack = Front(Saved) /\ top = Last(Saved)
  BY <1>1, Found DEF ReadsTop
<1>4. IsOutcome(r) /\ ~isAllocated(r.val)
  BY <1>1, HandleUnaryOK, UnaryPlain
<1>5. At(fn, Len(rpStack) = 1, pc + 1, Append(Front(t), "plain"), ~notop) \in ty.points
  <2>1. ReadBy(functions, Inst) = 1
    BY <1>2 DEF ReadBy, ReadsTop
  <2>2. At(fn, Len(rpStack) = 1, pc + 1, Append(Front(t), "plain"), ~notop)
          \in After(ty, functions, Here(t))
    BY <1>2, <1>3 DEF Finds, After, Behind, Here, At
  <2> QED BY <1>3, <2>1, <2>2, Onward
<1>6. Over(stack, Last(spStack), Front(t), Saved)
  BY <1>3, Top
<1>7. "plain" \in Kind
  BY DEF Kind
<1> HIDE DEF r
<1> QED BY <1>1, <1>2, <1>3, <1>4, <1>5, <1>6, <1>7, FinishOver

LEMMA SetIShaped ==
  ASSUME IInv, NEW ty, Shaped(ty), SetI
  PROVE  Shaped(ty)'
<1> DEFINE index == Last(spStack) + Inst.imm
           s1 == [stack EXCEPT ![index + 1] = top]
<1>1. Fetched("SetI") /\ top \in ValuePair /\ stack \in Seq(ValuePair)
  BY DEF SetI, IInv, TypeOK
<1>2. CASE Throw(heap)
  BY <1>2, ThrowShaped
<1>3. CASE index \in 0..(Len(stack) - 1) /\ TakeTop(s1, heap, pc + 1) /\ UNCHANGED globals
  <2>1. status = "running" /\ Inst.op = "SetI" /\ Inst.imm \in Int
    BY <1>1, Found DEF ImmediateOp
  <2>2. PICK t \in Seq(Kind) : /\ Finds(ty, t) /\ ~notop /\ Len(t) >= 1
                               /\ stack = Front(Saved) /\ top = Last(Saved)
    BY <1>1, Found DEF ReadsTop
  <2>3. /\ Over(stack, Last(spStack), Front(t), Saved) /\ Last(t) \in Kind
        /\ Last(t) = "plain" => ~isAllocated(top)
    BY <2>2, Top
  <2>4. Inst.imm >= 0
    BY <2>1, <2>2 DEF Finds, Accepted
  <2>5. Len(stack) = Last(spStack) + Len(Front(t)) /\ Len(Front(t)) \in Nat /\ Last(spStack) \in Nat
    BY <2>3, LenProperties DEF Over
  <2> DEFINE n == Inst.imm + 1
             u == [Front(t) EXCEPT ![n] = Last(t)]
  <2>6. n \in 1..Len(Front(t)) /\ index + 1 = Last(spStack) + n
    BY <1>3, <2>1, <2>4, <2>5
  <2>7. At(fn, Len(rpStack) = 1, pc + 1, u, ~notop) \in ty.points
    <3>1. ReadBy(functions, Inst) = 1
      BY <2>1 DEF ReadBy, ReadsTop
    <3>2. Inst.imm < Len(Front(t))
      BY <2>1, <2>5, <2>6
    <3>3. At(fn, Len(rpStack) = 1, pc + 1, u, ~notop) \in After(ty, functions, Here(t))
      BY <2>1, <2>2, <3>2 DEF Finds, After, When, Behind, Here, At
    <3> QED BY <2>2, <3>1, <3>3, Onward
  <2>8. Over(s1, Last(spStack), u, Saved)
    <3> HIDE DEF n, index
    <3>1. Over([stack EXCEPT ![Last(spStack) + n] = top], Last(spStack), u, Saved)
      BY <1>1, <2>3, <2>6, OverSet
    <3> QED BY <2>6, <3>1
  <2>9. s1 \in Seq(ValuePair) /\ GlobalsHold(ty)'
    BY <1>3, <2>8, SameGlobals DEF Over
  <2> HIDE DEF u, s1
  <2> QED BY <1>3, <2>1, <2>2, <2>7, <2>8, <2>9, TakeTopShaped
<1> QED BY <1>2, <1>3 DEF SetI

LEMMA JumpIShaped ==
  ASSUME IInv, NEW ty, Shaped(ty), JumpI
  PROVE  Shaped(ty)'
<1>1. Fetched("JumpI")
  BY DEF JumpI
<1>2. CASE Throw(heap)
  BY <1>2, ThrowShaped
<1>3. CASE /\ ValidTarget(pc + Inst.imm) /\ Goto(pc + Inst.imm)
           /\ UNCHANGED operands /\ UNCHANGED host /\ UNCHANGED <<heap, globals>>
  <2>1. status = "running" /\ Inst.op = "JumpI"
    BY <1>1, Found
  <2>2. PICK t \in Seq(Kind) : Finds(ty, t)
    BY <1>1, Found
  <2>3. At(fn, Len(rpStack) = 1, pc + Inst.imm, t, ~notop) \in ty.points
    <3>1. ReadBy(functions, Inst) = 0
      BY <2>1 DEF ReadBy, ReadsTop
    <3>2. At(fn, Len(rpStack) = 1, pc + Inst.imm, t, ~notop) \in After(ty, functions, Here(t))
      BY <1>3, <2>1, <2>2 DEF Finds, After, Jumping, When, ValidTarget, Code, Here, At
    <3>3. Len(t) >= ReadBy(functions, Inst)
      BY <3>1, LenProperties
    <3> QED BY <2>2, <3>2, <3>3, Onward
  <2>4. /\ UNCHANGED <<fn, rpStack, spStack, pcStack, functions, globals>>
        /\ pc' = pc + Inst.imm /\ notop' = notop /\ Saved' = Saved
    BY <1>3 DEF Goto, operands, host, Saved, SaveTop
  <2>5. Over(Saved', Last(spStack), t, Saved)
    BY <2>2, <2>4 DEF Finds
  <2> QED BY <2>1, <2>3, <2>4, <2>5, Landing, SameGlobals
<1> QED BY <1>2, <1>3 DEF JumpI

LEMMA JumpFalseIShaped ==
  ASSUME IInv, NEW ty, Shaped(ty), JumpFalseI
  PROVE  Shaped(ty)'
<1> DEFINE target == IF top.v = 1 THEN pc + 1 ELSE pc + Inst.imm
<1>1. Fetched("JumpFalseI") /\ stack \in Seq(ValuePair)
  BY DEF JumpFalseI, IInv, TypeOK
<1>2. CASE Throw(heap)
  BY <1>2, ThrowShaped
<1>3. CASE ValidTarget(pc + Inst.imm) /\ PopInto(stack, heap, target)
  <2>1. status = "running" /\ Inst.op = "JumpFalseI"
    BY <1>1, Found
  <2>2. PICK t \in Seq(Kind) : /\ Finds(ty, t) /\ ~notop /\ Len(t) >= 1
                               /\ stack = Front(Saved) /\ top = Last(Saved)
    BY <1>1, Found DEF ReadsTop
  <2>3. Over(stack, Last(spStack), Front(t), Saved)
    BY <2>2, Top
  <2>4. At(fn, Len(rpStack) = 1, target, Front(t), ~notop) \in ty.points
    <3>1. ReadBy(functions, Inst) = 1
      BY <2>1 DEF ReadBy, ReadsTop
    <3>2. /\ At(fn, Len(rpStack) = 1, pc + 1, Front(t), ~notop) \in After(ty, functions, Here(t))
          /\ At(fn, Len(rpStack) = 1, pc + Inst.imm, Front(t), ~notop)
               \in After(ty, functions, Here(t))
      BY <1>3, <2>1, <2>2
         DEF Finds, After, Behind, Jumping, When, ValidTarget, Code, Here, At
    <3> QED BY <2>2, <3>1, <3>2, Onward
  <2> HIDE DEF target
  <2> QED BY <1>1, <1>3, <2>1, <2>2, <2>3, <2>4, PopIntoShaped
<1> QED BY <1>2, <1>3 DEF JumpFalseI

LEMMA PopShaped ==
  ASSUME IInv, NEW ty, Shaped(ty), Pop
  PROVE  Shaped(ty)'
<1> DEFINE d == Drop(heap, top)
<1>1. Fetched("Pop") /\ stack \in Seq(ValuePair)
  BY DEF Pop, IInv, TypeOK
<1>2. CASE Throw(heap)
  BY <1>2, ThrowShaped
<1>3. CASE Undefined
  BY <1>3, UndefinedShaped
<1>4. CASE PopInto(stack, d.heap, pc + 1)
  <2>1. status = "running" /\ Inst.op = "Pop"
    BY <1>1, Found
  <2>2. PICK t \in Seq(Kind) : /\ Finds(ty, t) /\ ~notop /\ Len(t) >= 1
                               /\ stack = Front(Saved) /\ top = Last(Saved)
    BY <1>1, Found DEF ReadsTop
  <2>3. Over(stack, Last(spStack), Front(t), Saved)
    BY <2>2, Top
  <2>4. At(fn, Len(rpStack) = 1, pc + 1, Front(t), ~notop) \in ty.points
    <3>1. ReadBy(functions, Inst) = 1
      BY <2>1 DEF ReadBy, ReadsTop
    <3>2. At(fn, Len(rpStack) = 1, pc + 1, Front(t), ~notop) \in After(ty, functions, Here(t))
      BY <2>1, <2>2 DEF Finds, After, Behind, Here, At
    <3> QED BY <2>2, <3>1, <3>2, Onward
  <2> HIDE DEF d
  <2> QED BY <1>1, <1>4, <2>1, <2>2, <2>3, <2>4, PopIntoShaped
<1> QED BY <1>2, <1>3, <1>4 DEF Pop

LEMMA DupShaped ==
  ASSUME IInv, NEW ty, Shaped(ty), Dup
  PROVE  Shaped(ty)'
<1>1. /\ Fetched("Dup") /\ Push(Copy(heap, top)) /\ IsHeap(heap) /\ top \in ValuePair
  BY DEF Dup, IInv, TypeOK
<1>2. status = "running" /\ Inst.op = "Dup"
  BY <1>1, Found
<1>3. PICK t \in Seq(Kind) : /\ Finds(ty, t) /\ ~notop /\ Len(t) >= 1
                             /\ stack = Front(Saved) /\ top = Last(Saved)
  BY <1>1, Found DEF ReadsTop
<1>4. /\ Last(t) \in Kind /\ (Last(t) = "plain" => ~isAllocated(top))
  BY <1>3, Top
<1>5. /\ Copy(heap, top).val \in ValuePair
      /\ ~isAllocated(top) => Copy(heap, top).val = top
  BY <1>1, CopyPlain
<1>6. At(fn, Len(rpStack) = 1, pc + 1, Append(t, Last(t)), TRUE) \in ty.points
  <2>1. ReadBy(functions, Inst) = 1
    BY <1>2 DEF ReadBy, ReadsTop
  <2>2. At(fn, Len(rpStack) = 1, pc + 1, Append(t, Last(t)), TRUE)
          \in After(ty, functions, Here(t))
    BY <1>2, <1>3 DEF Finds, After, Pushing, Here, At
  <2> QED BY <1>3, <2>1, <2>2, Onward
<1>7. Over(Append(Saved, Copy(heap, top).val), Last(spStack), Append(t, Last(t)), Saved)
  BY <1>3, <1>4, <1>5, OverAppend DEF Finds
<1> QED BY <1>1, <1>2, <1>6, <1>7, FinishShaped DEF Push

LEMMA ConstShaped ==
  ASSUME IInv, NEW ty, Shaped(ty), ConstNum \/ ConstMisc
  PROVE  Shaped(ty)'
<1>1. PICK op \in {"ConstNum", "ConstMisc"}, x \in ValuePair :
        Fetched(op) /\ Done(heap, x, Saved, FALSE) /\ ~isAllocated(x)
  <2>1. CASE ConstNum
    <3>1. Num(Inst.imm) \in ValuePair
      BY <2>1, FetchedInst DEF ConstNum, ImmediateOp, Num, ValuePair, ValueTag
    <3> QED BY <2>1, <3>1, NumPlain DEF ConstNum
  <2>2. CASE ConstMisc
    <3>1. /\ Bool(FALSE) \in ValuePair /\ Bool(TRUE) \in ValuePair /\ Undef \in ValuePair
      BY DEF Bool, Undef, ValuePair, ValueTag
    <3> QED BY <2>2, <3>1, NumPlain DEF ConstMisc
  <2> QED BY <2>1, <2>2
<1>2. status = "running" /\ Inst.op \in {"ConstNum", "ConstMisc"}
  BY <1>1, Found
<1>3. PICK t \in Seq(Kind) : Finds(ty, t)
  BY <1>1, Found
<1>4. At(fn, Len(rpStack) = 1, pc + 1, Append(t, "plain"), TRUE) \in ty.points
  <2>1. ReadBy(functions, Inst) = 0
    BY <1>2 DEF ReadBy, ReadsTop
  <2>2. At(fn, Len(rpStack) = 1, pc + 1, Append(t, "plain"), TRUE)
          \in After(ty, functions, Here(t))
    BY <1>2, <1>3 DEF Finds, After, Pushing, Here, At
  <2>3. Len(t) >= ReadBy(functions, Inst)
    BY <2>1, LenProperties
  <2> QED BY <1>3, <2>2, <2>3, Onward
<1>5. Over(Append(Saved, x), Last(spStack), Append(t, "plain"), Saved)
  BY <1>1, <1>3, OverAppend DEF Finds, Kind
<1> QED BY <1>1, <1>2, <1>4, <1>5, DoneShaped

\* The element a loop visits next.
LEMMA ElementAtOK ==
  ASSUME IsHeap(heap), NEW x \in ValuePair, NEW n \in Int, x.tag \in {"VECTOR", "RANGE"},
         Live(heap, x), ~Exhausted(x, n)
  PROVE  IsOutcome(ElementAt(x, n))
<1>1. CASE x.tag = "VECTOR" /\ n < 0
  <2>1. ElementAt(x, n) = UB(heap)
    BY <1>1 DEF ElementAt
  <2> QED BY <2>1, UndefType, OutcomeOK
<1>2. CASE x.tag = "VECTOR" /\ n >= 0
  <2>1. Elements(heap, x.v) \in Seq(ValuePair)
    BY <1>2, LiveParts
  <2>2. n < Len(Elements(heap, x.v))
    BY <1>2, <2>1 DEF Exhausted
  <2>3. Elements(heap, x.v)[n + 1] \in ValuePair
    BY <1>2, <2>1, <2>2
  <2>4. ElementAt(x, n) = Copy(heap, Elements(heap, x.v)[n + 1])
    BY <1>2 DEF ElementAt
  <2> QED BY <2>3, <2>4, CopyOK
<1>3. CASE x.tag = "RANGE"
  <2> DEFINE r == heap.range[x.v]
  <2>1. r \in SRange
    BY <1>3, LiveParts
  <2>2. Num(n * r.step + r.begin) \in ValuePair
    BY <2>1 DEF SRange, Num, ValuePair, ValueTag
  <2>3. ElementAt(x, n) = Ok(heap, Num(n * r.step + r.begin))
    BY <1>3 DEF ElementAt
  <2> QED BY <2>2, <2>3, OutcomeOK
<1> QED BY <1>1, <1>2, <1>3

\* The instructions that read two operands.
LEMMA Second ==
  ASSUME IInv, NEW ty, Shaped(ty), status = "running", NEW t \in Seq(Kind), Finds(ty, t),
         Len(t) >= 1, stack = Front(Saved), top = Last(Saved), stack # <<>>,
         ReadBy(functions, Inst) = 2
  PROVE  /\ Len(t) >= 2
         /\ Over(Front(stack), Last(spStack), Front(Front(t)), Saved)
         /\ Last(stack) \in ValuePair
<1>1. Over(stack, Last(spStack), Front(t), Saved) /\ Len(Front(t)) = Len(t) - 1
  BY Top
<1>2. Len(rpStack) = 1 \/ 2 <= Len(t)
  BY DEF Finds, Accepted, Here, At
<1>3. Len(rpStack) = 1 => Last(spStack) = 0
  BY FrameBase DEF Shaped, InShape
<1>4. /\ Len(stack) \in Nat /\ Len(stack) >= 1 /\ Len(t) \in Nat
      /\ Len(stack) = Last(spStack) + (Len(t) - 1)
  BY <1>1, EmptySeq, LenProperties DEF Over
<1>5. Len(t) >= 2
  BY <1>2, <1>3, <1>4
<1>6. Over(Front(stack), Last(spStack), Front(Front(t)), Saved) /\ Last(stack) \in ValuePair
  BY <1>1, <1>4, <1>5, OverFront
<1> QED BY <1>5, <1>6

LEMMA BinaryPlain ==
  ASSUME NEW h, NEW l, NEW r, NEW op \in BinOp, op \notin {"APPEND", "CONCAT", "INDEX"}
  PROVE  ~isAllocated(HandleBinary(h, l, r, op).val)
<1>1. ~isAllocated(DropBoth(h, l, r).val) /\ ~isAllocated(DropBoth(h, r, l).val)
  BY DropAllPlain DEF DropBoth
<1>2. CASE op \in ArithmeticOp
  <2>1. HandleBinary(h, l, r, op) = Arithmetic(h, l, r, op)
    BY <1>2 DEF HandleBinary, ArithmeticOp, CompareOp, EqualityOp, LogicOp
  <2> QED BY <1>1, <2>1, NumPlain DEF Arithmetic, Ok
<1>3. CASE op \in CompareOp
  <2>1. HandleBinary(h, l, r, op) = Compare(h, l, r, op)
    BY <1>3 DEF HandleBinary, ArithmeticOp, CompareOp, EqualityOp, LogicOp
  <2> QED BY <1>1, <2>1, NumPlain DEF Compare, Ok
<1>4. CASE op \in EqualityOp
  <2>1. HandleBinary(h, l, r, op) = Equality(h, l, r)
    BY <1>4 DEF HandleBinary, ArithmeticOp, CompareOp, EqualityOp, LogicOp
  <2>2. \/ Equality(h, l, r).val = Undef \/ Equality(h, l, r) = DropBoth(h, l, r)
        \/ \E b : Equality(h, l, r).val = Bool(b)
    BY DEF Equality, UB, Ok
  <2> QED BY <1>1, <2>1, <2>2, NumPlain
<1>5. CASE op \in LogicOp
  <2>1. HandleBinary(h, l, r, op) = Logic(h, l, r, op)
    BY <1>5 DEF HandleBinary, ArithmeticOp, CompareOp, EqualityOp, LogicOp
  <2> QED BY <1>1, <2>1, NumPlain DEF Logic, Ok
<1> QED BY <1>2, <1>3, <1>4, <1>5 DEF BinOp

LEMMA BinaryOpShaped ==
  ASSUME IInv, NEW ty, Shaped(ty), BinaryOp
  PROVE  Shaped(ty)'
<1> DEFINE r == HandleBinary(heap, Last(stack), top, Inst.binary)
           k == BinaryKind(Inst.binary)
<1>1. Fetched("BinaryOp") /\ Inst.binary \in BinOp /\ IsHeap(heap) /\ top \in ValuePair
  BY FetchedInst DEF BinaryOp, IInv, TypeOK
<1>2. CASE Throw(heap)
  BY <1>2, ThrowShaped
<1>3. CASE stack # <<>> /\ Finish(r, Front(stack), notop)
  <2>1. status = "running" /\ Inst.op = "BinaryOp"
    BY <1>1, Found
  <2>2. PICK t \in Seq(Kind) : /\ Finds(ty, t) /\ ~notop /\ Len(t) >= 1
                               /\ stack = Front(Saved) /\ top = Last(Saved)
    BY <1>1, Found DEF ReadsTop
  <2>3. ReadBy(functions, Inst) = 2
    BY <2>1 DEF ReadBy, ReadsTop
  <2>4. /\ Len(t) >= 2 /\ Last(stack) \in ValuePair
        /\ Over(Front(stack), Last(spStack), Front(Front(t)), Saved)
    BY <1>3, <2>1, <2>2, <2>3, Second
  <2>5. At(fn, Len(rpStack) = 1, pc + 1, Append(Front(Front(t)), k), ~notop) \in ty.points
    <3>1. At(fn, Len(rpStack) = 1, pc + 1, Append(Front(Front(t)), k), ~notop)
            \in After(ty, functions, Here(t))
      BY <2>1, <2>2 DEF Finds, After, Behind, Here, At
    <3> QED BY <2>2, <2>3, <2>4, <3>1, Onward
  <2>6. k \in Kind /\ (k = "plain" => ~isAllocated(r.val))
    BY <1>1, BinaryPlain DEF BinaryKind, Kind
  <2>7. IsOutcome(r)
    BY <1>1, <2>4, HandleBinaryOK
  <2> HIDE DEF r, k
  <2> QED BY <1>3, <2>1, <2>2, <2>4, <2>5, <2>6, <2>7, FinishOver
<1> QED BY <1>2, <1>3 DEF BinaryOp

\* The number of the element goes on the stack, over the source, and the element on top.
LEMMA IterShaped ==
  ASSUME IInv, NEW ty, Shaped(ty), Iter
  PROVE  Shaped(ty)'
<1> DEFINE x == Last(stack)
           n == top.v + 1
<1>1. /\ Fetched("Iter") /\ IsHeap(heap) /\ top \in ValuePair /\ stack \in Seq(ValuePair)
      /\ n \in Int
  BY DEF Iter, IInv, TypeOK, ValuePair
<1>2. CASE Throw(heap)
  BY <1>2, ThrowShaped
<1>3. CASE Undefined
  BY <1>3, UndefinedShaped
<1>4. CASE ~IterInvalid /\ ~Throw(heap) /\ ~Undefined
  <2>1. status = "running" /\ Inst.op = "Iter"
    BY <1>1, Found
  <2>2. PICK t \in Seq(Kind) : /\ Finds(ty, t) /\ ~notop /\ Len(t) >= 1
                               /\ stack = Front(Saved) /\ top = Last(Saved)
    BY <1>1, Found DEF ReadsTop
  <2>3. ReadBy(functions, Inst) = 2
    BY <2>1 DEF ReadBy, ReadsTop
  <2>4. stack # <<>> /\ ValidTarget(pc + Inst.imm) /\ x.tag \in {"VECTOR", "RANGE"}
    BY <1>4 DEF IterInvalid
  <2>5. /\ Len(t) >= 2 /\ x \in ValuePair
        /\ Over(Front(stack), Last(spStack), Front(Front(t)), Saved)
    BY <2>1, <2>2, <2>3, <2>4, Second
  <2>6. Over(stack, Last(spStack), Front(t), Saved) /\ Front(t) \in Seq(Kind)
    BY <2>2, Top
  <2>7. CASE PopInto(Front(stack), Drop(heap, x).heap, pc + Inst.imm)
    <3>1. At(fn, Len(rpStack) = 1, pc + Inst.imm, Front(Front(t)), ~notop) \in ty.points
      <4>1. At(fn, Len(rpStack) = 1, pc + Inst.imm, Front(Front(t)), ~notop)
              \in After(ty, functions, Here(t))
        BY <2>1, <2>2, <2>4
           DEF Finds, After, Jumping, When, ValidTarget, Code, Here, At
      <4> QED BY <2>2, <2>3, <2>5, <4>1, Onward
    <3>2. Front(stack) \in Seq(ValuePair)
      BY <2>5 DEF Over
    <3> HIDE DEF x
    <3> QED BY <2>1, <2>2, <2>5, <2>7, <3>1, <3>2, PopIntoShaped
  <2>8. CASE /\ Live(heap, x) /\ ~Exhausted(x, n)
             /\ Finish(ElementAt(x, n), SaveTop(Num(n)), FALSE)
    <3>1. IsOutcome(ElementAt(x, n))
      BY <1>1, <2>4, <2>5, <2>8, ElementAtOK
    <3>2. Num(n) \in ValuePair /\ "plain" \in Kind /\ "any" \in Kind /\ "any" # "plain"
      BY <1>1 DEF Num, ValuePair, ValueTag, Kind
    <3>3. SaveTop(Num(n)) = Append(stack, Num(n))
      BY <2>2 DEF SaveTop
    <3>4. Over(Append(stack, Num(n)), Last(spStack), Append(Front(t), "plain"), Saved)
      BY <2>6, <3>2, NumPlain, OverAppend
    <3>5. Over(Append(Append(stack, Num(n)), ElementAt(x, n).val), Last(spStack),
               Append(Append(Front(t), "plain"), "any"), Saved)
      BY <3>1, <3>2, <3>4, OverAppend DEF IsOutcome
    <3>6. At(fn, Len(rpStack) = 1, pc + 1, Append(Append(Front(t), "plain"), "any"), TRUE)
            \in ty.points
      <4>1. Front(t) \o <<"plain", "any">> = Append(Append(Front(t), "plain"), "any")
        BY <2>6, <3>2
      <4>2. At(fn, Len(rpStack) = 1, pc + 1, Front(t) \o <<"plain", "any">>, TRUE)
              \in After(ty, functions, Here(t))
        BY <2>1, <2>2 DEF Finds, After, Behind, Here, At
      <4> QED BY <2>2, <2>3, <2>5, <4>1, <4>2, Onward
    <3> HIDE DEF x, n
    <3> QED BY <2>1, <2>8, <3>3, <3>5, <3>6, FinishShaped
  <2> QED BY <1>4, <2>7, <2>8 DEF Iter
<1> QED BY <1>2, <1>3, <1>4 DEF Iter

-----------------------------------------------------------------------------
\* Globals.

LEMMA GetGlobalIShaped ==
  ASSUME IInv, NEW ty, Shaped(ty), GetGlobalI
  PROVE  Shaped(ty)'
<1>1. Fetched("GetGlobalI") /\ IsHeap(heap) /\ globals \in Seq(ValuePair)
  BY DEF GetGlobalI, IInv, TypeOK
<1>2. CASE Throw(heap)
  BY <1>2, ThrowShaped
<1>3. CASE IsGlobal(Inst.imm) /\ Push(Copy(heap, globals[Inst.imm + 1]))
  <2> DEFINE x == globals[Inst.imm + 1]
             k == ty.globals[Inst.imm + 1]
  <2>1. status = "running" /\ Inst.op = "GetGlobalI" /\ Inst.imm \in Int
    BY <1>1, Found DEF ImmediateOp
  <2>2. PICK t \in Seq(Kind) : Finds(ty, t)
    BY <1>1, Found
  <2>3. /\ ty.globals \in Seq(Kind) /\ Len(globals) = Len(ty.globals)
        /\ \A j \in 1..Len(ty.globals) : ty.globals[j] = "plain" => ~isAllocated(globals[0 + j])
    BY ShapelyParts DEF Shaped, InShape, GlobalsHold, Holds
  <2>4. Inst.imm + 1 \in 1..Len(globals) /\ 0 + (Inst.imm + 1) = Inst.imm + 1
        /\ Inst.imm \in 0..(Len(ty.globals) - 1)
    BY <1>1, <1>3, <2>3 DEF IsGlobal
  <2>5. x \in ValuePair /\ k \in Kind /\ (k = "plain" => ~isAllocated(x))
    BY <1>1, <2>3, <2>4
  <2>6. /\ Copy(heap, x).val \in ValuePair /\ (~isAllocated(x) => Copy(heap, x).val = x)
    BY <1>1, <2>5, CopyPlain
  <2>7. At(fn, Len(rpStack) = 1, pc + 1, Append(t, k), TRUE) \in ty.points
    <3>1. ReadBy(functions, Inst) = 0
      BY <2>1 DEF ReadBy, ReadsTop
    <3>2. At(fn, Len(rpStack) = 1, pc + 1, Append(t, k), TRUE)
            \in After(ty, functions, Here(t))
      BY <2>1, <2>2, <2>4 DEF Finds, After, When, Pushing, Here, At
    <3>3. Len(t) >= ReadBy(functions, Inst)
      BY <3>1, LenProperties
    <3> QED BY <2>2, <3>2, <3>3, Onward
  <2> HIDE DEF x, k
  <2>8. Over(Append(Saved, Copy(heap, x).val), Last(spStack), Append(t, k), Saved)
    BY <2>2, <2>5, <2>6, OverAppend DEF Finds
  <2> QED BY <1>3, <2>1, <2>7, <2>8, FinishShaped DEF Push, x
<1> QED BY <1>2, <1>3 DEF GetGlobalI

LEMMA SetGlobalIShaped ==
  ASSUME IInv, NEW ty, Shaped(ty), SetGlobalI
  PROVE  Shaped(ty)'
<1>1. Fetched("SetGlobalI") /\ globals \in Seq(ValuePair) /\ stack \in Seq(ValuePair)
  BY DEF SetGlobalI, IInv, TypeOK
<1>2. CASE Throw(heap)
  BY <1>2, ThrowShaped
<1>3. CASE /\ IsGlobal(Inst.imm) /\ globals' = [globals EXCEPT ![Inst.imm + 1] = top]
           /\ ~Throw(heap)
  <2>1. status = "running" /\ Inst.op = "SetGlobalI" /\ Inst.imm \in Int
    BY <1>1, Found DEF ImmediateOp
  <2>2. PICK t \in Seq(Kind) : /\ Finds(ty, t) /\ ~notop /\ Len(t) >= 1
                               /\ stack = Front(Saved) /\ top = Last(Saved)
    BY <1>1, Found DEF ReadsTop
  <2>3. /\ Over(stack, Last(spStack), Front(t), Saved) /\ top \in ValuePair
        /\ Last(t) = "plain" => ~isAllocated(top)
    BY <2>2, Top
  <2>4. /\ ty.globals \in Seq(Kind) /\ Len(globals) = Len(ty.globals)
        /\ \A j \in 1..Len(ty.globals) : ty.globals[j] = "plain" => ~isAllocated(globals[0 + j])
    BY ShapelyParts DEF Shaped, InShape, GlobalsHold, Holds
  <2>5. /\ Inst.imm + 1 \in 1..Len(globals) /\ Inst.imm \in 0..(Len(ty.globals) - 1)
    BY <1>1, <1>3, <2>4 DEF IsGlobal
  <2>6. Usable(Last(t), ty.globals[Inst.imm + 1])
    <3>1. t # <<>>
      BY <2>2
    <3> QED BY <2>1, <2>2, <2>5, <3>1 DEF Finds, Accepted, Here, At
  <2>7. GlobalsHold(ty)'
    <3>1. Len(globals') = Len(globals)
      BY <1>1, <1>3
    <3>2. ASSUME NEW j \in 1..Len(ty.globals), ty.globals[j] = "plain"
          PROVE  ~isAllocated(globals'[0 + j])
      <4>1. 0 + j = j /\ j \in 1..Len(globals)
        BY <1>1, <2>4
      <4>2. CASE j = Inst.imm + 1
        <5>1. globals'[j] = top /\ Last(t) = "plain"
          BY <1>1, <1>3, <2>6, <3>2, <4>1, <4>2 DEF Usable
        <5> QED BY <2>3, <4>1, <5>1
      <4>3. CASE j # Inst.imm + 1
        <5>1. globals'[j] = globals[j]
          BY <1>1, <1>3, <4>1, <4>3
        <5> QED BY <2>4, <3>2, <4>1, <5>1
      <4> QED BY <4>2, <4>3
    <3> QED BY <2>4, <3>1, <3>2 DEF GlobalsHold, Holds
  <2>8. CASE TakeTop(stack, heap, pc + 1)
    <3>1. At(fn, Len(rpStack) = 1, pc + 1, Front(t), ~notop) \in ty.points
      <4>1. ReadBy(functions, Inst) = 1
        BY <2>1 DEF ReadBy, ReadsTop
      <4>2. At(fn, Len(rpStack) = 1, pc + 1, Front(t), ~notop)
              \in After(ty, functions, Here(t))
        BY <2>1, <2>2 DEF Finds, After, Behind, Here, At
      <4> QED BY <2>2, <4>1, <4>2, Onward
    <3> QED BY <1>1, <2>1, <2>2, <2>3, <2>7, <2>8, <3>1, TakeTopShaped
  <2>9. CASE status' = "idle" /\ UNCHANGED functions
    BY <2>7, <2>9, Leaving
  <2> QED BY <1>3, <2>8, <2>9 DEF SetGlobalI
<1> QED BY <1>2, <1>3 DEF SetGlobalI

-----------------------------------------------------------------------------
\* Calls and returns.

\* The arguments of a call are on top of the operands: so many, and of these kinds.
LEMMA Arguments ==
  ASSUME IInv, NEW ty, Shaped(ty), status = "running", NEW t \in Seq(Kind), Finds(ty, t),
         Inst.op \in {"CallI", "TailCallI"}, IsFunction(Inst.imm)
  PROVE  LET args == ty.args[Inst.imm + 1]
             p    == functions[Inst.imm + 1].parameters
         IN /\ Inst.imm \in Nat /\ Inst.imm + 1 \in 1..Len(functions)
            /\ args \in Seq(Kind) /\ Len(args) = p /\ p \in Nat /\ p <= Len(t)
            /\ ReadBy(functions, Inst) = p
            /\ Len(Saved) = Last(spStack) + Len(t) /\ Last(spStack) \in Nat /\ Len(t) \in Nat
            /\ Holds(Saved, Len(Saved) - p, args)
            /\ ty.result[Inst.imm + 1] \in Kind
<1> DEFINE f == Inst.imm + 1
           args == ty.args[f]
           p == functions[f].parameters
<1>1. functions \in Seq(FunctionEntry) /\ Len(functions) \in Nat
  BY LenProperties DEF IInv, TypeOK
<1>2. Inst.imm \in Nat /\ f \in 1..Len(functions) /\ Within(functions, Inst)
  BY <1>1 DEF IsFunction, Within
<1>3. /\ args \in Seq(Kind) /\ Len(args) = p /\ ty.result[f] \in Kind
  BY <1>2, ShapelyParts DEF Shaped
<1>4. functions[f] \in FunctionEntry
  BY <1>1, <1>2
<1>5. p \in Nat
  BY <1>4 DEF FunctionEntry
<1>6. /\ Len(Saved) = Last(spStack) + Len(t) /\ Last(spStack) \in Nat /\ Len(t) \in Nat
      /\ \A j \in 1..Len(t) : t[j] = "plain" => ~isAllocated(Saved[Last(spStack) + j])
  BY LenProperties DEF Finds, Over, Holds
<1>7. Supplies(ty, t, Inst.imm)
  BY <1>2 DEF Finds, Accepted, Here, At
<1> HIDE DEF f
<1>8. Len(args) <= Len(t) /\ \A j \in 1..Len(args) : Usable(t[Len(t) - Len(args) + j], args[j])
  BY <1>7 DEF Supplies, f
<1>9. ReadBy(functions, Inst) = p
  <2>1. CASE Inst.op = "CallI"
    BY <1>2, <2>1 DEF ReadBy, ReadsTop, ParametersOf, f
  <2>2. CASE Inst.op = "TailCallI"
    BY <1>2, <2>2 DEF ReadBy, ReadsTop, ParametersOf, f
  <2> QED BY <2>1, <2>2
<1> HIDE DEF p, args
<1>10. ASSUME NEW j \in 1..Len(args), args[j] = "plain"
       PROVE  ~isAllocated(Saved[Len(Saved) - p + j])
  <2>1. t[Len(t) - p + j] = "plain"
    BY <1>3, <1>8, <1>10 DEF Usable
  <2>2. /\ Len(t) - p + j \in 1..Len(t)
        /\ Last(spStack) + (Len(t) - p + j) = Len(Saved) - p + j
    <3>1. j \in Nat /\ j >= 1 /\ j <= p
      BY <1>3, <1>5
    <3> QED BY <1>3, <1>5, <1>6, <1>8, <3>1
  <2> QED BY <1>6, <2>1, <2>2
<1> QED BY <1>2, <1>3, <1>5, <1>6, <1>8, <1>9, <1>10 DEF Holds, f, args, p

LEMMA Lower ==
  ASSUME NEW S, NEW s \in Seq(S), NEW n \in Nat, n <= Len(s)
  PROVE  LET low == SubSeq(s, 1, Len(s) - n)
         IN /\ low \in Seq(S) /\ Len(low) = Len(s) - n
            /\ \A j \in 1..(Len(s) - n) : low[j] = s[j]
<1> DEFINE m == Len(s) - n
<1>1. Len(s) \in Nat
  BY LenProperties
<1>2. m \in Nat /\ m <= Len(s)
  BY <1>1
<1> HIDE DEF m
<1>3. SubSeq(s, 1, m) \in Seq(S) /\ Len(SubSeq(s, 1, m)) = m
  BY <1>1, <1>2
<1>4. \A j \in 1..m : SubSeq(s, 1, m)[j] = s[j]
  BY <1>1, <1>2
<1> QED BY <1>3, <1>4 DEF m

LEMMA CallIShaped ==
  ASSUME IInv, NEW ty, Shaped(ty), CallI
  PROVE  Shaped(ty)'
<1>1. Fetched("CallI")
  BY DEF CallI
<1>2. CASE Throw(heap)
  BY <1>2, ThrowShaped
<1>3. CASE IsFunction(Inst.imm) /\ ~Throw(heap)
  <2> DEFINE id == Inst.imm
             args == ty.args[id + 1]
             p == functions[id + 1].parameters
             b == Last(spStack)
             n == Len(spStack)
  <2>1. status = "running" /\ Inst.op = "CallI"
    BY <1>1, Found
  <2>2. PICK t \in Seq(Kind) : Finds(ty, t)
    BY <1>1, Found
  <2>3. /\ id \in Nat /\ id + 1 \in 1..Len(functions)
        /\ args \in Seq(Kind) /\ Len(args) = p /\ p \in Nat /\ p <= Len(t)
        /\ ReadBy(functions, Inst) = p
        /\ Len(Saved) = b + Len(t) /\ b \in Nat /\ Len(t) \in Nat
        /\ Holds(Saved, Len(Saved) - p, args)
        /\ ty.result[id + 1] \in Kind
    BY <1>3, <2>1, <2>2, Arguments
  <2> DEFINE base == Len(Saved) - p
             low == SubSeq(t, 1, Len(t) - p)
             r == ty.result[id + 1]
  <2>4. base \in Nat /\ base >= b /\ base = b + (Len(t) - p)
    BY <2>3
  <2>5. /\ low \in Seq(Kind) /\ Len(low) = Len(t) - p
        /\ \A j \in 1..(Len(t) - p) : low[j] = t[j]
    BY <2>3, Lower
  <2>6. /\ stack' = Saved /\ notop' = TRUE /\ fn' = id /\ pc' = 0
        /\ pcStack' = Append(pcStack, pc + 1)
        /\ rpStack' = Append(rpStack, id)
        /\ spStack' = Append(spStack, base)
        /\ UNCHANGED <<functions, globals, status>>
    BY <1>3 DEF CallI, FrameStart, host
  <2>7. Saved' = Saved
    BY <2>6 DEF Saved, SaveTop
  <2>8. /\ n \in Nat /\ n >= 1 /\ Len(rpStack) = n /\ Len(pcStack) = n /\ b = spStack[n]
        /\ \A i \in 1..n : spStack[i] \in Nat /\ spStack[i] <= b
    BY <2>1, FrameBase DEF Shaped, InShape
  <2>9. /\ rpStack \in Seq(Nat) /\ spStack \in Seq(Int) /\ pcStack \in Seq(Nat) /\ pc \in Nat
    BY DEF IInv, TypeOK
  <2>10. fn = rpStack[n]
    BY <2>1, <2>8 DEF IInv, FramesMatchCode
  <2>11. /\ At(id, FALSE, 0, args, FALSE) \in ty.points
         /\ At(fn, Len(rpStack) = 1, pc + 1, low \o <<"plain", r>>, TRUE) \in ty.points
    <3>1. Within(functions, Inst) /\ ParametersOf(functions, Inst) = p
      BY <1>3 DEF IsFunction, Within, ParametersOf
    <3>2. After(ty, functions, Here(t)) = Calling(ty, functions, Here(t), Inst)
      BY <2>1, <2>2, <3>1 DEF Finds, After
    <3>3. /\ At(id, FALSE, 0, args, FALSE) \in Calling(ty, functions, Here(t), Inst)
          /\ At(fn, Len(rpStack) = 1, pc + 1, low \o <<"plain", r>>, TRUE)
               \in Calling(ty, functions, Here(t), Inst)
      BY <3>1 DEF Calling, Here, At
    <3> QED BY <2>2, <2>3, <3>2, <3>3, Onward
  <2> HIDE DEF id, args, p, b, n, base, low, r
  <2>12. /\ Len(rpStack') = n + 1 /\ rpStack'[n + 1] = id
         /\ \A i \in 1..n : rpStack'[i] = rpStack[i]
         /\ Len(pcStack') = n + 1 /\ pcStack'[n + 1] = pc + 1
         /\ \A i \in 1..n : pcStack'[i] = pcStack[i]
    <3>1. pc + 1 \in Nat /\ id \in Nat
      BY <2>3, <2>9
    <3>2. /\ Len(rpStack') = n + 1 /\ rpStack'[n + 1] = id
          /\ \A i \in 1..n : rpStack'[i] = rpStack[i]
      BY <2>6, <2>8, <2>9, <3>1, AppendProperties
    <3>3. /\ Len(pcStack') = n + 1 /\ pcStack'[n + 1] = pc + 1
          /\ \A i \in 1..n : pcStack'[i] = pcStack[i]
      BY <2>6, <2>8, <2>9, <3>1, AppendProperties
    <3> QED BY <3>2, <3>3
  <2>13. /\ spStack' \in Seq(Int) /\ Len(spStack') = n + 1 /\ spStack'[n + 1] = base
         /\ \A i \in 1..n : spStack'[i] = spStack[i]
    <3>1. base \in Int
      BY <2>4
    <3> QED BY <2>6, <2>8, <2>9, <3>1, AppendProperties DEF n
  <2>14. Last(spStack') = base
    BY <2>13 DEF Last
  <2>15. Bases'
    <3>1. spStack[1] = 0 /\ \A i, j \in 1..n : i <= j => spStack[i] <= spStack[j]
      BY <2>1 DEF Shaped, InShape, Bases, n
    <3>2. ASSUME NEW i \in 1..(n + 1), NEW j \in 1..(n + 1), i <= j
          PROVE  spStack'[i] <= spStack'[j]
      <4>1. CASE j \in 1..n
        <5>1. i \in 1..n
          <6>1. i \in Nat /\ i >= 1 /\ j \in Nat /\ j <= n /\ n \in Nat
            BY <2>8, <4>1
          <6> QED BY <3>2, <6>1
        <5> QED BY <2>13, <3>1, <3>2, <4>1, <5>1
      <4>2. CASE j = n + 1 /\ i \in 1..n
        BY <2>4, <2>8, <2>13, <4>2
      <4>3. CASE j = n + 1 /\ i = n + 1
        BY <2>4, <2>13, <4>3
      <4> QED BY <2>8, <4>1, <4>2, <4>3
    <3>3. spStack'[1] = 0
      BY <2>8, <2>13, <3>1
    <3> QED BY <2>13, <3>2, <3>3 DEF Bases
  <2>16. CurrentShaped(ty)'
    <3>1. (Len(rpStack') = 1) = FALSE /\ (~notop') = FALSE
      BY <2>6, <2>8, <2>12
    <3>2. At(fn', Len(rpStack') = 1, pc', args, ~notop') \in ty.points
      BY <2>6, <2>11, <3>1
    <3>3. Len(Saved') = Last(spStack') + Len(args) /\ Holds(Saved', Last(spStack'), args)
      BY <2>3, <2>7, <2>14, SavedType, LenProperties DEF base
    <3> QED BY <2>3, <3>2, <3>3 DEF CurrentShaped
  <2>17. ASSUME NEW i \in 1..n
         PROVE  WaitingShaped(ty, i)'
    <3>1. CASE i = n
      <4>1. At(rpStack'[n], n = 1, pcStack'[n + 1], low \o <<"plain", r>>, TRUE) \in ty.points
        <5>1. rpStack'[n] = fn /\ pcStack'[n + 1] = pc + 1 /\ Len(rpStack) = n
          BY <2>8, <2>10, <2>12
        <5> QED BY <2>11, <5>1
      <4>2. Usable(ty.result[rpStack'[n + 1] + 1], r) /\ r \in Kind
        BY <2>3, <2>12 DEF Usable, Kind, r
      <4>3. spStack'[n + 1] = spStack'[n] + Len(low)
        BY <2>3, <2>4, <2>5, <2>8, <2>13
      <4>4. Holds(Saved', spStack'[n], low)
        <5>1. \A j \in 1..Len(t) : t[j] = "plain" => ~isAllocated(Saved[b + j])
          BY <2>2 DEF Finds, Over, Holds, b
        <5>2. spStack'[n] = b /\ \A j \in 1..Len(low) : j \in 1..Len(t)
          BY <2>3, <2>5, <2>8, <2>13
        <5> QED BY <2>3, <2>5, <2>7, <5>1, <5>2 DEF Holds
      <4> QED BY <2>5, <3>1, <4>1, <4>2, <4>3, <4>4 DEF WaitingShaped
    <3>2. CASE i \in 1..(n - 1)
      <4>1. WaitingShaped(ty, i)
        BY <2>1, <2>8, <3>2 DEF Shaped, InShape
      <4>2. i + 1 \in 1..n
        BY <2>8, <3>2
      <4> QED BY <2>7, <2>8, <2>12, <2>13, <4>1, <4>2, WaitingKept
    <3> QED BY <2>8, <3>1, <3>2
  <2>18. Len(rpStack') - 1 = n
    BY <2>8, <2>12
  <2>19. Shapely(ty, functions) /\ GlobalsHold(ty)'
    BY <2>6, SameGlobals DEF Shaped
  <2> QED BY <2>6, <2>15, <2>16, <2>17, <2>18, <2>19 DEF Shaped, InShape
<1> QED BY <1>2, <1>3 DEF CallI

LEMMA MovedDown ==
  ASSUME IInv, NEW b \in Nat, NEW e \in Nat, b <= e, e <= Len(Saved)
  PROVE  LET s == MoveDown(b, e)
             p == Len(Saved) - e
         IN /\ Len(s) = b + p
            /\ \A j \in 1..b : s[j] = Saved[j]
            /\ \A j \in 1..p : s[b + j] = Saved[e + j]
<1> DEFINE p == Len(Saved) - e
           l == Resize(Saved, b)
           a == SubSeq(Saved, e + 1, Len(Saved))
<1>1. Saved \in Seq(ValuePair) /\ Len(Saved) \in Nat /\ p \in Nat
  BY SavedType, LenProperties
<1>2. l \in Seq(ValuePair) /\ Len(l) = b /\ \A j \in 1..b : l[j] = Saved[j]
  BY <1>1, ResizeOK DEF Resize
<1>3. a \in Seq(ValuePair) /\ Len(a) = p /\ \A j \in 1..p : a[j] = Saved[e + j]
  <2>1. \A i \in (e + 1)..Len(Saved) : Saved[i] \in ValuePair
    BY <1>1
  <2>2. /\ a \in Seq(ValuePair)
        /\ Len(a) = IF e + 1 <= Len(Saved) THEN Len(Saved) - (e + 1) + 1 ELSE 0
        /\ \A j \in 1..(Len(Saved) - (e + 1) + 1) : a[j] = Saved[e + 1 + j - 1]
    BY <1>1, <2>1, SubSeqProperties
  <2>3. Len(Saved) - (e + 1) + 1 = p /\ Len(a) = p
    BY <1>1, <2>2
  <2>4. \A j \in 1..p : e + 1 + j - 1 = e + j
    BY <1>1
  <2> QED BY <2>2, <2>3, <2>4
<1>4. MoveDown(b, e) = l \o a
  BY DEF MoveDown
<1> HIDE DEF p, l, a
<1>5. /\ Len(l \o a) = b + p
      /\ \A j \in 1..(b + p) : (l \o a)[j] = IF j <= b THEN l[j] ELSE a[j - b]
  BY <1>2, <1>3, ConcatProperties
<1>6. \A j \in 1..b : (l \o a)[j] = Saved[j]
  BY <1>1, <1>2, <1>5
<1>7. ASSUME NEW j \in 1..p
      PROVE  (l \o a)[b + j] = Saved[e + j]
  <2>1. b + j \in 1..(b + p) /\ ~(b + j <= b) /\ b + j - b = j
    BY <1>1
  <2>2. (l \o a)[b + j] = a[b + j - b]
    BY <1>5, <2>1
  <2> QED BY <1>3, <2>1, <2>2
<1> QED BY <1>4, <1>5, <1>6, <1>7 DEF p

LEMMA TailCallIShaped ==
  ASSUME IInv, NEW ty, Shaped(ty), TailCallI
  PROVE  Shaped(ty)'
<1> DEFINE id == Inst.imm
           p == functions[id + 1].parameters
           b == Last(spStack)
           e == Len(Saved) - p
           n == Len(spStack)
           d == DropAll(heap, SubSeq(Saved, b + 1, e))
<1>1. Fetched("TailCallI")
  BY DEF TailCallI
<1>2. CASE Throw(heap) \/ Throw(d.heap)
  BY <1>2, ThrowShaped
<1>3. CASE Undefined
  BY <1>3, UndefinedShaped
<1>4. CASE /\ IsFunction(id)
           /\ stack' = MoveDown(b, e) /\ notop' = TRUE
           /\ fn' = id /\ pc' = 0
           /\ rpStack' = SetBack(rpStack, id)
           /\ UNCHANGED <<top, globals, spStack, pcStack>>
           /\ UNCHANGED host
  <2> DEFINE args == ty.args[id + 1]
  <2>1. status = "running" /\ Inst.op = "TailCallI"
    BY <1>1, Found
  <2>2. PICK t \in Seq(Kind) : Finds(ty, t)
    BY <1>1, Found
  <2>3. /\ id \in Nat /\ id + 1 \in 1..Len(functions)
        /\ args \in Seq(Kind) /\ Len(args) = p /\ p \in Nat /\ p <= Len(t)
        /\ ReadBy(functions, Inst) = p
        /\ Len(Saved) = b + Len(t) /\ b \in Nat /\ Len(t) \in Nat
        /\ Holds(Saved, e, args)
    BY <1>4, <2>1, <2>2, Arguments
  <2>4. /\ n \in Nat /\ n >= 1 /\ Len(rpStack) = n /\ Len(pcStack) = n /\ b = spStack[n]
        /\ \A i \in 1..n : spStack[i] \in Nat /\ spStack[i] <= b
    BY <2>1, FrameBase DEF Shaped, InShape
  <2>5. rpStack \in Seq(Nat) /\ fn = rpStack[n]
    BY <2>1, <2>4 DEF IInv, TypeOK, FramesMatchCode
  <2>6. /\ At(id, Len(rpStack) = 1, 0, args, FALSE) \in ty.points
        /\ Len(rpStack) # 1 => Usable(ty.result[id + 1], ty.result[fn + 1])
    <3>1. Within(functions, Inst)
      BY <1>4 DEF IsFunction, Within
    <3>2. At(id, Len(rpStack) = 1, 0, args, FALSE) \in After(ty, functions, Here(t))
      BY <2>1, <2>2, <3>1 DEF Finds, After, Here, At
    <3>3. Len(rpStack) # 1 => Usable(ty.result[id + 1], ty.result[fn + 1])
      BY <2>1, <2>2, <3>1 DEF Finds, Accepted, Here, At
    <3> QED BY <2>2, <2>3, <3>2, <3>3, Onward
  <2> HIDE DEF id, args, p, b, n, d
  <2>7. e \in Nat /\ b <= e /\ e <= Len(Saved) /\ Len(Saved) - e = p
    BY <2>3
  <2> HIDE DEF e
  <2>8. /\ Len(stack') = b + p
        /\ \A j \in 1..b : stack'[j] = Saved[j]
        /\ \A j \in 1..p : stack'[b + j] = Saved[e + j]
    <3>1. /\ Len(MoveDown(b, e)) = b + (Len(Saved) - e)
          /\ \A j \in 1..b : MoveDown(b, e)[j] = Saved[j]
          /\ \A j \in 1..(Len(Saved) - e) : MoveDown(b, e)[b + j] = Saved[e + j]
      BY <2>3, <2>7, MovedDown
    <3>2. Len(Saved) - e = p /\ stack' = MoveDown(b, e)
      BY <1>4, <2>7
    <3> QED BY <3>1, <3>2
  <2>9. Saved' = stack'
    BY <1>4 DEF Saved, SaveTop
  <2>10. /\ Len(rpStack') = n /\ rpStack'[n] = id
         /\ \A i \in 1..(n - 1) : rpStack'[i] = rpStack[i]
    <3>1. rpStack # <<>>
      BY <2>4
    <3>2. /\ Front(rpStack) \in Seq(Nat) /\ Len(Front(rpStack)) = n - 1
          /\ \A i \in 1..(n - 1) : Front(rpStack)[i] = rpStack[i]
      BY <2>4, <2>5, <3>1, FrontOK
    <3>3. rpStack' = Append(Front(rpStack), id) /\ n - 1 + 1 = n
      BY <1>4, <2>4 DEF SetBack
    <3>4. /\ Len(Append(Front(rpStack), id)) = n - 1 + 1
          /\ Append(Front(rpStack), id)[n - 1 + 1] = id
          /\ \A i \in 1..(n - 1) : Append(Front(rpStack), id)[i] = Front(rpStack)[i]
      BY <2>3, <3>2, AppendProperties
    <3> QED BY <3>2, <3>3, <3>4
  <2>11. CurrentShaped(ty)'
    <3>1. (Len(rpStack') = 1) = (Len(rpStack) = 1) /\ (~notop') = FALSE
      BY <1>4, <2>4, <2>10
    <3>2. At(fn', Len(rpStack') = 1, pc', args, ~notop') \in ty.points
      BY <1>4, <2>6, <3>1
    <3>3. Last(spStack') = b
      BY <1>4 DEF b
    <3>4. Len(Saved') = b + Len(args) /\ Holds(Saved', b, args)
      BY <2>3, <2>8, <2>9 DEF Holds
    <3> QED BY <2>3, <3>2, <3>3, <3>4 DEF CurrentShaped
  <2>12. Bases'
    BY <1>4, <2>1 DEF Bases, Shaped, InShape
  <2>13. ASSUME NEW i \in 1..(n - 1)
         PROVE  WaitingShaped(ty, i)'
    <3>1. WaitingShaped(ty, i)
      BY <2>1, <2>4 DEF Shaped, InShape
    <3>2. i \in 1..n /\ i + 1 \in 1..n /\ i + 1 <= n
      BY <2>4
    <3>3. \A r \in Kind : Usable(ty.result[rpStack[i + 1] + 1], r)
                            => Usable(ty.result[rpStack'[i + 1] + 1], r)
      <4>1. CASE i + 1 = n
        <5>1. n # 1
          BY <3>2, <4>1, <2>4
        <5>2. Usable(ty.result[id + 1], ty.result[fn + 1])
          BY <2>4, <2>6, <5>1
        <5>3. rpStack[i + 1] = fn /\ rpStack'[i + 1] = id
          BY <2>5, <2>10, <4>1
        <5> QED BY <5>2, <5>3 DEF Usable
      <4>2. CASE i + 1 # n
        <5>1. i + 1 \in 1..(n - 1)
          BY <2>4, <3>2, <4>2
        <5> QED BY <2>10, <5>1
      <4> QED BY <4>1, <4>2
    <3>4. spStack[i] \in Nat /\ spStack[i + 1] \in Nat /\ spStack[i + 1] <= b
      BY <2>4, <3>2
    <3>5. \A j \in 1..spStack[i + 1] : Saved'[j] = Saved[j]
      BY <2>3, <2>8, <2>9, <3>4
    <3> QED BY <1>4, <2>10, <3>1, <3>3, <3>4, <3>5, WaitingKept
  <2>14. Shapely(ty, functions) /\ GlobalsHold(ty)' /\ UNCHANGED <<functions, status>>
    BY <1>4, SameGlobals DEF Shaped, host
  <2> QED BY <2>4, <2>10, <2>11, <2>12, <2>13, <2>14 DEF Shaped, InShape
<1> QED BY <1>2, <1>3, <1>4 DEF TailCallI

\* The slot that Ret leaves holds no pointer, and the result is of the kind the caller
\* expects.
LEMMA RetShaped ==
  ASSUME IInv, NEW ty, Shaped(ty), Ret
  PROVE  Shaped(ty)'
<1> DEFINE b == Last(spStack)
           n == Len(spStack)
           d == DropAll(heap, IF b < 0 THEN <<>> ELSE SubSeq(stack, b + 1, Len(stack)))
<1>1. Fetched("Ret")
  BY DEF Ret
<1>2. CASE Throw(heap) \/ Throw(d.heap)
  BY <1>2, ThrowShaped
<1>3. CASE Undefined
  BY <1>3, UndefinedShaped
<1>4. CASE Leave("return", top, d.heap)
  BY <1>4, Leaving, SameGlobals DEF Leave
<1>5. CASE /\ ~notop /\ Len(pcStack) # 1
           /\ stack' = Resize(stack, b + 1)
           /\ rpStack' = Front(rpStack) /\ spStack' = Front(spStack)
           /\ pcStack' = Front(pcStack)
           /\ fn' = Last(Front(rpStack)) /\ pc' = Last(pcStack)
           /\ UNCHANGED <<top, notop, globals>> /\ UNCHANGED host
  <2>1. status = "running" /\ Inst.op = "Ret"
    BY <1>1, Found
  <2>2. PICK t \in Seq(Kind) : Finds(ty, t)
    BY <1>1, Found
  <2>3. /\ n \in Nat /\ n >= 1 /\ Len(rpStack) = n /\ Len(pcStack) = n /\ b = spStack[n]
        /\ b \in Nat /\ \A i \in 1..n : spStack[i] \in Nat /\ spStack[i] <= b
    BY <2>1, FrameBase DEF Shaped, InShape
  <2>4. /\ rpStack \in Seq(Nat) /\ spStack \in Seq(Int) /\ pcStack \in Seq(Nat)
        /\ fn = rpStack[n] /\ stack \in Seq(ValuePair) /\ top \in ValuePair
    BY <2>1, <2>3 DEF IInv, TypeOK, FramesMatchCode
  <2>5. n >= 2
    BY <1>5, <2>3
  <2>6. /\ Len(t) >= 2 /\ t[1] = "plain" /\ Usable(Last(t), ty.result[fn + 1])
    <3>1. Len(rpStack) # 1
      BY <2>3, <2>5
    <3> QED BY <2>1, <2>2, <3>1 DEF Finds, Accepted, Here, At
  <2>7. Saved = Append(stack, top) /\ Saved' = Append(Resize(stack, b + 1), top)
    BY <1>5 DEF Saved, SaveTop
  <2>8. /\ Len(Saved) = b + Len(t) /\ Len(t) \in Nat /\ t \in Seq(Kind)
        /\ \A j \in 1..Len(t) : t[j] = "plain" => ~isAllocated(Saved[b + j])
    BY <2>2, LenProperties DEF Finds, Over, Holds
  <2> DEFINE k == n - 1
             c == spStack[k]
             s1 == Resize(stack, b + 1)
  <2>9. k \in 1..(Len(rpStack) - 1) /\ k + 1 = n /\ k \in 1..n /\ k \in Nat
    BY <2>3, <2>5
  <2>10. PICK u \in Seq(Kind), r \in Kind :
           /\ At(rpStack[k], k = 1, pcStack[n], u \o <<"plain", r>>, TRUE) \in ty.points
           /\ Usable(ty.result[rpStack[n] + 1], r)
           /\ spStack[n] = c + Len(u)
           /\ Holds(Saved, c, u)
    BY <2>1, <2>9 DEF Shaped, InShape, WaitingShaped
  <2>11. c \in Nat /\ b = c + Len(u) /\ Len(u) \in Nat
    BY <2>3, <2>9, <2>10, LenProperties
  <2>12. /\ Len(stack) \in Nat /\ Len(Saved) = Len(stack) + 1 /\ b + 1 <= Len(stack)
         /\ \A j \in 1..Len(stack) : Saved[j] = stack[j]
         /\ Saved[Len(Saved)] = top
    <3>1. /\ Len(Append(stack, top)) = Len(stack) + 1
          /\ \A j \in 1..Len(stack) : Append(stack, top)[j] = stack[j]
          /\ Append(stack, top)[Len(stack) + 1] = top
          /\ Len(stack) \in Nat
      BY <2>4, AppendProperties, LenProperties
    <3>2. b + 1 <= Len(stack)
      BY <2>3, <2>6, <2>7, <2>8, <3>1
    <3> QED BY <2>7, <3>1, <3>2
  <2>13. /\ s1 \in Seq(ValuePair) /\ Len(s1) = b + 1
         /\ \A j \in 1..(b + 1) : s1[j] = Saved[j]
    <3>1. b + 1 \in Nat
      BY <2>3
    <3>2. s1 \in Seq(ValuePair)
      BY <2>4, <3>1, ResizeOK
    <3>3. Len(s1) = b + 1 /\ \A j \in 1..(b + 1) : s1[j] = stack[j]
      BY <2>3, <2>12, <3>1 DEF Resize
    <3>4. \A j \in 1..(b + 1) : j \in 1..Len(stack)
      BY <2>3, <2>12
    <3> QED BY <2>12, <3>2, <3>3, <3>4
  <2>14. "plain" \in Kind
    BY DEF Kind
  <2> HIDE DEF b, n, d, k, c, s1
  <2>15. Over(s1, c, Append(u, "plain"), Saved)
    <3>1. /\ Append(u, "plain") \in Seq(Kind) /\ Len(Append(u, "plain")) = Len(u) + 1
          /\ \A j \in 1..Len(u) : Append(u, "plain")[j] = u[j]
      BY <2>14, AppendProperties
    <3>2. ASSUME NEW j \in 1..(Len(u) + 1), Append(u, "plain")[j] = "plain"
          PROVE  ~isAllocated(s1[c + j])
      <4>1. c + j \in 1..(b + 1) /\ s1[c + j] = Saved[c + j]
        BY <2>11, <2>13
      <4>2. CASE j \in 1..Len(u)
        BY <2>10, <3>1, <3>2, <4>1, <4>2 DEF Holds
      <4>3. CASE j = Len(u) + 1
        <5>1. c + j = b + 1
          BY <2>11, <4>3
        <5>2. ~isAllocated(Saved[b + 1])
          BY <2>6, <2>8
        <5> QED BY <4>1, <5>1, <5>2
      <4> QED BY <2>11, <4>2, <4>3
    <3>3. \A j \in 1..c : s1[j] = Saved[j]
      BY <2>11, <2>13
    <3>4. Len(s1) = c + (Len(u) + 1)
      BY <2>11, <2>13
    <3> QED BY <2>11, <2>13, <3>1, <3>2, <3>3, <3>4 DEF Over, Holds
  <2>16. r = "plain" => ~isAllocated(top)
    <3>1. ASSUME r = "plain" PROVE Last(t) = "plain"
      BY <2>4, <2>6, <2>10, <3>1 DEF Usable
    <3>2. Last(t) = t[Len(t)] /\ Len(t) \in 1..Len(t) /\ b + Len(t) = Len(Saved)
      BY <2>6, <2>8 DEF Last
    <3> QED BY <2>8, <2>12, <3>1, <3>2
  <2> DEFINE v == Append(Append(u, "plain"), r)
  <2>17. Over(Saved', c, v, Saved)
    BY <2>4, <2>7, <2>10, <2>15, <2>16, OverAppend DEF s1
  <2>18. v = u \o <<"plain", r>>
    BY <2>10, <2>14
  <2>19. /\ Len(rpStack') = k /\ \A i \in 1..k : rpStack'[i] = rpStack[i]
         /\ Len(spStack') = k /\ \A i \in 1..k : spStack'[i] = spStack[i]
         /\ Len(pcStack') = k /\ \A i \in 1..k : pcStack'[i] = pcStack[i]
    <3>1. rpStack # <<>> /\ spStack # <<>> /\ pcStack # <<>>
      BY <2>3, <2>5 DEF n
    <3>2. Len(rpStack') = k /\ \A i \in 1..k : rpStack'[i] = rpStack[i]
      BY <1>5, <2>3, <2>4, <3>1, FrontOK DEF k
    <3>3. Len(spStack') = k /\ \A i \in 1..k : spStack'[i] = spStack[i]
      BY <1>5, <2>3, <2>4, <3>1, FrontOK DEF k, n
    <3>4. Len(pcStack') = k /\ \A i \in 1..k : pcStack'[i] = pcStack[i]
      BY <1>5, <2>3, <2>4, <3>1, FrontOK DEF k
    <3> QED BY <3>2, <3>3, <3>4
  <2>20. fn' = rpStack[k] /\ pc' = pcStack[n] /\ (~notop') = TRUE
    <3>1. fn' = Last(rpStack')
      BY <1>5
    <3>2. Last(rpStack') = rpStack'[k] /\ Last(pcStack) = pcStack[n]
      BY <2>3, <2>19 DEF Last
    <3> QED BY <1>5, <2>9, <2>19, <3>1, <3>2
  <2>21. Last(spStack') = c
    <3>1. Last(spStack') = spStack'[k]
      BY <2>19 DEF Last
    <3> QED BY <2>9, <2>19, <3>1 DEF c
  <2>22. CurrentShaped(ty)'
    <3>1. At(fn', Len(rpStack') = 1, pc', v, ~notop') \in ty.points
      BY <2>10, <2>18, <2>19, <2>20
    <3>2. v \in Seq(Kind) /\ Len(Saved') = c + Len(v) /\ Holds(Saved', c, v)
      BY <2>17 DEF Over
    <3> HIDE DEF v
    <3> QED BY <2>21, <3>1, <3>2 DEF CurrentShaped
  <2>23. Bases'
    <3>1. spStack[1] = 0 /\ \A i, j \in 1..n : i <= j => spStack[i] <= spStack[j]
      BY <2>1 DEF Shaped, InShape, Bases, n
    <3>2. \A i \in 1..k : i \in 1..n
      BY <2>3, <2>9
    <3> QED BY <2>9, <2>19, <3>1, <3>2 DEF Bases
  <2>24. ASSUME NEW i \in 1..(k - 1)
         PROVE  WaitingShaped(ty, i)'
    <3>1. i \in 1..(Len(rpStack) - 1) /\ i \in 1..k /\ i + 1 \in 1..k /\ i + 1 \in 1..n
          /\ i \in 1..n
      BY <2>3, <2>9
    <3>2. WaitingShaped(ty, i)
      BY <2>1, <3>1 DEF Shaped, InShape
    <3>3. spStack[i] \in Nat /\ spStack[i + 1] \in Nat /\ spStack[i + 1] <= c
      <4>1. spStack[i + 1] <= spStack[k]
        BY <2>1, <2>9, <3>1 DEF Shaped, InShape, Bases, n
      <4> QED BY <2>3, <3>1, <4>1 DEF c
    <3>4. \A j \in 1..spStack[i + 1] : Saved'[j] = Saved[j]
      BY <2>11, <2>17, <3>3 DEF Over
    <3> QED BY <2>19, <3>1, <3>2, <3>3, <3>4, WaitingKept
  <2>25. Shapely(ty, functions) /\ GlobalsHold(ty)' /\ UNCHANGED <<functions, status>>
    BY <1>5, SameGlobals DEF Shaped, host
  <2> QED BY <2>19, <2>22, <2>23, <2>24, <2>25 DEF Shaped, InShape
<1> QED BY <1>2, <1>3, <1>4, <1>5 DEF Ret

-----------------------------------------------------------------------------
\* Every step keeps the shapes.

LEMMA MakesShaped ==
  ASSUME IInv, NEW ty, Shaped(ty), MakeList \/ MakeRange \/ Malformed
  PROVE  Shaped(ty)'
  BY ThrowShaped, UndefinedShaped DEF MakeList, MakeRange, Malformed

LEMMA EvalShaped ==
  ASSUME IInv, NEW ty, Shaped(ty), NEW id \in 0..Len(functions), Eval(id)
  PROVE  Shaped(ty)'
<1>1. CASE Throw(heap)
  BY <1>1, ThrowShaped
<1>2. CASE /\ id < Len(functions) /\ stack' = <<>> /\ notop' = TRUE
           /\ fn' = id /\ pc' = 0 /\ rpStack' = <<id>> /\ spStack' = <<0>>
           /\ UNCHANGED <<functions, globals>>
  <2>1. EntryPoint(id) \in ty.points
    <3>1. functions \in Seq(FunctionEntry) /\ Len(functions) \in Nat
      BY LenProperties DEF IInv, TypeOK
    <3>2. id + 1 \in 1..Len(functions) /\ id + 1 - 1 = id
      BY <1>2, <3>1
    <3> QED BY <3>2, ShapelyParts DEF Shaped
  <2>2. Saved' = <<>> /\ Last(spStack') = 0 /\ Len(rpStack') = 1 /\ Len(spStack') = 1
        /\ spStack'[1] = 0
    BY <1>2 DEF Saved, SaveTop, Last
  <2>3. CurrentShaped(ty)'
    <3>1. At(fn', Len(rpStack') = 1, pc', <<>>, ~notop') \in ty.points
      <4>1. (Len(rpStack') = 1) = TRUE /\ (~notop') = FALSE
        BY <1>2, <2>2
      <4> QED BY <1>2, <2>1, <4>1 DEF EntryPoint
    <3>2. Len(Saved') = Last(spStack') + Len(<<>>) /\ Holds(Saved', Last(spStack'), <<>>)
          /\ <<>> \in Seq(Kind)
      BY <2>2 DEF Holds
    <3> QED BY <3>1, <3>2 DEF CurrentShaped
  <2>4. Bases'
    BY <2>2 DEF Bases
  <2>5. \A i \in 1..(Len(rpStack') - 1) : WaitingShaped(ty, i)'
    BY <2>2
  <2> QED BY <1>2, <2>3, <2>4, <2>5, SameGlobals DEF Shaped, InShape
<1> QED BY <1>1, <1>2 DEF Eval

LEMMA StillShaped ==
  ASSUME NEW ty, Shaped(ty),
         UNCHANGED <<functions, globals, status>>, UNCHANGED operands, UNCHANGED frames
  PROVE  Shaped(ty)'
<1>1. UNCHANGED <<stack, top, notop, fn, pc, rpStack, spStack, pcStack>>
  BY DEF operands, frames
<1>2. UNCHANGED Saved
  BY <1>1 DEF Saved, SaveTop
<1>3. Bases => Bases'
  BY <1>1 DEF Bases
<1>4. CurrentShaped(ty) => CurrentShaped(ty)'
  BY <1>1, <1>2 DEF CurrentShaped
<1>5. \A i \in 1..(Len(rpStack) - 1) : WaitingShaped(ty, i) => WaitingShaped(ty, i)'
  BY <1>1, <1>2 DEF WaitingShaped
<1> QED BY <1>1, <1>3, <1>4, <1>5, SameGlobals DEF Shaped, InShape

LEMMA StepShaped ==
  ASSUME IInv, NEW ty, Shaped(ty), [Next]_vars
  PROVE  Shaped(ty)'
<1>1. CASE RunOff
  BY <1>1, UndefinedShaped DEF RunOff
<1>2. CASE GetI \/ AddI \/ SetI \/ JumpI \/ JumpFalseI \/ Iter
  BY <1>2, GetIShaped, AddIShaped, SetIShaped, JumpIShaped, JumpFalseIShaped, IterShaped
<1>3. CASE Pop \/ Dup \/ BuiltinUnaryOp \/ BinaryOp \/ ConstNum \/ ConstMisc
  BY <1>3, PopShaped, DupShaped, BuiltinUnaryOpShaped, BinaryOpShaped, ConstShaped
<1>4. CASE GetGlobalI \/ SetGlobalI \/ CallI \/ TailCallI \/ Ret
  BY <1>4, GetGlobalIShaped, SetGlobalIShaped, CallIShaped, TailCallIShaped, RetShaped
<1>5. CASE MakeRange \/ MakeList \/ Echo \/ Malformed
  BY <1>5, MakesShaped, EchoShaped
<1>6. CASE \E id \in 0..Len(functions) : Eval(id)
  BY <1>6, EvalShaped
<1>7. CASE Stop
  BY <1>7, StillShaped DEF Stop
<1>8. CASE UNCHANGED vars
  BY <1>8, StillShaped DEF vars, operands, frames
<1> QED BY <1>1, <1>2, <1>3, <1>4, <1>5, <1>6, <1>7, <1>8 DEF Next, Execute

-----------------------------------------------------------------------------
\* The verifier finds a typing of the functions that the globals have, too.
Verified == \E ty : Shapely(ty, functions) /\ GlobalsHold(ty)

WellShaped == \E ty : Shaped(ty)

LEMMA InitShaped ==
  ASSUME Init, Verified
  PROVE  WellShaped
  BY DEF Init, Verified, WellShaped, Shaped, InShape

\* Every state of a verified program has the shape that the verifier has found.
THEOREM ShapesKept == Spec /\ Verified => []WellShaped
<1>1. Init /\ Verified => WellShaped
  BY InitShaped
<1>2. IInv /\ WellShaped /\ [Next]_vars => WellShaped'
  BY StepShaped DEF WellShaped
<1> QED BY <1>1, <1>2, Inductive, PTL DEF Spec

LEMMA ShapedIsDisciplined ==
  ASSUME IInv, NEW ty, Shaped(ty)
  PROVE  StackDiscipline
<1> SUFFICES ASSUME status = "running", pc < Len(Code)
             PROVE  /\ notop => Inst.op \notin ReadsTop
                    /\ (Inst.op = "Ret" /\ Len(pcStack) > 1 /\ Last(spStack) >= 0) =>
                         /\ Last(spStack) < Len(stack)
                         /\ ~isAllocated(stack[Last(spStack) + 1])
                    /\ Inst.op = "TailCallI" => Last(spStack) <= Len(Saved)
  BY DEF StackDiscipline
<1>1. PICK t \in Seq(Kind) : Finds(ty, t)
  BY Now
<1>2. /\ Len(Saved) = Last(spStack) + Len(t) /\ Last(spStack) \in Nat /\ Len(t) \in Nat
      /\ \A j \in 1..Len(t) : t[j] = "plain" => ~isAllocated(Saved[Last(spStack) + j])
  BY <1>1, LenProperties DEF Finds, Over, Holds
<1>3. Inst.op \in ReadsTop => ~notop
  BY <1>1 DEF Finds, Accepted, Here, At
<1>4. ASSUME Inst.op = "Ret", Len(pcStack) > 1
      PROVE  Last(spStack) < Len(stack) /\ ~isAllocated(stack[Last(spStack) + 1])
  <2>1. Len(rpStack) # 1
    BY <1>4 DEF IInv, FramesMatchCode
  <2>2. ~notop /\ Len(t) >= 2 /\ t[1] = "plain"
    BY <1>1, <1>4, <2>1 DEF Finds, Accepted, Here, At
  <2>3. Saved = Append(stack, top) /\ stack \in Seq(ValuePair) /\ top \in ValuePair
    BY <2>2 DEF Saved, SaveTop, IInv, TypeOK
  <2>4. Len(Saved) = Len(stack) + 1 /\ Len(stack) \in Nat
        /\ \A j \in 1..Len(stack) : Saved[j] = stack[j]
    BY <2>3, AppendProperties, LenProperties
  <2>5. Last(spStack) < Len(stack)
    BY <1>2, <2>2, <2>4
  <2>6. Last(spStack) + 1 \in 1..Len(stack) /\ 1 \in 1..Len(t)
    BY <1>2, <2>2, <2>4, <2>5
  <2> QED BY <1>2, <2>2, <2>4, <2>5, <2>6
<1>5. Last(spStack) <= Len(Saved)
  BY <1>2
<1> QED BY <1>3, <1>4, <1>5

LEMMA ShapedIsSupplied ==
  ASSUME IInv, NEW ty, Shaped(ty)
  PROVE  CallsSupplied /\ CallsOnStack
<1> SUFFICES ASSUME status = "running", Inst.op = "CallI", IsFunction(Inst.imm)
             PROVE  FrameStart(Inst.imm) >= Last(spStack) /\ FrameStart(Inst.imm) >= 0
  BY DEF CallsSupplied, CallsOnStack, AtCall
<1>1. PICK t \in Seq(Kind) : Finds(ty, t)
  BY Now
<1> DEFINE p == functions[Inst.imm + 1].parameters
<1>2. /\ p \in Nat /\ p <= Len(t) /\ Len(Saved) = Last(spStack) + Len(t)
      /\ Last(spStack) \in Nat /\ Len(t) \in Nat
  BY <1>1, Arguments
<1> HIDE DEF p
<1>3. Len(Saved) - p >= Last(spStack) /\ Len(Saved) - p >= 0
  BY <1>2
<1> QED BY <1>3 DEF FrameStart, p

\* What eval takes for granted of the code and never checks (evaluator.cpp:311 to 577):
\* a verified program gives it in every state of every evaluation.
THEOREM VerifiedDiscipline == Spec /\ Verified => []StackDiscipline
<1>1. IInv /\ WellShaped => StackDiscipline
  BY ShapedIsDisciplined DEF WellShaped
<1> QED BY <1>1, ShapesKept, Inductive, PTL

\* In a verified program a call finds all of its arguments in its caller's frame, so that
\* no callee takes what belongs to a frame further down (CallI, evaluator.cpp:483).
THEOREM VerifiedCalls == Spec /\ Verified => []CallsSupplied
<1>1. IInv /\ WellShaped => CallsSupplied
  BY ShapedIsSupplied DEF WellShaped
<1> QED BY <1>1, ShapesKept, Inductive, PTL

\* Nor does a frame of a verified program start below the stack.
LEMMA VerifiedOnStack == Spec /\ Verified => []CallsOnStack
<1>1. IInv /\ WellShaped => CallsOnStack
  BY ShapedIsSupplied DEF WellShaped
<1> QED BY <1>1, ShapesKept, Inductive, PTL

-----------------------------------------------------------------------------
\* A list is indexed, or a loop goes on, with a negative number.
NegativeIndex ==
  /\ status = "running"
  /\ \/ Inst.op = "BinaryOp" /\ Inst.binary = "INDEX" /\ top.v < 0
     \/ Inst.op = "Iter" /\ top.v + 1 < 0

\* Verified code makes up for the other checks that eval leaves out: it does not run past
\* its end, and a tail call finds its arguments in its own frame.
LEMMA ShapedIsChecked ==
  ASSUME IInv, NEW ty, Shaped(ty), status = "running", Unchecked,
         Inst.op = "TailCallI" => IsFunction(Inst.imm)
  PROVE  NegativeIndex
<1>1. pc < Len(Code) /\ pc \in Nat /\ Len(Code) \in Nat
  BY Now, Running, LenProperties DEF IInv, TypeOK
<1>2. ASSUME Inst.op = "TailCallI"
      PROVE  ~(\/ Last(spStack) < 0
               \/ Len(Saved) - functions[Inst.imm + 1].parameters < Last(spStack))
  <2>1. PICK t \in Seq(Kind) : Finds(ty, t)
    BY Now
  <2> DEFINE p == functions[Inst.imm + 1].parameters
  <2>2. /\ p \in Nat /\ p <= Len(t) /\ Len(Saved) = Last(spStack) + Len(t)
        /\ Last(spStack) \in Nat /\ Len(t) \in Nat
    BY <1>2, <2>1, Arguments
  <2> HIDE DEF p
  <2>3. ~(Last(spStack) < 0 \/ Len(Saved) - p < Last(spStack))
    BY <2>2
  <2> QED BY <2>3 DEF p
<1>3. ~(pc >= Len(Code))
  BY <1>1
<1> QED BY <1>2, <1>3 DEF Unchecked, NegativeIndex

\* Only an instruction leads to undefined behaviour, a tail call only with a function.
LEMMA UndefinedStep ==
  ASSUME IInv, NEW ty, Shaped(ty), [Next]_vars, status' = "ub", status # "ub"
  PROVE  status = "running" /\ (Inst.op = "TailCallI" => IsFunction(Inst.imm))
<1>1. CASE RunOff
  BY <1>1, Now, Running, LenProperties DEF RunOff, IInv, TypeOK
<1>2. CASE TailCallI
  BY <1>2, FetchedInst DEF TailCallI, Throw, Leave
<1>3. CASE GetI \/ AddI \/ SetI \/ JumpI \/ JumpFalseI \/ Iter
  <2>1. \/ Fetched("GetI") \/ Fetched("AddI") \/ Fetched("SetI") \/ Fetched("JumpI")
        \/ Fetched("JumpFalseI") \/ Fetched("Iter")
    BY <1>3 DEF GetI, AddI, SetI, JumpI, JumpFalseI, Iter
  <2> QED BY <2>1, FetchedInst
<1>4. CASE Pop \/ Dup \/ BuiltinUnaryOp \/ BinaryOp \/ ConstNum \/ ConstMisc
  <2>1. \/ Fetched("Pop") \/ Fetched("Dup") \/ Fetched("BuiltinUnaryOp")
        \/ Fetched("BinaryOp") \/ Fetched("ConstNum") \/ Fetched("ConstMisc")
    BY <1>4 DEF Pop, Dup, BuiltinUnaryOp, BinaryOp, ConstNum, ConstMisc
  <2> QED BY <2>1, FetchedInst
<1>5. CASE \/ GetGlobalI \/ SetGlobalI \/ CallI \/ Ret
           \/ MakeRange \/ MakeList \/ Echo \/ Malformed
  BY <1>5, FetchedInst
     DEF GetGlobalI, SetGlobalI, CallI, Ret, MakeRange, MakeList, Echo, Malformed
<1>6. CASE Stop \/ UNCHANGED vars \/ \E id \in 0..Len(functions) : Eval(id)
  BY <1>6 DEF Stop, vars, Eval, Throw, Leave
<1> QED BY <1>1, <1>2, <1>3, <1>4, <1>5, <1>6 DEF Next, Execute

\* In a frame with callers verified code keeps to the frame; beneath the outermost frame
\* there is nothing.
LEMMA ShapedKeepsToFrame ==
  ASSUME IInv, NEW ty, Shaped(ty), status = "running"
  PROVE  KeepsToFrame \/ Last(spStack) = 0
<1>1. PICK t \in Seq(Kind) : Finds(ty, t)
  BY Now
<1>2. pc < Len(Code)
  BY Now
<1>3. Len(Saved) = Last(spStack) + Len(t)
  BY <1>1 DEF Finds, Over
<1>4. Len(rpStack) = 1 => Last(spStack) = 0
  BY FrameBase DEF Shaped, InShape
<1>5. /\ Len(rpStack) # 1 => ReadBy(functions, Inst) <= Len(t)
      /\ Inst.op = "SetI" => Inst.imm >= 0
  BY <1>1 DEF Finds, Accepted, Here, At
<1>6. Last(spStack) \in Nat /\ Len(t) \in Nat
  BY <1>1, LenProperties DEF Finds, Over
<1>7. ReadBy(functions, Inst) \in Int
  BY ReadByType DEF IInv, TypeOK
<1>8. Len(rpStack) # 1 => Last(spStack) + ReadBy(functions, Inst) <= Len(Saved)
  BY <1>3, <1>5, <1>6, <1>7
<1> QED BY <1>2, <1>4, <1>5, <1>8 DEF KeepsToFrame, Reads

=============================================================================
