------------------------------- MODULE Values -------------------------------
(***************************************************************************)
(* The values of the VM (src/src/vm/values.h, values.cpp) and what the     *)
(* evaluator's helpers copy, drop, handleUnary and handleBinary            *)
(* (src/src/vm/evaluator.cpp) do to them and to the C++ heap they own.     *)
(*                                                                         *)
(* A ValuePair is a tag and an untagged 64-bit word.  The word of a NUMBER *)
(* is the number (an integer here: no property tells doubles apart from    *)
(* integers), that of a BOOLEAN is 0 or 1, and that of an allocated tag is *)
(* the address of a box, 0 being NULL.  A VECTOR box is an SVector: one    *)
(* shared_ptr to a buffer of elements, which several boxes may share.      *)
(*                                                                         *)
(* Addresses are never handed out twice, so a dangling pointer stays       *)
(* recognisable: whatever dereferences one is undefined behaviour ("ub").  *)
(* Every operator here is constant-level: it maps a heap and its operands  *)
(* to a record [heap, val, exit].                                          *)
(***************************************************************************)
EXTENDS Integers, Sequences, Functions

AllocatedTag == {"STRING", "VECTOR", "RANGE"}
ValueTag == AllocatedTag \cup {"NUMBER", "GEOMETRY", "UNDEF", "BOOLEAN"}
ValuePair == [tag : ValueTag, v : Int]

Num(n)  == [tag |-> "NUMBER", v |-> n]
Bool(b) == [tag |-> "BOOLEAN", v |-> IF b THEN 1 ELSE 0]
Vec(a)  == [tag |-> "VECTOR", v |-> a]
Rng(a)  == [tag |-> "RANGE", v |-> a]
Undef   == [tag |-> "UNDEF", v |-> 0]
\* What std::vector::resize value-initialises a new slot to: tag 0 is STRING.
Zero    == [tag |-> "STRING", v |-> 0]

isAllocated(x) == x.tag \in AllocatedTag

SRange == [begin : Int, step : Int, end : Int]

(***************************************************************************)
(* The heap: vec maps the address of an SVector to the buffer it shares,   *)
(* buf a buffer to its elements, range the address of an SRange to its     *)
(* fields; next is the next fresh address.                                 *)
(***************************************************************************)
Heap(vec, range, buf, next) ==
  [vec |-> vec, range |-> range, buf |-> buf, next |-> next]

EmptyHeap == Heap(<<>>, <<>>, <<>>, 1)

IsHeap(h) ==
  /\ h = Heap(h.vec, h.range, h.buf, h.next)
  /\ h.next \in Nat \ {0}
  /\ \A a \in DOMAIN h.vec \cup DOMAIN h.range \cup DOMAIN h.buf :
       a \in Nat /\ 0 < a /\ a < h.next
  /\ DOMAIN h.vec \cap DOMAIN h.range = {}
  /\ h.vec \in [DOMAIN h.vec -> DOMAIN h.buf]
  /\ h.range \in [DOMAIN h.range -> SRange]
  /\ h.buf \in [DOMAIN h.buf -> Seq(ValuePair)]
  \* a shared_ptr frees its buffer with the last owner
  /\ \A b \in DOMAIN h.buf : \E a \in DOMAIN h.vec : h.vec[a] = b

Put(f, k, x) == [i \in DOMAIN f \cup {k} |-> IF i = k THEN x ELSE f[i]]
Without(f, S) == Restrict(f, DOMAIN f \ S)

Live(h, x) == \/ x.tag = "VECTOR" /\ x.v \in DOMAIN h.vec
              \/ x.tag = "RANGE"  /\ x.v \in DOMAIN h.range

Elements(h, a) == h.buf[h.vec[a]]
UseCountIsOne(h, a) == \A x \in DOMAIN h.vec : h.vec[x] = h.vec[a] => x = a

\* The three ways out of an operation.
Ok(h, x)  == [heap |-> h, val |-> x, exit |-> "ok"]
Throws(h) == [heap |-> h, val |-> Undef, exit |-> "throw"]
UB(h)     == [heap |-> h, val |-> Undef, exit |-> "ub"]

-----------------------------------------------------------------------------
\* Allocation and release.

NewList(h) ==
  Ok(Heap(Put(h.vec, h.next, h.next), h.range, Put(h.buf, h.next, <<>>), h.next + 1),
     Vec(h.next))

NewRange(h, r) ==
  Ok(Heap(h.vec, Put(h.range, h.next, r), h.buf, h.next + 1), Rng(h.next))

\* Mutant of FreeAll: a buffer goes with the first of the boxes that share it.
FreeWithFirstBox(h, A) ==
  Heap(Without(h.vec, A), Without(h.range, A),
       Restrict(h.buf, {b \in DOMAIN h.buf : \A a \in DOMAIN h.vec \cap A : h.vec[a] # b}),
       h.next)

\* Delete the boxes in A; a buffer goes with the last box that shares it.
\* The elements are not dropped: ValuePair has no destructor.
FreeAll(h, A) ==
  Heap(Without(h.vec, A), Without(h.range, A),
       Restrict(h.buf, {b \in DOMAIN h.buf : \E a \in DOMAIN h.vec \ A : h.vec[a] = b}),
       h.next)

\* Mutant of Copy: the pointer is copied, the box is not.
CopyAliases(h, x) == Ok(h, x)

\* copy(): a VECTOR gets a new box that shares the buffer, a RANGE a new box.
Copy(h, x) ==
  CASE ~isAllocated(x) -> Ok(h, x)
    [] x.tag = "VECTOR" /\ Live(h, x) ->
         Ok(Heap(Put(h.vec, h.next, h.vec[x.v]), h.range, h.buf, h.next + 1),
            Vec(h.next))
    [] x.tag = "RANGE" /\ Live(h, x) -> NewRange(h, h.range[x.v])
    [] x.tag = "STRING" -> Throws(h)
    [] OTHER -> UB(h)

\* drop(): the result, when there is one, is Undef.
Drop(h, x) ==
  CASE ~isAllocated(x) -> Ok(h, Undef)
    [] Live(h, x) -> Ok(FreeAll(h, {x.v}), Undef)
    [] x.tag = "STRING" -> Throws(h)
    [] OTHER -> UB(h)

\* drop() on s[1], s[2], ... in order: the first slot that cannot be dropped
\* (a string throws; a dangling, null or already dropped pointer is undefined
\* behaviour) ends the loop.
DropAll(h, s) ==
  LET Fails(i) == /\ isAllocated(s[i])
                  /\ \/ ~Live(h, s[i])
                     \/ \E j \in 1..(i - 1) : isAllocated(s[j]) /\ s[j].v = s[i].v
      dropped == {i \in 1..Len(s) : \A j \in 1..i : ~Fails(j)}
      left == FreeAll(h, {s[i].v : i \in {j \in dropped : isAllocated(s[j])}})
  IN CASE \A i \in 1..Len(s) : ~Fails(i) -> Ok(left, Undef)
       [] \E i \in 1..Len(s) : /\ Fails(i) /\ s[i].tag = "STRING"
                               /\ \A j \in 1..(i - 1) : ~Fails(j) -> Throws(left)
       [] OTHER -> UB(left)

DropBoth(h, l, r) == DropAll(h, <<l, r>>)

-----------------------------------------------------------------------------
\* BuiltinUnary.  SIN .. SQRT take the path of NEG, ABS and SIGN and differ in
\* the number they compute; they are left out with the doubles.

NumericUnary == {"NEG", "ABS", "SIGN"}
RangeGetter  == {"RBEGIN", "RSTEP", "REND"}
BuiltinUnary == {"NOT", "NORM", "LEN"} \cup RangeGetter \cup NumericUnary

NumberOf(op, n) ==
  CASE op = "NEG"  -> -n
    [] op = "ABS"  -> IF n < 0 THEN -n ELSE n
    [] op = "SIGN" -> IF n = 0 THEN 0 ELSE IF n > 0 THEN 1 ELSE -1

FieldOf(op, r) ==
  CASE op = "RBEGIN" -> r.begin [] op = "RSTEP" -> r.step [] op = "REND" -> r.end

HandleUnary(h, x, op) ==
  CASE op = "NOT" -> IF x.tag = "BOOLEAN" THEN Ok(h, Bool(x.v = 0)) ELSE Throws(h)
    [] op = "NORM" -> Throws(h)
    [] op = "LEN" ->
         IF x.tag = "VECTOR" /\ Live(h, x)
         THEN Ok(FreeAll(h, {x.v}), Num(Len(Elements(h, x.v))))
         ELSE Drop(h, x)
    [] op \in RangeGetter ->
         IF x.tag = "RANGE" /\ Live(h, x)
         THEN Ok(FreeAll(h, {x.v}), Num(FieldOf(op, h.range[x.v])))
         ELSE Drop(h, x)
    [] op \in NumericUnary ->
         IF x.tag = "NUMBER" THEN Ok(h, Num(NumberOf(op, x.v))) ELSE Drop(h, x)

-----------------------------------------------------------------------------
\* BinOp.  DIV, MOD and EXP take the path of ADD, SUB and MUL.

ArithmeticOp == {"ADD", "SUB", "MUL"}
CompareOp    == {"LT", "LE", "GT", "GE"}
EqualityOp   == {"EQ", "NEQ"}
LogicOp      == {"AND", "OR"}
BinOp == ArithmeticOp \cup CompareOp \cup EqualityOp \cup LogicOp
           \cup {"APPEND", "CONCAT", "INDEX"}

Arithmetic(h, l, r, op) ==
  IF l.tag # "NUMBER" \/ r.tag # "NUMBER" THEN DropBoth(h, l, r)
  ELSE Ok(h, Num(CASE op = "ADD" -> l.v + r.v
                   [] op = "SUB" -> l.v - r.v
                   [] op = "MUL" -> l.v * r.v))

\* LT and LE swap their operands and fall through to GT and GE.
Compare(h, l, r, op) ==
  LET swapped == op \in {"LT", "LE"}
      x == IF swapped THEN r ELSE l
      y == IF swapped THEN l ELSE r
  IN IF x.tag # "NUMBER" \/ y.tag # "NUMBER" THEN DropBoth(h, x, y)
     ELSE Ok(h, Bool(x.v > y.v \/ (op \in {"LE", "GE"} /\ x.v = y.v)))

\* e has what comparing the elements of two lists says: the first that differs decides.
Verdict(e) ==
  IF \A i \in 1..Len(e) : e[i] = "yes" THEN "yes"
  ELSE e[CHOOSE i \in 1..Len(e) : e[i] # "yes" /\ \A j \in 1..(i - 1) : e[j] = "yes"]

\* ValuePair::operator==, with the pointers it dereferences, given how elements
\* compare: "yes", "no", or "ub" (a dangling or null pointer met on the way).
EqualBy(h, below, x, y) ==
  CASE x.tag # y.tag -> "no"
    [] x.tag = y.tag /\ x.tag \in {"STRING", "NUMBER", "BOOLEAN"} ->
         IF x.v = y.v THEN "yes" ELSE "no"
    [] x.tag = y.tag /\ x.tag \in {"GEOMETRY", "UNDEF"} -> "yes"
    [] x.tag = y.tag /\ x.tag \in {"RANGE", "VECTOR"} /\ (~Live(h, x) \/ ~Live(h, y)) ->
         "ub"
    [] x.tag = "RANGE" /\ y.tag = "RANGE" /\ Live(h, x) /\ Live(h, y) ->
         IF h.range[x.v] = h.range[y.v] THEN "yes" ELSE "no"
    [] x.tag = "VECTOR" /\ y.tag = "VECTOR" /\ Live(h, x) /\ Live(h, y) ->
         LET s == Elements(h, x.v)
             t == Elements(h, y.v)
         IN IF Len(s) # Len(t) THEN "no"
            ELSE Verdict([i \in 1..Len(s) |-> below[<<s[i], t[i]>>]])

\* The recursion into the elements.  It is deeper than there are boxes only if a
\* list contains itself, and then it never ends.
Equal(h, l, r) ==
  LET eq[d \in 0..h.next] ==
        [p \in ValuePair \X ValuePair |->
           IF d = 0 THEN "ub" ELSE EqualBy(h, eq[d - 1], p[1], p[2])]
  IN eq[h.next][<<l, r>>]

\* EQ and NEQ share one case, which returns lhs == rhs for both.
Equality(h, l, r) ==
  LET e == Equal(h, l, r)
      d == DropBoth(h, l, r)
  IN CASE e = "ub" -> UB(h)
       [] e # "ub" /\ d.exit = "ok" -> Ok(d.heap, Bool(e = "yes"))
       [] e # "ub" /\ d.exit # "ok" -> d

Logic(h, l, r, op) ==
  IF l.tag # "BOOLEAN" \/ r.tag # "BOOLEAN" THEN DropBoth(h, l, r)
  ELSE Ok(h, Bool(IF op = "AND" THEN l.v = 1 /\ r.v = 1 ELSE l.v = 1 \/ r.v = 1))

\* Mutant of Unshare: the buffer is written whoever shares it.
UnshareInPlace(h, a) == Ok(h, Vec(a))

\* The copy of copy-on-write: a list whose buffer is shared is cloned into a
\* new box and buffer, and the old box is dropped.
Unshare(h, a) ==
  IF UseCountIsOne(h, a) THEN Ok(h, Vec(a))
  ELSE Ok(FreeAll(Heap(Put(h.vec, h.next, h.next), h.range,
                       Put(h.buf, h.next, Elements(h, a)), h.next + 1), {a}),
          Vec(h.next))

\* Write s into the buffer of the (unshared) list at a.
SetElements(h, a, s) == Heap(h.vec, h.range, Put(h.buf, h.vec[a], s), h.next)

AppendTo(h, l, r) ==
  CASE l.tag # "VECTOR" -> DropBoth(h, l, r)
    [] l.tag = "VECTOR" /\ Live(h, l) ->
         LET u == Unshare(h, l.v)
         IN Ok(SetElements(u.heap, u.val.v, Append(Elements(h, l.v), r)), u.val)
    [] l.tag = "VECTOR" /\ ~Live(h, l) -> UB(h)

\* CONCAT never drops rhs.  Inserting a list's own range into it is undefined.
Concat(h, l, r) ==
  CASE l.tag # "VECTOR" \/ r.tag # "VECTOR" -> DropBoth(h, l, r)
    [] /\ l.tag = "VECTOR" /\ r.tag = "VECTOR"
       /\ Live(h, l) /\ Live(h, r) /\ l.v # r.v ->
         LET u == Unshare(h, l.v)
         IN Ok(SetElements(u.heap, u.val.v, Elements(h, l.v) \o Elements(h, r.v)),
               u.val)
    [] /\ l.tag = "VECTOR" /\ r.tag = "VECTOR"
       /\ ~(Live(h, l) /\ Live(h, r) /\ l.v # r.v) -> UB(h)

\* A negative double cast to size_t is undefined behaviour.
Index(h, l, r) ==
  CASE l.tag # "VECTOR" \/ r.tag # "NUMBER" -> DropBoth(h, l, r)
    [] l.tag = "VECTOR" /\ r.tag = "NUMBER" /\ (~Live(h, l) \/ r.v < 0) -> UB(h)
    [] /\ l.tag = "VECTOR" /\ r.tag = "NUMBER" /\ Live(h, l) /\ r.v >= 0 ->
         LET s == Elements(h, l.v)
             c == Copy(h, s[r.v + 1])
         IN IF r.v >= Len(s) THEN Drop(h, l)
            ELSE IF c.exit = "ok" THEN Ok(FreeAll(c.heap, {l.v}), c.val)
            ELSE c

HandleBinary(h, l, r, op) ==
  CASE op \in ArithmeticOp -> Arithmetic(h, l, r, op)
    [] op \in CompareOp    -> Compare(h, l, r, op)
    [] op \in EqualityOp   -> Equality(h, l, r)
    [] op \in LogicOp      -> Logic(h, l, r, op)
    [] op = "APPEND"       -> AppendTo(h, l, r)
    [] op = "CONCAT"       -> Concat(h, l, r)
    [] op = "INDEX"        -> Index(h, l, r)

=============================================================================
