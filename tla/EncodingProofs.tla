--------------------------- MODULE EncodingProofs ---------------------------
(***************************************************************************)
(* Proofs about Encoding, for any set of instructions and functions of any *)
(* length.  First the arithmetic of immediates and the bytes of one        *)
(* instruction; then Decode, that a pass which stands where an instruction *)
(* was added reads it; then the invariant Inv, that passes stand there.    *)
(* Numbers of 32 bits are kept behind InInt and IntOf: the provers are     *)
(* slow on big literals.                                                   *)
(***************************************************************************)
EXTENDS Encoding, FiniteSetTheorems, SequenceTheorems, TLAPS

\* What Int32 says, as inequalities.
InInt(n) == n >= -2147483648 /\ n <= 2147483647

\* An int is an integer within its bounds.
LEMMA IntRange ==
  ASSUME NEW n \in Int32
  PROVE  n \in Int /\ InInt(n)
<1>1. MinInt \in Int /\ MaxInt \in Int
  BY SMT DEF MinInt, MaxInt
<1>2. n \in Int /\ n >= MinInt /\ n <= MaxInt
  BY <1>1, SMT DEF Int32
<1>3. n >= -2147483648
  BY <1>2, SMT DEF MinInt
<1>4. n <= 2147483647
  BY <1>2, SMT DEF MaxInt
<1> QED BY <1>2, <1>3, <1>4, SMT DEF InInt

\* A number is its lowest byte and what is above it.
LEMMA LowHigh ==
  ASSUME NEW n \in Int
  PROVE  /\ Low(n) \in 0..255 /\ High(n) \in Int
         /\ n = 256 * High(n) + Low(n)
BY SMT DEF Low, High

\* Four bytes hold an int: the highest is a signed one, and IntOf composes them
\* again.
LEMMA FourBytes ==
  ASSUME NEW n \in Int32
  PROVE  LET h == High(High(High(n)))
         IN /\ h \in -128..127
            /\ n = IntOf(Low(n), Low(High(n)), Low(High(High(n))), h)
<1> DEFINE a == High(n)  b == High(a)  c == High(b)
<1>1. n \in Int /\ n >= -2147483648 /\ n <= 2147483647
  BY IntRange, SMT DEF InInt
<1>2. a \in Int /\ n = 256 * a + Low(n) /\ Low(n) \in 0..255
  BY <1>1, LowHigh
<1>3. b \in Int /\ a = 256 * b + Low(a) /\ Low(a) \in 0..255
  BY <1>2, LowHigh
<1>4. c \in Int /\ b = 256 * c + Low(b) /\ Low(b) \in 0..255
  BY <1>3, LowHigh
<1> HIDE DEF a, b, c
<1>5. a >= -8388608 /\ a <= 8388607
  BY <1>1, <1>2, SMT
<1>6. b >= -32768 /\ b <= 32767
  BY <1>3, <1>5, SMT
<1>7. c \in -128..127
  BY <1>4, <1>6, SMT
<1>8. Low(n) \in Int /\ Low(a) \in Int /\ Low(b) \in Int
  BY <1>2, <1>3, <1>4, SMT
<1>9. n = IntOf(Low(n), Low(a), Low(b), c)
  <2>1. ASSUME NEW k \in Int, NEW l \in Int, NEW m \in Int,
               n = 256 * a + k, a = 256 * b + l, b = 256 * c + m
        PROVE  n = IntOf(k, l, m, c)
    BY <1>2, <1>3, <1>4, <2>1, SMT DEF IntOf
  <2> QED BY <2>1, <1>2, <1>3, <1>4, <1>8
<1> QED BY <1>7, <1>9 DEF a, b, c

\* Reading a byte as a signed char undoes taking the low byte of such a number, and
\* 128 is the byte of -128 alone, which addImm does not write as one byte.
LEMMA CharLow ==
  ASSUME NEW n \in -128..127
  PROVE  Char(Low(n)) = n /\ Low(n) \in 0..255 /\ (Low(n) = 128 <=> n = -128)
<1>1. CASE n >= 0
  <2>1. Low(n) = n
    BY <1>1, SMT DEF Low
  <2> QED BY <2>1, <1>1, SMT DEF Char
<1>2. CASE n < 0
  <2>1. Low(n) = n + 256
    BY <1>2, SMT DEF Low
  <2> QED BY <2>1, <1>2, SMT DEF Char
<1> QED BY <1>1, <1>2, SMT

-----------------------------------------------------------------------------
\* B is what instruction i looks like.
Encoded(B, i) ==
  /\ B \in Seq(Byte) /\ Len(B) >= 1 /\ B[1] = i.op
  /\ i.op \in Plain => Len(B) = 1
  /\ i.op \in TwoBytes => Len(B) = 2 /\ B[2] = i.arg[1]
  /\ i.op = ConstNum => Len(B) = 9 /\ \A j \in 1..8 : B[j + 1] = i.arg[j]
  /\ i.op \in WithImmediate =>
       \/ Len(B) = 2 /\ B[2] = Low(i.arg[1]) /\ i.arg[1] \in -127..127
       \/ Len(B) = 6 /\ B[2] = 128 /\ \A j \in 1..4 : B[j + 2] = IntBytes(i.arg[1])[j]

\* Each opcode has one kind of argument.
LEMMA Kinds ==
  ASSUME NEW o \in 0..19
  PROVE  /\ o \in Plain \/ o \in Operator \/ o = ConstMisc \/ o = ConstNum \/ o \in WithImmediate
         /\ o \in Plain => o \notin TwoBytes /\ o # ConstNum /\ o \notin WithImmediate
         /\ o \in TwoBytes => o \notin Plain /\ o # ConstNum /\ o \notin WithImmediate
         /\ o = ConstNum => o \notin Plain /\ o \notin TwoBytes /\ o \notin WithImmediate
         /\ o \in WithImmediate => o \notin Plain /\ o \notin TwoBytes /\ o # ConstNum
         /\ o \in TwoBytes <=> o \in Operator \/ o = ConstMisc
         /\ o \in Jump => o \in WithImmediate
BY SMT DEF Plain, Operator, TwoBytes, WithImmediate, ConstNum, ConstMisc, Jump

\* InstsAssumption, kind by kind.
LEMMA InstTypes ==
  ASSUME NEW i \in Insts
  PROVE  /\ i.op \in 0..19 /\ i.arg \in Seq(Int)
         /\ i.op \in Plain => i.arg = <<>>
         /\ i.op \in WithImmediate => Len(i.arg) = 1 /\ i.arg[1] \in Int32
         /\ i.op \in Operator => Len(i.arg) = 1 /\ i.arg[1] \in 0..20
         /\ i.op = ConstMisc => Len(i.arg) = 1 /\ i.arg[1] \in 0..2
         /\ i.op = ConstNum => Len(i.arg) = 8 /\ i.arg \in Seq(Byte)
<1>1. DOMAIN i = {"op", "arg"} /\ i.arg \in Seq(Int) /\ IsInst(i)
  BY InstsAssumption
<1>2. /\ i.op \in Plain \/ i.op \in WithImmediate \/ i.op \in Operator \/ i.op = ConstMisc
         \/ i.op = ConstNum
      /\ i.op \in Plain => i.op \in 0..19
      /\ i.op \in WithImmediate => i.op \in 0..19
      /\ i.op \in Operator => i.op \in 0..19
      /\ i.op = ConstMisc => i.op \in 0..19
      /\ i.op = ConstNum => i.op \in 0..19
  <2>1. i.op \in Plain \/ i.op \in WithImmediate \/ i.op \in Operator \/ i.op = ConstMisc
         \/ i.op = ConstNum
    BY <1>1 DEF IsInst
  <2> QED BY <2>1, SMT DEF Plain, WithImmediate, Operator, ConstMisc, ConstNum
<1>3. i.op \in 0..19
  BY <1>2
<1>4. /\ i.op \in Plain => i.arg = <<>>
      /\ i.op \in WithImmediate => One(i.arg, Int32)
      /\ i.op \in Operator => One(i.arg, 0..20)
      /\ i.op = ConstMisc => One(i.arg, 0..2)
      /\ i.op = ConstNum => i.arg \in Seq(Byte) /\ Len(i.arg) = 8
  <2>1. /\ i.op \in Plain => ~(i.op \in Operator \/ i.op = ConstMisc \/ i.op = ConstNum \/ i.op \in WithImmediate)
        /\ i.op \in WithImmediate => ~(i.op \in Operator \/ i.op = ConstMisc \/ i.op = ConstNum \/ i.op \in Plain)
        /\ i.op \in Operator => ~(i.op \in Plain \/ i.op = ConstMisc \/ i.op = ConstNum \/ i.op \in WithImmediate)
        /\ i.op = ConstMisc => ~(i.op \in Operator \/ i.op \in Plain \/ i.op = ConstNum \/ i.op \in WithImmediate)
        /\ i.op = ConstNum => ~(i.op \in Operator \/ i.op = ConstMisc \/ i.op \in Plain \/ i.op \in WithImmediate)
    BY <1>3, SMT DEF Plain, WithImmediate, Operator, ConstMisc, ConstNum
  <2>2. CASE i.op \in Plain
    BY <2>1, <2>2, <1>1 DEF IsInst
  <2>3. CASE i.op \in WithImmediate
    BY <2>1, <2>3, <1>1 DEF IsInst
  <2>4. CASE i.op \in Operator
    BY <2>1, <2>4, <1>1 DEF IsInst
  <2>5. CASE i.op = ConstMisc
    BY <2>1, <2>5, <1>1 DEF IsInst
  <2>6. CASE i.op = ConstNum
    BY <2>1, <2>6, <1>1 DEF IsInst
  <2> QED BY <1>2, <2>2, <2>3, <2>4, <2>5, <2>6
<1> QED BY <1>1, <1>3, <1>4 DEF One

\* Prefixing an element.
LEMMA Cons ==
  ASSUME NEW S, NEW x \in S, NEW s \in Seq(S)
  PROVE  /\ <<x>> \o s \in Seq(S)
         /\ Len(<<x>> \o s) = Len(s) + 1
         /\ (<<x>> \o s)[1] = x
         /\ \A j \in 1..Len(s) : (<<x>> \o s)[j + 1] = s[j]
<1> DEFINE t == <<x>>
<1>1. t \in Seq(S) /\ Len(t) = 1 /\ t[1] = x
  BY SMT
<1> HIDE DEF t
<1>2. t \o s \in Seq(S) /\ Len(t \o s) = Len(t) + Len(s)
  BY <1>1, ConcatProperties
<1>3. \A i \in 1..(Len(t) + Len(s)) : (t \o s)[i] = IF i <= Len(t) THEN t[i] ELSE s[i - Len(t)]
  BY <1>1, ConcatProperties
<1>4. Len(s) \in Nat
  BY LenProperties
<1>5. (t \o s)[1] = x
  <2>1. 1 \in 1..(Len(t) + Len(s)) /\ 1 <= Len(t)
    BY <1>1, <1>4, SMT
  <2> QED BY <2>1, <1>1, <1>3
<1>6. \A j \in 1..Len(s) : (t \o s)[j + 1] = s[j]
  <2> TAKE j \in 1..Len(s)
  <2>1. j + 1 \in 1..(Len(t) + Len(s)) /\ ~(j + 1 <= Len(t)) /\ j + 1 - Len(t) = j
    BY <1>1, <1>4, SMT
  <2> QED BY <2>1, <1>3
<1> QED BY <1>1, <1>2, <1>4, <1>5, <1>6, SMT DEF t

\* A sequence of length one is its element.
LEMMA Singleton ==
  ASSUME NEW S, NEW T, NEW s \in Seq(S), Len(s) = 1, s[1] \in T
  PROVE  s = <<s[1]>> /\ s \in Seq(T)
<1> DEFINE t == <<s[1]>>
<1>1. s[1] \in S
  BY ElementOfSeq, SMT
<1>2. t \in Seq(S) /\ t \in Seq(T) /\ Len(t) = 1 /\ t[1] = s[1]
  BY <1>1, SMT
<1> HIDE DEF t
<1>3. \A i \in 1..Len(s) : s[i] = t[i]
  BY <1>2, SMT
<1>4. s = t
  BY <1>2, <1>3, SeqEqual
<1> QED BY <1>2, <1>4 DEF t

\* addImm writes one byte, or the escape and four.
LEMMA ImmBytes ==
  ASSUME NEW n \in Int
  PROVE  /\ Imm(n) \in Seq(Byte)
         /\ \/ Len(Imm(n)) = 1 /\ Imm(n)[1] = Low(n) /\ n \in -127..127
            \/ /\ Len(Imm(n)) = 5 /\ Imm(n)[1] = 128
               /\ \A j \in 1..4 : Imm(n)[j + 1] = IntBytes(n)[j]
<1> DEFINE a == Low(n)  b == Low(High(n))  c == Low(High(High(n)))  d == Low(High(High(High(n))))
<1>1. a \in Byte /\ b \in Byte /\ c \in Byte /\ d \in Byte
  BY LowHigh DEF Byte
<1>2. CASE n > -128 /\ n <= 127
  <2>1. Imm(n) = <<a>>
    BY <1>2 DEF Imm
  <2>2. n \in -127..127
    BY <1>2, SMT
  <2> QED BY <1>1, <2>1, <2>2, SMT
<1>3. CASE ~(n > -128 /\ n <= 127)
  <2>1. Imm(n) = <<128>> \o IntBytes(n)
    BY <1>3 DEF Imm
  <2>2. IntBytes(n) = <<a, b, c, d>>
    BY DEF IntBytes
  <2> HIDE DEF a, b, c, d
  <2>3. IntBytes(n) \in Seq(Byte) /\ Len(IntBytes(n)) = 4
    BY <1>1, <2>2, SMT
  <2>4. 128 \in Byte
    BY SMT DEF Byte
  <2>5. /\ Imm(n) \in Seq(Byte) /\ Len(Imm(n)) = Len(IntBytes(n)) + 1 /\ Imm(n)[1] = 128
        /\ \A j \in 1..Len(IntBytes(n)) : Imm(n)[j + 1] = IntBytes(n)[j]
    BY <2>1, <2>3, <2>4, Cons
  <2>6. 4 + 1 = 5
    BY SMT
  <2> QED BY <2>3, <2>5, <2>6
<1> QED BY <1>2, <1>3

\* Every instruction is added in its encoding.
LEMMA BytesEncoded ==
  ASSUME NEW i \in Insts
  PROVE  Encoded(Bytes(i), i)
<1> DEFINE n == i.arg[1]
           B == Bytes(i)
           Headed(s) == /\ B \in Seq(Byte) /\ Len(B) = Len(s) + 1 /\ B[1] = i.op
                        /\ \A j \in 1..Len(s) : B[j + 1] = s[j]
<1>1. i.op \in 0..19
  BY InstTypes
<1>2. i.op \in Byte
  BY <1>1, SMT DEF Byte
<1>3. ASSUME NEW s \in Seq(Byte), B = <<i.op>> \o s
      PROVE  Headed(s)
  BY <1>2, <1>3, Cons
<1>4. CASE i.op \in Plain
  <2>1. i.arg = <<>> /\ i.op \notin WithImmediate /\ i.op # ConstMisc
    BY <1>1, <1>4, InstTypes, Kinds
  <2>2. i.arg \in Seq(Byte) /\ Len(i.arg) = 0 /\ B = <<i.op>> \o i.arg
    BY <2>1, EmptySeq DEF Bytes
  <2>3. B \in Seq(Byte) /\ Len(B) = 1 /\ Len(B) >= 1 /\ B[1] = i.op
    BY <2>2, <1>3, SMT
  <2> QED BY <2>3, <1>1, <1>4, Kinds DEF Encoded
<1>5. CASE i.op \in Operator
  <2>1. Len(i.arg) = 1 /\ i.arg \in Seq(Int) /\ n \in 0..20
    BY <1>5, InstTypes
  <2>2. n \in Byte
    BY <2>1, SMT DEF Byte
  <2>3. i.op \notin WithImmediate /\ i.op # ConstMisc
    BY <1>5, SMT DEF Operator, WithImmediate, ConstMisc
  <2>4. i.arg \in Seq(Byte) /\ B = <<i.op>> \o i.arg
    BY <2>1, <2>2, <2>3, Singleton DEF Bytes
  <2>5. Headed(i.arg)
    BY <2>4, <1>3
  <2>6. B \in Seq(Byte) /\ Len(B) = 2 /\ Len(B) >= 1 /\ B[1] = i.op /\ B[2] = n
    BY <2>1, <2>5, SMT
  <2> QED BY <2>6, <1>1, <1>5, Kinds DEF Encoded
<1>6. CASE i.op = ConstMisc
  <2>1. n \in 0..2
    BY <1>6, InstTypes
  <2>2. Low(n) = n /\ n \in Byte /\ n > -128 /\ n <= 127
    BY <2>1, SMT DEF Low, Byte
  <2>3. Imm(n) = <<n>>
    BY <2>2 DEF Imm
  <2>4. Imm(n) \in Seq(Byte) /\ Len(Imm(n)) = 1 /\ Imm(n)[1] = n
    BY <2>2, <2>3, SMT
  <2>5. B = <<i.op>> \o Imm(n)
    BY <1>6 DEF Bytes
  <2>6. Headed(Imm(n))
    BY <2>4, <2>5, <1>3
  <2>7. B \in Seq(Byte) /\ Len(B) = 2 /\ Len(B) >= 1 /\ B[1] = i.op /\ B[2] = n
    BY <2>4, <2>6, SMT
  <2> QED BY <2>7, <1>1, <1>6, Kinds DEF Encoded
<1>7. CASE i.op = ConstNum
  <2>1. Len(i.arg) = 8 /\ i.arg \in Seq(Byte)
    BY <1>7, InstTypes
  <2>2. i.op \notin WithImmediate /\ i.op # ConstMisc
    BY <1>1, <1>7, SMT DEF WithImmediate, ConstMisc, ConstNum
  <2>3. B = <<i.op>> \o i.arg
    BY <2>2 DEF Bytes
  <2>4. Headed(i.arg)
    BY <2>1, <2>3, <1>3
  <2>5. /\ B \in Seq(Byte) /\ Len(B) = 9 /\ Len(B) >= 1 /\ B[1] = i.op
        /\ \A j \in 1..8 : B[j + 1] = i.arg[j]
    BY <2>1, <2>4, SMT
  <2> QED BY <2>5, <1>1, <1>7, Kinds DEF Encoded
<1>8. CASE i.op \in WithImmediate
  <2>1. n \in Int32
    BY <1>8, InstTypes
  <2>2. n \in Int
    BY <2>1, IntRange
  <2>3. Imm(n) \in Seq(Byte) /\ B = <<i.op>> \o Imm(n)
    BY <2>2, <1>8, ImmBytes DEF Bytes
  <2>4. Headed(Imm(n))
    BY <2>3, <1>3
  <2>5. CASE Len(Imm(n)) = 1 /\ Imm(n)[1] = Low(n) /\ n \in -127..127
    <3>1. Len(B) = 2 /\ Len(B) >= 1 /\ B[2] = Low(n)
      BY <2>4, <2>5, SMT
    <3> QED BY <2>4, <2>5, <3>1, <1>1, <1>8, Kinds DEF Encoded
  <2>6. CASE /\ Len(Imm(n)) = 5 /\ Imm(n)[1] = 128
             /\ \A j \in 1..4 : Imm(n)[j + 1] = IntBytes(n)[j]
    <3>1. Len(B) = 6 /\ Len(B) >= 1 /\ B[2] = 128
      BY <2>4, <2>6, SMT
    <3>2. \A j \in 1..4 : B[j + 2] = IntBytes(n)[j]
      <4> TAKE j \in 1..4
      <4>1. j + 1 \in 1..Len(Imm(n)) /\ (j + 1) + 1 = j + 2
        BY <2>6, SMT
      <4>2. B[(j + 1) + 1] = Imm(n)[j + 1]
        BY <4>1, <2>4
      <4> QED BY <4>1, <4>2, <2>6
    <3> QED BY <2>4, <3>1, <3>2, <1>1, <1>8, Kinds DEF Encoded
  <2>7. \/ Len(Imm(n)) = 1 /\ Imm(n)[1] = Low(n) /\ n \in -127..127
        \/ /\ Len(Imm(n)) = 5 /\ Imm(n)[1] = 128
           /\ \A j \in 1..4 : Imm(n)[j + 1] = IntBytes(n)[j]
    BY <2>2, ImmBytes
  <2> QED BY <2>5, <2>6, <2>7
<1> QED BY <1>1, <1>4, <1>5, <1>6, <1>7, <1>8, Kinds

-----------------------------------------------------------------------------
\* The bytes of i begin at offset p.
Placed(i, p) ==
  /\ p \in Nat /\ p + Len(Bytes(i)) <= Len(code)
  /\ \A j \in 1..Len(Bytes(i)) : code[p + j] = Bytes(i)[j]

\* A pass at pc reads instruction i, and goes on behind it.
Decoded(i) ==
  /\ Op = i.op /\ Legible /\ Size = Len(Bytes(i))
  /\ i.op \in WithImmediate => Immediate(pc) = i.arg[1]
  /\ i.op \in TwoBytes => At(pc + 1) = i.arg[1]
  /\ i.op = ConstNum => SubSeq(code, pc + 2, pc + 9) = i.arg

\* getImmediate undoes addImm and knows the length of what it read.
LEMMA ReadImmediate ==
  ASSUME code \in Seq(Byte), pc \in Nat, NEW i \in Insts, Placed(i, pc), i.op \in WithImmediate
  PROVE  Readable(pc) /\ Offset(pc) = Len(Bytes(i)) /\ Immediate(pc) = i.arg[1]
<1> DEFINE n == i.arg[1]
           B == Bytes(i)
<1>1. Encoded(B, i) /\ n \in Int32
  BY BytesEncoded, InstTypes
<1>2. Len(B) \in Nat /\ Len(code) \in Nat
  BY <1>1, LenProperties DEF Encoded
<1>3. ASSUME NEW j \in 1..Len(B), NEW p \in Int, p + 1 = pc + j
      PROVE  At(p) = B[j]
  BY <1>3 DEF At, Placed
<1>4. \/ Len(B) = 2 /\ B[2] = Low(n) /\ n \in -127..127
      \/ Len(B) = 6 /\ B[2] = 128 /\ \A j \in 1..4 : B[j + 2] = IntBytes(n)[j]
  BY <1>1 DEF Encoded
<1>5. CASE Len(B) = 2 /\ B[2] = Low(n) /\ n \in -127..127
  <2>1. 2 \in 1..Len(B) /\ pc + 1 \in Int /\ (pc + 1) + 1 = pc + 2
    BY <1>5, SMT
  <2>2. At(pc + 1) = Low(n)
    BY <1>3, <1>5, <2>1
  <2>3. n \in -128..127 /\ n # -128
    <3>1. \A m \in -127..127 : m \in -128..127 /\ m # -128
      BY SMT
    <3> QED BY <1>5, <3>1
  <2>4. Char(Low(n)) = n /\ Low(n) # 128
    BY <2>3, CharLow
  <2>5. IsShort(pc)
    BY <2>2, <2>4 DEF IsShort
  <2>6. pc + 1 < Len(code)
    BY <1>2, <1>5, SMT DEF Placed
  <2> QED BY <1>5, <2>2, <2>4, <2>5, <2>6 DEF Readable, Offset, Immediate
<1>6. CASE Len(B) = 6 /\ B[2] = 128 /\ \A j \in 1..4 : B[j + 2] = IntBytes(n)[j]
  <2> DEFINE h == High(High(High(n)))
  <2>1. /\ 2 \in 1..Len(B) /\ pc + 1 \in Int /\ (pc + 1) + 1 = pc + 2
        /\ 3 \in 1..Len(B) /\ pc + 2 \in Int /\ (pc + 2) + 1 = pc + 3
        /\ 4 \in 1..Len(B) /\ (pc + 2) + 1 \in Int /\ ((pc + 2) + 1) + 1 = pc + 4
        /\ 5 \in 1..Len(B) /\ (pc + 2) + 2 \in Int /\ ((pc + 2) + 2) + 1 = pc + 5
        /\ 6 \in 1..Len(B) /\ (pc + 2) + 3 \in Int /\ ((pc + 2) + 3) + 1 = pc + 6
    BY <1>6, SMT
  <2>2. B[3] = Low(n) /\ B[4] = Low(High(n)) /\ B[5] = Low(High(High(n))) /\ B[6] = Low(h)
    BY <1>6, SMT DEF IntBytes
  <2>3. /\ At(pc + 1) = 128
        /\ At(pc + 2) = Low(n) /\ At((pc + 2) + 1) = Low(High(n))
        /\ At((pc + 2) + 2) = Low(High(High(n))) /\ At((pc + 2) + 3) = Low(h)
    BY <1>3, <1>6, <2>1, <2>2
  <2>4. h \in -128..127 /\ n = IntOf(Low(n), Low(High(n)), Low(High(High(n))), h)
    BY <1>1, FourBytes
  <2>5. Char(Low(h)) = h
    BY <2>4, CharLow
  <2>6. IntAt(pc + 2) = n
    BY <2>3, <2>4, <2>5 DEF IntAt
  <2>7. ~IsShort(pc)
    BY <2>3 DEF IsShort
  <2>8. pc + 1 < Len(code) /\ pc + 5 < Len(code)
    BY <1>2, <1>6, SMT DEF Placed
  <2> QED BY <1>6, <2>6, <2>7, <2>8 DEF Readable, Offset, Immediate
<1> QED BY <1>4, <1>5, <1>6

\* A pass that stands where i was added reads i.
LEMMA Decode ==
  ASSUME code \in Seq(Byte), pc \in Nat, NEW i \in Insts, Placed(i, pc)
  PROVE  Decoded(i)
<1> DEFINE B == Bytes(i)
<1>1. Encoded(B, i) /\ i.op \in 0..19
  BY BytesEncoded, InstTypes
<1>2. Len(B) \in Nat /\ Len(B) >= 1 /\ Len(code) \in Nat
  BY <1>1, LenProperties DEF Encoded
<1>3. Op = i.op
  <2>1. 1 \in 1..Len(B) /\ B[1] = i.op
    BY <1>1, <1>2, SMT DEF Encoded
  <2> QED BY <2>1 DEF Op, At, Placed
<1>4. i.op \in WithImmediate =>
        Legible /\ Offset(pc) = Len(B) /\ Immediate(pc) = i.arg[1]
  BY <1>3, ReadImmediate DEF Legible
<1>5. i.op \in TwoBytes => At(pc + 1) = i.arg[1] /\ Len(B) = 2
  <2>1. SUFFICES ASSUME i.op \in TwoBytes PROVE At(pc + 1) = i.arg[1] /\ Len(B) = 2
    OBVIOUS
  <2>2. Len(B) = 2 /\ B[2] = i.arg[1]
    BY <1>1, <2>1 DEF Encoded
  <2>3. 2 \in 1..Len(B) /\ (pc + 1) + 1 = pc + 2
    BY <2>2, SMT
  <2> QED BY <2>2, <2>3 DEF At, Placed
<1>6. i.op = ConstNum => SubSeq(code, pc + 2, pc + 9) = i.arg /\ Len(B) = 9
  <2>1. SUFFICES ASSUME i.op = ConstNum
                 PROVE  SubSeq(code, pc + 2, pc + 9) = i.arg /\ Len(B) = 9
    OBVIOUS
  <2>2. Len(B) = 9 /\ \A j \in 1..8 : B[j + 1] = i.arg[j]
    BY <1>1, <2>1 DEF Encoded
  <2>3. Len(i.arg) = 8 /\ i.arg \in Seq(Byte)
    BY <2>1, InstTypes
  <2>4. ASSUME NEW j \in 1..8 PROVE code[(pc + 2) + j - 1] = i.arg[j]
    <3>1. j + 1 \in 1..Len(B) /\ pc + (j + 1) = (pc + 2) + j - 1
      BY <2>2, SMT
    <3> QED BY <2>2, <3>1 DEF Placed
  <2>5. /\ pc + 2 \in Int /\ pc + 9 \in Int /\ pc + 2 <= pc + 9
        /\ (pc + 9) - (pc + 2) + 1 = 8
        /\ \A k \in (pc + 2)..(pc + 9) : k \in 1..Len(code)
    <3>1. pc + 9 <= Len(code)
      BY <2>2 DEF Placed
    <3>2. ASSUME NEW k \in (pc + 2)..(pc + 9) PROVE k \in 1..Len(code)
      BY <1>2, <3>1, SMT
    <3>3. /\ pc + 2 \in Int /\ pc + 9 \in Int /\ pc + 2 <= pc + 9
          /\ (pc + 9) - (pc + 2) + 1 = 8
      BY SMT
    <3> QED BY <3>2, <3>3
  <2>6. \A k \in (pc + 2)..(pc + 9) : code[k] \in Byte
    BY <2>5, ElementOfSeq
  <2> DEFINE s == SubSeq(code, pc + 2, pc + 9)
  <2>7. /\ s \in Seq(Byte) /\ Len(s) = IF pc + 2 <= pc + 9 THEN (pc + 9) - (pc + 2) + 1 ELSE 0
        /\ \A k \in 1..((pc + 9) - (pc + 2) + 1) : s[k] = code[(pc + 2) + k - 1]
    BY <2>5, <2>6, SubSeqProperties
  <2>8. Len(s) = 8 /\ \A k \in 1..8 : s[k] = i.arg[k]
    BY <2>4, <2>5, <2>7
  <2>9. s = i.arg
    BY <2>3, <2>7, <2>8, SeqEqual
  <2> QED BY <2>2, <2>9
<1>7. Size = Len(B)
  <2>1. CASE i.op \in WithImmediate
    BY <1>1, <1>3, <1>4, <2>1, Kinds DEF Size
  <2>2. CASE i.op \in TwoBytes
    BY <1>1, <1>3, <1>5, <2>2, Kinds DEF Size
  <2>3. CASE i.op = ConstNum
    BY <1>1, <1>3, <1>6, <2>3, Kinds DEF Size
  <2>4. CASE i.op \in Plain
    BY <1>1, <1>3, <2>4, Kinds DEF Size, Encoded
  <2> QED BY <1>1, <2>1, <2>2, <2>3, <2>4, Kinds
<1>8. Legible
  BY <1>3, <1>4 DEF Legible
<1> QED BY <1>3, <1>4, <1>5, <1>6, <1>7, <1>8 DEF Decoded

-----------------------------------------------------------------------------
\* The bytes are those of the instructions that were added, one behind the other.
Layout ==
  /\ \A k \in DOMAIN added : /\ Placed(added[k], starts[k])
                             /\ StartOf(k + 1) = starts[k] + Len(Bytes(added[k]))
  /\ StartOf(1) = 0

\* Where the first n instructions jump to.
Targets(n) == {JumpTarget(i) : i \in {j \in 1..n : added[j].op \in Jump}}

\* The line that is due for instruction k.
LineOf(k) == [label |-> IF labels /\ starts[k] \in labelIndices
                        THEN Distance(starts[k]) ELSE NoLabel,
              op |-> added[k].op,
              arg |-> IF added[k].op \in Jump /\ labels
                      THEN <<Distance(JumpTarget(k))>> ELSE added[k].arg]

\* A pass is at the beginning of an instruction, and has done what is to be done
\* for all before it.
FindInv ==
  phase = "find" =>
    /\ labels /\ output = <<>>
    /\ \E k \in 1..(Len(added) + 1) : pc = StartOf(k) /\ labelIndices = Targets(k - 1)
PrintInv ==
  phase \in {"print", "printed"} =>
    /\ Len(output) <= Len(added) /\ pc = StartOf(Len(output) + 1)
    /\ labelIndices = IF labels THEN Targets(Len(added)) ELSE {}
    /\ \A k \in 1..Len(output) : output[k] = LineOf(k)
    /\ phase = "printed" => Len(output) = Len(added)

\* The inductive invariant.
Inv == TypeOK /\ Layout /\ FindInv /\ PrintInv

\* The history has as many places as instructions.
LEMMA Lengths ==
  ASSUME TypeOK
  PROVE  /\ Len(added) \in Nat /\ Len(starts) = Len(added) /\ Len(output) \in Nat
         /\ Len(code) \in Nat
         /\ DOMAIN added = 1..Len(added) /\ DOMAIN output = 1..Len(output)
         /\ \A k \in 1..Len(added) : added[k] \in Insts /\ starts[k] \in Nat /\ StartOf(k) = starts[k]
         /\ StartOf(Len(added) + 1) = Len(code)
<1>1. /\ Len(added) \in Nat /\ Len(starts) = Len(added) /\ Len(output) \in Nat
      /\ Len(code) \in Nat
      /\ DOMAIN added = 1..Len(added) /\ DOMAIN output = 1..Len(output)
  BY LenProperties DEF TypeOK
<1>2. ASSUME NEW k \in 1..Len(added)
      PROVE  added[k] \in Insts /\ starts[k] \in Nat /\ StartOf(k) = starts[k]
  <2>1. added[k] \in Insts /\ starts[k] \in Nat
    BY <1>1, ElementOfSeq DEF TypeOK
  <2>2. k <= Len(starts)
    BY <1>1, SMT
  <2> QED BY <2>1, <2>2 DEF StartOf
<1>3. ~(Len(added) + 1 <= Len(starts))
  BY <1>1, SMT
<1> QED BY <1>1, <1>2, <1>3 DEF StartOf

\* A pass that has not reached the end is at the beginning of an instruction.
LEMMA AtInstruction ==
  ASSUME TypeOK, Layout, NEW k \in 1..(Len(added) + 1), pc = StartOf(k)
  PROVE  /\ pc < Len(code) => /\ k \in 1..Len(added) /\ pc = starts[k] /\ added[k] \in Insts
                              /\ Decoded(added[k]) /\ pc + Size <= Len(code)
                              /\ pc + Size = StartOf(k + 1)
         /\ pc >= Len(code) => k = Len(added) + 1
<1>1. k \in 1..Len(added) \/ k = Len(added) + 1
  BY Lengths, SMT
<1>2. CASE k \in 1..Len(added)
  <2>1. pc = starts[k] /\ added[k] \in Insts /\ Placed(added[k], pc)
    BY <1>2, Lengths DEF Layout
  <2>2. Decoded(added[k])
    BY <2>1, Decode DEF TypeOK
  <2>3. Size = Len(Bytes(added[k])) /\ pc + Size <= Len(code) /\ pc + Size = StartOf(k + 1)
    BY <1>2, <2>1, <2>2, Lengths DEF Decoded, Placed, Layout
  <2>4. Size \in Nat /\ Size >= 1
    BY <2>1, <2>3, BytesEncoded, LenProperties DEF Encoded
  <2>5. ~(pc >= Len(code))
    BY <2>3, <2>4, Lengths, SMT DEF TypeOK
  <2> QED BY <1>2, <2>1, <2>2, <2>3, <2>5
<1>3. CASE k = Len(added) + 1
  <2>1. pc = Len(code) /\ Len(code) \in Nat
    BY <1>3, Lengths
  <2>2. ~(pc < Len(code))
    BY <2>1, SMT
  <2> QED BY <1>3, <2>2
<1> QED BY <1>1, <1>2, <1>3

\* Nothing was added yet.
LEMMA InitInv == Init => Inv
<1> SUFFICES ASSUME Init PROVE Inv
  OBVIOUS
<1>1. TypeOK
  <2>1. IsFiniteSet({})
    BY FS_EmptySet
  <2> QED BY <2>1, EmptySeq DEF Init, TypeOK
<1>2. Layout
  BY SMT DEF Init, Layout, StartOf
<1>3. FindInv /\ PrintInv
  BY DEF Init, FindInv, PrintInv
<1> QED BY <1>1, <1>2, <1>3 DEF Inv

\* Appending an instruction leaves those before it where they are.
LEMMA AddInv ==
  ASSUME Inv, NEW i \in Insts, Add(i)
  PROVE  Inv'
<1> SUFFICES ASSUME NEW n, n = Len(added) PROVE Inv'
  OBVIOUS
<1> DEFINE B == Bytes(i)
<1>1. TypeOK /\ Layout
  BY DEF Inv
<1>2. /\ phase' = phase /\ phase = "add" /\ labels' = labels /\ pc' = pc
      /\ labelIndices' = labelIndices /\ output' = output
  BY DEF Add
<1>3. /\ added' = Append(added, i) /\ starts' = Append(starts, Len(code)) /\ code' = code \o B
  BY DEF Add
<1>4. B \in Seq(Byte) /\ Len(B) \in Nat /\ Len(B) >= 1
  BY BytesEncoded, LenProperties DEF Encoded
<1>5. /\ n \in Nat /\ Len(starts) = n /\ Len(code) \in Nat
      /\ added \in Seq(Insts) /\ starts \in Seq(Nat) /\ code \in Seq(Byte)
  BY <1>1, Lengths DEF TypeOK
<1>6. /\ added' \in Seq(Insts) /\ Len(added') = n + 1
      /\ \A k \in 1..n : added'[k] = added[k]
      /\ added'[n + 1] = i
  BY <1>3, <1>5, AppendProperties
<1>7. /\ starts' \in Seq(Nat) /\ Len(starts') = n + 1
      /\ \A k \in 1..n : starts'[k] = starts[k]
      /\ starts'[n + 1] = Len(code)
  BY <1>3, <1>5, AppendProperties
<1>8. /\ code' \in Seq(Byte) /\ Len(code') = Len(code) + Len(B)
      /\ \A j \in 1..(Len(code) + Len(B)) :
           code'[j] = IF j <= Len(code) THEN code[j] ELSE B[j - Len(code)]
  BY <1>3, <1>4, <1>5, ConcatProperties
<1>9. TypeOK'
  BY <1>1, <1>2, <1>6, <1>7, <1>8 DEF TypeOK
<1>10. /\ \A k \in 1..(n + 1) : StartOf(k)' = StartOf(k)
       /\ StartOf(n + 2)' = Len(code)  + Len(B)
  <2>1. ASSUME NEW k \in 1..n PROVE StartOf(k)' = StartOf(k)
    <3>1. k <= n + 1 /\ k <= n
      BY <1>5, SMT
    <3> QED BY <3>1, <1>5, <1>7 DEF StartOf
  <2>2. StartOf(n + 1)' = StartOf(n + 1)
    <3>1. n + 1 <= n + 1 /\ ~(n + 1 <= n)
      BY <1>5, SMT
    <3>2. StartOf(n + 1)' = Len(code)
      BY <3>1, <1>7 DEF StartOf
    <3>3. StartOf(n + 1) = Len(code)
      BY <3>1, <1>5 DEF StartOf
    <3> QED BY <3>2, <3>3
  <2>3. ~(n + 2 <= n + 1)
    BY <1>5, SMT
  <2>4. \A k \in 1..(n + 1) : k \in 1..n \/ k = n + 1
    BY <1>5, SMT
  <2> QED BY <2>1, <2>2, <2>3, <2>4, <1>7, <1>8 DEF StartOf
<1>11. ASSUME NEW k \in 1..n
       PROVE  /\ Placed(added[k], starts[k])'
              /\ StartOf(k + 1)' = starts'[k] + Len(Bytes(added'[k]))
  <2> DEFINE A == Bytes(added[k])
  <2>1. /\ starts[k] \in Nat /\ starts[k] + Len(A) <= Len(code)
        /\ \A j \in 1..Len(A) : code[starts[k] + j] = A[j]
        /\ StartOf(k + 1) = starts[k] + Len(A)
    BY <1>1, Lengths DEF Layout, Placed
  <2>2. added[k] \in Insts
    BY <1>1, Lengths
  <2>3. Len(A) \in Nat
    BY <2>2, BytesEncoded, LenProperties DEF Encoded
  <2>4. ASSUME NEW j \in 1..Len(A) PROVE code'[starts[k] + j] = A[j]
    <3>1. starts[k] + j \in 1..(Len(code) + Len(B)) /\ starts[k] + j <= Len(code)
      <4>1. ASSUME NEW a \in Nat, NEW b \in Nat, NEW c \in Nat, NEW d \in Nat, a + b <= c,
                   NEW x \in 1..b
            PROVE  a + x \in 1..(c + d) /\ a + x <= c
        BY <4>1, SMT
      <4> QED BY <4>1, <1>4, <1>5, <2>1, <2>3
    <3> QED BY <1>8, <2>1, <3>1
  <2>5. starts[k] + Len(A) <= Len(code')
    BY <1>4, <1>5, <1>8, <2>1, <2>3, SMT
  <2>6. k + 1 \in 1..(n + 1)
    BY <1>5, SMT
  <2>7. StartOf(k + 1)' = StartOf(k + 1)
    BY <1>10, <2>6
  <2> QED BY <1>6, <1>7, <2>1, <2>4, <2>5, <2>7 DEF Placed
<1>12. /\ Placed(added[n + 1], starts[n + 1])'
       /\ StartOf((n + 1) + 1)' = starts'[n + 1] + Len(Bytes(added'[n + 1]))
  <2>1. ASSUME NEW j \in 1..Len(B) PROVE code'[Len(code) + j] = B[j]
    <3>1. /\ Len(code) + j \in 1..(Len(code) + Len(B)) /\ ~(Len(code) + j <= Len(code))
          /\ Len(code) + j - Len(code) = j
      BY <1>4, <1>5, SMT
    <3> QED BY <1>8, <3>1
  <2>2. Len(code) + Len(B) <= Len(code')
    BY <1>4, <1>5, <1>8, SMT
  <2>3. (n + 1) + 1 = n + 2
    BY <1>5, SMT
  <2> QED BY <1>5, <1>6, <1>7, <1>10, <2>1, <2>2, <2>3 DEF Placed
<1>13. Layout'
  <2>1. DOMAIN added' = 1..(n + 1)
    BY <1>6, LenProperties
  <2>2. \A k \in 1..(n + 1) : k \in 1..n \/ k = n + 1
    BY <1>5, SMT
  <2>3. StartOf(1)' = 0
    <3>1. 1 \in 1..(n + 1)
      BY <1>5, SMT
    <3> QED BY <3>1, <1>1, <1>10 DEF Layout
  <2>4. ASSUME NEW k \in 1..(n + 1)
        PROVE  /\ Placed(added[k], starts[k])'
               /\ StartOf(k + 1)' = starts'[k] + Len(Bytes(added'[k]))
    BY <2>2, <1>11, <1>12
  <2> QED BY <2>1, <2>3, <2>4 DEF Layout
<1>14. FindInv' /\ PrintInv'
  BY <1>2 DEF FindInv, PrintInv
<1> QED BY <1>9, <1>13, <1>14 DEF Inv

\* A step of print changes nothing of the function it prints.
LEMMA SameFunction ==
  ASSUME UNCHANGED <<added, starts, code>>
  PROVE  /\ Layout => Layout'
         /\ \A k : StartOf(k)' = StartOf(k)
         /\ \A n : Targets(n)' = Targets(n)
         /\ Targets(Len(added))' = Targets(Len(added))
         /\ \A k : JumpTarget(k)' = JumpTarget(k)
<1>1. \A k : StartOf(k)' = StartOf(k)
  BY DEF StartOf
<1>2. \A k : JumpTarget(k)' = JumpTarget(k)
  BY DEF JumpTarget
<1>3. /\ \A n : Targets(n)' = Targets(n)
      /\ Targets(Len(added))' = Targets(Len(added))
  BY DEF Targets, JumpTarget
<1>4. \A i, p : Placed(i, p) => Placed(i, p)'
  BY DEF Placed
<1>5. Layout => Layout'
  <2> SUFFICES ASSUME Layout PROVE Layout'
    OBVIOUS
  <2>1. StartOf(1)' = 0
    BY <1>1 DEF Layout
  <2>2. ASSUME NEW k \in DOMAIN added
        PROVE  /\ Placed(added[k], starts[k])'
               /\ StartOf(k + 1)' = starts'[k] + Len(Bytes(added'[k]))
    <3>1. Placed(added[k], starts[k]) /\ StartOf(k + 1) = starts[k] + Len(Bytes(added[k]))
      BY DEF Layout
    <3> QED BY <3>1, <1>1, <1>4 DEF Placed
  <2> QED BY <2>1, <2>2 DEF Layout
<1> QED BY <1>1, <1>2, <1>3, <1>5

\* Jumps go to numbers.
LEMMA TargetsTypes ==
  ASSUME TypeOK, NEW n \in 0..Len(added)
  PROVE  /\ Targets(n) \subseteq Int
         /\ Targets(0) = {}
         /\ \A k \in 1..n : added[k].op \in Jump => JumpTarget(k) \in Targets(n)
<1>1. ASSUME NEW k \in 1..n, added[k].op \in Jump
      PROVE  JumpTarget(k) \in Int
  <2>1. k \in 1..Len(added)
    BY Lengths, SMT
  <2>2. added[k] \in Insts /\ starts[k] \in Nat
    BY <2>1, Lengths
  <2>3. added[k].op \in 0..19
    BY <2>2, InstTypes
  <2>4. added[k].op \in WithImmediate
    BY <2>3, <1>1, Kinds
  <2>5. added[k].arg[1] \in Int
    BY <2>2, <2>4, InstTypes, IntRange
  <2> QED BY <2>2, <2>5, SMT DEF JumpTarget
<1>2. Targets(n) \subseteq Int
  BY <1>1 DEF Targets
<1>3. Targets(0) = {}
  <2>1. 1..0 = {}
    BY SMT
  <2> QED BY <2>1 DEF Targets
<1> QED BY <1>2, <1>3 DEF Targets

\* A turn of the first loop accounts for one more instruction.
LEMMA NextTarget ==
  ASSUME TypeOK, NEW k \in 1..Len(added)
  PROVE  Targets(k) = Targets(k - 1) \cup (IF added[k].op \in Jump THEN {JumpTarget(k)} ELSE {})
<1>1. \A j : j \in 1..k <=> j \in 1..(k - 1) \/ j = k
  BY Lengths, SMT
<1> QED BY <1>1 DEF Targets

\* Two labels have different places among the labels.
LEMMA DistanceTypes ==
  ASSUME TypeOK
  PROVE  /\ \A i \in Int : Distance(i) \in Nat
         /\ \A i, j \in labelIndices : Distance(i) = Distance(j) => i = j
<1> DEFINE Below(i) == {l \in labelIndices : l < i}
<1>1. IsFiniteSet(labelIndices) /\ labelIndices \subseteq Int
  BY DEF TypeOK
<1>2. \A i : IsFiniteSet(Below(i))
  BY <1>1, FS_Subset
<1>3. \A i : Cardinality(Below(i)) \in Nat
  BY <1>2, FS_CardinalityType
<1>4. ASSUME NEW i \in labelIndices, NEW j \in labelIndices, i < j
      PROVE  Distance(i) # Distance(j)
  <2>1. i \in Int /\ j \in Int
    BY <1>1
  <2>2. Below(i) \subseteq Below(j)
    <3>1. ASSUME NEW l \in labelIndices, l < i PROVE l < j
      <4>1. l \in Int
        BY <1>1
      <4> QED BY <1>4, <2>1, <3>1, <4>1, SMT
    <3> QED BY <3>1
  <2>3. i \in Below(j) /\ i \notin Below(i)
    BY <1>4, <2>1, SMT
  <2>4. Cardinality(Below(i)) <= Cardinality(Below(j))
        /\ (Cardinality(Below(i)) = Cardinality(Below(j)) => Below(i) = Below(j))
    BY <1>2, <2>2, FS_Subset
  <2> QED BY <2>3, <2>4 DEF Distance
<1>5. \A i, j \in labelIndices : i = j \/ i < j \/ j < i
  BY <1>1, SMT
<1> QED BY <1>3, <1>4, <1>5 DEF Distance

-----------------------------------------------------------------------------
\* print begins in front of the first instruction.
LEMMA StartPrintInv ==
  ASSUME Inv, NEW l \in BOOLEAN, StartPrint(l)
  PROVE  Inv'
<1>1. TypeOK /\ Layout
  BY DEF Inv
<1>2. /\ labels' = l /\ labelIndices' = {} /\ pc' = 0 /\ output' = <<>>
      /\ UNCHANGED <<added, starts, code>>
      /\ phase' = IF l THEN "find" ELSE "print"
  BY DEF StartPrint
<1>3. TypeOK'
  <2>1. IsFiniteSet({})
    BY FS_EmptySet
  <2> QED BY <1>1, <1>2, <2>1, EmptySeq DEF TypeOK
<1>4. Layout' /\ StartOf(1)' = 0 /\ \A n : Targets(n)' = Targets(n)
  BY <1>1, <1>2, SameFunction DEF Layout
<1>5. Len(added) \in Nat /\ Len(output') = 0
  BY <1>1, <1>2, Lengths, EmptySeq
<1>6. FindInv'
  <2>1. SUFFICES ASSUME phase' = "find" PROVE FindInv'
    BY DEF FindInv
  <2>2. labels' /\ output' = <<>>
    BY <1>2, <2>1
  <2>3. 1 \in 1..(Len(added) + 1) /\ 1 - 1 = 0 /\ 0 \in 0..Len(added)
    BY <1>5, SMT
  <2>4. Targets(1 - 1)' = {}
    BY <1>1, <1>4, <2>3, TargetsTypes
  <2> QED BY <1>2, <1>4, <2>2, <2>3, <2>4 DEF FindInv
<1>7. PrintInv'
  <2>1. SUFFICES ASSUME phase' \in {"print", "printed"} PROVE PrintInv'
    BY DEF PrintInv
  <2>2. ~labels' /\ phase' = "print"
    BY <1>2, <2>1
  <2>3. Len(output') + 1 = 1 /\ Len(output') <= Len(added) /\ \A k : k \notin 1..Len(output')
    BY <1>5, SMT
  <2> QED BY <1>2, <1>4, <2>2, <2>3 DEF PrintInv
<1> QED BY <1>3, <1>4, <1>6, <1>7 DEF Inv

\* A turn of the loop that looks for labels.
LEMMA FindStep ==
  ASSUME Inv, Find
  PROVE  Inv'
<1>1. TypeOK /\ Layout /\ FindInv
  BY DEF Inv
<1>2. /\ phase = "find" /\ phase' = "find" /\ pc < Len(code) /\ pc' = pc + Size
      /\ labels' = labels /\ output' = output /\ UNCHANGED <<added, starts, code>>
      /\ labelIndices' = labelIndices \cup (IF Op \in Jump THEN {Target} ELSE {})
  BY DEF Find, Running, Advance
<1>3. labels /\ output = <<>>
  BY <1>1, <1>2 DEF FindInv
<1>4. PICK k \in 1..(Len(added) + 1) : pc = StartOf(k) /\ labelIndices = Targets(k - 1)
  BY <1>1, <1>2 DEF FindInv
<1>5. /\ k \in 1..Len(added) /\ pc = starts[k] /\ added[k] \in Insts
      /\ Decoded(added[k]) /\ pc + Size = StartOf(k + 1)
  BY <1>1, <1>2, <1>4, AtInstruction
<1>6. Op = added[k].op /\ (Op \in Jump => Target = JumpTarget(k))
  <2>1. Op = added[k].op /\ (Op \in WithImmediate => Immediate(pc) = added[k].arg[1])
    BY <1>5 DEF Decoded
  <2>2. Op \in Jump => Op \in WithImmediate
    BY <1>5, <2>1, InstTypes, Kinds
  <2> QED BY <1>5, <2>1, <2>2 DEF Target, JumpTarget
<1>7. /\ Len(added) \in Nat /\ k \in 0..Len(added)
      /\ k + 1 \in 1..(Len(added) + 1) /\ (k + 1) - 1 = k
  BY <1>1, <1>5, Lengths, SMT
<1>8. labelIndices' = Targets(k)
  BY <1>1, <1>2, <1>4, <1>5, <1>6, NextTarget
<1>9. IsFiniteSet(labelIndices') /\ labelIndices' \subseteq Int
  <2>1. labelIndices' = labelIndices \cup {Target} \/ labelIndices' = labelIndices
    BY <1>2
  <2>2. IsFiniteSet(labelIndices)
    BY <1>1 DEF TypeOK
  <2>3. IsFiniteSet(labelIndices \cup {Target})
    BY <2>2, FS_AddElement
  <2> QED BY <1>1, <1>7, <1>8, <2>1, <2>2, <2>3, TargetsTypes
<1>10. pc' \in Nat
  <2>1. Size = Len(Bytes(added[k])) /\ Encoded(Bytes(added[k]), added[k])
    BY <1>5, BytesEncoded DEF Decoded
  <2>2. Size \in Nat /\ pc \in Nat
    BY <1>1, <2>1, LenProperties DEF Encoded, TypeOK
  <2> QED BY <1>2, <2>2, SMT
<1>11. TypeOK'
  BY <1>1, <1>2, <1>9, <1>10 DEF TypeOK
<1>12. Layout' /\ StartOf(k + 1)' = StartOf(k + 1) /\ Targets((k + 1) - 1)' = Targets(k)
  BY <1>1, <1>2, <1>7, SameFunction
<1>13. FindInv'
  BY <1>2, <1>3, <1>5, <1>7, <1>8, <1>12 DEF FindInv
<1>14. PrintInv'
  BY <1>2 DEF PrintInv
<1> QED BY <1>11, <1>12, <1>13, <1>14 DEF Inv

\* That loop ends behind the last instruction, with all labels.
LEMMA FindEndStep ==
  ASSUME Inv, FindEnd
  PROVE  Inv'
<1>1. TypeOK /\ Layout /\ FindInv
  BY DEF Inv
<1>2. /\ phase = "find" /\ phase' = "print" /\ pc >= Len(code) /\ pc' = 0
      /\ UNCHANGED <<added, starts, code, labels, labelIndices, output>>
  BY DEF FindEnd
<1>3. labels /\ output = <<>>
  BY <1>1, <1>2 DEF FindInv
<1>4. PICK k \in 1..(Len(added) + 1) : pc = StartOf(k) /\ labelIndices = Targets(k - 1)
  BY <1>1, <1>2 DEF FindInv
<1>5. k = Len(added) + 1
  BY <1>1, <1>2, <1>4, AtInstruction
<1>6. Len(added) \in Nat /\ Len(output') = 0
  BY <1>1, <1>2, <1>3, Lengths, EmptySeq
<1>7. k - 1 = Len(added)
  BY <1>5, <1>6, SMT
<1>8. TypeOK'
  BY <1>1, <1>2 DEF TypeOK
<1>9. Layout' /\ StartOf(1)' = 0 /\ Targets(Len(added))' = Targets(Len(added))
  BY <1>1, <1>2, SameFunction DEF Layout
<1>10. FindInv'
  BY <1>2 DEF FindInv
<1>11. PrintInv'
  <2>1. Len(output') + 1 = 1 /\ Len(output') <= Len(added') /\ \A j : j \notin 1..Len(output')
    BY <1>2, <1>6, SMT
  <2>2. labelIndices' = Targets(Len(added))'
    BY <1>2, <1>4, <1>7, <1>9
  <2> QED BY <1>2, <1>3, <1>9, <2>1, <2>2 DEF PrintInv
<1> QED BY <1>8, <1>9, <1>10, <1>11 DEF Inv

\* A sequence of one element.
LEMMA OneElement ==
  ASSUME NEW S, NEW x \in S
  PROVE  <<x>> \in Seq(S)
BY SMT

\* What PrintLine appends is the line of the instruction that was added there.
LEMMA LineRead ==
  ASSUME TypeOK, NEW k \in 1..Len(added), pc = starts[k], Decoded(added[k])
  PROVE  Line = LineOf(k) /\ Line \in [label : Int, op : Nat, arg : Seq(Int)]
<1> DEFINE i == added[k]
<1>1. i \in Insts /\ pc \in Nat
  BY Lengths
<1>2. i.op \in 0..19 /\ i.arg \in Seq(Int) /\ Op = i.op
  BY <1>1, InstTypes DEF Decoded
<1>3. ASSUME NEW T, i.arg[1] \in T, Len(i.arg) = 1 PROVE i.arg = <<i.arg[1]>>
  BY <1>2, <1>3, Singleton
<1>4. ASSUME i.op \in Jump, labels
      PROVE  Shown = <<Distance(JumpTarget(k))>> /\ Shown \in Seq(Int)
  <2>1. Op \in Jump /\ i.op \in WithImmediate /\ Immediate(pc) = i.arg[1]
    BY <1>2, <1>4, Kinds DEF Decoded
  <2>2. Target = JumpTarget(k) /\ Target \in Int
    <3>1. i.arg[1] \in Int
      BY <1>1, <2>1, InstTypes, IntRange
    <3> QED BY <1>1, <2>1, <3>1, SMT DEF Target, JumpTarget
  <2>3. i.op \notin TwoBytes /\ i.op # ConstNum /\ i.op \notin Plain
    BY <1>2, <2>1, Kinds
  <2>4. Shown = <<Distance(Target)>>
    BY <1>2, <1>4, <2>1, <2>3 DEF Shown
  <2>5. Distance(Target) \in Int
    <3>1. Distance(Target) \in Nat
      BY <2>2, DistanceTypes
    <3> QED BY <3>1, SMT
  <2>6. Shown \in Seq(Int)
    BY <2>4, <2>5, OneElement
  <2> QED BY <2>2, <2>4, <2>6
<1>5. ASSUME ~(i.op \in Jump /\ labels)
      PROVE  Shown = i.arg
  <2>1. ASSUME i.op \in WithImmediate PROVE Shown = i.arg
    <3>1. Immediate(pc) = i.arg[1] /\ i.arg = <<i.arg[1]>>
      BY <1>1, <1>3, <2>1, InstTypes DEF Decoded
    <3>2. i.op \notin TwoBytes /\ i.op # ConstNum /\ i.op \notin Plain
      BY <1>2, <2>1, Kinds
    <3>3. Shown = <<Immediate(pc)>>
      BY <1>2, <1>5, <2>1, <3>2 DEF Shown
    <3> QED BY <3>1, <3>3
  <2>2. ASSUME i.op \in TwoBytes PROVE Shown = i.arg
    <3>1. At(pc + 1) = i.arg[1]
      BY <2>2 DEF Decoded
    <3>2. Len(i.arg) = 1
      BY <1>1, <1>2, <2>2, InstTypes, Kinds
    <3>3. i.arg = <<i.arg[1]>>
      BY <1>3, <3>2
    <3>4. i.op \notin WithImmediate /\ i.op # ConstNum /\ i.op \notin Plain /\ i.op \notin Jump
      BY <1>2, <2>2, Kinds
    <3>5. Shown = <<At(pc + 1)>>
      BY <1>2, <2>2, <3>4 DEF Shown
    <3> QED BY <3>1, <3>3, <3>5
  <2>3. ASSUME i.op = ConstNum PROVE Shown = i.arg
    <3>1. SubSeq(code, pc + 2, pc + 9) = i.arg
      BY <2>3 DEF Decoded
    <3>2. i.op \notin WithImmediate /\ i.op \notin TwoBytes /\ i.op \notin Plain /\ i.op \notin Jump
      BY <1>2, <2>3, Kinds
    <3>3. Shown = SubSeq(code, pc + 2, pc + 9)
      BY <1>2, <2>3, <3>2 DEF Shown
    <3> QED BY <3>1, <3>3
  <2>4. ASSUME i.op \in Plain PROVE Shown = i.arg
    <3>1. i.arg = <<>>
      BY <1>1, <2>4, InstTypes
    <3>2. i.op \notin WithImmediate /\ i.op \notin TwoBytes /\ i.op # ConstNum /\ i.op \notin Jump
      BY <1>2, <2>4, Kinds
    <3>3. Shown = <<>>
      BY <1>2, <2>4, <3>2 DEF Shown
    <3> QED BY <3>1, <3>3
  <2> QED BY <1>2, <2>1, <2>2, <2>3, <2>4, Kinds
<1>6. /\ Shown = IF i.op \in Jump /\ labels THEN <<Distance(JumpTarget(k))>> ELSE i.arg
      /\ Shown \in Seq(Int)
  BY <1>2, <1>4, <1>5
<1>7. Line = LineOf(k)
  BY <1>2, <1>6 DEF Line, LineOf
<1>8. Op \in Nat
  <2>1. \A o \in 0..19 : o \in Nat
    BY SMT
  <2> QED BY <1>2, <2>1
<1>9. Line.label \in Int
  <2>1. Distance(pc) \in Int
    <3>1. pc \in Int
      BY <1>1, SMT
    <3>2. Distance(pc) \in Nat
      BY <3>1, DistanceTypes
    <3> QED BY <3>2, SMT
  <2>2. NoLabel \in Int
    BY SMT DEF NoLabel
  <2> QED BY <2>1, <2>2 DEF Line
<1>10. Line \in [label : Int, op : Nat, arg : Seq(Int)]
  BY <1>6, <1>8, <1>9 DEF Line
<1> QED BY <1>7, <1>10

\* A turn of the loop that writes the listing.
LEMMA PrintLineStep ==
  ASSUME Inv, PrintLine
  PROVE  Inv'
<1> SUFFICES ASSUME NEW k, k = Len(output) + 1 PROVE Inv'
  OBVIOUS
<1>1. TypeOK /\ Layout /\ PrintInv
  BY DEF Inv
<1>2. /\ phase = "print" /\ phase' = "print" /\ pc < Len(code) /\ pc' = pc + Size
      /\ UNCHANGED <<added, starts, code, labels, labelIndices>>
      /\ output' = Append(output, Line)
  BY DEF PrintLine, Running, Advance
<1>3. /\ Len(output) <= Len(added) /\ pc = StartOf(k)
      /\ labelIndices = IF labels THEN Targets(Len(added)) ELSE {}
      /\ \A j \in 1..Len(output) : output[j] = LineOf(j)
  BY <1>1, <1>2 DEF PrintInv
<1>4. /\ Len(output) \in Nat /\ Len(added) \in Nat /\ k \in 1..(Len(added) + 1)
  BY <1>1, <1>3, Lengths, SMT
<1>5. /\ k \in 1..Len(added) /\ pc = starts[k] /\ added[k] \in Insts
      /\ Decoded(added[k]) /\ pc + Size = StartOf(k + 1)
  BY <1>1, <1>2, <1>3, <1>4, AtInstruction
<1>6. Line = LineOf(k) /\ Line \in [label : Int, op : Nat, arg : Seq(Int)]
  BY <1>1, <1>5, LineRead
<1>7. /\ output' \in Seq([label : Int, op : Nat, arg : Seq(Int)])
      /\ Len(output') = k /\ \A j \in 1..Len(output) : output'[j] = output[j]
      /\ output'[k] = Line
  BY <1>1, <1>2, <1>6, AppendProperties DEF TypeOK
<1>8. pc' \in Nat
  <2>1. Size = Len(Bytes(added[k])) /\ Encoded(Bytes(added[k]), added[k])
    BY <1>5, BytesEncoded DEF Decoded
  <2>2. Size \in Nat /\ pc \in Nat
    BY <1>1, <2>1, LenProperties DEF Encoded, TypeOK
  <2> QED BY <1>2, <2>2, SMT
<1>9. TypeOK'
  BY <1>1, <1>2, <1>7, <1>8 DEF TypeOK
<1>10. Layout' /\ \A j : StartOf(j)' = StartOf(j) /\ Targets(Len(added))' = Targets(Len(added))
  BY <1>1, <1>2, SameFunction
<1>11. \A j : LineOf(j)' = LineOf(j)
  BY <1>2 DEF LineOf, Distance, JumpTarget
<1>12. FindInv'
  BY <1>2 DEF FindInv
<1>13. PrintInv'
  <2>1. Len(output') <= Len(added)
    BY <1>4, <1>5, <1>7, SMT
  <2>2. pc' = StartOf(Len(output) + 1)'
    <3>1. pc' = IF k + 1 <= Len(starts') THEN starts'[k + 1] ELSE Len(code')
      BY <1>2, <1>5 DEF StartOf
    <3>2. Len(output') = k
      BY <1>7
    <3> QED BY <3>1, <3>2 DEF StartOf
  <2>3. labelIndices' = IF labels' THEN Targets(Len(added))' ELSE {}
    BY <1>2, <1>3, <1>10
  <2>4. ASSUME NEW j \in 1..Len(output') PROVE output'[j] = LineOf(j)'
    <3>1. j \in 1..Len(output) \/ j = k
      BY <1>4, <1>7, SMT
    <3> QED BY <3>1, <1>3, <1>6, <1>7, <1>11
  <2> QED BY <1>2, <2>1, <2>2, <2>3, <2>4 DEF PrintInv
<1> QED BY <1>9, <1>10, <1>12, <1>13 DEF Inv

\* That loop ends behind the last instruction, with all lines.
LEMMA PrintEndStep ==
  ASSUME Inv, PrintEnd
  PROVE  Inv'
<1>1. TypeOK /\ Layout /\ PrintInv
  BY DEF Inv
<1>2. /\ phase = "print" /\ phase' = "printed" /\ pc >= Len(code)
      /\ UNCHANGED <<added, starts, code, labels, labelIndices, pc, output>>
  BY DEF PrintEnd
<1>3. /\ Len(output) <= Len(added) /\ pc = StartOf(Len(output) + 1)
      /\ labelIndices = IF labels THEN Targets(Len(added)) ELSE {}
      /\ \A j \in 1..Len(output) : output[j] = LineOf(j)
  BY <1>1, <1>2 DEF PrintInv
<1>4. Len(output) \in Nat /\ Len(added) \in Nat /\ Len(output) + 1 \in 1..(Len(added) + 1)
  BY <1>1, <1>3, Lengths, SMT
<1>5. Len(output) + 1 = Len(added) + 1
  BY <1>1, <1>2, <1>3, <1>4, AtInstruction
<1>6. Len(output) = Len(added)
  BY <1>4, <1>5, SMT
<1>7. TypeOK'
  BY <1>1, <1>2 DEF TypeOK
<1>8. Layout' /\ Targets(Len(added))' = Targets(Len(added))
  BY <1>1, <1>2, SameFunction
<1>9. pc' = StartOf(Len(output) + 1)'
  BY <1>2, <1>3 DEF StartOf
<1>10. \A j : LineOf(j)' = LineOf(j)
  BY <1>2 DEF LineOf, Distance, JumpTarget
<1>11. FindInv' /\ PrintInv'
  BY <1>2, <1>3, <1>6, <1>8, <1>9, <1>10 DEF FindInv, PrintInv
<1> QED BY <1>7, <1>8, <1>11 DEF Inv

\* print returns.
LEMMA DoneStep ==
  ASSUME Inv, Done
  PROVE  Inv'
<1>1. TypeOK /\ Layout
  BY DEF Inv
<1>2. /\ phase' = "add" /\ labels' = FALSE /\ labelIndices' = {} /\ pc' = 0 /\ output' = <<>>
      /\ UNCHANGED <<added, starts, code>>
  BY DEF Done
<1>3. TypeOK'
  <2>1. IsFiniteSet({})
    BY FS_EmptySet
  <2> QED BY <1>1, <1>2, <2>1, EmptySeq DEF TypeOK
<1>4. Layout'
  BY <1>1, <1>2, SameFunction
<1>5. FindInv' /\ PrintInv'
  BY <1>2 DEF FindInv, PrintInv
<1> QED BY <1>3, <1>4, <1>5 DEF Inv

\* Nothing happens.
LEMMA StutterStep ==
  ASSUME Inv, UNCHANGED vars
  PROVE  Inv'
<1>1. /\ UNCHANGED <<added, starts, code>>
      /\ UNCHANGED <<phase, labels, labelIndices, pc, output>>
  BY DEF vars
<1>2. TypeOK' /\ Layout' /\ Targets(Len(added))' = Targets(Len(added))
  BY <1>1, SameFunction DEF Inv, TypeOK
<1>3. FindInv'
  <2>1. /\ \A n : Targets(n)' = Targets(n)
        /\ \A k : StartOf(k)' = StartOf(k)
    BY <1>1, SameFunction
  <2>2. FindInv
    BY DEF Inv
  <2>3. SUFFICES ASSUME phase' = "find" PROVE FindInv'
    BY DEF FindInv
  <2>4. labels' /\ output' = <<>>
    BY <1>1, <2>2, <2>3 DEF FindInv
  <2>5. PICK k \in 1..(Len(added) + 1) : pc = StartOf(k) /\ labelIndices = Targets(k - 1)
    BY <1>1, <2>2, <2>3 DEF FindInv
  <2>6. pc' = StartOf(k)' /\ labelIndices' = Targets(k - 1)'
    BY <1>1, <2>5 DEF StartOf, Targets, JumpTarget
  <2>7. k \in 1..(Len(added') + 1)
    BY <1>1
  <2> QED BY <2>4, <2>6, <2>7 DEF FindInv
<1>4. PrintInv'
  <2>1. \A j : LineOf(j)' = LineOf(j)
    BY <1>1 DEF LineOf, Distance, JumpTarget
  <2>2. StartOf(Len(output) + 1)' = StartOf(Len(output) + 1)
    BY <1>1 DEF StartOf
  <2>3. PrintInv
    BY DEF Inv
  <2> QED BY <1>1, <1>2, <2>1, <2>2, <2>3 DEF PrintInv
<1> QED BY <1>2, <1>3, <1>4 DEF Inv

\* The invariant is inductive.
LEMMA InvAlways == Spec => []Inv
<1>1. Init => Inv
  BY InitInv
<1>2. Inv /\ [Next]_vars => Inv'
  <2> SUFFICES ASSUME Inv, [Next]_vars PROVE Inv'
    OBVIOUS
  <2>1. CASE \E i \in Insts : Add(i)
    BY <2>1, AddInv
  <2>2. CASE \E l \in BOOLEAN : StartPrint(l)
    BY <2>2, StartPrintInv
  <2>3. CASE Find
    BY <2>3, FindStep
  <2>4. CASE FindEnd
    BY <2>4, FindEndStep
  <2>5. CASE PrintLine
    BY <2>5, PrintLineStep
  <2>6. CASE PrintEnd
    BY <2>6, PrintEndStep
  <2>7. CASE Done
    BY <2>7, DoneStep
  <2>8. CASE UNCHANGED vars
    BY <2>8, StutterStep
  <2> QED BY <2>1, <2>2, <2>3, <2>4, <2>5, <2>6, <2>7, <2>8 DEF Next, Pass
<1> QED BY <1>1, <1>2, PTL DEF Spec

-----------------------------------------------------------------------------
\* Whatever instructions are added and printed, the variables of Encoding keep their
\* types: the code is bytes (addImm, instructions.cpp:24-43).
THEOREM EncodingTypes == Spec => []TypeOK
<1>1. Inv => TypeOK
  BY DEF Inv
<1> QED BY <1>1, InvAlways, PTL

\* Both passes of print (instructions.cpp:187-317) stand at the beginning of an
\* instruction that was added, read it within the code and do not throw, whatever
\* the bytes of ints and doubles are.
THEOREM PassesStayOnInstructions == Spec => []OnInstruction
<1>1. Inv => OnInstruction
  <2> SUFFICES ASSUME Inv, Running PROVE /\ \E k \in DOMAIN added : pc = starts[k] /\ Op = added[k].op
                                         /\ Legible /\ pc + Size <= Len(code)
    BY DEF OnInstruction
  <2>1. TypeOK /\ Layout /\ FindInv /\ PrintInv /\ pc < Len(code)
    BY DEF Inv, Running
  <2>2. \E k \in 1..(Len(added) + 1) : pc = StartOf(k)
    <3>1. CASE phase = "find"
      BY <3>1, <2>1 DEF FindInv
    <3>2. CASE phase = "print"
      <4>1. Len(output) <= Len(added) /\ pc = StartOf(Len(output) + 1)
        BY <3>2, <2>1 DEF PrintInv
      <4>2. Len(output) + 1 \in 1..(Len(added) + 1)
        BY <2>1, <4>1, Lengths, SMT
      <4> QED BY <4>1, <4>2
    <3> QED BY <3>1, <3>2 DEF Running, Walking
  <2>3. PICK k \in 1..(Len(added) + 1) : pc = StartOf(k)
    BY <2>2
  <2>4. /\ k \in 1..Len(added) /\ pc = starts[k] /\ Decoded(added[k]) /\ pc + Size <= Len(code)
    BY <2>1, <2>3, AtInstruction
  <2> QED BY <2>1, <2>4, Lengths DEF Decoded
<1> QED BY <1>1, InvAlways, PTL

\* The listing print writes has the instructions that were added, in order, with the
\* arguments they were added with, and the label of a jump stands at the instruction
\* it jumps to and at no other, for every function.
THEOREM ListingIsFaithful == Spec => []ListingFaithful
<1>1. Inv => ListingFaithful
  <2> SUFFICES ASSUME Inv, phase = "printed" PROVE ListingFaithful
    BY DEF ListingFaithful
  <2>1. TypeOK /\ PrintInv
    BY DEF Inv
  <2>2. /\ Len(output) = Len(added)
        /\ labelIndices = IF labels THEN Targets(Len(added)) ELSE {}
        /\ \A j \in 1..Len(output) : output[j] = LineOf(j)
    BY <2>1 DEF PrintInv
  <2>3. DOMAIN output = DOMAIN added /\ DOMAIN added = 1..Len(added) /\ Len(added) \in Nat
    BY <2>1, <2>2, Lengths
  <2>4. ASSUME NEW i \in DOMAIN added, ~(labels /\ added[i].op \in Jump)
        PROVE  output[i].arg = added[i].arg
    BY <2>2, <2>3, <2>4 DEF LineOf
  <2>5. ASSUME NEW i \in DOMAIN added, labels, added[i].op \in Jump, NEW j \in DOMAIN added
        PROVE  output[j].label = output[i].arg[1] <=> starts[j] = JumpTarget(i)
    <3>1. JumpTarget(i) \in labelIndices /\ labelIndices \subseteq Int
      <4>1. Len(added) \in 0..Len(added)
        BY <2>3, SMT
      <4> QED BY <2>1, <2>2, <2>3, <2>5, <4>1, TargetsTypes DEF TypeOK
    <3>2. Distance(JumpTarget(i)) \in Nat
      BY <2>1, <3>1, DistanceTypes
    <3>3. output[i].arg = <<Distance(JumpTarget(i))>>
      BY <2>2, <2>3, <2>5 DEF LineOf
    <3>4. output[i].arg[1] = Distance(JumpTarget(i))
      BY <3>3
    <3>5. CASE starts[j] \in labelIndices
      <4>1. output[j].label = Distance(starts[j])
        BY <2>2, <2>3, <2>5, <3>5 DEF LineOf
      <4> QED BY <4>1, <3>1, <3>4, <3>5, <2>1, DistanceTypes
    <3>6. CASE starts[j] \notin labelIndices
      <4>1. output[j].label = NoLabel
        BY <2>2, <2>3, <3>6 DEF LineOf
      <4>2. Distance(JumpTarget(i)) # NoLabel
        BY <3>2, SMT DEF NoLabel
      <4>3. starts[j] # JumpTarget(i)
        BY <3>1, <3>6
      <4> QED BY <4>1, <4>2, <4>3, <3>4
    <3> QED BY <3>5, <3>6
  <2>6. \A i \in DOMAIN added : output[i].op = added[i].op
    BY <2>2, <2>3 DEF LineOf
  <2> QED BY <2>3, <2>4, <2>5, <2>6 DEF ListingFaithful
<1> QED BY <1>1, InvAlways, PTL

=============================================================================
