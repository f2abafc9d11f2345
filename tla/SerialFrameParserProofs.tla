---------------------- MODULE SerialFrameParserProofs ----------------------
(***************************************************************************)
(* What TLAPS proves of the frame parser, for every configuration, every   *)
(* size of a byte, every stream and every cut of it into offers.           *)
(*                                                                         *)
(* The loop of the parser is a recursive function over buffers.  That it   *)
(* exists, that it is the only one and what it returns is proved by        *)
(* induction over the length of the buffer, stated of sets of numbers.     *)
(* The heart is LoopInPieces: the loop over a stream does what the loop    *)
(* over its first part does, and then the loop over what that left pending *)
(* and the rest of the stream.                                             *)
(***************************************************************************)
EXTENDS SerialFrameParser, FiniteSets, FiniteSetTheorems, FunctionTheorems,
        SequenceTheorems, WellFoundedInduction, TLAPS

-----------------------------------------------------------------------------
(* Induction                                                               *)


\* A set of numbers that is not empty has a least one.
LEMMA LeastNumber ==
  ASSUME NEW T, T \subseteq Nat, T # {}
  PROVE  \E x \in T : \A y \in T : x <= y
<1>1. IsWellFoundedOn(OpToRel(<, Nat), Nat)
  BY NatLessThanWellFounded
<1> DEFINE R == OpToRel(<, Nat)
<1>2. PICK x \in T : \A y \in T : ~(<<y, x>> \in R)
  <2> HIDE DEF R
  <2> QED
    BY <1>1, WFMin DEF R
<1>3. \A y \in T : ~(y < x)
  BY <1>2 DEF OpToRel
<1> QED
  BY ONLY T \subseteq Nat, <1>3

\* A set with 0 and the successors of its elements has every number.
LEMMA NumberInduction ==
  ASSUME NEW S, 0 \in S, \A n \in Nat : n \in S => n + 1 \in S
  PROVE  Nat \subseteq S
<1> SUFFICES ASSUME NEW k \in Nat \ S PROVE FALSE
  OBVIOUS
<1> DEFINE T == Nat \ S
<1>1. PICK x \in T : \A y \in T : x <= y
  <2>1. T \subseteq Nat /\ T # {}
    OBVIOUS
  <2> HIDE DEF T
  <2> QED
    BY <2>1, LeastNumber
<1>2. x # 0 /\ x - 1 \in Nat
  BY DEF T
<1>3. x - 1 \in S
  BY <1>1, <1>2
<1>4. x - 1 + 1 = x
  BY <1>1
<1> QED
  BY <1>1, <1>2, <1>3, <1>4

-----------------------------------------------------------------------------
(* configurations, slices of a sequence, and the length field               *)

\* What the init of a configuration has checked.
LEMMA ConfigFacts ==
  ASSUME config \in Configs
  PROVE  /\ config.header \in Seq(Bytes) /\ Len(config.header) \in Nat
         /\ Len(config.header) >= 1
         /\ config.footer \in Seq(Bytes)
         /\ config.lengthOffset \in Nat /\ config.lengthSize \in 1..4
         /\ config.minimumFrameSize \in Nat /\ config.maximumFrameSize \in Nat
         /\ config.maximumBufferSize \in Nat /\ config.checksumSize \in Nat
         /\ config.minimumFrameSize >= Len(config.header)
         /\ config.maximumFrameSize >= config.minimumFrameSize
         /\ config.maximumBufferSize >= config.maximumFrameSize
         /\ config.lengthOffset + config.lengthSize <= config.maximumBufferSize
<1>1. ConfigIsValid(config)
      /\ config.lengthOffset + config.lengthSize <= config.maximumBufferSize
  BY FrameAssumption
<1>2. config.header \in Seq(Bytes) /\ config.header # << >>
  BY <1>1 DEF ConfigIsValid
<1>3. Len(config.header) \in Nat /\ Len(config.header) >= 1
  BY <1>2, EmptySeq, LenProperties
<1>4. {config.lengthOffset, config.minimumFrameSize, config.maximumFrameSize,
       config.maximumBufferSize, config.checksumSize} \subseteq Int
  BY <1>1 DEF ConfigIsValid
<1>5. /\ config.footer \in Seq(Bytes)
      /\ config.lengthOffset >= 0 /\ config.lengthSize \in 1..4
      /\ config.minimumFrameSize >= Len(config.header)
      /\ config.maximumFrameSize >= config.minimumFrameSize
      /\ config.maximumBufferSize >= config.maximumFrameSize
      /\ config.checksumSize >= 0
  BY <1>1 DEF ConfigIsValid
<1>6. /\ config.lengthOffset \in Nat /\ config.minimumFrameSize \in Nat
      /\ config.maximumFrameSize \in Nat /\ config.maximumBufferSize \in Nat
      /\ config.checksumSize \in Nat
  BY ONLY <1>3, <1>4, <1>5
<1> QED
  BY ONLY <1>1, <1>2, <1>3, <1>5, <1>6

\* Bytes are integers, and the arithmetic of Int gives integers.
LEMMA WrapInt ==
  Bytes \subseteq Int /\ Base \in Int /\ \A n \in Int : Wrap(n) \in Int
<1>1. Base \in Nat /\ Base >= 2
  BY FrameAssumption
<1>2. Bytes \subseteq Int
  BY <1>1 DEF Bytes
<1> DEFINE m == Base * Base * Base * Base
<1>3. m \in Int /\ m > 0
  <2>1. \A a \in Nat, b \in Nat : a >= 2 /\ b >= 2 => a * b \in Nat /\ a * b >= 2
    <3> SUFFICES ASSUME NEW a \in Nat, NEW b \in Nat, a >= 2, b >= 2
                 PROVE  a * b \in Nat /\ a * b >= 2
      OBVIOUS
    <3>1. a * b = 2 * b + (a - 2) * b
      OBVIOUS
    <3>2. (a - 2) * b >= 0 /\ (a - 2) * b \in Int
      OBVIOUS
    <3> QED
      BY <3>1, <3>2
  <2>2. Base * Base \in Nat /\ Base * Base >= 2
    BY <1>1, <2>1
  <2>3. Base * Base * Base \in Nat /\ Base * Base * Base >= 2
    BY <1>1, <2>1, <2>2
  <2>4. m \in Nat /\ m >= 2
    BY <1>1, <2>1, <2>3
  <2> QED
    BY ONLY <2>4
<1>4. \A n \in Int : Wrap(n) = ((n + m \div 2) % m) - m \div 2
  BY DEF Wrap
<1>5. \A n \in Int : ((n + m \div 2) % m) - m \div 2 \in Int
  <2> HIDE DEF m
  <2> QED
    BY ONLY <1>3
<1> QED
  BY ONLY <1>1, <1>2, <1>4, <1>5

\* f has the values of the first n bytes of a field.
Values(field, f, n) ==
    f = [k \in 0..n |-> IF k = 0 THEN 0 ELSE Wrap(f[k - 1] * Base + field[k])]

\* The recursive function of Unsigned exists.
LEMMA ValuesExist ==
  ASSUME NEW field, NEW n \in Nat PROVE \E f : Values(field, f, n)
<1> DEFINE S == {k \in Nat : \E f : Values(field, f, k)}
<1>1. 0 \in S
  <2> DEFINE f == [i \in 0..0 |-> 0]
  <2>1. Values(field, f, 0)
    BY DEF Values
  <2> QED
    BY <2>1
<1>2. ASSUME NEW k \in Nat, k \in S PROVE k + 1 \in S
  <2>1. PICK f : Values(field, f, k)
    BY <1>2
  <2> DEFINE g == [i \in 0..(k + 1) |->
                     IF i = 0 THEN 0 ELSE Wrap(f[i - 1] * Base + field[i])]
  <2>2. \A i \in 0..k : g[i] = f[i]
    <3>1. \A i \in 0..k : f[i] = IF i = 0 THEN 0 ELSE Wrap(f[i - 1] * Base + field[i])
      <4>1. f = [i \in 0..k |-> IF i = 0 THEN 0 ELSE Wrap(f[i - 1] * Base + field[i])]
        BY <2>1 DEF Values
      <4> QED
        BY <4>1
    <3>2. \A i \in 0..k : i \in 0..(k + 1)
      OBVIOUS
    <3> QED
      BY <3>1, <3>2
  <2>3. Values(field, g, k + 1)
    <3>1. \A i \in 0..(k + 1) : i # 0 => i - 1 \in 0..k
      OBVIOUS
    <3>2. \A i \in 0..(k + 1) : i # 0 => g[i - 1] = f[i - 1]
      BY <2>2, <3>1
    <3>3. g = [i \in 0..(k + 1) |->
                 IF i = 0 THEN 0 ELSE Wrap(g[i - 1] * Base + field[i])]
      BY <3>2
    <3> HIDE DEF g
    <3> QED
      BY <3>3 DEF Values
  <2> HIDE DEF g
  <2> QED
    BY <2>3
<1>3. Nat \subseteq S
  <2> HIDE DEF S
  <2> QED
    BY <1>1, <1>2, NumberInduction
<1> QED
  BY <1>3

\* A length field has a value.
LEMMA UnsignedInt ==
  ASSUME NEW field \in Seq(Bytes) PROVE Unsigned(field) \in Int
<1> DEFINE n == Len(field)
           value == CHOOSE f : f = [k \in 0..n |->
                      IF k = 0 THEN 0 ELSE Wrap(f[k - 1] * Base + field[k])]
<1>1. n \in Nat
  OBVIOUS
<1>2. value = [k \in 0..n |-> IF k = 0 THEN 0 ELSE Wrap(value[k - 1] * Base + field[k])]
  <2>1. \E f : Values(field, f, n)
    BY <1>1, ValuesExist
  <2>2. \E f : f = [k \in 0..n |-> IF k = 0 THEN 0 ELSE Wrap(f[k - 1] * Base + field[k])]
    BY <2>1 DEF Values
  <2> QED
    BY <2>2
<1>3. Unsigned(field) = value[n]
  BY DEF Unsigned
<1> HIDE DEF value
<1> DEFINE S == {k \in Nat : k <= n => value[k] \in Int}
<1>4. 0 \in S
  BY <1>1, <1>2
<1>5. ASSUME NEW k \in Nat, k \in S PROVE k + 1 \in S
  <2> SUFFICES ASSUME k + 1 <= n PROVE value[k + 1] \in Int
    OBVIOUS
  <2>1. k + 1 \in 0..n /\ k + 1 # 0 /\ k + 1 - 1 = k /\ k <= n /\ k + 1 \in 1..n
    BY <1>1
  <2>2. value[k + 1] = Wrap(value[k] * Base + field[k + 1])
    BY <1>2, <2>1
  <2>3. value[k] \in Int
    BY <1>5, <2>1
  <2>4. field[k + 1] \in Int
    <3>1. field[k + 1] \in Bytes
      BY ONLY <2>1, field \in Seq(Bytes), n = Len(field), ElementOfSeq
    <3> QED
      BY ONLY <3>1, WrapInt
  <2>5. value[k] * Base + field[k + 1] \in Int
    <3>1. \A x \in Int, y \in Int, z \in Int : x * y + z \in Int
      OBVIOUS
    <3> QED
      BY ONLY <2>3, <2>4, WrapInt, <3>1
  <2> QED
    BY ONLY <2>2, <2>5, WrapInt
<1>6. Nat \subseteq S
  <2> HIDE DEF S
  <2> QED
    BY <1>4, <1>5, NumberInduction
<1> QED
  BY <1>1, <1>3, <1>6

\* A slice within a buffer.
LEMMA SliceFacts ==
  ASSUME NEW s \in Seq(Bytes), NEW a \in Nat \ {0}, NEW b \in Int, b <= Len(s)
  PROVE  /\ SubSeq(s, a, b) \in Seq(Bytes)
         /\ Len(SubSeq(s, a, b)) = IF a <= b THEN b - a + 1 ELSE 0
         /\ \A i \in 1..(b - a + 1) : SubSeq(s, a, b)[i] = s[a + i - 1]
<1>1. \A i \in a..b : s[i] \in Bytes
  <2> TAKE i \in a..b
  <2>1. Len(s) \in Nat
    OBVIOUS
  <2>2. i \in 1..Len(s)
    BY <2>1
  <2> QED
    BY <2>2, ElementOfSeq
<1>2. a \in Int
  OBVIOUS
<1> QED
  BY ONLY <1>1, <1>2, b \in Int, SubSeqProperties

\* A buffer without its first n bytes.
LEMMA DropFacts ==
  ASSUME NEW s \in Seq(Bytes), NEW n \in Nat, n <= Len(s)
  PROVE  /\ DropFirst(s, n) \in Seq(Bytes) /\ Len(DropFirst(s, n)) = Len(s) - n
         /\ \A i \in 1..(Len(s) - n) : DropFirst(s, n)[i] = s[n + i]
         /\ \A i \in 1..(Len(s) - n) : n + i \in 1..Len(s)
<1>1. Len(s) \in Nat
  OBVIOUS
<1>2. n + 1 \in Nat \ {0} /\ Len(s) \in Int /\ Len(s) <= Len(s)
  BY <1>1
<1>3. /\ SubSeq(s, n + 1, Len(s)) \in Seq(Bytes)
      /\ Len(SubSeq(s, n + 1, Len(s))) = IF n + 1 <= Len(s) THEN Len(s) - (n + 1) + 1 ELSE 0
      /\ \A i \in 1..(Len(s) - (n + 1) + 1) : SubSeq(s, n + 1, Len(s))[i] = s[n + 1 + i - 1]
  BY ONLY s \in Seq(Bytes), <1>2, SliceFacts
<1> DEFINE len == Len(s)
           d == SubSeq(s, n + 1, Len(s))
<1>4. d = DropFirst(s, n)
  BY DEF DropFirst
<1>5. /\ d \in Seq(Bytes)
      /\ Len(d) = IF n + 1 <= len THEN len - (n + 1) + 1 ELSE 0
      /\ \A i \in 1..(len - (n + 1) + 1) : d[i] = s[n + 1 + i - 1]
      /\ len \in Nat /\ n <= len
  BY <1>1, <1>3
<1> HIDE DEF d, len
<1>6. Len(d) = len - n
  BY ONLY <1>5, n \in Nat
<1>7. \A i \in 1..(len - n) : i \in 1..(len - (n + 1) + 1) /\ n + 1 + i - 1 = n + i
                              /\ n + i \in 1..len
  BY ONLY <1>5, n \in Nat
<1>8. \A i \in 1..(len - n) : d[i] = s[n + i]
  BY ONLY <1>5, <1>7
<1> QED
  BY ONLY <1>4, <1>5, <1>6, <1>7, <1>8 DEF len

\* Two buffers with the same bytes are the same.
LEMMA SameBytes ==
  ASSUME NEW s \in Seq(Bytes), NEW t \in Seq(Bytes), Len(s) = Len(t),
         \A i \in 1..Len(s) : s[i] = t[i]
  PROVE  s = t
BY SeqEqual

\* What the concatenation of two buffers holds.
LEMMA ConcatFacts ==
  ASSUME NEW s \in Seq(Bytes), NEW t \in Seq(Bytes)
  PROVE  /\ s \o t \in Seq(Bytes) /\ Len(s \o t) = Len(s) + Len(t)
         /\ \A i \in 1..Len(s) : (s \o t)[i] = s[i]
         /\ \A i \in 1..Len(t) : (s \o t)[Len(s) + i] = t[i]
         /\ Len(s) \in Nat /\ Len(t) \in Nat
<1>1. /\ s \o t \in Seq(Bytes) /\ Len(s \o t) = Len(s) + Len(t)
      /\ \A i \in 1..Len(s) + Len(t) :
            (s \o t)[i] = IF i <= Len(s) THEN s[i] ELSE t[i - Len(s)]
  BY ConcatProperties
<1>2. Len(s) \in Nat /\ Len(t) \in Nat
  OBVIOUS
<1>3. \A i \in 1..Len(s) : i \in 1..Len(s) + Len(t) /\ i <= Len(s)
  BY <1>2
<1>4. \A i \in 1..Len(t) : /\ Len(s) + i \in 1..Len(s) + Len(t) /\ ~(Len(s) + i <= Len(s))
                          /\ (Len(s) + i) - Len(s) = i
  BY <1>2
<1> QED
  BY <1>1, <1>2, <1>3, <1>4

\* Nothing dropped, everything dropped, and bytes dropped twice.
LEMMA DropDrop ==
  ASSUME NEW s \in Seq(Bytes)
  PROVE  /\ DropFirst(s, 0) = s /\ DropFirst(s, Len(s)) = << >>
         /\ \A a \in Nat, b \in Nat :
               a + b <= Len(s) => DropFirst(DropFirst(s, a), b) = DropFirst(s, a + b)
<1> DEFINE len == Len(s)
<1>0. len \in Nat /\ len <= len /\ 0 <= len /\ len - 0 = len /\ len - len = 0
  OBVIOUS
<1>1. DropFirst(s, 0) = s
  <2>1. /\ DropFirst(s, 0) \in Seq(Bytes) /\ Len(DropFirst(s, 0)) = len
        /\ \A i \in 1..len : DropFirst(s, 0)[i] = s[0 + i]
    BY <1>0, DropFacts
  <2>2. \A i \in 1..len : 0 + i = i
    OBVIOUS
  <2>3. \A i \in 1..len : DropFirst(s, 0)[i] = s[i]
    BY ONLY <2>1, <2>2
  <2> QED
    BY ONLY <2>1, <2>3, s \in Seq(Bytes), SameBytes DEF len
<1>2. DropFirst(s, Len(s)) = << >>
  <2>1. DropFirst(s, len) \in Seq(Bytes) /\ Len(DropFirst(s, len)) = 0
    BY <1>0, DropFacts
  <2> QED
    BY <2>1, EmptySeq
<1>3. ASSUME NEW a \in Nat, NEW b \in Nat, a + b <= Len(s)
      PROVE  DropFirst(DropFirst(s, a), b) = DropFirst(s, a + b)
  <2> DEFINE d == DropFirst(s, a)
             e == DropFirst(d, b)
             f == DropFirst(s, a + b)
  <2>1. a <= len /\ a + b \in Nat /\ a + b <= len
    BY <1>0, <1>3
  <2>2. /\ d \in Seq(Bytes) /\ Len(d) = len - a
        /\ \A i \in 1..(len - a) : d[i] = s[a + i]
    BY <2>1, DropFacts
  <2>3. b <= Len(d)
    BY <1>0, <2>1, <2>2
  <2>4. /\ e \in Seq(Bytes) /\ Len(e) = Len(d) - b
        /\ \A i \in 1..(Len(d) - b) : e[i] = d[b + i]
    <3> HIDE DEF d
    <3> QED
      BY <2>2, <2>3, DropFacts
  <2>5. /\ f \in Seq(Bytes) /\ Len(f) = len - (a + b)
        /\ \A i \in 1..(len - (a + b)) : f[i] = s[a + b + i]
    BY <2>1, DropFacts
  <2> HIDE DEF d, e, f, len
  <2>6. Len(e) = Len(f)
    BY ONLY <1>0, <2>2, <2>4, <2>5, a \in Nat, b \in Nat
  <2>7. \A i \in 1..Len(e) : /\ i \in 1..(Len(d) - b) /\ i \in 1..(len - (a + b))
                             /\ b + i \in 1..(len - a) /\ a + (b + i) = a + b + i
    BY ONLY <1>0, <2>2, <2>4, <2>5, <2>1, a \in Nat, b \in Nat
  <2>8. \A i \in 1..Len(e) : e[i] = f[i]
    BY ONLY <2>2, <2>4, <2>5, <2>7
  <2>9. e = f
    BY ONLY <2>4, <2>5, <2>6, <2>8, SameBytes
  <2> QED
    BY <2>9 DEF d, e, f
<1> QED
  BY <1>1, <1>2, <1>3

\* Bytes dropped from a stream that has more behind them.
LEMMA DropConcat ==
  ASSUME NEW s \in Seq(Bytes), NEW t \in Seq(Bytes), NEW n \in Nat, n <= Len(s)
  PROVE  DropFirst(s \o t, n) = DropFirst(s, n) \o t
<1> DEFINE c == s \o t
           d == DropFirst(s, n)
           e == DropFirst(c, n)
           f == d \o t
<1>1. /\ c \in Seq(Bytes) /\ Len(c) = Len(s) + Len(t)
      /\ \A i \in 1..Len(s) : c[i] = s[i]
      /\ \A i \in 1..Len(t) : c[Len(s) + i] = t[i]
      /\ Len(s) \in Nat /\ Len(t) \in Nat
  BY ConcatFacts
<1>2. /\ d \in Seq(Bytes) /\ Len(d) = Len(s) - n
      /\ \A i \in 1..(Len(s) - n) : d[i] = s[n + i]
  BY DropFacts
<1>3. n <= Len(c)
  BY ONLY <1>1, n \in Nat, n <= Len(s)
<1>4. /\ e \in Seq(Bytes) /\ Len(e) = Len(c) - n
      /\ \A i \in 1..(Len(c) - n) : e[i] = c[n + i]
  <2> HIDE DEF c
  <2> QED
    BY <1>1, <1>3, DropFacts
<1>5. /\ f \in Seq(Bytes) /\ Len(f) = Len(d) + Len(t)
      /\ \A i \in 1..Len(d) : f[i] = d[i]
      /\ \A i \in 1..Len(t) : f[Len(d) + i] = t[i]
  <2> HIDE DEF d
  <2> QED
    BY <1>2, ConcatFacts
<1> HIDE DEF c, d, e, f
<1>6. Len(e) = Len(f)
  BY ONLY <1>1, <1>2, <1>4, <1>5, n \in Nat, n <= Len(s)
<1>7. ASSUME NEW i \in 1..Len(e) PROVE e[i] = f[i]
  <2>1. e[i] = c[n + i]
    BY ONLY <1>7, <1>4
  <2>2. CASE i <= Len(d)
    <3>1. i \in 1..Len(d) /\ i \in 1..(Len(s) - n) /\ n + i \in 1..Len(s)
      BY ONLY <2>2, <1>7, <1>1, <1>2, n \in Nat, n <= Len(s)
    <3> QED
      BY ONLY <2>1, <3>1, <1>1, <1>2, <1>5
  <2>3. CASE ~(i <= Len(d))
    <3> DEFINE j == i - Len(d)
    <3>1. j \in 1..Len(t) /\ n + i = Len(s) + j /\ i = Len(d) + j
      BY ONLY <2>3, <1>7, <1>1, <1>2, <1>4, n \in Nat, n <= Len(s)
    <3> HIDE DEF j
    <3> QED
      BY ONLY <2>1, <3>1, <1>1, <1>5
  <2> QED
    BY <2>2, <2>3
<1>8. e = f
  BY ONLY <1>4, <1>5, <1>6, <1>7, SameBytes
<1> QED
  BY <1>8 DEF c, d, e, f

\* A slice of the first part of a stream.
LEMMA SliceOfConcat ==
  ASSUME NEW s \in Seq(Bytes), NEW t \in Seq(Bytes), NEW a \in Nat \ {0}, NEW b \in Int,
         b <= Len(s)
  PROVE  SubSeq(s \o t, a, b) = SubSeq(s, a, b)
<1> DEFINE c == s \o t
           e == SubSeq(c, a, b)
           f == SubSeq(s, a, b)
<1>1. /\ c \in Seq(Bytes) /\ Len(c) = Len(s) + Len(t)
      /\ \A i \in 1..Len(s) : c[i] = s[i]
      /\ Len(s) \in Nat /\ Len(t) \in Nat
  BY ConcatFacts
<1>2. b <= Len(c)
  BY ONLY <1>1, b \in Int, b <= Len(s)
<1>3. /\ e \in Seq(Bytes) /\ Len(e) = IF a <= b THEN b - a + 1 ELSE 0
      /\ \A i \in 1..(b - a + 1) : e[i] = c[a + i - 1]
  <2> HIDE DEF c
  <2> QED
    BY <1>1, <1>2, SliceFacts
<1>4. /\ f \in Seq(Bytes) /\ Len(f) = IF a <= b THEN b - a + 1 ELSE 0
      /\ \A i \in 1..(b - a + 1) : f[i] = s[a + i - 1]
  BY SliceFacts
<1> HIDE DEF c, e, f
<1>5. \A i \in 1..Len(e) : i \in 1..(b - a + 1) /\ a + i - 1 \in 1..Len(s)
  BY ONLY <1>1, <1>3, a \in Nat \ {0}, b \in Int, b <= Len(s)
<1>6. \A i \in 1..Len(e) : e[i] = f[i]
  BY ONLY <1>1, <1>3, <1>4, <1>5
<1>7. e = f
  BY ONLY <1>3, <1>4, <1>6, SameBytes
<1> QED
  BY <1>7 DEF c, e, f

\* A slice of what is left of a buffer.
LEMMA SliceOfDrop ==
  ASSUME NEW s \in Seq(Bytes), NEW n \in Nat, NEW b \in Nat, n + b <= Len(s)
  PROVE  SubSeq(DropFirst(s, n), 1, b) = SubSeq(s, n + 1, n + b)
<1> DEFINE d == DropFirst(s, n)
           e == SubSeq(d, 1, b)
           f == SubSeq(s, n + 1, n + b)
<1>0. Len(s) \in Nat
  OBVIOUS
<1>1. n <= Len(s) /\ n + 1 \in Nat \ {0} /\ n + b \in Int /\ b \in Int /\ 1 \in Nat \ {0}
  BY <1>0
<1>2. /\ d \in Seq(Bytes) /\ Len(d) = Len(s) - n
      /\ \A i \in 1..(Len(s) - n) : d[i] = s[n + i]
  BY <1>1, DropFacts
<1>3. b <= Len(d)
  BY ONLY <1>0, <1>2, n \in Nat, b \in Nat, n + b <= Len(s)
<1>4. /\ e \in Seq(Bytes) /\ Len(e) = IF 1 <= b THEN b - 1 + 1 ELSE 0
      /\ \A i \in 1..(b - 1 + 1) : e[i] = d[1 + i - 1]
  <2> HIDE DEF d
  <2> QED
    BY ONLY <1>1, <1>2, <1>3, SliceFacts
<1>5. /\ f \in Seq(Bytes) /\ Len(f) = IF n + 1 <= n + b THEN n + b - (n + 1) + 1 ELSE 0
      /\ \A i \in 1..(n + b - (n + 1) + 1) : f[i] = s[n + 1 + i - 1]
  BY ONLY s \in Seq(Bytes), <1>1, n + b <= Len(s), SliceFacts
<1> HIDE DEF d, e, f
<1>6. Len(e) = Len(f)
  BY ONLY <1>4, <1>5, n \in Nat, b \in Nat
<1>7. \A i \in 1..Len(e) : /\ i \in 1..(b - 1 + 1) /\ 1 + i - 1 = i
                           /\ i \in 1..(Len(s) - n) /\ i \in 1..(n + b - (n + 1) + 1)
                           /\ n + 1 + i - 1 = n + i
  BY ONLY <1>0, <1>4, n \in Nat, b \in Nat, n + b <= Len(s)
<1>8. ASSUME NEW i \in 1..Len(e) PROVE e[i] = f[i]
  <2>1. e[i] = d[i]
    <3>1. e[i] = d[1 + i - 1]
      BY ONLY <1>4, <1>7
    <3> QED
      BY <1>7, <3>1
  <2>2. d[i] = s[n + i]
    BY ONLY <1>2, <1>7
  <2>3. f[i] = s[n + i]
    <3>1. f[i] = s[n + 1 + i - 1]
      BY ONLY <1>5, <1>7
    <3> QED
      BY <1>7, <3>1
  <2> QED
    BY <2>1, <2>2, <2>3
<1>9. e = f
  BY ONLY <1>4, <1>5, <1>6, <1>8, SameBytes
<1> QED
  BY <1>9 DEF d, e, f

\* The last n bytes are what is left when the others are dropped.
LEMMA TakeFacts ==
  ASSUME NEW s \in Seq(Bytes), NEW n \in Nat
  PROVE  LET d == IF Len(s) <= n THEN 0 ELSE Len(s) - n
         IN  /\ d \in Nat /\ d <= Len(s) /\ Len(s) - d <= n
             /\ TakeLast(s, n) = DropFirst(s, d)
<1>1. Len(s) \in Nat
  OBVIOUS
<1>2. CASE Len(s) <= n
  <2>1. TakeLast(s, n) = DropFirst(s, 0)
    BY <1>2, DropDrop DEF TakeLast
  <2> QED
    BY ONLY <1>1, <1>2, <2>1
<1>3. CASE ~(Len(s) <= n)
  <2>1. TakeLast(s, n) = DropFirst(s, Len(s) - n)
    BY <1>3 DEF TakeLast, DropFirst
  <2> QED
    BY ONLY <1>1, <1>3, <2>1, n \in Nat
<1> QED
  BY <1>2, <1>3

-----------------------------------------------------------------------------
(* headers, and one pass of the loop                                        *)

\* A header is found byte by byte.
LEMMA HeaderByBytes ==
  ASSUME config \in Configs, NEW s \in Seq(Bytes), NEW i \in Nat \ {0}
  PROVE  HeaderAt(s, i) <=>
            /\ i + Len(config.header) - 1 <= Len(s)
            /\ \A j \in 1..Len(config.header) : s[i + j - 1] = config.header[j]
<1> DEFINE h == config.header
           last == i + Len(h) - 1
           f == SubSeq(s, i, last)
<1>1. h \in Seq(Bytes) /\ Len(h) \in Nat /\ Len(h) >= 1
  BY ConfigFacts
<1>2. HeaderAt(s, i) <=> last <= Len(s) /\ f = h
  BY DEF HeaderAt
<1> HIDE DEF h
<1> SUFFICES ASSUME last <= Len(s)
             PROVE  f = h <=> \A j \in 1..Len(h) : s[i + j - 1] = h[j]
  BY <1>2 DEF h
<1>3. last \in Int
  BY <1>1
<1>4. /\ f \in Seq(Bytes) /\ Len(f) = IF i <= last THEN last - i + 1 ELSE 0
      /\ \A j \in 1..(last - i + 1) : f[j] = s[i + j - 1]
  BY <1>3, SliceFacts
<1>5. Len(f) = Len(h) /\ last - i + 1 = Len(h)
  BY ONLY <1>1, <1>4, i \in Nat \ {0}
<1> HIDE DEF f, last
<1>6. \A j \in 1..Len(h) : f[j] = s[i + j - 1]
  BY ONLY <1>4, <1>5
<1>7. ASSUME \A j \in 1..Len(h) : s[i + j - 1] = h[j] PROVE f = h
  <2>1. \A j \in 1..Len(f) : f[j] = h[j]
    BY ONLY <1>5, <1>6, <1>7
  <2> QED
    BY ONLY <1>1, <1>4, <1>5, <2>1, SameBytes
<1> QED
  BY ONLY <1>6, <1>7

\* A header is in what is left of a buffer where it was in the buffer.
LEMMA HeaderInDrop ==
  ASSUME config \in Configs, NEW s \in Seq(Bytes), NEW n \in Nat, n <= Len(s),
         NEW i \in Nat \ {0}
  PROVE  HeaderAt(DropFirst(s, n), i) <=> HeaderAt(s, n + i)
<1> DEFINE h == config.header
           d == DropFirst(s, n)
<1>1. h \in Seq(Bytes) /\ Len(h) \in Nat /\ Len(h) >= 1
  BY ConfigFacts
<1>2. /\ d \in Seq(Bytes) /\ Len(d) = Len(s) - n
      /\ \A k \in 1..(Len(s) - n) : d[k] = s[n + k]
  BY DropFacts
<1>3. n + i \in Nat \ {0} /\ Len(s) \in Nat
  OBVIOUS
<1>4. HeaderAt(s, n + i) <=> /\ n + i + Len(h) - 1 <= Len(s)
                             /\ \A j \in 1..Len(h) : s[n + i + j - 1] = h[j]
  BY <1>3, HeaderByBytes
<1> HIDE DEF d
<1>5. HeaderAt(d, i) <=> /\ i + Len(h) - 1 <= Len(d)
                         /\ \A j \in 1..Len(h) : d[i + j - 1] = h[j]
  BY <1>2, HeaderByBytes
<1> HIDE DEF h
<1>6. n + i + Len(h) - 1 <= Len(s) <=> i + Len(h) - 1 <= Len(d)
  BY ONLY <1>1, <1>2, <1>3, n \in Nat, i \in Nat \ {0}
<1>7. ASSUME i + Len(h) - 1 <= Len(d), NEW j \in 1..Len(h)
      PROVE  d[i + j - 1] = s[n + i + j - 1]
  <2>1. i + j - 1 \in 1..(Len(s) - n) /\ n + (i + j - 1) = n + i + j - 1
    BY ONLY <1>1, <1>2, <1>3, <1>7, n \in Nat, i \in Nat \ {0}
  <2> QED
    BY ONLY <1>2, <2>1
<1>8. HeaderAt(d, i) <=> HeaderAt(s, n + i)
  BY ONLY <1>4, <1>5, <1>6, <1>7
<1> QED
  BY <1>8 DEF d

\* A header is in the first part of a stream where it is in the stream.
LEMMA HeaderInConcat ==
  ASSUME config \in Configs, NEW s \in Seq(Bytes), NEW t \in Seq(Bytes),
         NEW i \in Nat \ {0}
  PROVE  HeaderAt(s, i) <=>
            i + Len(config.header) - 1 <= Len(s) /\ HeaderAt(s \o t, i)
<1> DEFINE h == config.header
           c == s \o t
<1>1. h \in Seq(Bytes) /\ Len(h) \in Nat /\ Len(h) >= 1
  BY ConfigFacts
<1>2. /\ c \in Seq(Bytes) /\ Len(c) = Len(s) + Len(t)
      /\ \A k \in 1..Len(s) : c[k] = s[k]
      /\ Len(s) \in Nat /\ Len(t) \in Nat
  BY ConcatFacts
<1>3. HeaderAt(s, i) <=> /\ i + Len(h) - 1 <= Len(s)
                         /\ \A j \in 1..Len(h) : s[i + j - 1] = h[j]
  BY HeaderByBytes
<1> HIDE DEF c
<1>4. HeaderAt(c, i) <=> /\ i + Len(h) - 1 <= Len(c)
                         /\ \A j \in 1..Len(h) : c[i + j - 1] = h[j]
  BY <1>2, HeaderByBytes
<1> HIDE DEF h
<1>5. ASSUME i + Len(h) - 1 <= Len(s)
      PROVE  /\ i + Len(h) - 1 <= Len(c)
             /\ \A j \in 1..Len(h) : c[i + j - 1] = s[i + j - 1]
  <2>1. \A j \in 1..Len(h) : i + j - 1 \in 1..Len(s)
    BY ONLY <1>1, <1>2, <1>5, i \in Nat \ {0}
  <2>2. i + Len(h) - 1 <= Len(c)
    BY ONLY <1>1, <1>2, <1>5, i \in Nat \ {0}
  <2> QED
    BY ONLY <1>2, <2>1, <2>2
<1>6. HeaderAt(s, i) <=> i + Len(h) - 1 <= Len(s) /\ HeaderAt(c, i)
  BY ONLY <1>3, <1>4, <1>5
<1> QED
  BY <1>6 DEF c, h

\* indexOfHeader finds the first header, if there is one.
LEMMA IndexFacts ==
  ASSUME config \in Configs, NEW s \in Seq(Bytes)
  PROVE  /\ IndexOfHeader(s) \in Nat
         /\ IndexOfHeader(s) = 0 => \A i \in Nat \ {0} : ~HeaderAt(s, i)
         /\ IndexOfHeader(s) # 0 =>
               /\ IndexOfHeader(s) <= Len(s) /\ HeaderAt(s, IndexOfHeader(s))
               /\ \A i \in Nat \ {0} : HeaderAt(s, i) => IndexOfHeader(s) <= i
<1> DEFINE places == {i \in 1..Len(s) : HeaderAt(s, i)}
           least == CHOOSE x \in places : \A y \in places : x =< y
<1>1. IndexOfHeader(s) = IF places = {} THEN 0 ELSE least
  BY DEF IndexOfHeader, SetExt!Min
<1>2. Len(s) \in Nat /\ Len(config.header) \in Nat /\ Len(config.header) >= 1
  BY ConfigFacts
<1>3. \A i \in Nat \ {0} : HeaderAt(s, i) => i + Len(config.header) - 1 <= Len(s)
  BY DEF HeaderAt
<1>4. \A i \in Nat \ {0} : HeaderAt(s, i) => i \in places
  BY ONLY <1>2, <1>3
<1>5. places # {} => least \in places /\ \A y \in places : least <= y
  <2> SUFFICES ASSUME places # {} PROVE \E x \in places : \A y \in places : x <= y
    OBVIOUS
  <2>1. places \subseteq Nat
    BY <1>2
  <2> HIDE DEF places
  <2> QED
    BY ONLY places # {}, <2>1, LeastNumber
<1>6. places # {} => least \in Nat /\ least # 0 /\ least <= Len(s) /\ HeaderAt(s, least)
  <2> HIDE DEF least
  <2> QED
    BY ONLY <1>2, <1>5
<1> HIDE DEF places, least
<1> QED
  BY ONLY <1>1, <1>4, <1>5, <1>6

\* Where the header is the first thing, it is found first.
LEMMA HeaderFirst ==
  ASSUME config \in Configs, NEW s \in Seq(Bytes), HeaderAt(s, 1)
  PROVE  IndexOfHeader(s) = 1
<1>1. IndexOfHeader(s) \in Nat /\ IndexOfHeader(s) # 0
  BY IndexFacts
<1>2. IndexOfHeader(s) <= 1
  BY <1>1, IndexFacts
<1> QED
  BY ONLY <1>1, <1>2

\* The size of a frame whose length field is there.
LEMMA SizeFacts ==
  ASSUME config \in Configs, NEW s \in Seq(Bytes),
         config.lengthOffset + config.lengthSize <= Len(s)
  PROVE  /\ FrameSize(s) \in Int
         /\ \A t \in Seq(Bytes) : FrameSize(s \o t) = FrameSize(s)
<1> DEFINE a == config.lengthOffset + 1
           b == config.lengthOffset + config.lengthSize
           field(u) == SubSeq(u, a, b)
           value(g) == Unsigned(IF config.littleEndian THEN SeqExt!Reverse(g) ELSE g)
<1>1. config.lengthOffset \in Nat /\ config.lengthSize \in 1..4 /\ Len(config.header) \in Nat
  BY ConfigFacts
<1>2. a \in Nat \ {0} /\ b \in Int /\ b <= Len(s)
  BY <1>1
<1>3. \A u : ReadUnsigned(u) = value(field(u))
  BY DEF ReadUnsigned
<1>4. \A u : FrameSize(u) = IF config.lengthIncludesHeader THEN ReadUnsigned(u)
                            ELSE Wrap(ReadUnsigned(u) + Len(config.header) + config.lengthSize)
  BY DEF FrameSize
<1>5. field(s) \in Seq(Bytes)
  <2> HIDE DEF a, b
  <2> QED
    BY <1>2, SliceFacts
<1>6. \A g \in Seq(Bytes) : SeqExt!Reverse(g) \in Seq(Bytes)
  <2> SUFFICES ASSUME NEW g \in Seq(Bytes) PROVE SeqExt!Reverse(g) \in Seq(Bytes)
    OBVIOUS
  <2>1. Len(g) \in Nat /\ \A i \in 1..Len(g) : g[i] \in Bytes
    BY ElementOfSeq
  <2>2. \A i \in 1..Len(g) : (Len(g) - i) + 1 \in 1..Len(g)
    BY <2>1
  <2>3. SeqExt!Reverse(g) = [i \in 1..Len(g) |-> g[(Len(g) - i) + 1]]
    BY DEF SeqExt!Reverse
  <2>4. SeqExt!Reverse(g) \in [1..Len(g) -> Bytes]
    BY ONLY <2>1, <2>2, <2>3
  <2> QED
    BY ONLY <2>1, <2>4, SeqDef
<1>7. value(field(s)) \in Int
  <2> HIDE DEF field
  <2>1. CASE config.littleEndian
    <3>1. SeqExt!Reverse(field(s)) \in Seq(Bytes)
      BY <1>5, <1>6
    <3> DEFINE g == SeqExt!Reverse(field(s))
    <3> HIDE DEF g
    <3>2. Unsigned(g) \in Int
      BY <3>1, UnsignedInt DEF g
    <3> QED
      BY <3>2, <2>1 DEF g
  <2>2. CASE ~config.littleEndian
    <3>1. Unsigned(field(s)) \in Int
      BY <1>5, UnsignedInt
    <3> QED
      BY <3>1, <2>2
  <2> QED
    BY <2>1, <2>2
<1>8. \A t \in Seq(Bytes) : field(s \o t) = field(s)
  <2> HIDE DEF a, b
  <2> QED
    BY <1>2, SliceOfConcat
<1> HIDE DEF field, value
<1>9. FrameSize(s) \in Int
  <2>1. ReadUnsigned(s) \in Int
    BY <1>3, <1>7
  <2>2. ReadUnsigned(s) + Len(config.header) + config.lengthSize \in Int
    BY <1>1, <2>1
  <2>3. Wrap(ReadUnsigned(s) + Len(config.header) + config.lengthSize) \in Int
    BY <2>2, WrapInt
  <2> QED
    BY <1>4, <2>1, <2>3
<1>10. \A t \in Seq(Bytes) : FrameSize(s \o t) = FrameSize(s)
  BY <1>3, <1>4, <1>8
<1> QED
  BY <1>9, <1>10

\* What a pass finds is a frame, an error or nothing yet.
LEMMA VerdictFacts ==
  ASSUME NEW frame PROVE Verdict(frame) \in Errors \cup {"frame"} /\ Verdict(frame) # "break"
BY DEF Verdict, Errors

\* A pass that starts with a header stops or consumes a part of the buffer; it stops
\* when bytes of one frame are missing, which fits the buffer of the parser.
LEMMA PassFacts ==
  ASSUME config \in Configs, NEW s \in Seq(Bytes), Len(config.header) <= Len(s)
  PROVE  /\ Pass(s).consumed \in Nat /\ Pass(s).consumed <= Len(s)
         /\ Pass(s).what # "break" =>
               /\ Pass(s).consumed >= 1 /\ Pass(s).what \in Errors \cup {"frame"}
               /\ config.lengthOffset + config.lengthSize <= Len(s)
         /\ Pass(s).what = "break" =>
               IF Len(s) < config.lengthOffset + config.lengthSize
                 THEN config.lengthOffset + config.lengthSize <= config.maximumBufferSize
                 ELSE Len(s) < FrameSize(s) /\ FrameSize(s) <= config.maximumBufferSize
         /\ \A t \in Seq(Bytes) : Pass(s).what # "break" => Pass(s \o t) = Pass(s)
<1> DEFINE lengthEnd == config.lengthOffset + config.lengthSize
           size == FrameSize(s)
           min == config.minimumFrameSize
           max == config.maximumFrameSize
           limit == config.maximumBufferSize
           h == Len(config.header)
           len == Len(s)
           pass == Pass(s)
           skip(e) == [consumed |-> h, what |-> e]
           break == [consumed |-> 0, what |-> "break"]
           verdict == Verdict(SubSeq(s, 1, size))
<1>1. /\ lengthEnd \in Nat /\ h \in Nat /\ h >= 1 /\ len \in Nat /\ h <= len
      /\ min \in Nat /\ max \in Nat /\ limit \in Nat
      /\ min >= h /\ limit >= max /\ lengthEnd <= limit
  <2>1. /\ config.lengthOffset \in Nat /\ config.lengthSize \in 1..4
        /\ h \in Nat /\ h >= 1 /\ min \in Nat /\ max \in Nat /\ limit \in Nat
        /\ min >= h /\ limit >= max /\ lengthEnd <= limit
    BY ConfigFacts
  <2>2. len \in Nat /\ h <= len
    OBVIOUS
  <2>3. lengthEnd \in Nat
    BY ONLY <2>1
  <2> QED
    BY ONLY <2>1, <2>2, <2>3
<1>2. pass = IF len < lengthEnd THEN break
             ELSE IF size < min THEN skip("InvalidLength")
             ELSE IF size > max THEN skip("Oversized")
             ELSE IF len < size THEN break
             ELSE [consumed |-> size, what |-> verdict]
  BY DEF Pass
<1>3. lengthEnd <= len => size \in Int /\ \A t \in Seq(Bytes) : FrameSize(s \o t) = size
  BY SizeFacts
<1>4. {"InvalidLength", "Oversized"} \subseteq Errors
      /\ verdict \in Errors \cup {"frame"} /\ verdict # "break"
  BY VerdictFacts DEF Errors
<1>5. ASSUME NEW t \in Seq(Bytes), pass.what # "break" PROVE Pass(s \o t) = pass
  <2> DEFINE u == s \o t
             lenu == Len(u)
             whole == SubSeq(u, 1, size)
  <2>1. lenu \in Nat /\ lenu >= len
    <3>1. lenu = len + Len(t) /\ Len(t) \in Nat
      BY ConcatFacts
    <3> QED
      BY ONLY <3>1, <1>1
  <2>2. lengthEnd <= len
    <3> HIDE DEF pass, lengthEnd, len
    <3> QED
      BY ONLY <1>1, <1>2, <1>5
  <2>3. size \in Int /\ FrameSize(u) = size
    BY <1>3, <2>2
  <2>4. size <= len => whole = SubSeq(s, 1, size)
    <3> HIDE DEF size
    <3> QED
      BY <2>3, SliceOfConcat
  <2>5. Pass(u) = IF lenu < lengthEnd THEN break
                  ELSE IF size < min THEN skip("InvalidLength")
                  ELSE IF size > max THEN skip("Oversized")
                  ELSE IF lenu < size THEN break
                  ELSE [consumed |-> size, what |-> Verdict(whole)]
    <3> HIDE DEF u
    <3>1. Pass(u) = IF lenu < lengthEnd THEN break
                    ELSE IF FrameSize(u) < min THEN skip("InvalidLength")
                    ELSE IF FrameSize(u) > max THEN skip("Oversized")
                    ELSE IF lenu < FrameSize(u) THEN break
                    ELSE [consumed |-> FrameSize(u),
                          what |-> Verdict(SubSeq(u, 1, FrameSize(u)))]
      BY DEF Pass
    <3> QED
      BY <3>1, <2>3
  <2>6. size <= len => Verdict(whole) = verdict
    BY <2>4
  <2> HIDE DEF u, lenu, whole, lengthEnd, size, min, max, h, len, pass, verdict
  <2>7. Pass(u) = pass
    BY ONLY <1>1, <1>2, <1>5, <2>1, <2>2, <2>3, <2>5, <2>6
  <2> QED
    BY <2>7 DEF u
<1> HIDE DEF lengthEnd, size, min, max, limit, h, len, pass, verdict
<1>6. pass.consumed \in Nat /\ pass.consumed <= len
  BY ONLY <1>1, <1>2, <1>3
<1>7. pass.what # "break" =>
        pass.consumed >= 1 /\ pass.what \in Errors \cup {"frame"} /\ lengthEnd <= len
  BY ONLY <1>1, <1>2, <1>3, <1>4
<1>8. pass.what = "break" =>
        IF len < lengthEnd THEN lengthEnd <= limit ELSE len < size /\ size <= limit
  BY ONLY <1>1, <1>2, <1>3, <1>4
<1> QED
  BY <1>5, <1>6, <1>7, <1>8 DEF pass, len, lengthEnd, limit, size

-----------------------------------------------------------------------------
(* the loop                                                                 *)

\* What the loop makes of the buffer s when f is what it makes of shorter ones.
LoopStep(f, s) ==
    LET start == IndexOfHeader(s)
        found == DropFirst(s, start - 1)
        pass == Pass(found)
        rest == f[DropFirst(found, pass.consumed)]
        stop(left) == [pending |-> left, frames |-> << >>, errors |-> << >>]
    IN  IF start = 0 THEN stop(DropNoise(s))
        ELSE IF pass.what = "break" THEN stop(found)
        ELSE IF pass.what = "frame"
          THEN [rest EXCEPT !.frames = <<SubSeq(found, 1, pass.consumed)>> \o @]
        ELSE [rest EXCEPT !.errors = <<pass.what>> \o @]

\* The buffer from its first header on, and what is left of it after a pass.
Found(s) == DropFirst(s, IndexOfHeader(s) - 1)
Left(s) == DropFirst(Found(s), Pass(Found(s)).consumed)
IsPassed(s) == IndexOfHeader(s) # 0 /\ Pass(Found(s)).what # "break"

\* What is left after a pass is shorter.
LEMMA LeftFacts ==
  ASSUME config \in Configs, NEW s \in Seq(Bytes), IndexOfHeader(s) # 0
  PROVE  /\ Found(s) \in Seq(Bytes) /\ HeaderAt(Found(s), 1)
         /\ Len(config.header) <= Len(Found(s)) /\ Len(Found(s)) <= Len(s)
         /\ Len(Found(s)) = Len(s) - (IndexOfHeader(s) - 1)
         /\ Left(s) \in Seq(Bytes)
         /\ Pass(Found(s)).what # "break" => Len(Left(s)) < Len(s)
<1> DEFINE start == IndexOfHeader(s)
           n == start - 1
           d == DropFirst(s, n)
<1>1. start \in Nat /\ start # 0 /\ start <= Len(s) /\ HeaderAt(s, start)
  BY IndexFacts
<1>2. n \in Nat /\ n <= Len(s) /\ n + 1 = start /\ Len(s) \in Nat /\ 1 \in Nat \ {0}
  <2>1. Len(s) \in Nat
    OBVIOUS
  <2> HIDE DEF start
  <2> QED
    BY ONLY <1>1, <2>1
<1> HIDE DEF n
<1>3. d \in Seq(Bytes) /\ Len(d) = Len(s) - n
  BY <1>2, DropFacts
<1>4. HeaderAt(d, 1)
  BY <1>1, <1>2, HeaderInDrop
<1>5. d = Found(s)
  BY DEF Found, n
<1> HIDE DEF d, start
<1>6. Len(config.header) <= Len(d)
  <2>1. 1 + Len(config.header) - 1 <= Len(d)
    BY <1>4 DEF HeaderAt
  <2>2. Len(config.header) \in Nat
    BY ConfigFacts
  <2> QED
    BY ONLY <2>1, <2>2, <1>2, <1>3
<1> DEFINE m == Pass(d).consumed
           left == DropFirst(d, m)
<1>7. m \in Nat /\ m <= Len(d) /\ (Pass(d).what # "break" => m >= 1)
  BY <1>3, <1>6, PassFacts
<1>8. left \in Seq(Bytes) /\ Len(left) = Len(d) - m
  <2> HIDE DEF m
  <2> QED
    BY <1>3, <1>7, DropFacts
<1>9. left = Left(s)
  BY <1>5 DEF Left
<1> HIDE DEF m, left
<1>10. Pass(d).what # "break" => Len(left) < Len(s)
  BY ONLY <1>2, <1>3, <1>7, <1>8
<1>11. Len(d) <= Len(s)
  BY ONLY <1>2, <1>3
<1> QED
  BY <1>3, <1>4, <1>5, <1>6, <1>8, <1>9, <1>10, <1>11 DEF n, start

\* The step looks at shorter buffers only.
LEMMA StepIsLocal ==
  ASSUME config \in Configs, NEW f, NEW g, NEW s \in Seq(Bytes),
         \A t \in Seq(Bytes) : Len(t) < Len(s) => f[t] = g[t]
  PROVE  LoopStep(f, s) = LoopStep(g, s)
<1> DEFINE start == IndexOfHeader(s)
           found == DropFirst(s, start - 1)
           pass == Pass(found)
           left == DropFirst(found, pass.consumed)
           stop(x) == [pending |-> x, frames |-> << >>, errors |-> << >>]
<1>1. \A k : LoopStep(k, s) = IF start = 0 THEN stop(DropNoise(s))
                              ELSE IF pass.what = "break" THEN stop(found)
                              ELSE IF pass.what = "frame"
                                THEN [k[left] EXCEPT !.frames = <<SubSeq(found, 1, pass.consumed)>> \o @]
                              ELSE [k[left] EXCEPT !.errors = <<pass.what>> \o @]
  BY DEF LoopStep
<1>2. start # 0 /\ pass.what # "break" => left \in Seq(Bytes) /\ Len(left) < Len(s)
  BY LeftFacts DEF Found, Left
<1> HIDE DEF start, found, pass, left
<1>3. start # 0 /\ pass.what # "break" => f[left] = g[left]
  BY <1>2
<1> QED
  BY ONLY <1>1, <1>3

\* f is what the loop makes of all buffers shorter than n.
Solves(f, n) == \A s \in Seq(Bytes) : Len(s) < n => f[s] = LoopStep(f, s)

\* What the loop makes of a buffer is determined.
LEMMA OneSolution ==
  ASSUME config \in Configs, NEW f, NEW g, NEW n \in Nat, Solves(f, n), Solves(g, n)
  PROVE  \A s \in Seq(Bytes) : Len(s) < n => f[s] = g[s]
<1> DEFINE S == {k \in Nat : \A s \in Seq(Bytes) : Len(s) < k /\ Len(s) < n => f[s] = g[s]}
<1>0. \A k : k \in S <=> /\ k \in Nat
                         /\ \A s \in Seq(Bytes) : Len(s) < k /\ Len(s) < n => f[s] = g[s]
  OBVIOUS
<1> HIDE DEF S
<1>1. 0 \in S
  <2>1. \A s \in Seq(Bytes) : ~(Len(s) < 0)
    OBVIOUS
  <2> QED
    BY <1>0, <2>1
<1>2. ASSUME NEW k \in Nat, k \in S PROVE k + 1 \in S
  <2>1. ASSUME NEW s \in Seq(Bytes), Len(s) < k + 1, Len(s) < n PROVE f[s] = g[s]
    <3>1. \A t \in Seq(Bytes) : Len(t) < Len(s) => Len(t) < k /\ Len(t) < n
      <4>1. \A t \in Seq(Bytes) : Len(t) \in Nat
        OBVIOUS
      <4>2. Len(s) \in Nat
        OBVIOUS
      <4> QED
        BY ONLY <4>1, <4>2, <2>1, k \in Nat, n \in Nat
    <3>2. \A t \in Seq(Bytes) : Len(t) < Len(s) => f[t] = g[t]
      BY <1>0, <1>2, <3>1
    <3>3. LoopStep(f, s) = LoopStep(g, s)
      BY <3>2, StepIsLocal
    <3> QED
      BY <2>1, <3>3 DEF Solves
  <2>2. k + 1 \in Nat
    OBVIOUS
  <2> QED
    BY <1>0, <2>1, <2>2
<1>3. Nat \subseteq S
  BY <1>1, <1>2, NumberInduction
<1>4. \A s \in Seq(Bytes) : Len(s) < n => f[s] = g[s]
  BY <1>0, <1>3
<1> QED
  BY <1>4

\* There is something that the loop makes of the buffers shorter than n.
LEMMA SolutionExists ==
  ASSUME config \in Configs, NEW n \in Nat PROVE \E f : Solves(f, n)
<1> DEFINE S == {k \in Nat : \E f : Solves(f, k)}
<1>0. \A k : k \in S <=> k \in Nat /\ \E f : Solves(f, k)
  OBVIOUS
<1> HIDE DEF S
<1>1. 0 \in S
  <2> DEFINE f == [s \in Seq(Bytes) |-> 0]
  <2>1. \A s \in Seq(Bytes) : ~(Len(s) < 0)
    OBVIOUS
  <2> HIDE DEF f
  <2>2. Solves(f, 0)
    BY <2>1 DEF Solves
  <2> QED
    BY <1>0, <2>2
<1>2. ASSUME NEW k \in Nat, k \in S PROVE k + 1 \in S
  <2>1. PICK f : Solves(f, k)
    BY <1>0, <1>2
  <2> DEFINE g == [s \in Seq(Bytes) |-> LoopStep(f, s)]
  <2>2. \A s \in Seq(Bytes) : g[s] = LoopStep(f, s)
    OBVIOUS
  <2> HIDE DEF g
  <2>3. ASSUME NEW s \in Seq(Bytes), Len(s) < k + 1 PROVE g[s] = LoopStep(g, s)
    <3>1. \A t \in Seq(Bytes) : Len(t) < Len(s) => Len(t) < k
      <4>1. \A t \in Seq(Bytes) : Len(t) \in Nat
        OBVIOUS
      <4>2. Len(s) \in Nat
        OBVIOUS
      <4> QED
        BY ONLY <4>1, <4>2, <2>3, k \in Nat
    <3>2. \A t \in Seq(Bytes) : Len(t) < Len(s) => f[t] = g[t]
      BY <2>1, <2>2, <3>1 DEF Solves
    <3>3. LoopStep(f, s) = LoopStep(g, s)
      BY <3>2, StepIsLocal
    <3> QED
      BY <2>2, <3>3
  <2>4. Solves(g, k + 1)
    BY <2>3 DEF Solves
  <2> QED
    BY <1>0, <2>4
<1>3. Nat \subseteq S
  BY <1>1, <1>2, NumberInduction
<1> QED
  BY <1>0, <1>3

\* The loop exists: it satisfies the equation that defines it.
LEMMA LoopExists ==
  config \in Configs => Loop = [s \in Seq(Bytes) |-> LoopStep(Loop, s)]
<1> SUFFICES ASSUME config \in Configs
             PROVE  Loop = [s \in Seq(Bytes) |-> LoopStep(Loop, s)]
  OBVIOUS
<1> DEFINE chosen(n) == CHOOSE f : Solves(f, n)
           F == [s \in Seq(Bytes) |-> chosen(Len(s) + 1)[s]]
<1>1. \A n \in Nat : Solves(chosen(n), n)
  BY SolutionExists
<1>2. \A s \in Seq(Bytes) : F[s] = chosen(Len(s) + 1)[s]
  OBVIOUS
<1> HIDE DEF chosen
<1>3. ASSUME NEW s \in Seq(Bytes) PROVE F[s] = LoopStep(F, s)
  <2> HIDE DEF F
  <2> DEFINE n == Len(s) + 1
             f == chosen(n)
  <2>1. n \in Nat /\ Len(s) < n
    OBVIOUS
  <2>2. Solves(f, n)
    BY <1>1, <2>1
  <2>3. F[s] = f[s] /\ f[s] = LoopStep(f, s)
    <3>1. F[s] = f[s]
      BY <1>2
    <3>2. f[s] = LoopStep(f, s)
      <4> HIDE DEF f, n
      <4> QED
        BY <2>1, <2>2 DEF Solves
    <3> QED
      BY <3>1, <3>2
  <2>4. ASSUME NEW t \in Seq(Bytes), Len(t) < Len(s) PROVE f[t] = F[t]
    <3> DEFINE m == Len(t) + 1
               g == chosen(m)
    <3>1. m \in Nat /\ Len(t) < m /\ m <= n
      <4>1. Len(t) \in Nat /\ Len(s) \in Nat
        OBVIOUS
      <4> QED
        BY ONLY <4>1, <2>4
    <3>2. Solves(g, m)
      BY <1>1, <3>1
    <3>3. \A u \in Seq(Bytes) : Len(u) < m => Len(u) < n
      <4>1. \A u \in Seq(Bytes) : Len(u) \in Nat
        OBVIOUS
      <4> HIDE DEF m, n
      <4> QED
        BY ONLY <4>1, <2>1, <3>1
    <3>4. Solves(f, m)
      <4> HIDE DEF f, n, m
      <4> QED
        BY <2>2, <3>3 DEF Solves
    <3>5. F[t] = g[t]
      BY <1>2
    <3> HIDE DEF f, g, m
    <3>6. f[t] = g[t]
      BY <3>1, <3>2, <3>4, OneSolution
    <3> QED
      BY <3>5, <3>6
  <2> HIDE DEF f
  <2>5. LoopStep(f, s) = LoopStep(F, s)
    BY <2>4, StepIsLocal
  <2> QED
    BY <2>3, <2>5
<1>4. F = [s \in Seq(Bytes) |-> LoopStep(F, s)]
  <2>1. F = [s \in Seq(Bytes) |-> F[s]]
    OBVIOUS
  <2> HIDE DEF F
  <2> QED
    BY <1>3, <2>1
<1>5. \E f : f = [s \in Seq(Bytes) |-> LoopStep(f, s)]
  <2> HIDE DEF F
  <2> QED
    BY <1>4
<1>6. Loop = CHOOSE f : f = [s \in Seq(Bytes) |-> LoopStep(f, s)]
  BY DEF Loop, LoopStep
<1> QED
  BY <1>5, <1>6

\* What one step of the loop makes of a buffer.
LEMMA LoopOf ==
  ASSUME config \in Configs, NEW s \in Seq(Bytes)
  PROVE  Loop[s] = LoopStep(Loop, s)
BY LoopExists

\* What finds headers and frames depends on the configuration alone.
LEMMA OperatorsKept ==
  ASSUME config' = config
  PROVE  /\ \A s : IndexOfHeader(s)' = IndexOfHeader(s)
         /\ \A s : DropNoise(s)' = DropNoise(s)
         /\ \A s : Pass(s)' = Pass(s)
<1>1. \A s, i : HeaderAt(s, i)' = HeaderAt(s, i)
  BY DEF HeaderAt
<1>2. ASSUME NEW s PROVE IndexOfHeader(s)' = IndexOfHeader(s)
  <2>1. {i \in 1..Len(s) : HeaderAt(s, i)'} = {i \in 1..Len(s) : HeaderAt(s, i)}
    BY <1>1
  <2> QED
    BY <2>1 DEF IndexOfHeader
<1>3. \A s : DropNoise(s)' = DropNoise(s)
  BY DEF DropNoise
<1>4. \A s : FrameSize(s)' = FrameSize(s)
  BY DEF FrameSize, ReadUnsigned
<1>5. \A frame : HasFooter(frame)' = HasFooter(frame)
  BY DEF HasFooter
<1>6. \A frame : HasChecksumAt(frame)' = HasChecksumAt(frame)
  BY DEF HasChecksumAt
<1>7. \A frame : Verdict(frame)' = Verdict(frame)
  BY <1>5, <1>6 DEF Verdict
<1>8. \A s : Pass(s)' = Pass(s)
  BY <1>4, <1>7 DEF Pass
<1> QED
  BY <1>2, <1>3, <1>8

\* A step of the loop, part by part.
StepOf(f, s, start, found, pass) ==
    LET rest == f[DropFirst(found, pass.consumed)]
    IN  IF pass.what = "break" THEN [pending |-> found, frames |-> << >>, errors |-> << >>]
        ELSE IF pass.what = "frame"
          THEN [rest EXCEPT !.frames = <<SubSeq(found, 1, pass.consumed)>> \o @]
        ELSE [rest EXCEPT !.errors = <<pass.what>> \o @]

\* A step of the loop is made of its parts.
LEMMA StepInParts ==
  \A s, start, found, pass :
      start = IndexOfHeader(s) /\ found = DropFirst(s, start - 1) /\ pass = Pass(found) =>
      LoopStep(Loop, s) = IF start = 0 THEN [pending |-> DropNoise(s), frames |-> << >>,
                                             errors |-> << >>]
                          ELSE StepOf(Loop, s, start, found, pass)
BY DEF LoopStep, StepOf

\* And so it is after a step.
LEMMA StepInPartsNext ==
  (\A s, start, found, pass :
      start = IndexOfHeader(s) /\ found = DropFirst(s, start - 1) /\ pass = Pass(found) =>
      LoopStep(Loop, s) = IF start = 0 THEN [pending |-> DropNoise(s), frames |-> << >>,
                                             errors |-> << >>]
                          ELSE StepOf(Loop, s, start, found, pass))'
BY StepInParts, PTL

\* And so does the loop.
LEMMA LoopExistsNext == (config \in Configs => Loop = [s \in Seq(Bytes) |-> LoopStep(Loop, s)])'
BY LoopExists, PTL

\* The loop does not change.
LEMMA LoopKept ==
  ASSUME config \in Configs, config' = config PROVE Loop' = Loop
<1> DEFINE f == Loop'
<1>1. config' \in Configs
  OBVIOUS
<1>2. f = [s \in Seq(Bytes) |-> LoopStep(Loop, s)']
  BY <1>1, LoopExistsNext
<1>3. \A s : LoopStep(Loop, s)' = LoopStep(f, s)
  <2> SUFFICES ASSUME NEW s PROVE LoopStep(Loop, s)' = LoopStep(f, s)
    OBVIOUS
  <2>0. PICK start, found, pass, noise :
          /\ start = IndexOfHeader(s) /\ found = DropFirst(s, start - 1)
          /\ pass = Pass(found) /\ noise = DropNoise(s)
    OBVIOUS
  <2>1. IndexOfHeader(s)' = start /\ Pass(found)' = pass /\ DropNoise(s)' = noise
    BY <2>0, OperatorsKept
  <2>2. LoopStep(f, s) = IF start = 0 THEN [pending |-> noise, frames |-> << >>,
                                            errors |-> << >>]
                         ELSE StepOf(f, s, start, found, pass)
    BY <2>0 DEF LoopStep, StepOf
  <2>3. start = IndexOfHeader(s)' /\ found = DropFirst(s, start - 1) /\ pass = Pass(found)'
    BY <2>0, <2>1
  <2>4. LoopStep(Loop, s)' = IF start = 0 THEN [pending |-> noise, frames |-> << >>,
                                                errors |-> << >>]
                             ELSE StepOf(f, s, start, found, pass)
    BY <2>1, <2>3, StepInPartsNext DEF f
  <2> QED
    BY <2>2, <2>4
<1>4. f = [s \in Seq(Bytes) |-> f[s]]
  BY <1>2
<1>5. \A s \in Seq(Bytes) : f[s] = LoopStep(f, s)
  BY <1>2, <1>3
<1> HIDE DEF f
<1>6. \A n : Solves(f, n) /\ Solves(Loop, n)
  BY <1>5, LoopOf DEF Solves
<1>7. ASSUME NEW s \in Seq(Bytes) PROVE f[s] = Loop[s]
  <2>1. Len(s) + 1 \in Nat /\ Len(s) < Len(s) + 1
    OBVIOUS
  <2> QED
    BY <1>6, <2>1, OneSolution
<1>8. Loop = [s \in Seq(Bytes) |-> Loop[s]]
  <2>1. Loop = [s \in Seq(Bytes) |-> LoopStep(Loop, s)]
    BY LoopExists
  <2> DEFINE g == Loop
  <2>2. g = [s \in Seq(Bytes) |-> LoopStep(g, s)]
    BY <2>1
  <2> HIDE DEF g
  <2>3. g = [s \in Seq(Bytes) |-> g[s]]
    BY <2>2
  <2> QED
    BY <2>3 DEF g
<1>9. f = Loop
  BY <1>4, <1>7, <1>8
<1> QED
  BY <1>9 DEF f

\* What the loop returns.
Results == [pending : Seq(Bytes), frames : Seq(Seq(Bytes)), errors : Seq(Errors)]

\* Nothing is held back of what is pending.
Waits(p) ==
    /\ ~HeaderAt(p, 1) => Len(p) < Len(config.header)
    /\ HeaderAt(p, 1) =>
         IF Len(p) < config.lengthOffset + config.lengthSize
           THEN config.lengthOffset + config.lengthSize <= config.maximumBufferSize
           ELSE Len(p) < FrameSize(p) /\ FrameSize(p) <= config.maximumBufferSize

\* The result of a pass that found something, before those of the rest.
Prepended(pass, found, rest) ==
    [pending |-> rest.pending,
     frames |-> (IF pass.what = "frame" THEN <<SubSeq(found, 1, pass.consumed)>> ELSE << >>)
                \o rest.frames,
     errors |-> (IF pass.what = "frame" THEN << >> ELSE <<pass.what>>) \o rest.errors]

\* A buffer without a header leaves the begin of one.
LEMMA NoiseFacts ==
  ASSUME config \in Configs, NEW s \in Seq(Bytes)
  PROVE  LET d == IF Len(s) <= Len(config.header) - 1 THEN 0
                  ELSE Len(s) - (Len(config.header) - 1)
         IN  /\ d \in Nat /\ d <= Len(s) /\ DropNoise(s) = DropFirst(s, d)
             /\ DropNoise(s) \in Seq(Bytes) /\ Len(DropNoise(s)) = Len(s) - d
             /\ Len(DropNoise(s)) < Len(config.header)
             /\ ~HeaderAt(DropNoise(s), 1)
<1> DEFINE n == Len(config.header) - 1
           d == IF Len(s) <= n THEN 0 ELSE Len(s) - n
           t == DropFirst(s, d)
<1>1. n \in Nat /\ Len(config.header) = n + 1
  <2>1. Len(config.header) \in Nat /\ Len(config.header) >= 1
    BY ConfigFacts
  <2> DEFINE h == Len(config.header)
  <2> HIDE DEF h
  <2>2. h - 1 \in Nat /\ h = h - 1 + 1
    BY ONLY <2>1 DEF h
  <2> QED
    BY ONLY <2>2 DEF h
<1>2. d \in Nat /\ d <= Len(s) /\ Len(s) - d <= n /\ TakeLast(s, n) = t
  <2> HIDE DEF n
  <2> QED
    BY <1>1, TakeFacts
<1>3. DropNoise(s) = t
  BY <1>2 DEF DropNoise
<1>4. t \in Seq(Bytes) /\ Len(t) = Len(s) - d
  <2> HIDE DEF d
  <2> QED
    BY <1>2, DropFacts
<1> HIDE DEF t
<1>5. Len(t) < Len(config.header)
  <2> HIDE DEF n, d
  <2>1. Len(s) \in Nat
    OBVIOUS
  <2> QED
    BY ONLY <1>1, <1>2, <1>4, <2>1
<1>6. ~HeaderAt(t, 1)
  <2> SUFFICES ASSUME HeaderAt(t, 1) PROVE FALSE
    OBVIOUS
  <2>1. 1 + Len(config.header) - 1 <= Len(t)
    BY DEF HeaderAt
  <2>2. Len(config.header) \in Nat /\ Len(t) \in Nat
    BY <1>4, ConfigFacts
  <2> QED
    BY ONLY <1>5, <2>1, <2>2
<1>7. DropNoise(s) = DropFirst(s, d)
  BY <1>3 DEF t
<1>8. /\ DropNoise(s) \in Seq(Bytes) /\ Len(DropNoise(s)) = Len(s) - d
      /\ Len(DropNoise(s)) < Len(config.header) /\ ~HeaderAt(DropNoise(s), 1)
  BY <1>3, <1>4, <1>5, <1>6
<1>9. d = IF Len(s) <= Len(config.header) - 1 THEN 0 ELSE Len(s) - (Len(config.header) - 1)
  OBVIOUS
<1> HIDE DEF d
<1> QED
  BY <1>2, <1>7, <1>8, <1>9

\* A step of the loop puts what its pass found before a result.
LEMMA StepResult ==
  ASSUME NEW rest \in Results, NEW pass, NEW found
  PROVE  (IF pass.what = "frame"
            THEN [rest EXCEPT !.frames = <<SubSeq(found, 1, pass.consumed)>> \o @]
          ELSE [rest EXCEPT !.errors = <<pass.what>> \o @]) = Prepended(pass, found, rest)
<1>1. /\ rest = [pending |-> rest.pending, frames |-> rest.frames, errors |-> rest.errors]
      /\ rest.frames \in Seq(Seq(Bytes)) /\ rest.errors \in Seq(Errors)
  BY DEF Results
<1>2. << >> \o rest.frames = rest.frames /\ << >> \o rest.errors = rest.errors
  BY <1>1, ConcatEmptySeq
<1> DEFINE frame == <<SubSeq(found, 1, pass.consumed)>>
           error == <<pass.what>>
<1> HIDE DEF frame, error
<1>3. [rest EXCEPT !.frames = frame \o @] =
      [pending |-> rest.pending, frames |-> frame \o rest.frames, errors |-> rest.errors]
  <2>1. [rest EXCEPT !.frames = frame \o @] = [rest EXCEPT !.frames = frame \o rest.frames]
    OBVIOUS
  <2> DEFINE x == frame \o rest.frames
  <2> HIDE DEF x
  <2>2. [rest EXCEPT !.frames = x] =
        [pending |-> rest.pending, frames |-> x, errors |-> rest.errors]
    BY ONLY <1>1
  <2> QED
    BY <2>1, <2>2 DEF x
<1>4. [rest EXCEPT !.errors = error \o @] =
      [pending |-> rest.pending, frames |-> rest.frames, errors |-> error \o rest.errors]
  <2>1. [rest EXCEPT !.errors = error \o @] = [rest EXCEPT !.errors = error \o rest.errors]
    OBVIOUS
  <2> DEFINE x == error \o rest.errors
  <2> HIDE DEF x
  <2>2. [rest EXCEPT !.errors = x] =
        [pending |-> rest.pending, frames |-> rest.frames, errors |-> x]
    BY ONLY <1>1
  <2> QED
    BY <2>1, <2>2 DEF x
<1>5. CASE pass.what = "frame"
  BY <1>2, <1>3, <1>5 DEF Prepended, frame
<1>6. CASE pass.what # "frame"
  BY <1>2, <1>4, <1>6 DEF Prepended, error
<1> QED
  BY <1>5, <1>6

\* What is put before a result is one.
LEMMA PrependedFacts ==
  ASSUME config \in Configs, NEW rest \in Results, NEW found \in Seq(Bytes),
         Len(config.header) <= Len(found), Pass(found).what # "break"
  PROVE  /\ Prepended(Pass(found), found, rest) \in Results
         /\ (IF Pass(found).what = "frame"
               THEN <<SubSeq(found, 1, Pass(found).consumed)>> ELSE << >>) \in Seq(Seq(Bytes))
         /\ (IF Pass(found).what = "frame" THEN << >> ELSE <<Pass(found).what>>) \in Seq(Errors)
<1> DEFINE pass == Pass(found)
           slice == SubSeq(found, 1, pass.consumed)
           fs == IF pass.what = "frame" THEN <<slice>> ELSE << >>
           es == IF pass.what = "frame" THEN << >> ELSE <<pass.what>>
<1>1. pass.consumed \in Nat /\ pass.consumed <= Len(found)
      /\ pass.what \in Errors \cup {"frame"}
  BY PassFacts
<1> HIDE DEF pass
<1>2. slice \in Seq(Bytes)
  <2>1. pass.consumed \in Int /\ 1 \in Nat \ {0}
    BY <1>1
  <2> QED
    BY <1>1, <2>1, SliceFacts
<1> HIDE DEF slice
<1>3. fs \in Seq(Seq(Bytes))
  <2>1. << >> \in Seq(Seq(Bytes)) /\ <<slice>> \in Seq(Seq(Bytes))
    BY <1>2
  <2> QED
    BY <2>1
<1>4. es \in Seq(Errors)
  <2>1. << >> \in Seq(Errors) /\ (pass.what \in Errors => <<pass.what>> \in Seq(Errors))
    OBVIOUS
  <2> QED
    BY <1>1, <2>1
<1>5. Prepended(pass, found, rest) =
      [pending |-> rest.pending, frames |-> fs \o rest.frames, errors |-> es \o rest.errors]
  BY DEF Prepended, slice
<1> HIDE DEF fs, es
<1>6. /\ rest.pending \in Seq(Bytes) /\ rest.frames \in Seq(Seq(Bytes))
      /\ rest.errors \in Seq(Errors)
  BY DEF Results
<1>7. fs \o rest.frames \in Seq(Seq(Bytes)) /\ es \o rest.errors \in Seq(Errors)
  BY <1>3, <1>4, <1>6, ConcatProperties
<1>8. Prepended(pass, found, rest) \in Results
  BY <1>5, <1>6, <1>7 DEF Results
<1> QED
  BY <1>3, <1>4, <1>8 DEF pass, fs, es, slice

\* The loop returns a result, and holds nothing back.
LEMMA LoopReturns ==
  ASSUME config \in Configs, NEW s \in Seq(Bytes)
  PROVE  Loop[s] \in Results /\ Waits(Loop[s].pending)
<1> DEFINE Good(t) == Loop[t] \in Results /\ Waits(Loop[t].pending)
           S == {k \in Nat : \A t \in Seq(Bytes) : Len(t) < k => Good(t)}
<1>0. \A k : k \in S <=> k \in Nat /\ \A t \in Seq(Bytes) : Len(t) < k => Good(t)
  OBVIOUS
<1> HIDE DEF S
<1>1. 0 \in S
  <2>1. \A t \in Seq(Bytes) : ~(Len(t) < 0)
    OBVIOUS
  <2> QED
    BY <1>0, <2>1
<1>2. ASSUME NEW k \in Nat, k \in S PROVE k + 1 \in S
  <2>1. ASSUME NEW t \in Seq(Bytes), Len(t) < k + 1 PROVE Good(t)
    <3> DEFINE found == Found(t)
               left == Left(t)
               pass == Pass(found)
    <3>1. CASE IndexOfHeader(t) = 0
      <4> DEFINE noise == DropNoise(t)
      <4>1. Loop[t] = [pending |-> noise, frames |-> << >>, errors |-> << >>]
        BY <3>1, LoopOf DEF LoopStep
      <4>2. noise \in Seq(Bytes) /\ Len(noise) < Len(config.header) /\ ~HeaderAt(noise, 1)
        BY NoiseFacts
      <4> HIDE DEF noise
      <4>3. Waits(noise)
        BY <4>2 DEF Waits
      <4>4. << >> \in Seq(Seq(Bytes)) /\ << >> \in Seq(Errors)
        OBVIOUS
      <4>5. Loop[t] \in Results /\ Loop[t].pending = noise
        BY <4>1, <4>2, <4>4 DEF Results
      <4> QED
        BY <4>3, <4>5
    <3>2. CASE IndexOfHeader(t) # 0 /\ pass.what = "break"
      <4>1. Loop[t] = [pending |-> found, frames |-> << >>, errors |-> << >>]
        BY <3>2, LoopOf DEF LoopStep, Found
      <4>2. found \in Seq(Bytes) /\ HeaderAt(found, 1) /\ Len(config.header) <= Len(found)
        BY <3>2, LeftFacts
      <4> HIDE DEF found
      <4>3. Waits(found)
        BY <3>2, <4>2, PassFacts DEF Waits
      <4>4. << >> \in Seq(Seq(Bytes)) /\ << >> \in Seq(Errors)
        OBVIOUS
      <4>5. Loop[t] \in Results /\ Loop[t].pending = found
        BY <4>1, <4>2, <4>4 DEF Results
      <4> QED
        BY <4>3, <4>5
    <3>3. CASE IndexOfHeader(t) # 0 /\ pass.what # "break"
      <4>1. /\ found \in Seq(Bytes) /\ Len(config.header) <= Len(found)
            /\ left \in Seq(Bytes) /\ Len(left) < Len(t)
        BY <3>3, LeftFacts
      <4>2. Len(left) < k
        <5>1. Len(left) \in Nat /\ Len(t) \in Nat
          BY <4>1
        <5> QED
          BY ONLY <2>1, <4>1, <5>1, k \in Nat
      <4>3. Good(left)
        BY <1>0, <1>2, <4>1, <4>2
      <4> DEFINE rest == Loop[left]
      <4>4. Loop[t] = IF pass.what = "frame"
                        THEN [rest EXCEPT !.frames = <<SubSeq(found, 1, pass.consumed)>> \o @]
                      ELSE [rest EXCEPT !.errors = <<pass.what>> \o @]
        BY <3>3, LoopOf DEF LoopStep, Found, Left
      <4>5. rest \in Results
        BY <4>3
      <4> HIDE DEF rest, found
      <4>6. Loop[t] = Prepended(pass, found, rest)
        BY <4>4, <4>5, StepResult
      <4>7. Prepended(pass, found, rest) \in Results
        BY <3>3, <4>1, <4>5, PrependedFacts
      <4>8. Loop[t].pending = rest.pending
        BY <4>6 DEF Prepended
      <4> QED
        BY <4>3, <4>6, <4>7, <4>8 DEF rest
    <3> QED
      BY <3>1, <3>2, <3>3
  <2>2. k + 1 \in Nat
    OBVIOUS
  <2> HIDE DEF Good
  <2> QED
    BY <1>0, <2>1, <2>2
<1>3. Nat \subseteq S
  <2> HIDE DEF Good
  <2> QED
    BY <1>1, <1>2, NumberInduction
<1>4. Len(s) + 1 \in Nat /\ Len(s) < Len(s) + 1
  OBVIOUS
<1> QED
  BY <1>0, <1>3, <1>4

\* What the loop makes of a buffer, from what it makes of the rest.
LEMMA LoopCases ==
  ASSUME config \in Configs, NEW s \in Seq(Bytes)
  PROVE  /\ IndexOfHeader(s) = 0 =>
              Loop[s] = [pending |-> DropNoise(s), frames |-> << >>, errors |-> << >>]
         /\ IndexOfHeader(s) # 0 /\ Pass(Found(s)).what = "break" =>
              Loop[s] = [pending |-> Found(s), frames |-> << >>, errors |-> << >>]
         /\ IsPassed(s) =>
              Loop[s] = Prepended(Pass(Found(s)), Found(s), Loop[Left(s)])
<1>1. CASE IndexOfHeader(s) = 0
  BY <1>1, LoopOf DEF LoopStep, IsPassed
<1>2. CASE IndexOfHeader(s) # 0 /\ Pass(Found(s)).what = "break"
  BY <1>2, LoopOf DEF LoopStep, Found, IsPassed
<1>3. CASE IndexOfHeader(s) # 0 /\ Pass(Found(s)).what # "break"
  <2> DEFINE found == Found(s)
             pass == Pass(found)
             rest == Loop[Left(s)]
  <2>1. Loop[s] = IF pass.what = "frame"
                    THEN [rest EXCEPT !.frames = <<SubSeq(found, 1, pass.consumed)>> \o @]
                  ELSE [rest EXCEPT !.errors = <<pass.what>> \o @]
    BY <1>3, LoopOf DEF LoopStep, Found, Left
  <2>2. rest \in Results
    BY <1>3, LeftFacts, LoopReturns
  <2> HIDE DEF rest, pass, found
  <2>3. Loop[s] = Prepended(pass, found, rest)
    BY <2>1, <2>2, StepResult
  <2> QED
    BY <1>3, <2>3 DEF rest, pass, found
<1> QED
  BY <1>1, <1>2, <1>3

-----------------------------------------------------------------------------
(* the loop over a stream in pieces                                         *)

\* The result of a stream, from that of its first part and that of what it left.
Joined(a, b) ==
    [pending |-> b.pending, frames |-> a.frames \o b.frames, errors |-> a.errors \o b.errors]

\* Nothing found in the first part adds nothing.
LEMMA JoinedToNothing ==
  ASSUME NEW p, NEW r \in Results
  PROVE  Joined([pending |-> p, frames |-> << >>, errors |-> << >>], r) = r
<1>1. /\ r = [pending |-> r.pending, frames |-> r.frames, errors |-> r.errors]
      /\ r.frames \in Seq(Seq(Bytes)) /\ r.errors \in Seq(Errors)
  BY DEF Results
<1>2. << >> \o r.frames = r.frames /\ << >> \o r.errors = r.errors
  BY <1>1, ConcatEmptySeq
<1> QED
  BY <1>1, <1>2 DEF Joined

\* What a pass found comes before the results of both parts.
LEMMA JoinedAfterPass ==
  ASSUME config \in Configs, NEW a \in Results, NEW b \in Results,
         NEW found \in Seq(Bytes), Len(config.header) <= Len(found),
         Pass(found).what # "break"
  PROVE  Prepended(Pass(found), found, Joined(a, b)) =
         Joined(Prepended(Pass(found), found, a), b)
<1> DEFINE pass == Pass(found)
           fs == IF pass.what = "frame" THEN <<SubSeq(found, 1, pass.consumed)>> ELSE << >>
           es == IF pass.what = "frame" THEN << >> ELSE <<pass.what>>
<1>1. fs \in Seq(Seq(Bytes)) /\ es \in Seq(Errors)
  BY PrependedFacts
<1>2. \A r : Prepended(pass, found, r) =
        [pending |-> r.pending, frames |-> fs \o r.frames, errors |-> es \o r.errors]
  BY DEF Prepended
<1> DEFINE af == a.frames
           bf == b.frames
           ae == a.errors
           be == b.errors
<1>3. af \in Seq(Seq(Bytes)) /\ ae \in Seq(Errors) /\ bf \in Seq(Seq(Bytes)) /\ be \in Seq(Errors)
  BY DEF Results
<1> DEFINE Joins(T) ==
             \A x \in Seq(T), y \in Seq(T), z \in Seq(T) : (x \o y) \o z = x \o (y \o z)
<1>0. ASSUME NEW T PROVE Joins(T)
  BY ConcatAssociative
<1> HIDE DEF fs, es, pass, af, bf, ae, be, Joins
<1>4. (fs \o af) \o bf = fs \o (af \o bf)
  <2> DEFINE T == Seq(Bytes)
  <2>1. fs \in Seq(T) /\ af \in Seq(T) /\ bf \in Seq(T)
    BY <1>1, <1>3
  <2>2. Joins(T)
    BY <1>0
  <2> HIDE DEF T
  <2> QED
    BY ONLY <2>1, <2>2, Zenon DEF Joins
<1>5. (es \o ae) \o be = es \o (ae \o be)
  <2>1. es \in Seq(Errors) /\ ae \in Seq(Errors) /\ be \in Seq(Errors)
    BY <1>1, <1>3
  <2>2. Joins(Errors)
    BY <1>0
  <2> QED
    BY ONLY <2>1, <2>2, Zenon DEF Joins
<1>6. Prepended(pass, found, Joined(a, b)) = Joined(Prepended(pass, found, a), b)
  <2> DEFINE j == Joined(a, b)
             p == Prepended(pass, found, a)
  <2>1. j.pending = b.pending /\ j.frames = af \o bf /\ j.errors = ae \o be
    BY DEF Joined, af, ae, bf, be
  <2>2. p.frames = fs \o af /\ p.errors = es \o ae
    <3>1. p = [pending |-> a.pending, frames |-> fs \o af, errors |-> es \o ae]
      BY <1>2 DEF af, ae
    <3> HIDE DEF p
    <3> QED
      BY ONLY <3>1
  <2>3. Joined(p, b) = [pending |-> b.pending, frames |-> p.frames \o bf,
                        errors |-> p.errors \o be]
    BY DEF Joined, bf, be
  <2>4. Prepended(pass, found, j) =
        [pending |-> j.pending, frames |-> fs \o j.frames, errors |-> es \o j.errors]
    BY <1>2
  <2> HIDE DEF j, p
  <2>5. Prepended(pass, found, j) = Joined(p, b)
    BY ONLY <1>4, <1>5, <2>1, <2>2, <2>3, <2>4
  <2> QED
    BY <2>5 DEF j, p
<1> QED
  BY <1>6 DEF pass

\* From the first header on, buffers that agree have the same result.
LEMMA FoundDetermines ==
  ASSUME config \in Configs, NEW u \in Seq(Bytes), NEW v \in Seq(Bytes),
         IndexOfHeader(u) # 0, IndexOfHeader(v) # 0, Found(u) = Found(v)
  PROVE  Loop[u] = Loop[v]
<1>1. Left(u) = Left(v)
  BY DEF Left
<1>2. CASE Pass(Found(u)).what = "break"
  BY <1>2, LoopCases
<1>3. CASE Pass(Found(u)).what # "break"
  BY <1>1, <1>3, LoopCases DEF IsPassed
<1> QED
  BY <1>2, <1>3

\* Bytes before the first header can be dropped: they change no frame and no error,
\* nor, if enough is left, what stays pending.
LEMMA DropPrefix ==
  ASSUME config \in Configs, NEW u \in Seq(Bytes), NEW d \in Nat, d <= Len(u),
         \A i \in 1..d : ~HeaderAt(u, i)
  PROVE  LET v == DropFirst(u, d)
         IN  /\ Loop[v].frames = Loop[u].frames /\ Loop[v].errors = Loop[u].errors
             /\ (d = 0 \/ Len(u) - d >= Len(config.header) - 1) => Loop[v] = Loop[u]
<1> DEFINE v == DropFirst(u, d)
           h == Len(config.header)
<1>1. v \in Seq(Bytes) /\ Len(v) = Len(u) - d /\ Len(u) \in Nat
  BY DropFacts
<1>2. \A i \in Nat \ {0} : HeaderAt(v, i) <=> HeaderAt(u, d + i)
  BY HeaderInDrop
<1>3. h \in Nat /\ h >= 1
  BY ConfigFacts
<1>4. CASE IndexOfHeader(u) = 0
  <2>1. \A i \in Nat \ {0} : ~HeaderAt(v, i)
    <3>1. \A i \in Nat \ {0} : d + i \in Nat \ {0}
      OBVIOUS
    <3> QED
      BY <1>2, <1>4, <3>1, IndexFacts
  <2> HIDE DEF v, h
  <2>2. IndexOfHeader(v) = 0
    <3> SUFFICES ASSUME IndexOfHeader(v) # 0 PROVE FALSE
      OBVIOUS
    <3>1. HeaderAt(v, IndexOfHeader(v)) /\ IndexOfHeader(v) \in Nat \ {0}
      BY <1>1, IndexFacts
    <3> QED
      BY <2>1, <3>1
  <2>3. /\ Loop[u] = [pending |-> DropNoise(u), frames |-> << >>, errors |-> << >>]
        /\ Loop[v] = [pending |-> DropNoise(v), frames |-> << >>, errors |-> << >>]
    BY <1>1, <1>4, <2>2, LoopCases
  <2>4. d = 0 => v = u
    BY DropDrop DEF v
  <2>5. d # 0 /\ Len(u) - d >= h - 1 => DropNoise(v) = DropNoise(u)
    <3> SUFFICES ASSUME d # 0, Len(u) - d >= h - 1 PROVE DropNoise(v) = DropNoise(u)
      OBVIOUS
    <3> DEFINE du == IF Len(u) <= h - 1 THEN 0 ELSE Len(u) - (h - 1)
               dv == IF Len(v) <= h - 1 THEN 0 ELSE Len(v) - (h - 1)
    <3>1. du \in Nat /\ du <= Len(u) /\ DropNoise(u) = DropFirst(u, du)
      BY NoiseFacts DEF h
    <3>2. dv \in Nat /\ dv <= Len(v) /\ DropNoise(v) = DropFirst(v, dv)
      BY <1>1, NoiseFacts DEF h
    <3>3. d + dv = du
      BY ONLY <1>1, <1>3, d # 0, Len(u) - d >= h - 1, d \in Nat
    <3> HIDE DEF du, dv
    <3>4. DropFirst(DropFirst(u, d), dv) = DropFirst(u, d + dv)
      BY <3>1, <3>2, <3>3, DropDrop
    <3> QED
      BY <3>1, <3>2, <3>3, <3>4 DEF v
  <2>6. Loop[v].frames = Loop[u].frames /\ Loop[v].errors = Loop[u].errors
    BY ONLY <2>3
  <2>7. (d = 0 \/ Len(u) - d >= h - 1) => Loop[v] = Loop[u]
    BY ONLY <2>3, <2>4, <2>5
  <2> QED
    BY <2>6, <2>7 DEF v, h
<1>5. CASE IndexOfHeader(u) # 0
  <2> DEFINE a == IndexOfHeader(u)
             b == IndexOfHeader(v)
  <2> HIDE DEF v
  <2>1. a \in Nat \ {0} /\ a <= Len(u) /\ HeaderAt(u, a)
        /\ \A i \in Nat \ {0} : HeaderAt(u, i) => a <= i
    BY <1>5, IndexFacts
  <2>2. b \in Nat /\ (b = 0 => \A i \in Nat \ {0} : ~HeaderAt(v, i))
        /\ (b # 0 => HeaderAt(v, b) /\ \A i \in Nat \ {0} : HeaderAt(v, i) => b <= i)
    BY <1>1, IndexFacts
  <2> HIDE DEF a, b
  <2>3. ~(a \in 1..d)
    BY <2>1
  <2>4. a - d \in Nat \ {0} /\ d + (a - d) = a
    BY ONLY <2>1, <2>3, d \in Nat
  <2>5. HeaderAt(v, a - d)
    BY <1>2, <2>1, <2>4
  <2>6. b # 0 /\ b <= a - d
    BY <2>2, <2>4, <2>5
  <2>7. a <= d + b
    <3>1. HeaderAt(u, d + b)
      BY <1>2, <2>2, <2>6
    <3>2. d + b \in Nat \ {0}
      BY <2>2, <2>6
    <3> QED
      BY <2>1, <3>1, <3>2
  <2>8. b - 1 \in Nat /\ d + (b - 1) = a - 1 /\ d + (b - 1) <= Len(u)
    BY ONLY <1>1, <2>1, <2>2, <2>6, <2>7, d \in Nat
  <2>9. DropFirst(DropFirst(u, d), b - 1) = DropFirst(u, a - 1)
    <3>1. DropFirst(DropFirst(u, d), b - 1) = DropFirst(u, d + (b - 1))
      BY <2>8, DropDrop
    <3> QED
      BY <2>8, <3>1
  <2>10. Found(v) = Found(u)
    BY <2>9 DEF Found, a, b, v
  <2>11. Loop[u] = Loop[v]
    BY <1>1, <1>5, <2>6, <2>10, FoundDetermines DEF b
  <2> QED
    BY <2>11 DEF v
<1> QED
  BY <1>4, <1>5

\* A header found in the first part of a stream is the one found in the stream.
LEMMA FoundInConcat ==
  ASSUME config \in Configs, NEW s \in Seq(Bytes), NEW t \in Seq(Bytes),
         IndexOfHeader(s) # 0
  PROVE  IndexOfHeader(s \o t) # 0 /\ Found(s \o t) = Found(s) \o t
<1> DEFINE c == s \o t
           a == IndexOfHeader(s)
           b == IndexOfHeader(c)
           h == Len(config.header)
<1>0. c \in Seq(Bytes) /\ Len(s) \in Nat
  BY ConcatFacts
<1>1. a \in Nat \ {0} /\ a <= Len(s) /\ HeaderAt(s, a)
      /\ \A i \in Nat \ {0} : HeaderAt(s, i) => a <= i
  BY IndexFacts
<1>2. b \in Nat /\ (b = 0 => \A i \in Nat \ {0} : ~HeaderAt(c, i))
      /\ (b # 0 => HeaderAt(c, b) /\ \A i \in Nat \ {0} : HeaderAt(c, i) => b <= i)
  <2> HIDE DEF c
  <2> QED
    BY <1>0, IndexFacts
<1>3. \A i \in Nat \ {0} : HeaderAt(s, i) <=> i + h - 1 <= Len(s) /\ HeaderAt(c, i)
  BY HeaderInConcat
<1>4. h \in Nat
  BY ConfigFacts
<1> HIDE DEF a, b, c, h
<1>5. b # 0 /\ b <= a
  BY <1>1, <1>2, <1>3
<1>6. a <= b
  <2>1. a + h - 1 <= Len(s)
    BY <1>1, <1>3
  <2>2. b \in Nat \ {0} /\ b + h - 1 <= Len(s)
    BY ONLY <1>0, <1>1, <1>2, <1>4, <1>5, <2>1
  <2>3. HeaderAt(s, b)
    BY <1>2, <1>3, <1>5, <2>2
  <2> QED
    BY <1>1, <2>2, <2>3
<1>7. a = b /\ a - 1 \in Nat /\ a - 1 <= Len(s)
  BY ONLY <1>0, <1>1, <1>2, <1>5, <1>6
<1>8. DropFirst(s \o t, a - 1) = DropFirst(s, a - 1) \o t
  BY <1>7, DropConcat
<1> QED
  BY <1>5, <1>7, <1>8 DEF Found, a, b, c

\* The loop over a stream is the loop over its first part, and then over what that
\* left pending and the rest of the stream.
LEMMA LoopInPieces ==
  ASSUME config \in Configs, NEW t \in Seq(Bytes)
  PROVE  \A s \in Seq(Bytes) : Loop[s \o t] = Joined(Loop[s], Loop[Loop[s].pending \o t])
<1> DEFINE Split(s) == Loop[s \o t] = Joined(Loop[s], Loop[Loop[s].pending \o t])
           S == {k \in Nat : \A s \in Seq(Bytes) : Len(s) < k => Split(s)}
<1>0. \A k : k \in S <=> k \in Nat /\ \A s \in Seq(Bytes) : Len(s) < k => Split(s)
  OBVIOUS
<1> HIDE DEF S
<1>1. 0 \in S
  <2>1. \A s \in Seq(Bytes) : ~(Len(s) < 0)
    OBVIOUS
  <2> QED
    BY <1>0, <2>1
<1>2. ASSUME NEW k \in Nat, k \in S PROVE k + 1 \in S
  <2>1. ASSUME NEW s \in Seq(Bytes), Len(s) < k + 1 PROVE Split(s)
    <3> DEFINE c == s \o t
               found == Found(s)
               left == Left(s)
               pass == Pass(found)
    <3>0. c \in Seq(Bytes) /\ Len(c) = Len(s) + Len(t) /\ Len(s) \in Nat /\ Len(t) \in Nat
      BY ConcatFacts
    <3>1. Loop[c] \in Results
      <4> HIDE DEF c
      <4> QED
        BY <3>0, LoopReturns
    <3>2. CASE IndexOfHeader(s) = 0
      <4> DEFINE h == Len(config.header)
                 d == IF Len(s) <= h - 1 THEN 0 ELSE Len(s) - (h - 1)
                 noise == DropNoise(s)
      <4>1. d \in Nat /\ d <= Len(s) /\ noise = DropFirst(s, d)
        BY NoiseFacts
      <4>2. h \in Nat /\ h >= 1
        BY ConfigFacts
      <4>3. noise \o t = DropFirst(c, d)
        <5> HIDE DEF d, noise
        <5> QED
          BY <4>1, DropConcat
      <4>4. ASSUME NEW i \in 1..d PROVE ~HeaderAt(c, i)
        <5>1. i \in Nat \ {0} /\ i + h - 1 <= Len(s)
          BY ONLY <3>0, <4>2, <4>4
        <5>2. ~HeaderAt(s, i)
          BY <3>2, <5>1, IndexFacts
        <5> QED
          BY <5>1, <5>2, HeaderInConcat
      <4>5. d = 0 \/ Len(c) - d >= h - 1
        <5>1. \A x \in Nat, y \in Nat, z \in Nat :
                LET e == IF x <= z - 1 THEN 0 ELSE x - (z - 1)
                IN  e = 0 \/ x + y - e >= z - 1
          OBVIOUS
        <5>2. d = 0 \/ Len(s) + Len(t) - d >= h - 1
          <6> HIDE DEF h, c
          <6> QED
            BY <3>0, <4>2, <5>1
        <5> HIDE DEF d, c
        <5> QED
          BY ONLY <3>0, <4>1, <5>2
      <4>6. d <= Len(c)
        <5> HIDE DEF d
        <5> QED
          BY ONLY <3>0, <4>1
      <4> HIDE DEF c, d, noise
      <4>7. Loop[DropFirst(c, d)] = Loop[c]
        BY <3>0, <4>1, <4>4, <4>5, <4>6, DropPrefix
      <4>8. Loop[s] = [pending |-> noise, frames |-> << >>, errors |-> << >>]
        BY <3>2, LoopCases DEF noise
      <4>9. Loop[s].pending = noise
        BY ONLY <4>8
      <4>10. Joined([pending |-> noise, frames |-> << >>, errors |-> << >>], Loop[c]) = Loop[c]
        BY <3>1, JoinedToNothing
      <4>11. Joined(Loop[s], Loop[noise \o t]) = Loop[c]
        BY ONLY <4>3, <4>7, <4>8, <4>10
      <4> QED
        BY ONLY <4>9, <4>11 DEF c
    <3>3. CASE IndexOfHeader(s) # 0 /\ pass.what = "break"
      <4> DEFINE u == found \o t
      <4>1. found \in Seq(Bytes) /\ HeaderAt(found, 1)
        BY <3>3, LeftFacts
      <4>2. IndexOfHeader(c) # 0 /\ Found(c) = u
        BY <3>3, FoundInConcat
      <4> HIDE DEF found
      <4>3. u \in Seq(Bytes) /\ HeaderAt(u, 1)
        BY <4>1, ConcatFacts, HeaderInConcat
      <4> HIDE DEF u, c
      <4>4. IndexOfHeader(u) = 1
        BY <4>3, HeaderFirst
      <4>5. Found(u) = u
        <5>1. Found(u) = DropFirst(u, 1 - 1) /\ 1 - 1 = 0
          BY <4>4 DEF Found
        <5> QED
          BY <4>3, <5>1, DropDrop
      <4>6. Loop[c] = Loop[u]
        BY <3>0, <4>2, <4>3, <4>4, <4>5, FoundDetermines
      <4>7. Loop[s] = [pending |-> found, frames |-> << >>, errors |-> << >>]
        BY <3>3, LoopCases DEF found
      <4>8. Loop[s].pending = found
        BY ONLY <4>7
      <4>9. Joined([pending |-> found, frames |-> << >>, errors |-> << >>], Loop[c]) = Loop[c]
        BY <3>1, JoinedToNothing
      <4>10. Joined(Loop[s], Loop[u]) = Loop[c]
        BY ONLY <4>6, <4>7, <4>9
      <4> QED
        BY ONLY <4>8, <4>10 DEF c, u
    <3>4. CASE IndexOfHeader(s) # 0 /\ pass.what # "break"
      <4> DEFINE n == pass.consumed
                 u == found \o t
                 v == left \o t
                 x == Loop[left]
                 y == Loop[x.pending \o t]
      <4>1. /\ found \in Seq(Bytes) /\ Len(config.header) <= Len(found)
            /\ left \in Seq(Bytes) /\ Len(left) < Len(s)
        BY <3>4, LeftFacts
      <4>2. IndexOfHeader(c) # 0 /\ Found(c) = u
        BY <3>4, FoundInConcat
      <4>3. left = DropFirst(found, n)
        BY DEF Left
      <4> HIDE DEF found, left
      <4>4. n \in Nat /\ n <= Len(found) /\ Pass(u) = pass
        BY <3>4, <4>1, PassFacts
      <4> HIDE DEF n
      <4>5. DropFirst(u, n) = v
        BY <4>1, <4>3, <4>4, DropConcat
      <4>6. SubSeq(u, 1, n) = SubSeq(found, 1, n)
        <5>1. n \in Int /\ 1 \in Nat \ {0}
          BY <4>4
        <5> QED
          BY <4>1, <4>4, <5>1, SliceOfConcat
      <4>7. Left(c) = v /\ IsPassed(c)
        BY <3>4, <4>2, <4>4, <4>5 DEF Left, IsPassed, n
      <4>8. Loop[c] = Prepended(pass, u, Loop[v])
        <5> HIDE DEF c, u, v
        <5>1. Loop[c] = Prepended(Pass(Found(c)), Found(c), Loop[Left(c)])
          BY <3>0, <4>7, LoopCases
        <5> QED
          BY <4>2, <4>4, <4>7, <5>1
      <4>9. Prepended(pass, u, Loop[v]) = Prepended(pass, found, Loop[v])
        BY <4>6 DEF Prepended, n
      <4>10. Len(left) < k
        <5>1. Len(left) \in Nat
          BY <4>1
        <5> QED
          BY ONLY <2>1, <3>0, <4>1, <5>1, k \in Nat
      <4>11. Loop[v] = Joined(x, y)
        BY <1>0, <1>2, <4>1, <4>10
      <4>12. x \in Results
        BY <4>1, LoopReturns
      <4>13. y \in Results
        <5>1. x.pending \in Seq(Bytes)
          BY <4>12 DEF Results
        <5> DEFINE w == x.pending \o t
        <5>2. w \in Seq(Bytes)
          <6> HIDE DEF x
          <6> QED
            BY <5>1, ConcatFacts
        <5> HIDE DEF w
        <5> QED
          BY <5>2, LoopReturns DEF w
      <4>14. Loop[s] = Prepended(pass, found, x)
        BY <3>4, LoopCases DEF IsPassed, found, left
      <4>15. Loop[s].pending = x.pending
        BY <4>14 DEF Prepended
      <4>16. Prepended(pass, found, Joined(x, y)) = Joined(Prepended(pass, found, x), y)
        <5> HIDE DEF x, y
        <5> QED
          BY <3>4, <4>1, <4>12, <4>13, JoinedAfterPass
      <4>17. Loop[c] = Joined(Loop[s], y)
        <5> HIDE DEF x, y, v, u, c, pass
        <5> QED
          BY ONLY <4>8, <4>9, <4>11, <4>14, <4>16
      <4>18. y = Loop[Loop[s].pending \o t]
        BY <4>15
      <4> QED
        BY ONLY <4>17, <4>18 DEF c
    <3> QED
      BY <3>2, <3>3, <3>4
  <2>2. k + 1 \in Nat
    OBVIOUS
  <2> HIDE DEF Split
  <2> QED
    BY <1>0, <2>1, <2>2
<1>3. Nat \subseteq S
  <2> HIDE DEF Split
  <2> QED
    BY <1>1, <1>2, NumberInduction
<1>4. \A s \in Seq(Bytes) : Len(s) + 1 \in Nat /\ Len(s) < Len(s) + 1
  OBVIOUS
<1>5. \A s \in Seq(Bytes) : Split(s)
  <2> HIDE DEF Split
  <2> QED
    BY <1>0, <1>3, <1>4
<1> QED
  BY <1>5

-----------------------------------------------------------------------------
(* the reference: the stream read once                                      *)

\* What is read of the stream from place i on, when f is what is read from later ones.
ReadStep(f, i) ==
    LET here == DropFirst(stream, i - 1)
        pass == Pass(here)
        rest == f[i + pass.consumed]
        nothing == [frames |-> << >>, errors |-> << >>]
    IN  IF i > Len(stream) THEN nothing
        ELSE IF ~HeaderAt(stream, i) THEN f[i + 1]
        ELSE IF pass.what = "break" THEN nothing
        ELSE IF pass.what = "frame"
          THEN [rest EXCEPT !.frames = <<SubSeq(here, 1, pass.consumed)>> \o @]
        ELSE [rest EXCEPT !.errors = <<pass.what>> \o @]

\* What the loop returns of the stream from place i on.
FromPlace(i) ==
    [frames |-> Loop[DropFirst(stream, i - 1)].frames,
     errors |-> Loop[DropFirst(stream, i - 1)].errors]

\* The loop returns nothing of an empty buffer.
LEMMA LoopOfNothing ==
  ASSUME config \in Configs
  PROVE  Loop[<< >>] = [pending |-> << >>, frames |-> << >>, errors |-> << >>]
<1> DEFINE s == << >>
<1>1. s \in Seq(Bytes) /\ Len(s) = 0
  OBVIOUS
<1> HIDE DEF s
<1>2. IndexOfHeader(s) = 0
  <2> DEFINE a == IndexOfHeader(s)
  <2>1. a \in Nat /\ (a # 0 => a <= Len(s))
    BY <1>1, IndexFacts
  <2> HIDE DEF a
  <2>2. a = 0
    BY ONLY <1>1, <2>1
  <2> QED
    BY <2>2 DEF a
<1>3. DropNoise(s) \in Seq(Bytes) /\ Len(DropNoise(s)) = 0
  <2> DEFINE n == Len(config.header) - 1
             d == IF Len(s) <= n THEN 0 ELSE Len(s) - n
  <2>1. d \in Nat /\ d <= Len(s) /\ DropNoise(s) \in Seq(Bytes) /\ Len(DropNoise(s)) = Len(s) - d
    BY <1>1, NoiseFacts
  <2> HIDE DEF d
  <2>2. d = 0 /\ Len(s) - d = 0
    BY ONLY <1>1, <2>1
  <2> QED
    BY ONLY <2>1, <2>2
<1>4. DropNoise(s) = << >>
  BY <1>3, EmptySeq
<1>5. Loop[s] = [pending |-> << >>, frames |-> << >>, errors |-> << >>]
  BY <1>1, <1>2, <1>4, LoopCases
<1> QED
  BY <1>5 DEF s

\* The step of the reference is what the loop returns.
LEMMA ReadStepIsLoop ==
  ASSUME config \in Configs, stream \in Seq(Bytes), NEW f, NEW i \in 1..(Len(stream) + 1),
         \A j \in 1..(Len(stream) + 1) : j > i => f[j] = FromPlace(j)
  PROVE  ReadStep(f, i) = FromPlace(i)
<1> DEFINE N == Len(stream)
           n == i - 1
           here == DropFirst(stream, n)
           pass == Pass(here)
           nothing == [frames |-> << >>, errors |-> << >>]
           rest == f[i + pass.consumed]
<1>0. N \in Nat /\ n \in Nat /\ n <= N /\ n + 1 = i /\ i \in Nat \ {0}
  <2>1. N \in Nat
    OBVIOUS
  <2> HIDE DEF N
  <2>2. i \in 1..(N + 1)
    BY DEF N
  <2> QED
    BY ONLY <2>1, <2>2
<1>1. ReadStep(f, i) =
        IF i > N THEN nothing
        ELSE IF ~HeaderAt(stream, i) THEN f[i + 1]
        ELSE IF pass.what = "break" THEN nothing
        ELSE IF pass.what = "frame"
          THEN [rest EXCEPT !.frames = <<SubSeq(here, 1, pass.consumed)>> \o @]
        ELSE [rest EXCEPT !.errors = <<pass.what>> \o @]
  BY DEF ReadStep
<1>2. FromPlace(i) = [frames |-> Loop[here].frames, errors |-> Loop[here].errors]
  BY DEF FromPlace
<1>3. here \in Seq(Bytes) /\ Len(here) = N - n
  BY <1>0, DropFacts
<1>4. HeaderAt(here, 1) <=> HeaderAt(stream, i)
  <2>1. 1 \in Nat \ {0}
    OBVIOUS
  <2> QED
    BY <1>0, <2>1, HeaderInDrop
<1>5. CASE i > N
  <2>1. n = N
    BY ONLY <1>0, <1>5
  <2>2. here = << >>
    BY <2>1, DropDrop
  <2>3. Loop[here] = [pending |-> << >>, frames |-> << >>, errors |-> << >>]
    BY <2>2, LoopOfNothing
  <2> QED
    BY <1>1, <1>2, <1>5, <2>3
<1>6. CASE ~(i > N) /\ ~HeaderAt(stream, i)
  <2>1. i + 1 \in 1..(N + 1) /\ i + 1 > i /\ (i + 1) - 1 = n + 1 /\ n + 1 <= N
    BY ONLY <1>0, <1>6
  <2>2. f[i + 1] = FromPlace(i + 1)
    BY <2>1
  <2> HIDE DEF n, N
  <2>3. DropFirst(stream, n + 1) = DropFirst(here, 1)
    BY <1>0, <2>1, DropDrop DEF N
  <2> HIDE DEF here
  <2>4. 1 <= Len(here) /\ \A k \in 1..1 : ~HeaderAt(here, k)
    <3>1. 1 <= Len(here)
      BY ONLY <1>0, <1>3, <2>1
    <3>2. \A k \in 1..1 : k = 1
      OBVIOUS
    <3> QED
      BY <1>4, <1>6, <3>1, <3>2
  <2>5. /\ Loop[DropFirst(here, 1)].frames = Loop[here].frames
        /\ Loop[DropFirst(here, 1)].errors = Loop[here].errors
    BY <1>3, <2>4, DropPrefix
  <2>6. FromPlace(i + 1) = [frames |-> Loop[DropFirst(here, 1)].frames,
                            errors |-> Loop[DropFirst(here, 1)].errors]
    BY <2>1, <2>3 DEF FromPlace
  <2>7. ReadStep(f, i) = f[i + 1]
    BY <1>1, <1>6
  <2> QED
    BY ONLY <1>2, <2>2, <2>5, <2>6, <2>7
<1>7. CASE ~(i > N) /\ HeaderAt(stream, i)
  <2> HIDE DEF here, N
  <2>1. IndexOfHeader(here) = 1
    BY <1>3, <1>4, <1>7, HeaderFirst
  <2>2. Found(here) = here
    <3>1. Found(here) = DropFirst(here, 0)
      BY <2>1 DEF Found
    <3> QED
      BY <1>3, <3>1, DropDrop
  <2>3. Len(config.header) <= Len(here)
    BY <1>3, <2>1, <2>2, LeftFacts
  <2>4. CASE pass.what = "break"
    <3>1. Loop[here] = [pending |-> here, frames |-> << >>, errors |-> << >>]
      <4>1. Pass(Found(here)).what = "break"
        BY <2>2, <2>4
      <4>2. Loop[here] = [pending |-> Found(here), frames |-> << >>, errors |-> << >>]
        <5>1. IndexOfHeader(here) # 0
          BY <2>1
        <5>2. here \in Seq(Bytes)
          BY <1>3
        <5> HIDE DEF nothing, rest, pass, n
        <5> QED
          BY ONLY <4>1, <5>1, <5>2, config \in Configs, LoopCases
      <4> QED
        BY <2>2, <4>2
    <3> QED
      BY <1>1, <1>2, <1>7, <2>4, <3>1
  <2>5. CASE pass.what # "break"
    <3> DEFINE m == pass.consumed
               left == Left(here)
    <3>1. m \in Nat /\ m <= Len(here) /\ m >= 1
      BY <1>3, <2>3, <2>5, PassFacts
    <3>2. left \in Seq(Bytes) /\ left = DropFirst(here, m)
      BY <1>3, <2>1, <2>2, LeftFacts DEF Left
    <3> HIDE DEF m, left, n
    <3>3. i + m \in 1..(N + 1) /\ i + m > i /\ (i + m) - 1 = n + m /\ n + m <= N
      BY ONLY <1>0, <1>3, <3>1
    <3>4. left = DropFirst(stream, n + m)
      <4>1. DropFirst(DropFirst(stream, n), m) = DropFirst(stream, n + m)
        BY <1>0, <3>1, <3>3, DropDrop DEF N
      <4> QED
        BY <3>2, <4>1 DEF here
    <3>5. rest = [frames |-> Loop[left].frames, errors |-> Loop[left].errors]
      <4>1. f[i + m] = FromPlace(i + m)
        BY <3>3 DEF N
      <4> QED
        BY <3>3, <3>4, <4>1 DEF FromPlace, m
    <3> DEFINE fs == <<SubSeq(here, 1, pass.consumed)>>
               es == <<pass.what>>
               x == Loop[left].frames
               y == Loop[left].errors
    <3>6. x \in Seq(Seq(Bytes)) /\ y \in Seq(Errors)
      BY <3>2, LoopReturns DEF Results
    <3>7. Loop[here] = Prepended(pass, here, Loop[left])
      <4>1. Pass(Found(here)) = pass
        BY <2>2
      <4> HIDE DEF pass
      <4>2. IsPassed(here)
        BY <2>1, <2>5, <4>1 DEF IsPassed
      <4>3. Loop[here] = Prepended(Pass(Found(here)), Found(here), Loop[Left(here)])
        BY <1>3, <4>2, LoopCases
      <4> QED
        BY <2>2, <4>1, <4>3 DEF left
    <3>8. /\ Loop[here].frames = (IF pass.what = "frame" THEN fs ELSE << >>) \o x
          /\ Loop[here].errors = (IF pass.what = "frame" THEN << >> ELSE es) \o y
      <4> HIDE DEF pass
      <4>1. Prepended(pass, here, Loop[left]) =
              [pending |-> Loop[left].pending,
               frames |-> (IF pass.what = "frame" THEN fs ELSE << >>) \o x,
               errors |-> (IF pass.what = "frame" THEN << >> ELSE es) \o y]
        BY DEF Prepended
      <4> HIDE DEF fs, es, x, y
      <4> QED
        BY ONLY <3>7, <4>1
    <3>9. ReadStep(f, i) = IF pass.what = "frame" THEN [rest EXCEPT !.frames = fs \o @]
                           ELSE [rest EXCEPT !.errors = es \o @]
      BY <1>1, <1>7, <2>5
    <3> HIDE DEF fs, es, x, y, pass, rest
    <3>10. << >> \o x = x /\ << >> \o y = y
      BY <3>6, ConcatEmptySeq
    <3>11. rest.frames = x /\ rest.errors = y /\ rest = [frames |-> x, errors |-> y]
      BY ONLY <3>5 DEF x, y
    <3>12. [rest EXCEPT !.frames = fs \o @] = [frames |-> fs \o x, errors |-> y]
      <4>1. [rest EXCEPT !.frames = fs \o @] = [rest EXCEPT !.frames = fs \o rest.frames]
        OBVIOUS
      <4> DEFINE z == fs \o x
      <4> HIDE DEF z
      <4>2. [rest EXCEPT !.frames = z] = [frames |-> z, errors |-> y]
        BY ONLY <3>11
      <4> QED
        BY <3>11, <4>1, <4>2 DEF z
    <3>13. [rest EXCEPT !.errors = es \o @] = [frames |-> x, errors |-> es \o y]
      <4>1. [rest EXCEPT !.errors = es \o @] = [rest EXCEPT !.errors = es \o rest.errors]
        OBVIOUS
      <4> DEFINE z == es \o y
      <4> HIDE DEF z
      <4>2. [rest EXCEPT !.errors = z] = [frames |-> x, errors |-> z]
        BY ONLY <3>11
      <4> QED
        BY <3>11, <4>1, <4>2 DEF z
    <3>14. CASE pass.what = "frame"
      BY <1>2, <3>8, <3>9, <3>10, <3>12, <3>14
    <3>15. CASE pass.what # "frame"
      BY <1>2, <3>8, <3>9, <3>10, <3>13, <3>15
    <3> QED
      BY <3>14, <3>15
  <2> QED
    BY <2>4, <2>5
<1> QED
  BY <1>5, <1>6, <1>7

\* The reference reads of the stream what the loop returns of it.
LEMMA ReadingIsLoop ==
  ASSUME config \in Configs, stream \in Seq(Bytes)
  PROVE  Reading[1] = [frames |-> Loop[stream].frames, errors |-> Loop[stream].errors]
<1> DEFINE N == Len(stream)
           F == [i \in 1..(N + 1) |-> FromPlace(i)]
           R == CHOOSE f : f = [i \in 1..(N + 1) |-> ReadStep(f, i)]
<1>0. N \in Nat
  OBVIOUS
<1>1. F = [i \in 1..(N + 1) |-> ReadStep(F, i)]
  <2>1. \A i \in 1..(N + 1) : F[i] = FromPlace(i)
    OBVIOUS
  <2> HIDE DEF F
  <2>2. \A i \in 1..(N + 1) : ReadStep(F, i) = FromPlace(i)
    BY <2>1, ReadStepIsLoop
  <2> QED
    BY <2>2 DEF F
<1>2. \E f : f = [i \in 1..(N + 1) |-> ReadStep(f, i)]
  <2> HIDE DEF F
  <2> QED
    BY <1>1
<1>3. R = [i \in 1..(N + 1) |-> ReadStep(R, i)]
  BY <1>2
<1>4. Reading = R
  BY DEF Reading, ReadStep
<1> HIDE DEF R
<1>5. \A i \in 1..(N + 1) : R[i] = ReadStep(R, i)
  BY <1>3
<1> DEFINE S == {k \in Nat : \A i \in 1..(N + 1) : i > N + 1 - k => R[i] = FromPlace(i)}
<1>6. \A k : k \in S <=> k \in Nat /\ \A i \in 1..(N + 1) : i > N + 1 - k => R[i] = FromPlace(i)
  OBVIOUS
<1> HIDE DEF S
<1>7. 0 \in S
  <2>1. \A i \in 1..(N + 1) : ~(i > N + 1 - 0)
    BY ONLY <1>0
  <2> QED
    BY <1>6, <2>1
<1>8. ASSUME NEW k \in Nat, k \in S PROVE k + 1 \in S
  <2>1. ASSUME NEW i \in 1..(N + 1), i > N + 1 - (k + 1) PROVE R[i] = FromPlace(i)
    <3>1. \A j \in 1..(N + 1) : j > i => j > N + 1 - k
      BY ONLY <1>0, <2>1, k \in Nat
    <3>2. \A j \in 1..(N + 1) : j > i => R[j] = FromPlace(j)
      BY <1>6, <1>8, <3>1
    <3>3. ReadStep(R, i) = FromPlace(i)
      BY <3>2, ReadStepIsLoop
    <3> QED
      BY <1>5, <3>3
  <2>2. k + 1 \in Nat
    OBVIOUS
  <2> QED
    BY <1>6, <2>1, <2>2
<1>9. Nat \subseteq S
  BY <1>7, <1>8, NumberInduction
<1>10. N + 1 \in S /\ 1 \in 1..(N + 1) /\ 1 > N + 1 - (N + 1)
  BY <1>0, <1>9
<1>11. R[1] = FromPlace(1)
  BY <1>6, <1>10
<1>12. FromPlace(1) = [frames |-> Loop[stream].frames, errors |-> Loop[stream].errors]
  <2>1. DropFirst(stream, 1 - 1) = stream
    <3>1. 1 - 1 = 0
      OBVIOUS
    <3> QED
      BY <3>1, DropDrop
  <2> QED
    BY <2>1 DEF FromPlace
<1> QED
  BY <1>4, <1>11, <1>12

-----------------------------------------------------------------------------
(* the invariant                                                            *)

\* What is kept and what was returned is what the loop makes of the whole stream.
KeptIsLoop == Loop[stream] = [pending |-> pending, frames |-> frames, errors |-> errors]

\* The inductive invariant of the parser.
ParserInv ==
    /\ config \in Configs /\ lastErrors \in Seq(Errors)
    /\ stream \in Seq(Bytes) /\ Len(stream) <= MaxBytes + config.maximumBufferSize
    /\ KeptIsLoop

\* The parser starts with nothing.
LEMMA InvInit == Init => ParserInv
<1> SUFFICES ASSUME Init PROVE ParserInv
  OBVIOUS
<1>1. /\ config \in Configs /\ stream = << >> /\ lastErrors = << >>
      /\ pending = << >> /\ frames = << >> /\ errors = << >>
  BY DEF Init
<1>2. KeptIsLoop
  BY <1>1, LoopOfNothing DEF KeptIsLoop
<1>3. lastErrors \in Seq(Errors) /\ stream \in Seq(Bytes) /\ Len(stream) = 0
  BY <1>1, EmptySeq
<1>4. MaxBytes \in Nat /\ config.maximumBufferSize \in Nat
  BY <1>1, ConfigFacts, FrameAssumption
<1>5. Len(stream) <= MaxBytes + config.maximumBufferSize
  BY ONLY <1>3, <1>4
<1> QED
  BY <1>1, <1>2, <1>3, <1>5 DEF ParserInv

\* Between offers the buffer keeps its limit.
LEMMA PendingFits ==
  ASSUME config \in Configs, NEW p \in Seq(Bytes), Waits(p)
  PROVE  Len(p) <= config.maximumBufferSize
<1> DEFINE h == Len(config.header)
           len == Len(p)
           limit == config.maximumBufferSize
           lengthEnd == config.lengthOffset + config.lengthSize
           size == FrameSize(p)
<1>1. /\ h \in Nat /\ len \in Nat /\ limit \in Nat /\ lengthEnd \in Nat
      /\ h <= limit
  <2>1. /\ h \in Nat /\ config.minimumFrameSize \in Nat /\ config.maximumFrameSize \in Nat
        /\ limit \in Nat /\ config.minimumFrameSize >= h
        /\ config.maximumFrameSize >= config.minimumFrameSize
        /\ limit >= config.maximumFrameSize /\ len \in Nat /\ lengthEnd \in Nat
    BY ConfigFacts
  <2> HIDE DEF h, len, limit, lengthEnd
  <2> QED
    BY ONLY <2>1
<1>2. lengthEnd <= len => size \in Int
  BY SizeFacts
<1>3. \/ len < h
      \/ len < lengthEnd /\ lengthEnd <= limit
      \/ ~(len < lengthEnd) /\ len < size /\ size <= limit
  BY DEF Waits
<1> HIDE DEF h, len, limit, lengthEnd, size
<1>4. len <= limit
  BY ONLY <1>1, <1>2, <1>3
<1> QED
  BY <1>4 DEF len, limit

\* What is kept has its type and nothing is held back in it.
LEMMA KeptFacts ==
  ASSUME ParserInv
  PROVE  /\ pending \in Seq(Bytes) /\ frames \in Seq(Seq(Bytes)) /\ errors \in Seq(Errors)
         /\ Waits(pending) /\ Len(pending) <= config.maximumBufferSize
<1>1. /\ config \in Configs /\ stream \in Seq(Bytes)
      /\ Loop[stream] = [pending |-> pending, frames |-> frames, errors |-> errors]
  BY DEF ParserInv, KeptIsLoop
<1>2. Loop[stream] \in Results /\ Waits(Loop[stream].pending)
  BY <1>1, LoopReturns
<1>3. /\ Loop[stream].pending = pending /\ Loop[stream].frames = frames
      /\ Loop[stream].errors = errors
  BY ONLY <1>1
<1>4. /\ pending \in Seq(Bytes) /\ frames \in Seq(Seq(Bytes)) /\ errors \in Seq(Errors)
      /\ Waits(pending)
  BY <1>2, <1>3 DEF Results
<1> QED
  BY <1>1, <1>4, PendingFits

\* An offer keeps the invariant: if nothing is lost, the stream is cut in two pieces,
\* and if bytes are lost, it starts anew.
LEMMA OfferKeepsInv ==
  ASSUME ParserInv, NEW n \in 0..MaxChunk, NEW bytes \in [1..n -> Bytes],
         Len(stream) + n <= MaxBytes, OfferDetailed(bytes)
  PROVE  ParserInv'
<1> DEFINE limit == config.maximumBufferSize
           whole == pending \o bytes
           buffer == TakeLast(whole, limit)
           result == Loop[buffer]
           lost == Len(whole) > limit
<1>1. /\ config \in Configs /\ stream \in Seq(Bytes)
      /\ Loop[stream] = [pending |-> pending, frames |-> frames, errors |-> errors]
  BY DEF ParserInv, KeptIsLoop
<1>2. pending \in Seq(Bytes) /\ frames \in Seq(Seq(Bytes)) /\ errors \in Seq(Errors)
  BY KeptFacts
<1>3. bytes \in Seq(Bytes) /\ Len(bytes) = n /\ n \in Nat /\ MaxBytes \in Nat
      /\ limit \in Nat /\ Len(stream) \in Nat
  <2>1. MaxChunk \in Nat /\ MaxBytes \in Nat
    BY FrameAssumption
  <2>2. n \in Nat
    BY <2>1
  <2>3. bytes \in Seq(Bytes) /\ Len(bytes) = n
    BY <2>2
  <2>4. Len(stream) \in Nat
    BY <1>1
  <2> QED
    BY <1>1, <2>1, <2>2, <2>3, <2>4, ConfigFacts
<1>4. whole \in Seq(Bytes) /\ Len(whole) \in Nat
  BY <1>2, <1>3, ConcatFacts
<1>5. /\ pending' = result.pending /\ lastErrors' = result.errors
      /\ stream' = (IF lost THEN buffer ELSE stream \o bytes)
      /\ frames' = (IF lost THEN << >> ELSE frames) \o result.frames
      /\ errors' = (IF lost THEN << >> ELSE errors) \o result.errors
      /\ config' = config
  BY DEF OfferDetailed
<1>6. buffer \in Seq(Bytes) /\ Len(buffer) <= limit /\ (~lost => buffer = whole)
  <2> DEFINE d == IF Len(whole) <= limit THEN 0 ELSE Len(whole) - limit
  <2> HIDE DEF whole, limit
  <2>1. d \in Nat /\ d <= Len(whole) /\ Len(whole) - d <= limit
        /\ buffer = DropFirst(whole, d)
    BY <1>3, <1>4, TakeFacts
  <2>2. lost \/ d = 0
    BY ONLY <1>3, <1>4
  <2> HIDE DEF d, buffer, lost
  <2>3. buffer \in Seq(Bytes) /\ Len(buffer) = Len(whole) - d
    BY <1>4, <2>1, DropFacts
  <2>4. ~lost => buffer = whole
    BY <1>4, <2>1, <2>2, DropDrop
  <2>5. Len(buffer) <= limit
    BY ONLY <2>1, <2>3
  <2> QED
    BY <2>3, <2>4, <2>5
<1> HIDE DEF buffer, lost
<1>7. result \in Results
  BY <1>1, <1>6, LoopReturns
<1>8. /\ result = [pending |-> result.pending, frames |-> result.frames,
                   errors |-> result.errors]
      /\ result.frames \in Seq(Seq(Bytes)) /\ result.errors \in Seq(Errors)
  BY <1>7 DEF Results
<1>9. Loop' = Loop
  BY <1>1, <1>5, LoopKept
<1>10. CASE lost
  <2>1. stream' = buffer
    BY <1>5, <1>10
  <2>2. << >> \o result.frames = result.frames /\ << >> \o result.errors = result.errors
    BY <1>8, ConcatEmptySeq
  <2>3. frames' = result.frames /\ errors' = result.errors
    BY <1>5, <1>10, <2>2
  <2>4. Loop[buffer] = [pending |-> pending', frames |-> frames', errors |-> errors']
    BY <1>5, <1>8, <2>3
  <2>5. KeptIsLoop'
    BY <1>9, <2>1, <2>4 DEF KeptIsLoop
  <2>6. Len(buffer) <= MaxBytes + limit
    <3>1. Len(buffer) \in Nat
      BY <1>6
    <3> HIDE DEF limit
    <3> QED
      BY ONLY <1>3, <1>6, <3>1
  <2> QED
    BY <1>1, <1>5, <1>6, <1>8, <2>1, <2>5, <2>6 DEF ParserInv
<1>11. CASE ~lost
  <2>1. stream' = stream \o bytes /\ buffer = pending \o bytes
    BY <1>5, <1>6, <1>11
  <2>2. frames' = frames \o result.frames /\ errors' = errors \o result.errors
    BY <1>5, <1>11
  <2>3. Loop[stream].pending = pending
    BY ONLY <1>1
  <2>4. Loop[stream \o bytes] = Joined(Loop[stream], Loop[Loop[stream].pending \o bytes])
    BY <1>1, <1>3, LoopInPieces
  <2>5. Loop[stream \o bytes] = Joined(Loop[stream], result)
    BY <2>1, <2>3, <2>4
  <2> HIDE DEF result
  <2>6. Joined(Loop[stream], result) =
          [pending |-> result.pending, frames |-> frames \o result.frames,
           errors |-> errors \o result.errors]
    <3>1. Loop[stream].frames = frames /\ Loop[stream].errors = errors
      BY ONLY <1>1
    <3> QED
      BY <3>1 DEF Joined
  <2>7. Loop[stream \o bytes] = [pending |-> pending', frames |-> frames', errors |-> errors']
    BY <1>5, <2>2, <2>5, <2>6
  <2>8. KeptIsLoop'
    BY <1>9, <2>1, <2>7 DEF KeptIsLoop
  <2>9. stream' \in Seq(Bytes) /\ Len(stream') = Len(stream) + n
    BY <1>1, <1>3, <2>1, ConcatFacts
  <2>10. Len(stream') <= MaxBytes + limit
    <3> HIDE DEF limit
    <3> QED
      BY ONLY <1>3, <2>9, Len(stream) + n <= MaxBytes
  <2> QED
    BY <1>1, <1>5, <1>8, <2>8, <2>9, <2>10 DEF ParserInv
<1> QED
  BY <1>10, <1>11

\* A reset keeps the invariant.
LEMMA ResetKeepsInv == ASSUME ParserInv, Reset PROVE ParserInv'
<1>1. config \in Configs /\ config' = config
  BY DEF ParserInv, Reset
<1>2. /\ pending' = << >> /\ lastErrors' = << >> /\ stream' = << >> /\ frames' = << >>
      /\ errors' = << >>
  BY DEF Reset
<1>3. Loop' = Loop
  BY <1>1, LoopKept
<1>4. KeptIsLoop'
  BY <1>1, <1>2, <1>3, LoopOfNothing DEF KeptIsLoop
<1>5. lastErrors' \in Seq(Errors) /\ stream' \in Seq(Bytes) /\ Len(stream') = 0
  BY <1>2, EmptySeq
<1>6. MaxBytes \in Nat /\ config.maximumBufferSize \in Nat
  BY <1>1, ConfigFacts, FrameAssumption
<1>7. Len(stream') <= MaxBytes + config.maximumBufferSize
  BY ONLY <1>5, <1>6
<1> QED
  BY <1>1, <1>4, <1>5, <1>7 DEF ParserInv

\* Every step keeps the invariant.
LEMMA NextKeepsInv == ParserInv /\ [Next]_vars => ParserInv'
<1> SUFFICES ASSUME ParserInv, [Next]_vars PROVE ParserInv'
  OBVIOUS
<1>1. CASE Offer
  BY <1>1, OfferKeepsInv DEF Offer
<1>2. CASE Reset
  BY <1>2, ResetKeepsInv
<1>3. CASE UNCHANGED vars
  <2>1. /\ config \in Configs /\ config' = config /\ stream' = stream /\ pending' = pending
        /\ frames' = frames /\ errors' = errors /\ lastErrors' = lastErrors
    BY <1>3 DEF vars, ParserInv
  <2>2. Loop' = Loop
    BY <2>1, LoopKept
  <2> QED
    BY <2>1, <2>2 DEF ParserInv, KeptIsLoop
<1> QED
  BY <1>1, <1>2, <1>3 DEF Next

\* However the stream is cut into offers, what the parser keeps and what it has
\* returned is what one run of its loop makes of the stream (offerDetailed:44-66).
THEOREM StreamInvariant == Spec => []ParserInv
<1> QED
  BY InvInit, NextKeepsInv, PTL DEF Spec

\* Every variable holds a value of its type, and the buffer keeps its limit (:45).
THEOREM FramesTypeCorrect == Spec => []TypeOK
<1>1. ParserInv => TypeOK
  <2> SUFFICES ASSUME ParserInv PROVE TypeOK
    OBVIOUS
  <2>1. /\ config \in Configs /\ lastErrors \in Seq(Errors) /\ stream \in Seq(Bytes)
        /\ Len(stream) <= MaxBytes + config.maximumBufferSize
    BY DEF ParserInv
  <2>2. /\ pending \in Seq(Bytes) /\ frames \in Seq(Seq(Bytes)) /\ errors \in Seq(Errors)
        /\ Len(pending) <= config.maximumBufferSize
    BY KeptFacts
  <2> QED
    BY <2>1, <2>2 DEF TypeOK
<1> QED
  BY <1>1, StreamInvariant, PTL

\* The frames and the errors are those of the whole stream, read once and with no
\* buffer, however it was cut into offers (:44-66).
THEOREM FragmentationIsFree == Spec => []FragmentationFree
<1>1. ParserInv => FragmentationFree
  <2> SUFFICES ASSUME ParserInv PROVE FragmentationFree
    OBVIOUS
  <2>1. /\ config \in Configs /\ stream \in Seq(Bytes)
        /\ Loop[stream] = [pending |-> pending, frames |-> frames, errors |-> errors]
    BY DEF ParserInv, KeptIsLoop
  <2>2. Reading[1] = [frames |-> Loop[stream].frames, errors |-> Loop[stream].errors]
    BY <2>1, ReadingIsLoop
  <2>3. Loop[stream].frames = frames /\ Loop[stream].errors = errors
    BY ONLY <2>1
  <2>4. Reading[1].frames = frames /\ Reading[1].errors = errors
    BY ONLY <2>2, <2>3
  <2> QED
    BY <2>4 DEF FragmentationFree
<1> QED
  BY <1>1, StreamInvariant, PTL

\* Between two offers nothing complete is held back, and the frame that is waited for
\* fits the buffer (:48-63).
THEOREM NothingIsHeldBack == Spec => []NothingHeldBack
<1>1. ParserInv => NothingHeldBack
  <2> SUFFICES ASSUME ParserInv PROVE NothingHeldBack
    OBVIOUS
  <2>1. config \in Configs /\ pending \in Seq(Bytes) /\ Waits(pending)
    BY KeptFacts DEF ParserInv
  <2> DEFINE lengthEnd == config.lengthOffset + config.lengthSize
             wanted == IF Len(pending) < lengthEnd THEN lengthEnd ELSE FrameSize(pending)
  <2>2. Len(config.header) \in Nat /\ Len(config.header) >= 1
    BY <2>1, ConfigFacts
  <2>3. CASE pending = << >> \/ ~HeaderAt(pending, 1)
    <3>1. pending = << >> => Len(pending) = 0
      BY EmptySeq
    <3>2. ~HeaderAt(pending, 1) => Len(pending) < Len(config.header)
      BY <2>1 DEF Waits
    <3>3. pending = << >> => Len(pending) < Len(config.header)
      BY ONLY <2>2, <3>1
    <3>4. Len(pending) < Len(config.header)
      BY <2>3, <3>2, <3>3
    <3> QED
      BY <2>3, <3>4 DEF NothingHeldBack
  <2>4. CASE ~(pending = << >> \/ ~HeaderAt(pending, 1))
    <3>1. HeaderAt(pending, 1)
      BY <2>4
    <3>2. IF Len(pending) < lengthEnd THEN lengthEnd <= config.maximumBufferSize
          ELSE Len(pending) < FrameSize(pending) /\ FrameSize(pending) <= config.maximumBufferSize
      BY <2>1, <3>1 DEF Waits
    <3>3. Len(pending) < wanted /\ wanted <= config.maximumBufferSize
      BY <3>2
    <3> QED
      BY <2>4, <3>3 DEF NothingHeldBack
  <2> QED
    BY <2>3, <2>4
<1> QED
  BY <1>1, StreamInvariant, PTL

\* Noise before a header costs no frame: when the first header of the stream begins a
\* valid frame, that frame is the first one returned (:49-51).
THEOREM FirstFrameIsKept == Spec => []NoiseIsSkipped
<1>1. ParserInv => NoiseIsSkipped
  <2> SUFFICES ASSUME ParserInv, NEW i \in 1..Len(stream),
                      HeaderAt(stream, i), \A j \in 1..(i - 1) : ~HeaderAt(stream, j),
                      Pass(SubSeq(stream, i, Len(stream))).what = "frame"
               PROVE  /\ frames # << >>
                      /\ frames[1] =
                         SubSeq(stream, i, i + Pass(SubSeq(stream, i, Len(stream))).consumed - 1)
    BY DEF NoiseIsSkipped
  <2> DEFINE found == SubSeq(stream, i, Len(stream))
             pass == Pass(found)
             n == pass.consumed
             a == IndexOfHeader(stream)
             left == Left(stream)
  <2>1. /\ config \in Configs /\ stream \in Seq(Bytes)
        /\ Loop[stream] = [pending |-> pending, frames |-> frames, errors |-> errors]
    BY DEF ParserInv, KeptIsLoop
  <2>2. i \in Nat \ {0} /\ i - 1 \in Nat /\ i - 1 <= Len(stream) /\ (i - 1) + 1 = i
        /\ Len(stream) \in Nat
    BY <2>1
  <2>3. a = i
    <3>1. a \in Nat /\ (a = 0 => \A k \in Nat \ {0} : ~HeaderAt(stream, k))
          /\ (a # 0 => HeaderAt(stream, a) /\ \A k \in Nat \ {0} : HeaderAt(stream, k) => a <= k)
      BY <2>1, IndexFacts
    <3> HIDE DEF a
    <3>2. a # 0 /\ a <= i
      BY <2>2, <3>1
    <3>3. ~(a \in 1..(i - 1))
      BY <3>1, <3>2
    <3> QED
      BY ONLY <2>2, <3>1, <3>2, <3>3
  <2>4. Found(stream) = found
    BY <2>2, <2>3 DEF Found, DropFirst
  <2>5. found \in Seq(Bytes) /\ Len(config.header) <= Len(found) /\ left \in Seq(Bytes)
        /\ Len(found) = Len(stream) - (i - 1)
    BY <2>1, <2>2, <2>3, <2>4, LeftFacts
  <2> HIDE DEF found
  <2>6. n \in Nat /\ n <= Len(found)
    BY <2>1, <2>5, PassFacts
  <2>7. Loop[stream] = Prepended(pass, found, Loop[left])
    <3>1. IsPassed(stream)
      BY <2>2, <2>3, <2>4 DEF IsPassed, found
    <3>2. Loop[stream] = Prepended(Pass(Found(stream)), Found(stream), Loop[left])
      BY <2>1, <3>1, LoopCases
    <3> QED
      BY <2>4, <3>2
  <2> DEFINE slice == SubSeq(found, 1, n)
             rest == Loop[left].frames
  <2>8. frames = <<slice>> \o rest
    <3>1. Loop[stream].frames = frames
      BY ONLY <2>1
    <3>2. pass.what = "frame"
      BY DEF found
    <3>3. Prepended(pass, found, Loop[left]).frames = <<slice>> \o rest
      BY <3>2 DEF Prepended
    <3> QED
      BY <2>7, <3>1, <3>3
  <2>9. slice \in Seq(Bytes) /\ rest \in Seq(Seq(Bytes))
    <3>1. n \in Int /\ 1 \in Nat \ {0}
      BY <2>6
    <3>2. slice \in Seq(Bytes)
      <4> HIDE DEF n
      <4> QED
        BY <2>5, <2>6, <3>1, SliceFacts
    <3>3. rest \in Seq(Seq(Bytes))
      BY <2>1, <2>5, LoopReturns DEF Results
    <3> QED
      BY <3>2, <3>3
  <2> HIDE DEF slice, rest, n
  <2>10. frames # << >> /\ frames[1] = slice
    <3> DEFINE T == Seq(Bytes)
    <3>1. slice \in T /\ rest \in Seq(T)
      BY <2>9
    <3> HIDE DEF T
    <3>2. <<slice>> \in Seq(T) /\ Len(<<slice>>) = 1 /\ <<slice>>[1] = slice
      BY <3>1
    <3> DEFINE one == <<slice>>
    <3> HIDE DEF one
    <3>3. /\ one \o rest \in Seq(T) /\ Len(one \o rest) = Len(one) + Len(rest)
          /\ \A k \in 1..Len(one) + Len(rest) :
               (one \o rest)[k] = IF k <= Len(one) THEN one[k] ELSE rest[k - Len(one)]
      BY <3>1, <3>2, ConcatProperties DEF one
    <3>4. Len(one) = 1 /\ Len(rest) \in Nat /\ one[1] = slice
      BY <3>1, <3>2 DEF one
    <3>5. Len(one \o rest) # 0 /\ 1 \in 1..Len(one) + Len(rest) /\ 1 <= Len(one)
      BY ONLY <3>3, <3>4
    <3>6. (one \o rest)[1] = slice
      BY <3>3, <3>4, <3>5
    <3>7. one \o rest # << >>
      BY <3>5, EmptySeq
    <3> QED
      BY <2>8, <3>6, <3>7 DEF one
  <2>11. slice = SubSeq(stream, i, i + n - 1)
    <3>1. found = DropFirst(stream, i - 1)
      BY <2>2, <2>3, <2>4 DEF Found
    <3>2. (i - 1) + n <= Len(stream) /\ (i - 1) + n = i + n - 1
      BY ONLY <2>2, <2>5, <2>6
    <3>3. SubSeq(DropFirst(stream, i - 1), 1, n) = SubSeq(stream, (i - 1) + 1, (i - 1) + n)
      BY <2>1, <2>2, <2>6, <3>2, SliceOfDrop
    <3> QED
      BY <2>2, <3>1, <3>2, <3>3 DEF slice
  <2> QED
    BY <2>10, <2>11 DEF n, found
<1> QED
  BY <1>1, StreamInvariant, PTL
=============================================================================
